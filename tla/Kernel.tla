------------------------------- MODULE Kernel -------------------------------
(***************************************************************************)
(* The AMS OS kernel as a concurrent program: the menu thread (launch,     *)
(* schedule, minimize, resume, interrupt, close, shut down), one monitor   *)
(* thread per launched task, and the Linux child process behind each task. *)
(*                                                                         *)
(* A step is one call on a shared manager, or several consecutive ones     *)
(* whose order no other thread can tell apart.  The counters are the       *)
(* exception: `available = available + n' is a load and a store, because   *)
(* the menu thread never takes taskCleanupMutex and the two threads race.  *)
(*                                                                         *)
(* RAM, HDD and CPU demands are handled alike by the counters, so one      *)
(* number Need[p] and one counter, that of the scarcest, stand for the     *)
(* three.  The RAM layout is kept apart, as the set of tasks that own a    *)
(* block; Room may exceed Total, when RAM is not what is scarce.           *)
(* Module ResourceManager has the layout itself and module ReadyQueues the *)
(* order of the queues.                                                    *)
(***************************************************************************)
EXTENDS Integers, FiniteSets, Functions

CONSTANTS
  Tasks,         \* the pids that can be launched; a pid is used once
  Need,          \* Need[p]: what task p asks for, in units
  Total,         \* what the machine was booted with, in units
  Room,          \* the size of the RAM layout, in the same units
  ToCompletion,  \* SYSTEM, KERNEL and BACKGROUND tasks: no quantum
  EarlyDeath,    \* may a child be killed before launch has seen it stop?
  NoTask         \* not a task

ASSUME KernelAssumption ==
  /\ IsFiniteSet(Tasks)
  /\ NoTask \notin Tasks
  /\ Total \in Nat /\ Room \in Nat
  /\ Need \in [Tasks -> Nat \ {0}]
  /\ ToCompletion \subseteq Tasks
  /\ EarlyDeath \in BOOLEAN

VARIABLES
  child,    \* the Linux process of each task
  pcb,      \* processTable: the processState of each task, "none" if absent
  termMin,  \* the tasks whose PCB says queueType = "Terminal Minimized"
  ready,    \* how many ready-queue items each task has
  avail,    \* the available RAM/HDD/cores counter
  blocks,   \* the tasks that own a block of the RAM layout
  slots,    \* free slots of cpuCoreSemaphore
  mon,      \* the monitor thread of each task
  mutex,    \* the holder of taskCleanupMutex
  monTmp,   \* the counter as loaded by the monitor that holds the mutex
  pc,       \* where the menu thread is
  cur,      \* the task it works on
  op,       \* what it has decided to do with that task
  todo,     \* the pids it has still to visit in a loop over getAllPIDs()
  ret,      \* where runScheduler returns to
  back,     \* where the cleanup of a task returns to
  mainTmp,  \* the counter as loaded by the menu thread
  multi     \* multitaskingModeEnabled

tables == <<pcb, termMin, ready>>
ledger == <<avail, blocks>>
monitors == <<mon, mutex, monTmp>>
loops == <<todo, ret, back, multi>>
vars == <<child, tables, ledger, slots, monitors, pc, cur, op, loops, mainTmp>>

-----------------------------------------------------------------------------
(* Helpers.                                                                *)

Load(S) == SumFunctionOnSet(Need, S)

Registered == {p \in Tasks : pcb[p] # "none"}

\* Fault: operator[] of the map brings a forgotten PCB back.
SetStateAnyway(p, s) == pcb' = [pcb EXCEPT ![p] = s]

\* updateProcessState: nothing happens when the PCB is gone.
SetState(p, s) == pcb' = IF pcb[p] = "none" THEN pcb ELSE [pcb EXCEPT ![p] = s]

\* updateQueueType, as far as restoring a window depends on it.
SetLabel(p, hidden) ==
  termMin' = IF hidden /\ pcb[p] # "none" THEN termMin \cup {p} ELSE termMin \ {p}

Enqueue(p) == ready' = [ready EXCEPT ![p] = @ + 1]

\* Fault: only the queue of the original priority is searched.
RemoveUnlessAged(p) == ready' = ready

RemoveProcessByPID(p) == ready' = [ready EXCEPT ![p] = 0]

HasReadyProcess == \E p \in Tasks : ready[p] > 0

\* The effect of SIGSTOP, SIGCONT and SIGKILL.  SIGKILL takes its time.
Stopped(p) == child' = [child EXCEPT ![p] = IF @ = "running" THEN "stopped" ELSE @]
Continued(p) == child' = [child EXCEPT ![p] = IF @ = "stopped" THEN "running" ELSE @]
Killed(p) ==
  child' = [child EXCEPT ![p] =
              IF @ \in {"granted", "stopped", "running"} THEN "dying" ELSE @]

\* A waitpid that collects the exit status of p; nobody else can after it.
Collect(p) == child[p] = "zombie" /\ child' = [child EXCEPT ![p] = "reaped"]

\* Fault: no clamp.
RefundUnclamped(loaded, p) == avail' = loaded + Need[p]

\* releaseResources: add, then clamp to the total.
Refund(loaded, p) ==
  avail' = IF loaded + Need[p] > Total THEN Total ELSE loaded + Need[p]

Goto(label) == pc' = label

\* The end of a subroutine.  Only runScheduler goes on with the same task.
Return ==
  /\ Goto(back) /\ back' = "top"
  /\ cur' = IF back = "after" THEN cur ELSE NoTask

-----------------------------------------------------------------------------
Init ==
  /\ child = [p \in Tasks |-> "unborn"]
  /\ pcb = [p \in Tasks |-> "none"]
  /\ termMin = {}
  /\ ready = [p \in Tasks |-> 0]
  /\ avail = Total
  /\ blocks = {}
  /\ slots = Total
  /\ mon = [p \in Tasks |-> "none"]
  /\ mutex = NoTask
  /\ monTmp = 0
  /\ pc = "top"
  /\ cur = NoTask
  /\ op = "none"
  /\ todo = {}
  /\ ret = "top"
  /\ back = "top"
  /\ mainTmp = 0
  /\ multi = FALSE

-----------------------------------------------------------------------------
(* The child process.                                                      *)

ChildOnly ==
  UNCHANGED <<tables, ledger, slots, monitors, pc, cur, op, loops, mainTmp>>

\* raise(SIGSTOP) once the request is granted.
ChildStops(p) ==
  /\ child[p] = "granted"
  /\ child' = [child EXCEPT ![p] = "stopped"]
  /\ ChildOnly

\* The task finishes, or its window is closed, or somebody kills it.
ChildExits(p) ==
  /\ child[p] \in {"granted", "stopped", "running"}
  /\ pc = "stopwait" /\ cur = p => EarlyDeath
  /\ child' = [child EXCEPT ![p] = "zombie"]
  /\ ChildOnly

\* exit(2) after a denial; the end of a child that was sent SIGKILL.
ChildEnds(p) ==
  /\ child[p] \in {"denied", "dying"}
  /\ child' = [child EXCEPT ![p] = "zombie"]
  /\ ChildOnly

-----------------------------------------------------------------------------
(* The monitor thread of task p.                                           *)

MainKeeps == UNCHANGED <<slots, pc, cur, op, loops, mainTmp>>

MonitorReaps(p) ==
  /\ mon[p] = "waiting"
  /\ Collect(p)
  /\ mon' = [mon EXCEPT ![p] = "reaped"]
  /\ UNCHANGED <<tables, ledger, mutex, monTmp>>
  /\ MainKeeps

\* waitpid returned -1: another cleanup path has reaped the child.
MonitorGivesUp(p) ==
  /\ mon[p] = "waiting"
  /\ child[p] = "reaped"
  /\ mon' = [mon EXCEPT ![p] = "done"]
  /\ UNCHANGED <<child, tables, ledger, mutex, monTmp>>
  /\ MainKeeps

\* Fault: the early return covers every task that is not running.
MonitorEntersIfRunning(p) ==
  /\ mon[p] = "reaped"
  /\ mutex = NoTask
  /\ IF pcb[p] # "RUNNING"
       THEN mon' = [mon EXCEPT ![p] = "done"] /\ UNCHANGED mutex
       ELSE mon' = [mon EXCEPT ![p] = "mark"] /\ mutex' = p
  /\ UNCHANGED <<child, tables, ledger, monTmp>>
  /\ MainKeeps

\* Lock, getPCB, and the two early returns (which unlock again).
MonitorEnters(p) ==
  /\ mon[p] = "reaped"
  /\ mutex = NoTask
  /\ IF pcb[p] \in {"none", "TERMINATED"}
       THEN mon' = [mon EXCEPT ![p] = "done"] /\ UNCHANGED mutex
       ELSE mon' = [mon EXCEPT ![p] = "mark"] /\ mutex' = p
  /\ UNCHANGED <<child, tables, ledger, monTmp>>
  /\ MainKeeps

MonitorMarks(p) ==
  /\ mon[p] = "mark"
  /\ SetState(p, "TERMINATED")
  /\ mon' = [mon EXCEPT ![p] = "dequeue"]
  /\ UNCHANGED <<child, termMin, ready, ledger, mutex, monTmp>>
  /\ MainKeeps

MonitorDequeues(p) ==
  /\ mon[p] = "dequeue"
  /\ RemoveProcessByPID(p)
  /\ mon' = [mon EXCEPT ![p] = "unblock"]
  /\ UNCHANGED <<child, pcb, termMin, ledger, mutex, monTmp>>
  /\ MainKeeps

MonitorUnblocks(p) ==
  /\ mon[p] = "unblock"
  /\ blocks' = blocks \ {p}
  /\ mon' = [mon EXCEPT ![p] = "load"]
  /\ UNCHANGED <<child, tables, avail, mutex, monTmp>>
  /\ MainKeeps

MonitorLoads(p) ==
  /\ mon[p] = "load"
  /\ monTmp' = avail
  /\ mon' = [mon EXCEPT ![p] = "store"]
  /\ UNCHANGED <<child, tables, ledger, mutex>>
  /\ MainKeeps

MonitorStores(p) ==
  /\ mon[p] = "store"
  /\ Refund(monTmp, p)
  /\ monTmp' = 0
  /\ mon' = [mon EXCEPT ![p] = "forget"]
  /\ UNCHANGED <<child, tables, blocks, mutex>>
  /\ MainKeeps

\* removeProcess, and the end of the lock_guard.
MonitorForgets(p) ==
  /\ mon[p] = "forget"
  /\ pcb' = [pcb EXCEPT ![p] = "none"]
  /\ termMin' = termMin \ {p}
  /\ mon' = [mon EXCEPT ![p] = "done"]
  /\ mutex' = NoTask
  /\ UNCHANGED <<child, ready, ledger, monTmp>>
  /\ MainKeeps

Monitor(p) ==
  \/ MonitorReaps(p) \/ MonitorGivesUp(p) \/ MonitorEnters(p)
  \/ MonitorMarks(p) \/ MonitorDequeues(p) \/ MonitorUnblocks(p)
  \/ MonitorLoads(p) \/ MonitorStores(p) \/ MonitorForgets(p)

-----------------------------------------------------------------------------
(* The menu loop: window states first, then the reaping of parallel tasks  *)
(* or an automatic run of the scheduler, then the user's choice.           *)

StartLoop ==
  /\ pc = "top"
  /\ todo' = Registered
  /\ Goto("windows")
  /\ UNCHANGED <<child, tables, ledger, slots, monitors, cur, op, ret, back,
                 multi, mainTmp>>

\* isTaskTerminalHidden(p) may say yes: a dead child has no window.
MayBeHidden(p) == child[p] \in {"running", "stopped"}

\* Fault: any minimized task is shown, also one the user minimized.
LookAtAnyWindow(p) ==
  /\ pc = "windows" /\ p \in todo
  /\ todo' = todo \ {p}
  /\ \/ /\ pcb[p] = "MINIMIZED"
        /\ op' = "show" /\ cur' = p /\ Goto("window")
     \/ UNCHANGED <<op, cur, pc>>
  /\ UNCHANGED <<child, tables, ledger, slots, monitors, ret, back, multi, mainTmp>>

\* handleTerminalWindowState reads one PCB and asks xdotool about its window;
\* what it then does (the next three actions) rests on that reading.
LookAtWindow(p) ==
  /\ pc = "windows" /\ p \in todo
  /\ todo' = todo \ {p}
  /\ \/ /\ pcb[p] = "RUNNING" /\ MayBeHidden(p)
        /\ op' = "hide" /\ cur' = p /\ Goto("window")
     \/ /\ pcb[p] = "MINIMIZED" /\ p \in termMin
        /\ op' = "show" /\ cur' = p /\ Goto("window")
     \/ UNCHANGED <<op, cur, pc>>
  /\ UNCHANGED <<child, tables, ledger, slots, monitors, ret, back, multi, mainTmp>>

\* A paused task becomes READY again; the call that puts it into a queue comes
\* later, and the monitor thread may have cleaned up in between.
ReadyAgain(from) ==
  /\ SetState(cur, "READY") /\ SetLabel(cur, FALSE)
  /\ back' = from
  /\ Goto("enqueue")
  /\ UNCHANGED <<child, cur>>

\* Only restoreVisibleMinimizedTasks also sends SIGCONT.
EnqueueReady ==
  /\ pc = "enqueue"
  /\ Enqueue(cur)
  /\ IF back = "restore" THEN Continued(cur) ELSE UNCHANGED child
  /\ Return
  /\ UNCHANGED <<pcb, termMin, ledger, slots, monitors, op, todo, ret, multi, mainTmp>>

WindowDone ==
  /\ op' = "none"
  /\ UNCHANGED <<ready, ledger, slots, monitors, todo, ret, multi, mainTmp>>

HideWindow ==
  /\ pc = "window" /\ op = "hide"
  /\ Stopped(cur) /\ SetState(cur, "MINIMIZED") /\ SetLabel(cur, TRUE)
  /\ cur' = NoTask /\ Goto("windows") /\ UNCHANGED back
  /\ WindowDone

ShowParallel ==
  /\ pc = "window" /\ op = "show" /\ multi
  /\ Continued(cur) /\ SetState(cur, "RUNNING") /\ SetLabel(cur, FALSE)
  /\ cur' = NoTask /\ Goto("windows") /\ UNCHANGED back
  /\ WindowDone

ShowReady ==
  /\ pc = "window" /\ op = "show" /\ ~multi
  /\ ReadyAgain("windows")
  /\ WindowDone

WindowsDone ==
  /\ pc = "windows" /\ todo = {}
  /\ \/ multi /\ todo' = Registered /\ Goto("sweep") /\ UNCHANGED ret
     \/ ~multi /\ HasReadyProcess /\ Goto("sched") /\ ret' = "menu" /\ UNCHANGED todo
     \/ ~multi /\ ~HasReadyProcess /\ Goto("menu") /\ UNCHANGED <<todo, ret>>
  /\ UNCHANGED <<child, tables, ledger, slots, monitors, cur, op, back, multi, mainTmp>>

\* reapFinishedParallelTasks: only RUNNING tasks are waited for.
Sweep(p) ==
  /\ pc = "sweep" /\ p \in todo
  /\ todo' = todo \ {p}
  /\ IF pcb[p] = "RUNNING" /\ child[p] = "zombie"
       THEN Collect(p) /\ cur' = p /\ back' = "sweep" /\ Goto("complete")
       ELSE UNCHANGED <<child, cur, back, pc>>
  /\ UNCHANGED <<tables, ledger, slots, monitors, op, ret, multi, mainTmp>>

SweepDone ==
  /\ pc = "sweep" /\ todo = {}
  /\ Goto("menu")
  /\ UNCHANGED <<child, tables, ledger, slots, monitors, cur, op, loops, mainTmp>>

-----------------------------------------------------------------------------
(* What the user may choose.                                               *)

\* Options that only display something or switch the mode, and a cancelled
\* confirmation, lead back to the top of the loop.
ChooseNothing ==
  /\ pc \in {"menu", "confirm"}
  /\ Goto("top")
  /\ cur' = NoTask
  /\ UNCHANGED <<child, tables, ledger, slots, monitors, op, loops, mainTmp>>

\* Options 11 (parallel = FALSE) and 28 (parallel = TRUE).
ChooseScheduler(parallel) ==
  /\ pc = "menu"
  /\ multi' = parallel
  /\ ret' = IF parallel THEN "parallel" ELSE "top"
  /\ Goto("sched")
  /\ UNCHANGED <<child, tables, ledger, slots, monitors, cur, op, todo, back, mainTmp>>

\* Options 17, 26 and 18/22/27: the PCB is copied and its state tested; the
\* copy is what the rest of the operation believes.
ChooseForTask(p) ==
  /\ pc = "menu"
  /\ \/ pcb[p] \notin {"none", "TERMINATED", "BLOCKED"} /\ op' \in {"minimize", "interrupt"}
     \/ pcb[p] \in {"BLOCKED", "MINIMIZED"} /\ op' = "resume"
  /\ cur' = p
  /\ Goto("act")
  /\ UNCHANGED <<child, tables, ledger, slots, monitors, loops, mainTmp>>

PauseTask ==
  /\ pc = "act" /\ op' = "none"
  /\ \/ /\ op = "minimize"
        /\ RemoveProcessByPID(cur) /\ Stopped(cur)
        /\ SetState(cur, "MINIMIZED") /\ SetLabel(cur, FALSE)
     \/ /\ op = "interrupt"
        /\ RemoveProcessByPID(cur) /\ Stopped(cur)
        /\ SetState(cur, "BLOCKED") /\ UNCHANGED termMin
  /\ cur' = NoTask /\ Goto("top")
  /\ UNCHANGED <<ledger, slots, monitors, loops, mainTmp>>

ResumeTask ==
  /\ pc = "act" /\ op = "resume" /\ op' = "none"
  /\ ReadyAgain("top")
  /\ UNCHANGED <<ready, ledger, slots, monitors, todo, ret, multi, mainTmp>>

\* closeProcess, kernelKillProcess, forceTerminateProcessByPID: the PCB is
\* copied before the user is asked to confirm.
ChooseClose(p) ==
  /\ pc = "menu"
  /\ pcb[p] # "none"
  /\ cur' = p
  /\ Goto("confirm")
  /\ UNCHANGED <<child, tables, ledger, slots, monitors, op, loops, mainTmp>>

\* Fault: the task is cleaned up without being killed.
CloseWithoutKill ==
  /\ pc = "confirm"
  /\ back' = "top"
  /\ Goto("dequeue")
  /\ UNCHANGED <<child, tables, ledger, slots, monitors, cur, op, todo, ret, multi,
                 mainTmp>>

ConfirmClose ==
  /\ pc = "confirm"
  /\ Killed(cur)
  /\ back' = "top"
  /\ Goto(IF child[cur] = "reaped" THEN "dequeue" ELSE "poll")
  /\ UNCHANGED <<tables, ledger, slots, monitors, cur, op, todo, ret, multi, mainTmp>>

\* waitpid(WNOHANG), and once more a second later if the child is not dead yet.
PollKilled ==
  /\ pc \in {"poll", "repoll"}
  /\ \/ Collect(cur) /\ Goto("dequeue")
     \/ child[cur] = "reaped" /\ Goto("dequeue") /\ UNCHANGED child
     \/ child[cur] = "dying" /\ UNCHANGED child
          /\ Goto(IF pc = "poll" THEN "repoll" ELSE "dequeue")
  /\ UNCHANGED <<tables, ledger, slots, monitors, cur, op, loops, mainTmp>>

ChooseShutdown ==
  /\ pc = "menu"
  /\ todo' = Registered
  /\ Goto(IF Registered = {} THEN "join" ELSE "quit")
  /\ UNCHANGED <<child, tables, ledger, slots, monitors, cur, op, ret, back,
                 multi, mainTmp>>

-----------------------------------------------------------------------------
(* Cleaning up a task from the menu thread, without the mutex.             *)

\* releaseCompletedProcess gives up when the PCB has gone.
Complete ==
  /\ pc = "complete"
  /\ IF pcb[cur] = "none"
       THEN Return
       ELSE Goto("mark") /\ UNCHANGED <<cur, back>>
  /\ UNCHANGED <<child, tables, ledger, slots, monitors, op, todo, ret, multi, mainTmp>>

CleanDequeue ==
  /\ pc = "dequeue"
  /\ RemoveProcessByPID(cur)
  /\ Goto("mark")
  /\ UNCHANGED <<child, pcb, termMin, ledger, slots, monitors, cur, op, loops, mainTmp>>

CleanMark ==
  /\ pc = "mark"
  /\ SetState(cur, "TERMINATED")
  /\ Goto("unblock")
  /\ UNCHANGED <<child, termMin, ready, ledger, slots, monitors, cur, op, loops, mainTmp>>

\* Fault: releaseMemoryBlock is not called.
CleanKeepsBlock ==
  /\ pc = "unblock"
  /\ Goto("load")
  /\ UNCHANGED <<child, tables, ledger, slots, monitors, cur, op, loops, mainTmp>>

CleanUnblock ==
  /\ pc = "unblock"
  /\ blocks' = blocks \ {cur}
  /\ Goto("load")
  /\ UNCHANGED <<child, tables, avail, slots, monitors, cur, op, loops, mainTmp>>

CleanLoad ==
  /\ pc = "load"
  /\ mainTmp' = avail
  /\ Goto("store")
  /\ UNCHANGED <<child, tables, ledger, slots, monitors, cur, op, loops>>

CleanStore ==
  /\ pc = "store"
  /\ Refund(mainTmp, cur)
  /\ mainTmp' = 0
  /\ Goto("forget")
  /\ UNCHANGED <<child, tables, blocks, slots, monitors, cur, op, loops>>

CleanForget ==
  /\ pc = "forget"
  /\ pcb' = [pcb EXCEPT ![cur] = "none"]
  /\ termMin' = termMin \ {cur}
  /\ Return
  /\ UNCHANGED <<child, ready, ledger, slots, monitors, op, todo, ret, multi, mainTmp>>

Clean ==
  \/ Complete \/ CleanDequeue \/ CleanMark \/ CleanUnblock
  \/ CleanLoad \/ CleanStore \/ CleanForget

-----------------------------------------------------------------------------
(* Launching a task: fork, the request over the pipe, the grant.           *)

Fork(p) ==
  /\ pc = "menu"
  /\ child[p] = "unborn"
  /\ child' = [child EXCEPT ![p] = "asking"]
  /\ cur' = p
  /\ Goto("check")
  /\ UNCHANGED <<tables, ledger, slots, monitors, op, loops, mainTmp>>

Deny ==
  /\ child' = [child EXCEPT ![cur] = "denied"]
  /\ Goto("denied")

CheckResources ==
  /\ pc = "check"
  /\ IF Need[cur] <= avail THEN Goto("allocate") /\ UNCHANGED child ELSE Deny
  /\ UNCHANGED <<tables, ledger, slots, monitors, cur, op, loops, mainTmp>>

\* First fit over the layout: a block needs room, and with room in all it may
\* still fail because the free blocks are too small (module ResourceManager).
AllocateBlock ==
  /\ pc = "allocate"
  /\ \/ /\ Load(blocks) + Need[cur] <= Room
        /\ blocks' = blocks \cup {cur} /\ Goto("take") /\ UNCHANGED child
     \/ Deny /\ UNCHANGED blocks
  /\ UNCHANGED <<tables, avail, slots, monitors, cur, op, loops, mainTmp>>

\* allocateResources checks again; the caller ignores what it returns.
TakeResources ==
  /\ pc = "take"
  /\ IF Need[cur] <= avail
       THEN mainTmp' = avail /\ Goto("charge")
       ELSE UNCHANGED mainTmp /\ Goto("register")
  /\ UNCHANGED <<child, tables, ledger, slots, monitors, cur, op, loops>>

ChargeResources ==
  /\ pc = "charge"
  /\ avail' = mainTmp - Need[cur]
  /\ mainTmp' = 0
  /\ Goto("register")
  /\ UNCHANGED <<child, tables, blocks, slots, monitors, cur, op, loops>>

\* createPCB (NEW), updateProcessState (READY), enqueue, grant response.
Register ==
  /\ pc = "register"
  /\ pcb' = [pcb EXCEPT ![cur] = "READY"]
  /\ Enqueue(cur)
  /\ child' = [child EXCEPT ![cur] = "granted"]
  /\ Goto("stopwait")
  /\ UNCHANGED <<termMin, ledger, slots, monitors, cur, op, loops, mainTmp>>

\* waitpid(WUNTRACED): the child has stopped itself, or has died before that.
AwaitStop ==
  /\ pc = "stopwait"
  /\ \/ child[cur] = "stopped" /\ UNCHANGED child
     \/ Collect(cur)
  /\ Goto("spawn")
  /\ UNCHANGED <<tables, ledger, slots, monitors, cur, op, loops, mainTmp>>

SpawnMonitor ==
  /\ pc = "spawn"
  /\ mon' = [mon EXCEPT ![cur] = "waiting"]
  /\ cur' = NoTask
  /\ Goto("top")
  /\ UNCHANGED <<child, tables, ledger, slots, mutex, monTmp, op, loops, mainTmp>>

AwaitDenied ==
  /\ pc = "denied"
  /\ Collect(cur)
  /\ cur' = NoTask
  /\ Goto("top")
  /\ UNCHANGED <<tables, ledger, slots, monitors, op, loops, mainTmp>>

Launch ==
  \/ CheckResources \/ AllocateBlock \/ TakeResources \/ ChargeResources
  \/ Register \/ AwaitStop \/ SpawnMonitor \/ AwaitDenied

-----------------------------------------------------------------------------
(* runScheduler.  The order of the queues is left open here.               *)

StartScheduler ==
  /\ pc = "sched"
  /\ todo' = Registered
  /\ Goto("restore")
  /\ UNCHANGED <<child, tables, ledger, slots, monitors, cur, op, ret, back,
                 multi, mainTmp>>

\* restoreVisibleMinimizedTasks: a reading, then the action based on it.
LookToRestore(p) ==
  /\ pc = "restore" /\ p \in todo
  /\ todo' = todo \ {p}
  /\ \/ /\ pcb[p] = "MINIMIZED" /\ p \in termMin
        /\ cur' = p /\ Goto("restoring")
     \/ UNCHANGED <<cur, pc>>
  /\ UNCHANGED <<child, tables, ledger, slots, monitors, op, ret, back, multi, mainTmp>>

Restore ==
  /\ pc = "restoring"
  /\ ReadyAgain("restore")
  /\ UNCHANGED <<ready, ledger, slots, monitors, op, todo, ret, multi, mainTmp>>

RestoreDone ==
  /\ pc = "restore" /\ todo = {}
  /\ Goto("dispatch")
  /\ UNCHANGED <<child, tables, ledger, slots, monitors, cur, op, loops, mainTmp>>

\* applyAging drops the items without a PCB; then one item is taken.
Select(p) ==
  /\ pc = "dispatch"
  /\ ready[p] > 0 /\ pcb[p] # "none"
  /\ ready' = [q \in Tasks |-> IF pcb[q] = "none" THEN 0
                               ELSE IF q = p THEN ready[q] - 1 ELSE ready[q]]
  /\ cur' = p
  /\ Goto("run")
  /\ UNCHANGED <<child, pcb, termMin, ledger, slots, monitors, op, loops, mainTmp>>

NothingToDispatch ==
  /\ pc = "dispatch"
  /\ \A p \in Tasks : ready[p] = 0 \/ pcb[p] = "none"
  /\ ready' = [p \in Tasks |-> 0]
  /\ Goto(ret) /\ ret' = "top"
  /\ UNCHANGED <<child, pcb, termMin, ledger, slots, monitors, cur, op, todo, back,
                 multi, mainTmp>>

\* runProcess: a PCB that has gone is skipped, else the cores are acquired.
AcquireCores ==
  /\ pc = "run"
  /\ \/ pcb[cur] = "none" /\ Goto("after") /\ UNCHANGED <<slots, termMin>>
     \/ /\ pcb[cur] # "none"
        /\ slots >= Need[cur]
        /\ slots' = slots - Need[cur]
        /\ SetLabel(cur, FALSE)
        /\ Goto("start")
  /\ UNCHANGED <<child, pcb, ready, ledger, monitors, cur, op, loops, mainTmp>>

StartRunning ==
  /\ pc = "start"
  /\ SetState(cur, "RUNNING")
  /\ Continued(cur)
  /\ Goto(IF cur \in ToCompletion THEN "wait" ELSE "slice")
  /\ UNCHANGED <<termMin, ready, ledger, slots, monitors, cur, op, loops, mainTmp>>

ReleaseCores == slots' = slots + Need[cur]

\* waitpid(pid, 0): collects the child, or fails because it was collected.
AwaitCompletion ==
  /\ pc = "wait"
  /\ Collect(cur) \/ (child[cur] = "reaped" /\ UNCHANGED child)
  /\ ReleaseCores
  /\ back' = "after"
  /\ Goto("complete")
  /\ UNCHANGED <<tables, ledger, monitors, cur, op, todo, ret, multi, mainTmp>>

CompleteInSlice ==
  /\ pc = "slice"
  /\ Collect(cur)
  /\ ReleaseCores
  /\ back' = "after"
  /\ Goto("complete")
  /\ UNCHANGED <<tables, ledger, monitors, cur, op, todo, ret, multi, mainTmp>>

SeeHidden ==
  /\ pc = "slice" /\ MayBeHidden(cur)
  /\ Goto("hiding")
  /\ UNCHANGED <<child, tables, ledger, slots, monitors, cur, op, loops, mainTmp>>

\* Faults: the cores stay acquired; the task is not stopped.
HideWithoutRelease ==
  /\ pc = "hiding"
  /\ Stopped(cur) /\ SetState(cur, "MINIMIZED") /\ SetLabel(cur, TRUE)
  /\ Goto("after")
  /\ UNCHANGED <<ready, ledger, slots, monitors, cur, op, loops, mainTmp>>

HideWithoutStop ==
  /\ pc = "hiding"
  /\ SetState(cur, "MINIMIZED") /\ SetLabel(cur, TRUE)
  /\ ReleaseCores
  /\ Goto("after")
  /\ UNCHANGED <<child, ready, ledger, monitors, cur, op, loops, mainTmp>>

HideInSlice ==
  /\ pc = "hiding"
  /\ Stopped(cur) /\ SetState(cur, "MINIMIZED") /\ SetLabel(cur, TRUE)
  /\ ReleaseCores
  /\ Goto("after")
  /\ UNCHANGED <<ready, ledger, monitors, cur, op, loops, mainTmp>>

\* The last second of the quantum: SIGSTOP, then waitpid(WUNTRACED).
QuantumExpires ==
  /\ pc = "slice"
  /\ Stopped(cur)
  /\ Goto("expired")
  /\ UNCHANGED <<tables, ledger, slots, monitors, cur, op, loops, mainTmp>>

FinishExpired ==
  /\ pc = "expired"
  /\ Collect(cur) \/ (child[cur] = "reaped" /\ UNCHANGED child)
  /\ ReleaseCores
  /\ back' = "after"
  /\ Goto("complete")
  /\ UNCHANGED <<tables, ledger, monitors, cur, op, todo, ret, multi, mainTmp>>

\* The wait saw the stop; the cores go back before the state is updated.
StoppedExpired ==
  /\ pc = "expired"
  /\ child[cur] = "stopped"
  /\ ReleaseCores
  /\ Goto("requeue")
  /\ UNCHANGED <<child, tables, ledger, monitors, cur, op, loops, mainTmp>>

\* Fault: the expired task is not put back.
RequeueForgotten ==
  /\ pc = "requeue"
  /\ SetState(cur, "READY")
  /\ Goto("after")
  /\ UNCHANGED <<child, termMin, ready, ledger, slots, monitors, cur, op, loops, mainTmp>>

Requeue ==
  /\ pc = "requeue"
  /\ ReadyAgain("after")
  /\ UNCHANGED <<ready, ledger, slots, monitors, op, todo, ret, multi, mainTmp>>

\* The loop of runScheduler ends when the task was minimized.
AfterRun ==
  /\ pc = "after"
  /\ IF pcb[cur] = "MINIMIZED"
       THEN Goto(ret) /\ ret' = "top"
       ELSE Goto("dispatch") /\ UNCHANGED ret
  /\ cur' = NoTask
  /\ UNCHANGED <<child, tables, ledger, slots, monitors, op, todo, back, multi, mainTmp>>

\* runMultitaskingDispatch: every queued task runs, without a core slot.
DispatchParallel(p) ==
  /\ pc = "parallel"
  /\ ready[p] > 0
  /\ ready' = [ready EXCEPT ![p] = @ - 1]
  /\ \/ pcb[p] = "none" /\ UNCHANGED <<child, pcb, termMin>>
     \/ pcb[p] # "none" /\ SetState(p, "RUNNING") /\ SetLabel(p, FALSE) /\ Continued(p)
  /\ UNCHANGED <<ledger, slots, monitors, pc, cur, op, loops, mainTmp>>

ParallelDone ==
  /\ pc = "parallel"
  /\ ~HasReadyProcess
  /\ Goto("top")
  /\ UNCHANGED <<child, tables, ledger, slots, monitors, cur, op, loops, mainTmp>>

Schedule ==
  \/ StartScheduler \/ Restore \/ RestoreDone \/ NothingToDispatch
  \/ \E p \in Tasks : LookToRestore(p) \/ Select(p) \/ DispatchParallel(p)
  \/ AcquireCores \/ StartRunning \/ AwaitCompletion \/ CompleteInSlice
  \/ HideInSlice \/ QuantumExpires \/ FinishExpired \/ StoppedExpired
  \/ Requeue \/ AfterRun \/ ParallelDone

-----------------------------------------------------------------------------
(* gracefulShutdownCleanup, then the join of all monitor threads.          *)

\* Fault: only the tables are cleaned up, the process lives on.
QuitWithoutKill(p) ==
  /\ pc = "quit" /\ p \in todo
  /\ todo' = todo \ {p}
  /\ IF pcb[p] = "none"
       THEN UNCHANGED <<cur, back, pc>>
       ELSE cur' = p /\ back' = "quit" /\ Goto("quitpoll")
  /\ UNCHANGED <<child, tables, ledger, slots, monitors, op, ret, multi, mainTmp>>

QuitKill(p) ==
  /\ pc = "quit" /\ p \in todo
  /\ todo' = todo \ {p}
  /\ IF pcb[p] = "none"
       THEN UNCHANGED <<child, cur, back, pc>>
       ELSE Killed(p) /\ cur' = p /\ back' = "quit" /\ Goto("quitpoll")
  /\ UNCHANGED <<tables, ledger, slots, monitors, op, ret, multi, mainTmp>>

QuitPoll ==
  /\ pc = "quitpoll"
  /\ Collect(cur) \/ (child[cur] # "zombie" /\ UNCHANGED child)
  /\ Goto("unblock")
  /\ UNCHANGED <<tables, ledger, slots, monitors, cur, op, loops, mainTmp>>

ClearQueues ==
  /\ pc = "quit" /\ todo = {}
  /\ ready' = [p \in Tasks |-> 0]
  /\ Goto("join")
  /\ UNCHANGED <<child, pcb, termMin, ledger, slots, monitors, cur, op, loops, mainTmp>>

JoinMonitors ==
  /\ pc = "join"
  /\ \A p \in Tasks : mon[p] \in {"none", "done"}
  /\ Goto("halted")
  /\ UNCHANGED <<child, tables, ledger, slots, monitors, cur, op, loops, mainTmp>>

ShutDown ==
  \/ \E p \in Tasks : QuitKill(p)
  \/ QuitPoll \/ ClearQueues \/ JoinMonitors

\* The program has ended.
Halted == pc = "halted" /\ UNCHANGED vars

-----------------------------------------------------------------------------
\* Steps that wait for the user, for a window or for the end of a task.
Choice ==
  \/ ChooseNothing \/ ConfirmClose \/ ChooseShutdown
  \/ \E parallel \in BOOLEAN : ChooseScheduler(parallel)
  \/ \E p \in Tasks : Fork(p) \/ ChooseForTask(p) \/ ChooseClose(p)

\* Steps the menu thread takes on its own.
MainStep ==
  \/ StartLoop \/ HideWindow \/ ShowParallel \/ ShowReady \/ WindowsDone \/ SweepDone
  \/ \E p \in Tasks : LookAtWindow(p) \/ Sweep(p)
  \/ PauseTask \/ ResumeTask \/ EnqueueReady \/ PollKilled
  \/ Clean \/ Launch \/ Schedule \/ ShutDown

Next ==
  \/ \E p \in Tasks :
       \/ ChildStops(p) \/ ChildExits(p) \/ ChildEnds(p)
       \/ Monitor(p)
  \/ Choice \/ MainStep \/ SeeHidden
  \/ Halted

\* Threads are scheduled by Linux; nobody is obliged to choose, and a task is
\* not obliged to end.
Fairness ==
  /\ WF_vars(MainStep)
  /\ \A p \in Tasks : /\ WF_vars(ChildStops(p))
                      /\ WF_vars(ChildEnds(p))
                      /\ WF_vars(Monitor(p))

Spec == Init /\ [][Next]_vars
FairSpec == Spec /\ Fairness

=============================================================================
