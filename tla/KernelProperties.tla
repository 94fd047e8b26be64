-------------------------- MODULE KernelProperties --------------------------
(***************************************************************************)
(* What is checked of module Kernel.                                       *)
(***************************************************************************)
EXTENDS Kernel

ChildStates == {"unborn", "asking", "denied", "granted", "stopped", "running",
                "dying", "zombie", "reaped"}
PcbStates == {"none", "READY", "RUNNING", "BLOCKED", "MINIMIZED", "TERMINATED"}
MonitorStates == {"none", "waiting", "reaped", "mark", "dequeue", "unblock",
                  "load", "store", "forget", "done"}
CleanupLabels == {"complete", "dequeue", "mark", "unblock", "load", "store", "forget"}
LaunchLabels == {"check", "allocate", "take", "charge", "register", "stopwait",
                 "spawn", "denied"}
RunLabels == {"run", "start", "wait", "slice", "hiding", "expired", "requeue", "after"}
TaskLabels == CleanupLabels \cup LaunchLabels \cup RunLabels
              \cup {"window", "enqueue", "act", "confirm", "poll", "repoll", "restoring", "quitpoll"}
IdleLabels == {"top", "windows", "sweep", "menu", "sched", "restore", "dispatch",
               "parallel", "quit", "join", "halted"}

\* The type invariant; the menu thread has a task exactly where it works on one.
TypeOK ==
  /\ child \in [Tasks -> ChildStates]
  /\ pcb \in [Tasks -> PcbStates]
  /\ termMin \subseteq Registered
  /\ ready \in [Tasks -> Nat]
  /\ avail \in 0 .. Total
  /\ blocks \subseteq Tasks
  /\ slots \in 0 .. Total
  /\ mon \in [Tasks -> MonitorStates]
  /\ mutex \in Tasks \cup {NoTask}
  /\ monTmp \in 0 .. Total
  /\ \/ pc \in TaskLabels /\ cur \in Tasks
     \/ pc \in IdleLabels /\ cur = NoTask
  /\ op \in {"none", "hide", "show", "minimize", "interrupt", "resume"}
  /\ todo \subseteq Tasks
  /\ ret \in {"top", "menu", "parallel"}
  /\ back \in {"top", "windows", "sweep", "restore", "quit", "after"}
  /\ mainTmp \in 0 .. Total
  /\ multi \in BOOLEAN

\* A RAM block belongs to a registered task, or to the one being granted: no
\* interleaving of the monitor's cleanup (main.cpp:71-98) with one of the menu
\* thread's (main.cpp:2092-2114, scheduler.cpp:156-178) leaves a block behind.
NoOrphanBlock ==
  \A p \in blocks :
    pcb[p] # "none" \/ (cur = p /\ pc \in {"take", "charge", "register"})

\* A task is in the ready queues at most once, and never while its PCB says it
\* is running, blocked or minimized: addProcessToReadyQueue tests neither
\* (ready_queue.cpp:20-49), so every caller has to.
QueuedOnceIfReady ==
  \A p \in Tasks :
    /\ ready[p] <= 1
    /\ ready[p] = 1 => pcb[p] \in {"READY", "TERMINATED", "none"}

\* At the menu, a READY task whose child waits for a dispatch is in a queue: a
\* stale copy of its PCB (main.cpp:1413, 1487, 2153) never loses it.
NoLostTask ==
  \A p \in Tasks :
    pc = "menu" /\ pcb[p] = "READY" /\ child[p] = "stopped" => ready[p] = 1

\* Every return path of runProcess gives the cores back, so the acquisition at
\* the next dispatch (scheduler.cpp:205) never blocks the menu thread.
CoresReturned ==
  /\ slots = IF pc \in {"start", "wait", "slice", "hiding", "expired"}
               THEN Total - Need[cur] ELSE Total
  /\ pc = "run" => slots >= Need[cur]

\* A task the table calls blocked or minimized is not executing.  Here and below,
\* what executes is the process that the kernel forked: with separate terminals,
\* the default, it becomes the terminal emulator (executeTaskExecutable), and the
\* program in its window is another process that no signal of the kernel names.
PausedTaskIsStopped ==
  \A p \in Tasks : pcb[p] \in {"BLOCKED", "MINIMIZED"} => child[p] # "running"

\* The monitor thread works on a child that has been collected, and so does
\* the waitpid-first half of the menu thread's cleanups: nobody frees the RAM of
\* a task that may still execute, unless it has been sent SIGKILL.
NoLiveTaskFreed ==
  \A p \in Tasks :
    child[p] \in {"granted", "stopped", "running"} => pcb[p] # "none" /\ p \in blocks

\* A task paused by the user, or blocked, runs again only after the user has
\* resumed it: no window event and no dispatch may overtake that.
RespectsPause ==
  \A p \in Tasks :
    /\ pcb[p] = "BLOCKED" => pcb'[p] \in {"BLOCKED", "READY", "TERMINATED", "none"}
    /\ pcb[p] = "MINIMIZED" /\ p \notin termMin => pcb'[p] # "RUNNING"

PauseIsRespected == [][RespectsPause]_vars

\* A child that has ended is cleaned up after without anybody choosing to
\* (main.cpp:29-35), by the monitor thread or by whoever collected it.
EndedTaskIsForgotten ==
  \A p \in Tasks : child[p] = "zombie" ~> pcb[p] = "none"

\* As long as launch has seen the child stop, that promise is kept: a child that
\* ends under a waiting monitor is cleaned up after, whoever collects it.
WatchedTaskIsForgotten ==
  \A p \in Tasks : child[p] = "zombie" /\ mon[p] = "waiting" ~> pcb[p] = "none"

\* Once shutdown is chosen it ends: every monitor thread that is joined
\* (main.cpp:2634-2643) comes back from its waitpid.
ShutdownEnds == pc \in {"quit", "join"} ~> pc = "halted"

\* The cleanups race, yet a task's block is returned once and the task is
\* forgotten once, in this order: the kernel implements TaskLifecycle.
Stage(p) ==
  CASE p \in blocks -> IF pcb[p] = "none" THEN "reserved" ELSE "registered"
    [] p \notin blocks /\ pcb[p] # "none" -> "closing"
    [] OTHER -> IF child[p] \in {"unborn", "asking"} THEN "absent" ELSE "gone"

Lifecycle == INSTANCE TaskLifecycle
               WITH Total <- Room, stage <- [p \in Tasks |-> Stage(p)]
LifecycleSpec == Lifecycle!Spec

-----------------------------------------------------------------------------
(* What makes the invariants inductive.                                    *)

GrantLabels == {"take", "charge", "register"}
HoldLabels == {"start", "wait", "slice", "hiding", "expired"}
FreedLabels == {"load", "store", "forget"}

\* Whoever is past releaseMemoryBlock works on a task without a block, and no
\* cleanup can reach a task before its launch has registered it.
CleanupOrder ==
  /\ \A p \in Tasks : mon[p] \in FreedLabels => p \notin blocks
  /\ pc \in FreedLabels => cur \notin blocks
  /\ \A p \in Tasks : mon[p] # "none" => child[p] \notin {"unborn", "asking"}
  /\ \A p \in Tasks : child[p] = "unborn" => pcb[p] = "none" /\ p \notin blocks
  /\ \A p \in Tasks : child[p] = "asking" =>
       cur = p /\ pc \in {"check", "allocate"} \cup GrantLabels
  /\ pc \in {"check", "allocate"} \cup GrantLabels =>
       child[cur] = "asking" /\ pcb[cur] = "none" /\ mon[cur] = "none"
  /\ pc \in {"check", "allocate"} => cur \notin blocks
  /\ pc \in GrantLabels => cur \in blocks
  /\ pc \in {"denied", "stopwait", "spawn"} => child[cur] \notin {"unborn", "asking"}

\* A registered task fits on the machine, so its cores can be acquired.
TasksFit ==
  /\ \A p \in Tasks : pcb[p] # "none" => Need[p] <= Total
  /\ pc \in {"allocate", "run"} \cup GrantLabels => Need[cur] <= Total
  /\ pc = "charge" => Need[cur] <= mainTmp

IInv == TypeOK /\ CoresReturned /\ NoOrphanBlock /\ CleanupOrder /\ TasksFit

LaunchedStates == {"granted", "stopped", "running", "dying", "zombie", "reaped"}
DeadStates == {"dying", "zombie", "reaped"}
QueueableStates == {"READY", "TERMINATED", "none"}
DispatchLabels == {"wait", "slice", "hiding", "expired", "requeue"}

\* Whoever cleans up after a task has seen its child end, or has killed it.
DeadWhenCleaned ==
  /\ \A p \in Tasks : mon[p] \notin {"none", "waiting"} => child[p] = "reaped"
  /\ \A p \in Tasks : pcb[p] # "none" => child[p] \in LaunchedStates
  /\ pc \in {"confirm", "act", "window", "restoring", "enqueue", "run", "start"}
          \cup DispatchLabels => child[cur] \in LaunchedStates
  /\ pc \in CleanupLabels \cup {"poll", "repoll", "quitpoll"} => child[cur] \in DeadStates

\* A task that is about to be queued is in no queue.
OutOfTheQueues ==
  /\ \A p \in Tasks : child[p] \in {"unborn", "asking", "denied"} => ready[p] = 0
  /\ pc \in {"window", "restoring", "enqueue", "run", "start"} \cup DispatchLabels =>
       ready[cur] = 0
  /\ pc = "act" /\ op = "resume" => ready[cur] = 0

\* Between the menu thread's reading of a PCB and what it does about it, only
\* the monitor thread may change that PCB, and only by cleaning up.
ReadingHolds ==
  /\ pc \in {"enqueue", "run", "start"} => pcb[cur] \in QueueableStates
  /\ pc \in DispatchLabels => pcb[cur] \in {"RUNNING", "TERMINATED", "none"}
  /\ pc = "window" => op \in {"hide", "show"}
  /\ pc = "window" /\ op = "hide" => pcb[cur] \in {"RUNNING", "TERMINATED", "none"}
  /\ pc = "window" /\ op = "show" =>
       \/ pcb[cur] \in {"TERMINATED", "none"}
       \/ pcb[cur] = "MINIMIZED" /\ cur \in termMin
  /\ pc = "act" /\ op = "minimize" => pcb[cur] # "BLOCKED"

\* A READY task whose child lives is queued, or just on its way into a queue or
\* out of one; shutting down ends that.
ReadyIsQueued ==
  \A p \in Tasks :
    pcb[p] = "READY" /\ child[p] \notin DeadStates /\ pc \notin {"join", "halted"} =>
      ready[p] = 1 \/ (cur = p /\ pc \in {"enqueue", "run", "start"})

\* The scheduling half of the inductive invariant; it holds on top of IInv.
QInv == /\ DeadWhenCleaned /\ OutOfTheQueues /\ ReadingHolds /\ ReadyIsQueued
        /\ QueuedOnceIfReady /\ PausedTaskIsStopped /\ NoLiveTaskFreed

-----------------------------------------------------------------------------
(* Statements of the documentation that the code does not live up to.      *)

\* PROJECT_REPORT.md:338-339: the number of active tasks is limited by what is
\* available.  For HDD and cores the counters alone have to see to it.
ActiveTasksFit ==
  Load({p \in Tasks : child[p] \in {"granted", "stopped", "running"}}) <= Total

=============================================================================
