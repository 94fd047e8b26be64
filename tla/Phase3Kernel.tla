---------------------------- MODULE Phase3Kernel ----------------------------
(***************************************************************************)
(* The Phase 3 kernel, the snapshot of AMS OS before the monitor threads:  *)
(* one thread that serves a menu, runs the scheduler inside it, and polls  *)
(* two files that it shares with the graphical dashboard.  Beside it run   *)
(* the child processes of the tasks and the dashboard.  No other thread    *)
(* sees the managers, so a menu option that does not wait is one step; a   *)
(* step ends where the kernel waits for a child, for time or for the user, *)
(* and where the dashboard or a child may act in between.                  *)
(*                                                                         *)
(* RAM, HDD and cores are counted alike, so one counter stands for them.   *)
(* The kernel may be started again: the tasks, the dashboard and the files *)
(* of the run before are still there then.  The diagnostics of the menu    *)
(* (options 5, 6, 8, 9 and 10), which write wherever they are told to,     *)
(* are left out.                                                           *)
(***************************************************************************)
EXTENDS Phase3Managers, FiniteSets

CONSTANTS
  Tasks,     \* the pids of the tasks that can be launched; a pid is used once
  Program,   \* Program[p]: type ("system" or "timed"), priority and ram of p
  Clocks,    \* the tasks that are a Digital Clock, started at boot
  Mortal,    \* bound: the tasks that may be killed from outside the kernel
  Windowed,  \* bound: the tasks that may be launched in Separate Terminal Mode
  Clicked,   \* bound: the tasks whose rows the user of the dashboard clicks
  Capacity,  \* what the machine was booted with
  Cores,     \* free CPU slots at boot
  MaxBoots   \* bound: how often the kernel is started

ASSUME Phase3Assumption ==
  /\ Tasks \subseteq Nat \ {0}
  /\ Program \in [Tasks -> [type : {"system", "timed"}, priority : 1..3, ram : Nat \ {0}]]
  /\ Clocks \subseteq Tasks /\ Mortal \subseteq Tasks
  /\ Windowed \subseteq Tasks /\ Clicked \subseteq Tasks
  /\ Capacity \in Nat \ {0} /\ Cores \in Nat \ {0} /\ MaxBoots \in Nat \ {0}

VARIABLES
  child,         \* the Linux process of each task; "gone" when it was collected
  table,         \* processTable
  queues,        \* the three ready queues
  available,     \* the counter of the free resources
  memoryBlocks,  \* the RAM layout
  slots,         \* free slots of cpuCoreSemaphore
  currentMode,   \* user or kernel mode
  pc,            \* where the kernel is
  cur,           \* the task it works on
  single,        \* does it run one task for the dashboard, or the scheduler?
  gui_status,    \* gui_status.txt: the state of each task
  gui_command,   \* gui_command.txt: the pid to run, Nobody when it is empty
  row,           \* dashboard: the row, loaded as READY, that the user aims at
  pen,           \* dashboard: the pid it writes, having truncated the file
  boots,         \* how often the kernel was started
  leaked,        \* history: the tasks removed without freeing their block
  separate,      \* the tasks launched in Separate Terminal Mode
  executed,      \* the tasks whose program was started
  orphans,       \* history: the tasks that ran when their kernel was interrupted
  stale          \* history: those that an interrupted kernel's file calls RUNNING

managers == <<table, queues, available, memoryBlocks, slots>>
status == <<gui_status, stale>>
files == <<status, gui_command>>
dashboard == <<row, pen>>
control == <<pc, cur, single>>
programs == <<separate, executed, orphans>>
history == <<boots, leaked, programs>>
vars == <<child, managers, control, currentMode, files, dashboard, history>>

AgingThreshold == 2

States == {"NEW", "READY", "RUNNING", "BLOCKED"}

StatesOf(t) == [p \in Tasks |-> t[p].state]

Ended == pc \in {"halted", "replaced", "killed"}

\* writeGUIStatusFile
Tell(t) == gui_status' = StatesOf(t) /\ stale' = {}

Goto(label) == pc' = label /\ cur' = Nobody /\ UNCHANGED single

-----------------------------------------------------------------------------
(* Boot.  What main() creates is new; children and files are not.          *)

NoPCBs == [p \in Tasks |-> NoPCB]
NoStatus == [p \in Tasks |-> "none"]

Init ==
  /\ table = NoPCBs /\ queues = NoItems
  /\ available = Capacity /\ memoryBlocks = initializeResources(Capacity)
  /\ slots = Cores
  /\ child = [p \in Tasks |-> "unborn"]
  /\ currentMode = "user"
  /\ pc = "boot" /\ cur = Nobody /\ single = FALSE
  /\ gui_status = NoStatus /\ stale = {}
  /\ gui_command = Nobody
  /\ row = Nobody /\ pen = Nobody
  /\ boots = 1 /\ leaked = {}
  /\ separate = {} /\ executed = {} /\ orphans = {}

\* What a process had in its memory is not there for the next.
MemoryIsNew ==
  /\ table' = NoPCBs /\ queues' = NoItems
  /\ available' = Capacity /\ memoryBlocks' = initializeResources(Capacity)
  /\ slots' = Cores
  /\ currentMode' = "user" /\ leaked' = {}
  /\ cur' = Nobody /\ single' = FALSE

NextBoot ==
  /\ Ended /\ boots < MaxBoots
  /\ boots' = boots + 1
  /\ MemoryIsNew /\ pc' = "boot"
  /\ UNCHANGED <<child, files, dashboard, programs>>

\* What a child is once the kernel is gone: a zombie is collected by init, and a
\* signal to the group, or the hangup of its terminal, may have ended the others.
Left(state) ==
  IF state = "unborn" THEN {"unborn"}
  ELSE IF state = "zombie" THEN {"gone"}
  ELSE {state, "gone"}

\* The kernel ends wherever it is (Ctrl-C: it handles no signal), maybe with the
\* status file truncated and not yet written.  The last boot is not interrupted,
\* as nothing comes after it that could tell.
Interrupted ==
  /\ ~Ended /\ boots < MaxBoots
  /\ child' \in {f \in [Tasks -> UNION {Left(child[p]) : p \in Tasks}] :
                  \A p \in Tasks : f[p] \in Left(child[p])}
  /\ gui_status' \in {gui_status, NoStatus}
  /\ stale' = {p \in Tasks : gui_status'[p] = "RUNNING"}
  /\ orphans' = orphans \cup {p \in Tasks : child'[p] = "running"}
  /\ MemoryIsNew /\ pc' = "killed"
  /\ UNCHANGED <<gui_command, dashboard, boots, separate, executed>>

-----------------------------------------------------------------------------
(* The child process of a task.                                            *)

ChildStops(p) ==
  /\ child[p] = "granted"
  /\ child' = [child EXCEPT ![p] = "stopped"]
  /\ UNCHANGED <<managers, control, currentMode, files, dashboard, history>>

\* A child that was continued becomes the terminal in whose window another process
\* runs the program: no stop and no kill of the kernel reaches that one.
OpenWindow(p) ==
  /\ child[p] = "running" /\ p \in separate \ executed
  /\ executed' = executed \cup {p}
  /\ UNCHANGED <<child, managers, control, currentMode, files, dashboard, boots, leaked,
                 separate, orphans>>

\* The terminal ends, or could not be started; or the child comes to the direct
\* execution, which has no exec, only the report of its failure and the exit; or it
\* is killed from outside the kernel.
ChildExits(p) ==
  /\ child[p] = "running" \/ (p \in Mortal /\ child[p] \in {"granted", "stopped"})
  /\ child' = [child EXCEPT ![p] = "zombie"]
  /\ UNCHANGED <<managers, control, currentMode, files, dashboard, history>>

Stop(p) == child' = [child EXCEPT ![p] = IF @ = "running" THEN "stopped" ELSE @]
Continue(p) == child' = [child EXCEPT ![p] = IF @ = "stopped" THEN "running" ELSE @]
Kill(S) == child' = [p \in Tasks |-> IF p \in S THEN "gone" ELSE child[p]]

\* A waitpid(p, WUNTRACED) that returns: the child has stopped, or the wait
\* collects it, or it was collected before.
AwaitStopOf(p) ==
  /\ child[p] \in {"stopped", "zombie", "gone"}
  /\ child' = [child EXCEPT ![p] = IF @ = "zombie" THEN "gone" ELSE @]

-----------------------------------------------------------------------------
(* Starting a task: the kernel's half of launch and of the auto-start.     *)

Admits(p) ==
  /\ checkResources(available, Program[p].ram)
  /\ FirstFit(memoryBlocks, Program[p].ram) # 0

Grant(p) ==
  LET block == Allocated(memoryBlocks, p, Program[p].ram)
      created == createPCB(table, p, Program[p].priority)
  IN /\ Admits(p)
     /\ memoryBlocks' = allocateMemoryBlock(memoryBlocks, p, Program[p].ram)
     /\ available' = allocateResources(available, Program[p].ram)
     /\ table' = updateProcessState(updateMemoryBlock(created, p, block), p, "READY")
     /\ queues' = addProcessToReadyQueue(queues, p, Program[p].priority)
     /\ child' = [child EXCEPT ![p] = "granted"]
     /\ pc' = "stopwait" /\ cur' = p
     /\ UNCHANGED <<slots, single>>

Deny(p) ==
  /\ ~Admits(p)
  /\ child' = [child EXCEPT ![p] = "gone"]
  /\ Goto("top")
  /\ UNCHANGED managers

Start(p) ==
  /\ child[p] = "unborn"
  /\ Grant(p) \/ Deny(p)
  /\ UNCHANGED <<currentMode, files, dashboard, boots, leaked>>

AutoStart(p) == pc = "boot" /\ p \in Clocks /\ Start(p) /\ UNCHANGED programs

\* No task 8 in the catalogue, or pipe() or fork() fails.
BootWithoutClock ==
  /\ pc = "boot" /\ Goto("top")
  /\ UNCHANGED <<child, managers, currentMode, files, dashboard, history>>

\* Option 23 may have changed the mode before; the child has it from the fork.
LaunchTask(p) ==
  /\ pc = "menu" /\ Start(p)
  /\ separate' \in {separate, separate \cup ({p} \cap Windowed)}
  /\ UNCHANGED <<executed, orphans>>

\* The kernel waits for the child it has just admitted.
AwaitAdmitted ==
  /\ pc = "stopwait" /\ AwaitStopOf(cur) /\ Goto("top")
  /\ UNCHANGED <<managers, currentMode, files, dashboard, history>>

-----------------------------------------------------------------------------
(* The loop of main(): status file, command file, keyboard.                *)

\* Fault: the file is left as the kernel before this one has left it.
WriteNothing ==
  /\ pc = "top" /\ Goto("poll")
  /\ UNCHANGED <<child, managers, currentMode, files, dashboard, history>>

WriteStatus ==
  /\ pc = "top" /\ Goto("poll")
  /\ Tell(table)
  /\ UNCHANGED <<child, managers, currentMode, gui_command, dashboard, history>>

PollFindsNothing ==
  /\ pc = "poll" /\ gui_command = Nobody /\ Goto("menu")
  /\ UNCHANGED <<child, managers, currentMode, files, dashboard, history>>

\* select() waits 300 ms for a key.
MenuTimeout ==
  /\ pc = "menu" /\ Goto("poll")
  /\ UNCHANGED <<child, managers, currentMode, files, dashboard, history>>

\* The command is read, and the file closed, before it is truncated.
PollFinds ==
  /\ pc = "poll" /\ gui_command # Nobody
  /\ pc' = "clear" /\ cur' = gui_command
  /\ UNCHANGED <<child, managers, single, currentMode, files, dashboard, history>>

\* Fault: the command stays in the file.
ReadOnly ==
  /\ pc = "clear" /\ pc' = "command"
  /\ UNCHANGED <<child, managers, cur, single, currentMode, files, dashboard, history>>

ClearCommand ==
  /\ pc = "clear" /\ pc' = "command"
  /\ gui_command' = Nobody
  /\ UNCHANGED <<child, managers, cur, single, currentMode, status, dashboard, history>>

\* runSingleProcessByPID as far as runProcess.
RunSingle(p) ==
  /\ table[p].state = "READY"
  /\ queues' = removeProcessByPID(queues, p)
  /\ Tell(table)
  /\ pc' = "run" /\ single' = TRUE
  /\ UNCHANGED cur

\* The command names a task that is gone or is not READY.
RefuseCommand(p) ==
  /\ table[p].state # "READY"
  /\ Goto("top")
  /\ UNCHANGED <<queues, status>>

ExecuteCommand ==
  /\ pc = "command"
  /\ RunSingle(cur) \/ RefuseCommand(cur)
  /\ UNCHANGED <<child, table, available, memoryBlocks, slots, currentMode, gui_command,
                 dashboard, history>>

-----------------------------------------------------------------------------
(* Menu options.                                                           *)

Chosen == pc = "menu" /\ Goto("top") /\ UNCHANGED <<slots, files, dashboard, boots, programs>>

\* An option that shows something, or is refused.
ChooseNothing == Chosen /\ UNCHANGED <<child, managers, currentMode, leaked>>

ToKernelMode ==
  /\ Chosen /\ currentMode' = "kernel"
  /\ UNCHANGED <<child, managers, leaked>>

ToUserMode ==
  /\ Chosen /\ currentMode' = "user"
  /\ UNCHANGED <<child, managers, leaked>>

Minimize(p) ==
  /\ Chosen /\ p \in Registered(table)
  /\ queues' = removeProcessByPID(queues, p)
  /\ Stop(p)
  /\ table' = updateProcessState(table, p, "BLOCKED")
  /\ UNCHANGED <<available, memoryBlocks, currentMode, leaked>>

MakeReady(p) ==
  /\ Chosen
  /\ table' = updateProcessState(table, p, "READY")
  /\ queues' = addProcessToReadyQueue(queues, p, table[p].priority)
  /\ UNCHANGED <<child, available, memoryBlocks, currentMode, leaked>>

\* Fault: any registered task is put into a queue.
ResumeAny(p) == p \in Registered(table) /\ MakeReady(p)

Resume(p) == table[p].state = "BLOCKED" /\ MakeReady(p)

SwitchTo(p) == table[p].state \in {"BLOCKED", "NEW"} /\ MakeReady(p)

\* What every end of a task does to the managers.
Forget(p) ==
  /\ queues' = removeProcessByPID(queues, p)
  /\ available' = releaseResources(available, Program[p].ram, Capacity)
  /\ table' = removeProcess(table, p)

\* Fault: as in kernelKillProcess, the RAM block is not released.
TerminateOnly(p) == Kill({p}) /\ Forget(p) /\ UNCHANGED memoryBlocks

\* forceTerminateProcessByPID
ForceTerminate(p) ==
  /\ Kill({p})
  /\ Forget(p)
  /\ memoryBlocks' = releaseMemoryBlock(memoryBlocks, p)

Close(p) ==
  /\ Chosen /\ p \in Registered(table)
  /\ ForceTerminate(p)
  /\ UNCHANGED <<currentMode, leaked>>

\* The only end of a task that does not release its RAM block.
KernelKill(p) ==
  /\ Chosen /\ currentMode = "kernel" /\ p \in Registered(table)
  /\ Kill({p})
  /\ Forget(p)
  /\ leaked' = leaked \cup {p}
  /\ UNCHANGED <<memoryBlocks, currentMode>>

Simulated(p, q) ==
  <<Record(p, "Resource_A", "Resource_B"), Record(q, "Resource_B", "Resource_A")>>

DeadlockSimulation(p, q) ==
  /\ Chosen /\ currentMode = "kernel" /\ p # q /\ {p, q} \subseteq Registered(table)
  /\ ForceTerminate(detectDeadlock(Simulated(p, q)))
  /\ UNCHANGED <<currentMode, leaked>>

Shutdown ==
  /\ pc = "menu" /\ Goto("halted")
  /\ Kill(Registered(table))
  /\ table' = NoPCBs
  /\ queues' = IF Registered(table) = {} THEN queues ELSE NoItems
  /\ available' = FoldSet(LAMBDA p, n : releaseResources(n, Program[p].ram, Capacity),
                          available, Registered(table))
  /\ memoryBlocks' = FoldSet(LAMBDA p, blocks : releaseMemoryBlock(blocks, p),
                             memoryBlocks, Registered(table))
  /\ UNCHANGED <<slots, currentMode, files, dashboard, history>>

\* The kernel's program is replaced by a terminal; its children stay as they are.
OpenSchedulingTerminal ==
  /\ pc = "menu" /\ Goto("replaced")
  /\ UNCHANGED <<child, managers, currentMode, files, dashboard, history>>

\* Its case has no break and falls into the one above.
OpenGraphicalDashboard ==
  /\ pc = "menu" /\ Goto("replaced")
  /\ Tell(table)
  /\ UNCHANGED <<child, managers, currentMode, gui_command, dashboard, history>>

-----------------------------------------------------------------------------
(* The scheduler.                                                          *)

StartScheduler ==
  /\ pc = "menu" /\ pc' = "dispatch" /\ single' = FALSE
  /\ UNCHANGED <<child, managers, cur, currentMode, files, dashboard, history>>

SchedulerFinishes ==
  /\ pc = "dispatch" /\ ~hasReadyProcess(queues) /\ Goto("top")
  /\ UNCHANGED <<child, managers, currentMode, files, dashboard, history>>

Select(aged, k) ==
  LET p == Head(aged.queues[k]).pid
  IN /\ queues' = [aged.queues EXCEPT ![k] = Tail(@)]
     /\ table' = resetWaitingTime(aged.table, p)
     /\ pc' = "run" /\ cur' = p /\ UNCHANGED single

\* Aging, then the first item of the first queue, if aging has left one.
SelectNext ==
  /\ pc = "dispatch" /\ hasReadyProcess(queues)
  /\ \E aged \in {applyAging(queues, table, AgingThreshold)} :
       IF hasReadyProcess(aged.queues) THEN Select(aged, FirstQueue(aged.queues))
       ELSE queues' = aged.queues /\ table' = aged.table /\ Goto("top")
  /\ UNCHANGED <<child, available, memoryBlocks, slots, currentMode, files, dashboard,
                 history>>

\* runProcess returns: to the loop of runScheduler, or to the menu.
Return == pc' = (IF single THEN "top" ELSE "dispatch") /\ cur' = Nobody /\ single' = FALSE

\* runProcess as far as its first wait.
Dispatch ==
  LET running == updateProcessState(table, cur, "RUNNING")
  IN /\ pc = "run" /\ cur \in Registered(table) /\ slots > 0
     /\ slots' = slots - 1
     /\ table' = running
     /\ Tell(running)
     /\ Continue(cur)
     /\ pc' = IF Program[cur].type = "system" THEN "waiting" ELSE "slice"
     /\ UNCHANGED <<queues, available, memoryBlocks, cur, single, currentMode, gui_command,
                    dashboard, history>>

\* A child that ended is collected; releaseCompletedProcess follows.
Complete ==
  /\ Kill({cur})
  /\ slots' = slots + 1
  /\ table' = removeProcess(table, cur)
  /\ available' = releaseResources(available, Program[cur].ram, Capacity)
  /\ memoryBlocks' = releaseMemoryBlock(memoryBlocks, cur)
  /\ Tell(removeProcess(table, cur))
  /\ Return
  /\ UNCHANGED <<queues, currentMode, gui_command, dashboard, history>>

\* A SYSTEM task: the wait has no limit; that for a collected child fails at once.
SystemTaskEnds == pc = "waiting" /\ child[cur] \in {"zombie", "gone"} /\ Complete

\* Only a wait that collects the child ends a timed task.
TimedTaskEnds == pc = "slice" /\ child[cur] = "zombie" /\ Complete

\* The last second of the quantum is over: SIGSTOP.
QuantumExpires ==
  /\ pc = "slice" /\ pc' = "expired"
  /\ Stop(cur)
  /\ UNCHANGED <<managers, cur, single, currentMode, files, dashboard, history>>

\* Fault: the dashboard's file goes on telling of a running task.
RequeueUntold ==
  /\ pc = "expired" /\ AwaitStopOf(cur)
  /\ slots' = slots + 1
  /\ table' = updateProcessState(table, cur, "READY")
  /\ queues' = addProcessToReadyQueue(queues, cur, table[cur].priority)
  /\ Return
  /\ UNCHANGED <<available, memoryBlocks, currentMode, files, dashboard, history>>

Requeue ==
  LET ready == updateProcessState(table, cur, "READY")
  IN /\ pc = "expired" /\ AwaitStopOf(cur)
     /\ slots' = slots + 1
     /\ table' = ready
     /\ Tell(ready)
     /\ queues' = addProcessToReadyQueue(queues, cur, table[cur].priority)
     /\ Return
     /\ UNCHANGED <<available, memoryBlocks, currentMode, gui_command, dashboard, history>>

-----------------------------------------------------------------------------
(* The dashboard.  Of the table it has loaded, up to a second ago or before *)
(* another load, only the row that the user is about to click matters.     *)

DashboardOnly == UNCHANGED <<child, managers, control, currentMode, status, history>>

LoadStatus(p) ==
  /\ p \in Clicked /\ row = Nobody /\ pen = Nobody /\ gui_status[p] = "READY"
  /\ row' = p
  /\ DashboardOnly /\ UNCHANGED <<pen, gui_command>>

\* A load without the row, or an empty one while the kernel writes the file.
LoadWithoutRow ==
  /\ row' = Nobody
  /\ DashboardOnly /\ UNCHANGED <<pen, gui_command>>

\* A click on a READY row: writeGUIRunCommand opens, and so truncates, the file...
ClickRow(p) ==
  /\ row = p
  /\ row' = Nobody /\ pen' = p
  /\ gui_command' = Nobody
  /\ DashboardOnly

\* ... and writes the line when it closes it.
WriteCommand ==
  /\ pen # Nobody
  /\ gui_command' = pen /\ pen' = Nobody
  /\ DashboardOnly /\ UNCHANGED row

-----------------------------------------------------------------------------
KernelStep ==
  \/ (\E p \in Tasks : AutoStart(p)) \/ BootWithoutClock \/ AwaitAdmitted
  \/ WriteStatus \/ PollFindsNothing \/ MenuTimeout \/ PollFinds \/ ClearCommand \/ ExecuteCommand
  \/ SchedulerFinishes \/ SelectNext \/ Dispatch
  \/ SystemTaskEnds \/ TimedTaskEnds \/ QuantumExpires \/ Requeue

User ==
  \/ \E p \in Tasks :
       \/ LaunchTask(p)
       \/ Minimize(p) \/ Resume(p) \/ SwitchTo(p) \/ Close(p) \/ KernelKill(p)
       \/ \E q \in Tasks : DeadlockSimulation(p, q)
  \/ ChooseNothing \/ ToKernelMode \/ ToUserMode
  \/ StartScheduler \/ OpenSchedulingTerminal \/ OpenGraphicalDashboard
  \/ Shutdown \/ NextBoot \/ Interrupted

Children == \E p \in Tasks : ChildStops(p) \/ OpenWindow(p) \/ ChildExits(p)

Dashboard ==
  \/ \E p \in Tasks : LoadStatus(p) \/ ClickRow(p)
  \/ LoadWithoutRow \/ WriteCommand

Next == KernelStep \/ User \/ Children \/ Dashboard

Spec == Init /\ [][Next]_vars

\* The kernel does not stop between two waits; an admitted child stops itself; a
\* task that runs again and again ends.  (Each task ends once, so that it is enough
\* to say so of some task.)
FairSpec ==
  /\ Spec
  /\ WF_vars(KernelStep)
  /\ WF_vars(\E p \in Tasks : ChildStops(p))
  /\ SF_vars(\E p \in Tasks : child[p] = "running" /\ ChildExits(p))

-----------------------------------------------------------------------------
(* Properties.                                                             *)

\* The ranges of the variables.  (Among them that no task is ever executed but in a
\* terminal of its own: the direct mode, the default, has no exec.)
TypeOK ==
  /\ child \in [Tasks -> {"unborn", "granted", "stopped", "running", "zombie", "gone"}]
  /\ DOMAIN table = Tasks
  /\ \A p \in Registered(table) : table[p].state \in States /\ table[p].priority \in 1..3
  /\ \A k \in Queues : \A i \in DOMAIN queues[k] : queues[k][i].pid \in Tasks
  /\ available \in 0..Capacity /\ slots \in 0..Cores
  /\ currentMode \in {"user", "kernel"}
  /\ pc \in {"boot", "top", "poll", "menu", "stopwait", "clear", "command", "dispatch",
             "run", "waiting", "slice", "expired", "halted", "replaced", "killed"}
  /\ cur \in Tasks \cup {Nobody} /\ single \in BOOLEAN
  /\ gui_status \in [Tasks -> States \cup {"none"}]
  /\ {gui_command, row, pen} \subseteq Tasks \cup {Nobody}
  /\ boots \in 1..MaxBoots /\ leaked \subseteq Tasks
  /\ executed \subseteq separate /\ separate \subseteq Windowed
  /\ orphans \cup stale \subseteq Tasks

RamOf(S) == FoldSet(LAMBDA p, n : Program[p].ram + n, 0, S)

\* The layout covers the RAM, block by block.
Tiled ==
  /\ memoryBlocks # <<>>
  /\ Head(memoryBlocks).start = 0 /\ Last(memoryBlocks).end = Capacity
  /\ \A i \in DOMAIN memoryBlocks :
       /\ SizeOf(memoryBlocks[i]) > 0
       /\ i > 1 => memoryBlocks[i].start = memoryBlocks[i - 1].end

\* Every task has the block its PCB says; no other task has one but those that
\* the process killer removed.
BlocksAreOwned ==
  /\ \A p \in Registered(table) :
       Block(table[p].start, table[p].end, p) \in ToSet(memoryBlocks)
  /\ \A b \in ToSet(memoryBlocks) :
       IsFree(b) \/ b.pid \in Registered(table) \cup leaked

\* Free neighbours are merged, but for the first free block: a merge may leave it
\* beside another one, and allocations in it may move the two up the layout
\* (mergeFreeMemoryBlocks).
FreeIsMerged ==
  \A i \in 1..(Len(memoryBlocks) - 1) :
    IsFree(memoryBlocks[i]) /\ IsFree(memoryBlocks[i + 1]) =>
      \A j \in 1..(i - 1) : ~IsFree(memoryBlocks[j])

\* Through launches, runs, kills, deadlock recovery and shutdown, what is free and
\* what the registered tasks were granted make up the machine, in the counter and
\* in the layout; the dispatched task alone holds a CPU slot; and a machine that
\* has shut down has everything back but the blocks the process killer leaked.
BookkeepingIsExact ==
  /\ TypeOK
  /\ available + RamOf(Registered(table)) = Capacity
  /\ Tiled /\ BlocksAreOwned /\ FreeIsMerged
  /\ slots = Cores - (IF pc \in {"waiting", "slice", "expired"} THEN 1 ELSE 0)
  /\ pc = "halted" => Registered(table) = {} /\ queues = NoItems /\ available = Capacity

ItemsOf(p) == UNION {{k} \X {i \in DOMAIN queues[k] : queues[k][i].pid = p} : k \in Queues}

\* However often a task is minimized, resumed, switched to, aged, dispatched from
\* the dashboard or requeued, it is READY exactly while it has an item, it has one
\* and not two, and that lies in the queue of the priority its PCB shows.  Between
\* its selection and its dispatch a task is READY without an item.
ReadyIsQueuedOnce ==
  \A p \in Tasks :
    LET ready == table[p].state = "READY" /\ ~(pc = "run" /\ cur = p)
    IN /\ Cardinality(ItemsOf(p)) = IF ready THEN 1 ELSE 0
       /\ \A at \in ItemsOf(p) : at[1] = Level(table[p].priority)

\* No process that the kernel forked for a task runs on behind its back: one that
\* runs is the one that was dispatched last, and its PCB says RUNNING, or it was
\* left running by a kernel that was interrupted, and then no later kernel has it in
\* its table.  The dashboard's file calls RUNNING what the table does; it keeps what
\* an interrupted kernel told it, until the next one first offers its menu.  (In
\* Separate Terminal Mode that process is a terminal, and the program in its window
\* runs whatever becomes of it.)
NothingRunsUnseen ==
  /\ \A p \in Tasks :
       /\ child[p] = "running" => \/ cur = p /\ pc \in {"waiting", "slice"}
                                 \/ p \in orphans \ Registered(table)
       /\ table[p].state = "RUNNING" <=> cur = p /\ pc \in {"waiting", "slice", "expired"}
       /\ gui_status[p] = "RUNNING" <=> table[p].state = "RUNNING" \/ p \in stale
  /\ stale # {} => pc \in {"killed", "boot", "stopwait", "top"}

\* A registered task whose child was collected behind the scheduler's back: by the
\* wait of the launch or of an expired quantum, which looks at stops only.
Ghost == \E p \in Registered(table) : child[p] = "gone"

Scheduling == pc \in {"dispatch", "run", "waiting", "slice", "expired"}

\* A run of the scheduler ends, however its tasks are requeued and aged, unless it
\* has a ghost, which it dispatches for ever; and the dashboard's command is taken,
\* whatever is chosen from the menu, unless the kernel ends first or is in such a
\* run.  (A command that is written between the read and the truncation is lost.)
PromisesKept ==
  /\ Scheduling ~> (~Scheduling \/ Ghost)
  /\ gui_command # Nobody ~> (gui_command = Nobody \/ Ended \/ Ghost)
=============================================================================
