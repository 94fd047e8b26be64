----------------------------- MODULE ReadyQueues -----------------------------
(***************************************************************************)
(* The three ready queues with aging, under the scheduler loop of the menu *)
(* thread and the cleanup by the monitor threads.  Module Kernel counts    *)
(* the items of a task; here they have a queue, a position and a priority. *)
(*                                                                         *)
(* applyAging is not atomic: it drains the queues into a local list and    *)
(* puts the items back one at a time, and a monitor thread may search the  *)
(* queues meanwhile.  Draining itself is one step, because a search that   *)
(* falls into it either finds the item or does not.                        *)
(***************************************************************************)
EXTENDS Integers, Sequences, FiniteSets, SequencesExt

CONSTANTS
  Tasks,           \* the pids; each is used once
  BasePriority,    \* the priority of each task in the catalog
  ToCompletion,    \* SYSTEM, KERNEL and BACKGROUND tasks: no quantum
  AgingThreshold,  \* how many rounds a task waits before it is promoted
  NoItem

Queues == 1..3     \* systemQueue, interactiveQueue, backgroundQueue

ASSUME ReadyQueuesAssumption ==
  /\ IsFiniteSet(Tasks)
  /\ BasePriority \in [Tasks -> Queues]
  /\ ToCompletion \subseteq Tasks
  /\ AgingThreshold \in Nat \ {0}
  /\ NoItem \notin [pid : Tasks, priority : Queues]

VARIABLES
  queue,     \* the three queues
  batch,     \* allProcesses, the local list of applyAging
  status,    \* the processState in the PCB; "new" before launch, "gone" after
  priority,  \* the priority in the PCB
  waiting,   \* the waitingTime in the PCB
  mon,       \* the monitor thread: "waiting", "forget" or "done"
  pc,        \* where the scheduler is; "idle" is the menu
  item,      \* selectedItem
  passed     \* history: selections of others while the task had an item

pcbs == <<status, priority, waiting>>
vars == <<queue, batch, pcbs, mon, pc, item, passed>>

Items == [pid : Tasks, priority : Queues]

Alive(p) == status[p] \notin {"new", "gone"}

\* The count in passed stops one above the bound that BoundedBypass states.
BypassBound == 2 * AgingThreshold - 1 + Cardinality(Tasks) - 1

ItemFor(p) == [pid |-> p, priority |-> priority[p]]

\* addProcessToReadyQueue and insertAgedProcess: at the end of the queue that
\* the priority names.
Add(q, it) == [q EXCEPT ![it.priority] = Append(@, it)]

\* Fault: a task that comes back is put in front.
AddInFront(q, it) == [q EXCEPT ![it.priority] = <<it>> \o @]

removeFromQueueByPID(q, p) ==
  FoldLeft(LAMBDA kept, it : IF it.pid = p THEN kept ELSE Append(kept, it), <<>>, q)

RemoveByPID(q, p) == [k \in Queues |-> removeFromQueueByPID(q[k], p)]

HasReadyProcess == \E k \in Queues : queue[k] # <<>>

Held(q, p) == \E k \in Queues : \E i \in DOMAIN q[k] : q[k][i].pid = p

Init ==
  /\ queue = [k \in Queues |-> <<>>]
  /\ batch = <<>>
  /\ status = [p \in Tasks |-> "new"]
  /\ priority = BasePriority
  /\ waiting = [p \in Tasks |-> 0]
  /\ mon = [p \in Tasks |-> "waiting"]
  /\ pc = "idle"
  /\ item = NoItem
  /\ passed = [p \in Tasks |-> 0]

-----------------------------------------------------------------------------
(* The menu.                                                               *)

LaunchTask(p) ==
  /\ pc = "idle" /\ status[p] = "new"
  /\ status' = [status EXCEPT ![p] = "ready"]
  /\ queue' = Add(queue, ItemFor(p))
  /\ UNCHANGED <<batch, priority, waiting, mon, pc, item, passed>>

\* minimizeProcess and handleInputInterrupt.
PauseTask(p) ==
  /\ pc = "idle" /\ status[p] \in {"ready", "running"}
  /\ status' = [status EXCEPT ![p] = "paused"]
  /\ queue' = RemoveByPID(queue, p)
  /\ passed' = [passed EXCEPT ![p] = 0]
  /\ UNCHANGED <<batch, priority, waiting, mon, pc, item>>

\* resumeProcess, switchToProcess, completeInterrupt, a restored window.
ResumeTask(p) ==
  /\ pc = "idle" /\ status[p] = "paused"
  /\ status' = [status EXCEPT ![p] = "ready"]
  /\ queue' = Add(queue, ItemFor(p))
  /\ UNCHANGED <<batch, priority, waiting, mon, pc, item, passed>>

\* kernelKillProcess, closeProcess, forceTerminateProcessByPID.
KillTask(p) ==
  /\ pc = "idle" /\ Alive(p)
  /\ status' = [status EXCEPT ![p] = "gone"]
  /\ queue' = RemoveByPID(queue, p)
  /\ passed' = [passed EXCEPT ![p] = 0]
  /\ UNCHANGED <<batch, priority, waiting, mon, pc, item>>

\* Options 11 (FALSE) and 28 (TRUE), and the automatic run of the menu loop.
StartScheduler(parallel) ==
  /\ pc = "idle" /\ HasReadyProcess
  /\ pc' = IF parallel THEN "parallel" ELSE "loop"
  /\ UNCHANGED <<queue, batch, pcbs, mon, item, passed>>

ClearAllQueues ==
  /\ pc = "idle"
  /\ \A p \in Tasks : ~Alive(p)
  /\ queue' = [k \in Queues |-> <<>>]
  /\ pc' = "halted"
  /\ passed' = [p \in Tasks |-> 0]
  /\ UNCHANGED <<batch, pcbs, mon, item>>

-----------------------------------------------------------------------------
(* The cleanup by the monitor thread of p: the queues first, the PCB later. *)

MonitorDequeues(p) ==
  /\ mon[p] = "waiting" /\ Alive(p)
  /\ queue' = RemoveByPID(queue, p)
  /\ mon' = [mon EXCEPT ![p] = "forget"]
  /\ passed' = IF Held(queue, p) THEN [passed EXCEPT ![p] = 0] ELSE passed
  /\ UNCHANGED <<batch, pcbs, pc, item>>

MonitorForgets(p) ==
  /\ mon[p] = "forget"
  /\ mon' = [mon EXCEPT ![p] = "done"]
  /\ status' = [status EXCEPT ![p] = "gone"]
  /\ UNCHANGED <<queue, batch, priority, waiting, pc, item, passed>>

-----------------------------------------------------------------------------
(* runScheduler: aging, selection, and what becomes of the selected task.  *)

EndLoop ==
  /\ pc = "loop" /\ ~HasReadyProcess
  /\ pc' = "idle"
  /\ UNCHANGED <<queue, batch, pcbs, mon, item, passed>>

DrainQueues ==
  /\ pc = "loop" /\ HasReadyProcess
  /\ batch' = queue[1] \o queue[2] \o queue[3]
  /\ queue' = [k \in Queues |-> <<>>]
  /\ pc' = "aging"
  /\ UNCHANGED <<pcbs, mon, item, passed>>

\* Faults: the PCB is promoted but not the item; nobody is promoted.
AgeOnlyPCB ==
  /\ pc = "aging" /\ batch # <<>> /\ Alive(Head(batch).pid)
  /\ LET p == Head(batch).pid
         due == waiting[p] + 1 >= AgingThreshold /\ priority[p] > 1
     IN /\ waiting' = [waiting EXCEPT ![p] = IF priority[p] = 1 \/ due THEN 0 ELSE @ + 1]
        /\ priority' = [priority EXCEPT ![p] = IF due THEN @ - 1 ELSE @]
        /\ queue' = Add(queue, Head(batch))
  /\ batch' = Tail(batch)
  /\ UNCHANGED <<status, mon, pc, item, passed>>

AgeWithoutPromotion ==
  /\ pc = "aging" /\ batch # <<>> /\ Alive(Head(batch).pid)
  /\ queue' = Add(queue, Head(batch))
  /\ batch' = Tail(batch)
  /\ UNCHANGED <<pcbs, mon, pc, item, passed>>

\* One turn of the second loop of applyAging, for an item with a PCB.  At
\* priority 1 the waiting time is only displayed; it is not counted here.
AgeItem ==
  /\ pc = "aging" /\ batch # <<>> /\ Alive(Head(batch).pid)
  /\ LET p == Head(batch).pid
         due == waiting[p] + 1 >= AgingThreshold /\ priority[p] > 1
         level == IF due THEN priority[p] - 1 ELSE priority[p]
     IN /\ waiting' = [waiting EXCEPT ![p] = IF level = 1 \/ due THEN 0 ELSE @ + 1]
        /\ priority' = [priority EXCEPT ![p] = level]
        /\ queue' = Add(queue, [pid |-> p, priority |-> level])
  /\ batch' = Tail(batch)
  /\ UNCHANGED <<status, mon, pc, item, passed>>

DropItem ==
  /\ pc = "aging" /\ batch # <<>> /\ ~Alive(Head(batch).pid)
  /\ batch' = Tail(batch)
  /\ passed' = [passed EXCEPT ![Head(batch).pid] = 0]
  /\ UNCHANGED <<queue, pcbs, mon, pc, item>>

AgingDone ==
  /\ pc = "aging" /\ batch = <<>>
  /\ pc' = "select"
  /\ UNCHANGED <<queue, batch, pcbs, mon, item, passed>>

\* The first item of the first queue that has one; its waiting time restarts.
TakeFrom(k) ==
  /\ queue[k] # <<>> /\ \A j \in 1..(k - 1) : queue[j] = <<>>
  /\ queue' = [queue EXCEPT ![k] = Tail(@)]
  /\ passed' = [q \in Tasks |-> IF q # Head(queue[k]).pid /\ Held(queue, q)
                                  THEN IF passed[q] > BypassBound THEN passed[q]
                                       ELSE passed[q] + 1
                                  ELSE 0]

ResetWaitingTime(p) == waiting' = [waiting EXCEPT ![p] = IF Alive(p) THEN 0 ELSE @]

SelectNextProcess ==
  /\ pc = "select"
  /\ \E k \in Queues : /\ TakeFrom(k)
                       /\ item' = Head(queue[k])
                       /\ ResetWaitingTime(Head(queue[k]).pid)
  /\ pc' = "run"
  /\ UNCHANGED <<batch, status, priority, mon>>

NothingSelected ==
  /\ pc = "select" /\ ~HasReadyProcess
  /\ pc' = "idle"
  /\ UNCHANGED <<queue, batch, pcbs, mon, item, passed>>

\* runProcess: skip a task without a PCB, else update its state.
SkipProcess ==
  /\ pc = "run" /\ ~Alive(item.pid)
  /\ pc' = "loop" /\ item' = NoItem
  /\ UNCHANGED <<queue, batch, pcbs, mon, passed>>

StartProcess ==
  /\ pc = "run" /\ Alive(item.pid)
  /\ status' = [status EXCEPT ![item.pid] = "running"]
  /\ pc' = "running"
  /\ UNCHANGED <<queue, batch, priority, waiting, mon, item, passed>>

\* The task has ended, or the monitor thread has cleaned it up.
CompleteProcess ==
  /\ pc = "running"
  /\ status' = [status EXCEPT ![item.pid] = "gone"]
  /\ pc' = "loop" /\ item' = NoItem
  /\ UNCHANGED <<queue, batch, priority, waiting, mon, passed>>

\* A hidden window ends the loop as well.
HideProcess ==
  /\ pc = "running" /\ item.pid \notin ToCompletion
  /\ IF Alive(item.pid)
       THEN status' = [status EXCEPT ![item.pid] = "paused"] /\ pc' = "idle"
       ELSE UNCHANGED status /\ pc' = "loop"
  /\ item' = NoItem
  /\ UNCHANGED <<queue, batch, priority, waiting, mon, passed>>

\* Fault: see AddInFront.
RequeueInFront ==
  /\ pc = "running" /\ item.pid \notin ToCompletion
  /\ status' = IF Alive(item.pid) THEN [status EXCEPT ![item.pid] = "ready"] ELSE status
  /\ queue' = AddInFront(queue, item)
  /\ pc' = "loop" /\ item' = NoItem
  /\ UNCHANGED <<batch, priority, waiting, mon, passed>>

\* The quantum has expired: back into the queue, with the item's priority.
RequeueProcess ==
  /\ pc = "running" /\ item.pid \notin ToCompletion
  /\ status' = IF Alive(item.pid) THEN [status EXCEPT ![item.pid] = "ready"] ELSE status
  /\ queue' = Add(queue, item)
  /\ pc' = "loop" /\ item' = NoItem
  /\ UNCHANGED <<batch, priority, waiting, mon, passed>>

\* runMultitaskingDispatch: no aging, and everybody runs.
DispatchParallel ==
  /\ pc = "parallel"
  /\ \E k \in Queues :
       LET p == Head(queue[k]).pid
       IN /\ TakeFrom(k)
          /\ ResetWaitingTime(p)
          /\ status' = IF Alive(p) THEN [status EXCEPT ![p] = "running"] ELSE status
  /\ UNCHANGED <<batch, priority, mon, pc, item>>

ParallelDone ==
  /\ pc = "parallel" /\ ~HasReadyProcess
  /\ pc' = "idle"
  /\ UNCHANGED <<queue, batch, pcbs, mon, item, passed>>

Halted == pc = "halted" /\ UNCHANGED vars

-----------------------------------------------------------------------------
Menu ==
  \/ ClearAllQueues
  \/ \E parallel \in BOOLEAN : StartScheduler(parallel)
  \/ \E p \in Tasks : LaunchTask(p) \/ PauseTask(p) \/ ResumeTask(p) \/ KillTask(p)

\* Everything the scheduler does without waiting for the running task.
Scheduling ==
  \/ EndLoop \/ DrainQueues \/ AgeItem \/ DropItem \/ AgingDone
  \/ SelectNextProcess \/ NothingSelected \/ SkipProcess \/ StartProcess
  \/ DispatchParallel \/ ParallelDone

\* How the turn of a task ends.
TurnEnds == CompleteProcess \/ HideProcess \/ RequeueProcess

Next ==
  \/ Menu \/ Scheduling \/ TurnEnds
  \/ \E p \in Tasks : MonitorDequeues(p) \/ MonitorForgets(p)
  \/ Halted

\* A turn ends: a quantum by itself; of a task without a quantum it is assumed.
Fairness == WF_vars(Scheduling) /\ WF_vars(TurnEnds)

Spec == Init /\ [][Next]_vars
FairSpec == Spec /\ Fairness

-----------------------------------------------------------------------------
(* Properties.                                                             *)

\* The ranges of the variables.
TypeOK ==
  /\ queue \in [Queues -> Seq(Items)]
  /\ batch \in Seq(Items)
  /\ status \in [Tasks -> {"new", "ready", "running", "paused", "gone"}]
  /\ priority \in [Tasks -> Queues]
  /\ waiting \in [Tasks -> Nat]
  /\ mon \in [Tasks -> {"waiting", "forget", "done"}]
  /\ pc \in {"idle", "loop", "aging", "select", "run", "running", "parallel", "halted"}
  /\ item \in Items \cup {NoItem}
  /\ passed \in [Tasks -> Nat]

AllItems == queue[1] \o queue[2] \o queue[3] \o batch

Waits(p) == \E i \in DOMAIN AllItems : AllItems[i].pid = p

\* No task stands twice in the queues, or in a queue while it has the CPU: it
\* would be aged twice a round and run twice.  Enqueueing never looks for an
\* item that is already there (addProcessToReadyQueue).
QueuedOnce ==
  \A i, j \in DOMAIN AllItems :
    /\ i # j => AllItems[i].pid # AllItems[j].pid
    /\ item # NoItem => AllItems[i].pid # item.pid

\* The item and the PCB keep a priority each, written in different places
\* (applyAging, improvePriority, the requeue with the copied item): an item
\* always stands in the queue that the priority in the PCB names.
InTheRightQueue ==
  \A k \in Queues : \A i \in DOMAIN queue[k] :
    LET p == queue[k][i].pid
    IN queue[k][i].priority = k /\ (Alive(p) => priority[p] = k)

\* Aging bounds how often a waiting task is passed over: two promotions of
\* AgingThreshold rounds each, then those ahead of it in the system queue.
BoundedBypass == \A p \in Tasks : passed[p] <= BypassBound

\* A task that is ready, and whose cleanup has not begun, has an item: between
\* the queues, the local list of applyAging and the CPU none is dropped.
ReadyIsHeld ==
  \A p \in Tasks :
    status[p] = "ready" /\ mon[p] = "waiting" =>
      \/ Waits(p)
      \/ item # NoItem /\ item.pid = p

\* Queues, PCBs and the task that runs agree with each other.
QueuesMatchTable == TypeOK /\ QueuedOnce /\ InTheRightQueue /\ ReadyIsHeld

\* A scheduler run serves every task that waits, however often others are
\* requeued, unless it is ended by a hidden window (runScheduler).
RunServesEverybody ==
  \A p \in Tasks : (pc # "idle" /\ Waits(p)) ~> (pc = "idle" \/ ~Waits(p))

=============================================================================
