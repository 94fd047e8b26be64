---------------------------- MODULE KernelProofs ----------------------------
(***************************************************************************)
(* Proofs about module Kernel, for any number of tasks, any demands and    *)
(* any machine, in three parts: the ledger (IInv), the scheduling (QInv),  *)
(* and that Kernel implements TaskLifecycle.  Each invariant is inductive: *)
(* a lemma takes one group of actions and shows that no action of the      *)
(* group breaks it; the theorems draw the conclusions.                     *)
(***************************************************************************)
EXTENDS KernelProperties, TLAPS

USE KernelAssumption
    DEF tables, ledger, monitors, loops, MainKeeps, ChildOnly, Goto,
        IInv, TypeOK, CoresReturned, NoOrphanBlock, CleanupOrder, TasksFit,
        Registered, ChildStates, PcbStates, MonitorStates, CleanupLabels,
        LaunchLabels, RunLabels, TaskLabels, IdleLabels, GrantLabels,
        HoldLabels, FreedLabels

-----------------------------------------------------------------------------
\* The kernel boots with nothing launched and everything free.
LEMMA InitialState == Init => IInv
<1>. SUFFICES ASSUME Init PROVE IInv
  OBVIOUS
<1>. USE DEF Init
<1>1. TypeOK
  <2>1. /\ child \in [Tasks -> ChildStates]
        /\ pcb \in [Tasks -> PcbStates]
        /\ mon \in [Tasks -> MonitorStates]
        /\ ready \in [Tasks -> Nat]
    OBVIOUS
  <2>2. {avail, slots, monTmp, mainTmp} \subseteq 0 .. Total
    OBVIOUS
  <2>. QED
    BY <2>1, <2>2
<1>2. CoresReturned
  OBVIOUS
<1>3. NoOrphanBlock /\ CleanupOrder /\ TasksFit
  OBVIOUS
<1>. QED
  BY <1>1, <1>2, <1>3

\* A child stops itself, ends, or is killed.
LEMMA ChildKeeps ==
  ASSUME IInv, NEW p \in Tasks,
         ChildStops(p) \/ ChildExits(p) \/ ChildEnds(p)
  PROVE  IInv'
<1>1. CASE ChildStops(p)
  BY <1>1 DEF ChildStops
<1>2. CASE ChildExits(p)
  BY <1>2 DEF ChildExits
<1>3. CASE ChildEnds(p)
  BY <1>3 DEF ChildEnds
<1>. QED
  BY <1>1, <1>2, <1>3

\* The monitor thread reaps its child and cleans up after it.
LEMMA MonitorKeeps ==
  ASSUME IInv, NEW p \in Tasks, Monitor(p)
  PROVE  IInv'
<1>1. CASE MonitorReaps(p)
  BY <1>1 DEF MonitorReaps, Collect
<1>2. CASE MonitorGivesUp(p)
  BY <1>2 DEF MonitorGivesUp
<1>3. CASE MonitorEnters(p)
  BY <1>3 DEF MonitorEnters
<1>4. CASE MonitorMarks(p)
  BY <1>4 DEF MonitorMarks, SetState
<1>5. CASE MonitorDequeues(p)
  BY <1>5 DEF MonitorDequeues, RemoveProcessByPID
<1>6. CASE MonitorUnblocks(p)
  BY <1>6 DEF MonitorUnblocks
<1>7. CASE MonitorLoads(p)
  BY <1>7 DEF MonitorLoads
<1>8. CASE MonitorStores(p)
  <2>1. avail' \in 0 .. Total
    BY <1>8 DEF MonitorStores, Refund
  <2>. QED
    BY <1>8, <2>1 DEF MonitorStores
<1>9. CASE MonitorForgets(p)
  BY <1>9 DEF MonitorForgets
<1>. QED
  BY <1>1, <1>2, <1>3, <1>4, <1>5, <1>6, <1>7, <1>8, <1>9 DEF Monitor

\* The menu thread cleans up, without the mutex.
LEMMA CleanKeeps ==
  ASSUME IInv, Clean
  PROVE  IInv'
<1>1. CASE Complete
  BY <1>1 DEF Complete, Return
<1>2. CASE CleanDequeue
  BY <1>2 DEF CleanDequeue, RemoveProcessByPID
<1>3. CASE CleanMark
  BY <1>3 DEF CleanMark, SetState
<1>4. CASE CleanUnblock
  BY <1>4 DEF CleanUnblock
<1>5. CASE CleanLoad
  BY <1>5 DEF CleanLoad
<1>6. CASE CleanStore
  BY <1>6 DEF CleanStore, Refund
<1>7. CASE CleanForget
  BY <1>7 DEF CleanForget, Return
<1>. QED
  BY <1>1, <1>2, <1>3, <1>4, <1>5, <1>6, <1>7 DEF Clean

\* A launch, from the request to the monitor thread.
LEMMA LaunchKeeps ==
  ASSUME IInv, Launch
  PROVE  IInv'
<1>1. CASE CheckResources
  BY <1>1 DEF CheckResources, Deny
<1>2. CASE AllocateBlock
  BY <1>2 DEF AllocateBlock, Deny
<1>3. CASE TakeResources
  BY <1>3 DEF TakeResources
<1>4. CASE ChargeResources
  BY <1>4 DEF ChargeResources
<1>5. CASE Register
  BY <1>5 DEF Register, Enqueue
<1>6. CASE AwaitStop
  BY <1>6 DEF AwaitStop, Collect
<1>7. CASE SpawnMonitor
  BY <1>7 DEF SpawnMonitor
<1>8. CASE AwaitDenied
  BY <1>8 DEF AwaitDenied, Collect
<1>. QED
  BY <1>1, <1>2, <1>3, <1>4, <1>5, <1>6, <1>7, <1>8 DEF Launch

\* The scheduler, in both modes.
LEMMA ScheduleKeeps ==
  ASSUME IInv, Schedule
  PROVE  IInv'
<1>1. CASE StartScheduler
  BY <1>1 DEF StartScheduler
<1>2. CASE Restore
  BY <1>2 DEF Restore, ReadyAgain, SetState, SetLabel
<1>3. CASE RestoreDone
  BY <1>3 DEF RestoreDone
<1>4. CASE NothingToDispatch
  BY <1>4 DEF NothingToDispatch
<1>5. ASSUME NEW q \in Tasks, LookToRestore(q) PROVE IInv'
  BY <1>5 DEF LookToRestore
<1>6. ASSUME NEW q \in Tasks, Select(q) PROVE IInv'
  BY <1>6 DEF Select
<1>7. ASSUME NEW q \in Tasks, DispatchParallel(q) PROVE IInv'
  BY <1>7 DEF DispatchParallel, SetState, SetLabel, Continued
<1>8. CASE AcquireCores
  BY <1>8 DEF AcquireCores, SetLabel
<1>9. CASE StartRunning
  BY <1>9 DEF StartRunning, SetState, Continued
<1>10. CASE AwaitCompletion
  BY <1>10 DEF AwaitCompletion, Collect, ReleaseCores
<1>11. CASE CompleteInSlice
  <2>1. cur \in Tasks /\ slots' = Total
    BY <1>11 DEF CompleteInSlice, ReleaseCores
  <2>. QED
    BY <1>11, <2>1 DEF CompleteInSlice, Collect
<1>12. CASE HideInSlice
  <2>1. cur \in Tasks /\ slots' = Total
    BY <1>12 DEF HideInSlice, ReleaseCores
  <2>. QED
    BY <1>12, <2>1 DEF HideInSlice, Stopped, SetState, SetLabel
<1>13. CASE QuantumExpires
  BY <1>13 DEF QuantumExpires, Stopped
<1>14. CASE FinishExpired
  BY <1>14 DEF FinishExpired, Collect, ReleaseCores
<1>15. CASE StoppedExpired
  BY <1>15 DEF StoppedExpired, ReleaseCores
<1>16. CASE Requeue
  BY <1>16 DEF Requeue, ReadyAgain, SetState, SetLabel
<1>17. CASE AfterRun
  BY <1>17 DEF AfterRun
<1>18. CASE ParallelDone
  BY <1>18 DEF ParallelDone, HasReadyProcess
<1>. QED
  BY <1>1, <1>2, <1>3, <1>4, <1>5, <1>6, <1>7, <1>8, <1>9, <1>10, <1>11,
       <1>12, <1>13, <1>14, <1>15, <1>16, <1>17, <1>18 DEF Schedule

\* Shutdown.
LEMMA ShutDownKeeps ==
  ASSUME IInv, ShutDown
  PROVE  IInv'
<1>1. ASSUME NEW q \in Tasks, QuitKill(q) PROVE IInv'
  BY <1>1 DEF QuitKill, Killed
<1>2. CASE QuitPoll
  BY <1>2 DEF QuitPoll, Collect
<1>3. CASE ClearQueues
  BY <1>3 DEF ClearQueues
<1>4. CASE JoinMonitors
  BY <1>4 DEF JoinMonitors
<1>. QED
  BY <1>1, <1>2, <1>3, <1>4 DEF ShutDown

\* What the user chooses.
LEMMA ChoiceKeeps ==
  ASSUME IInv, Choice
  PROVE  IInv'
<1>1. CASE ChooseNothing
  BY <1>1 DEF ChooseNothing
<1>2. CASE ConfirmClose
  BY <1>2 DEF ConfirmClose, Killed
<1>3. CASE ChooseShutdown
  BY <1>3 DEF ChooseShutdown
<1>4. ASSUME NEW parallel \in BOOLEAN, ChooseScheduler(parallel) PROVE IInv'
  BY <1>4 DEF ChooseScheduler
<1>5. ASSUME NEW q \in Tasks, Fork(q) PROVE IInv'
  BY <1>5 DEF Fork
<1>6. ASSUME NEW q \in Tasks, ChooseForTask(q) PROVE IInv'
  BY <1>6 DEF ChooseForTask
<1>7. ASSUME NEW q \in Tasks, ChooseClose(q) PROVE IInv'
  BY <1>7 DEF ChooseClose
<1>. QED
  BY <1>1, <1>2, <1>3, <1>4, <1>5, <1>6, <1>7 DEF Choice

\* Everything the menu thread does on its own.
LEMMA MainKeepsIInv ==
  ASSUME IInv, MainStep
  PROVE  IInv'
<1>1. CASE StartLoop
  BY <1>1 DEF StartLoop
<1>2. CASE HideWindow
  BY <1>2 DEF HideWindow, Stopped, SetState, SetLabel, WindowDone
<1>3. CASE ShowParallel
  BY <1>3 DEF ShowParallel, Continued, SetState, SetLabel, WindowDone
<1>4. CASE ShowReady
  BY <1>4 DEF ShowReady, ReadyAgain, SetState, SetLabel, WindowDone
<1>5. CASE WindowsDone
  BY <1>5 DEF WindowsDone, HasReadyProcess
<1>6. CASE SweepDone
  BY <1>6 DEF SweepDone
<1>7. ASSUME NEW q \in Tasks, LookAtWindow(q) PROVE IInv'
  BY <1>7 DEF LookAtWindow, MayBeHidden
<1>8. ASSUME NEW q \in Tasks, Sweep(q) PROVE IInv'
  BY <1>8 DEF Sweep, Collect
<1>9. CASE PauseTask
  BY <1>9 DEF PauseTask, RemoveProcessByPID, Stopped, SetState, SetLabel
<1>10. CASE ResumeTask
  BY <1>10 DEF ResumeTask, ReadyAgain, SetState, SetLabel
<1>11. CASE EnqueueReady
  BY <1>11 DEF EnqueueReady, Enqueue, Continued, Return
<1>12. CASE PollKilled
  BY <1>12 DEF PollKilled, Collect
<1>. QED
  BY <1>1, <1>2, <1>3, <1>4, <1>5, <1>6, <1>7, <1>8, <1>9, <1>10, <1>11,
       <1>12, CleanKeeps, LaunchKeeps, ScheduleKeeps, ShutDownKeeps DEF
       MainStep

\* IInv is inductive.
LEMMA StepKeeps == IInv /\ [Next]_vars => IInv'
<1>. SUFFICES ASSUME IInv, [Next]_vars PROVE IInv'
  OBVIOUS
<1>1. ASSUME NEW p \in Tasks,
             ChildStops(p) \/ ChildExits(p) \/ ChildEnds(p) \/ Monitor(p)
      PROVE  IInv'
  BY <1>1, ChildKeeps, MonitorKeeps
<1>2. CASE Choice \/ MainStep
  BY <1>2, ChoiceKeeps, MainKeepsIInv
<1>3. CASE SeeHidden
  BY <1>3 DEF SeeHidden
<1>4. CASE UNCHANGED vars
  BY <1>4 DEF vars
<1>. QED
  BY <1>1, <1>2, <1>3, <1>4 DEF Next, Halted

HIDE DEF IInv, TypeOK, NoOrphanBlock, CoresReturned

\* The inductive invariant holds in every reachable state of the kernel.
THEOREM KernelInvariant == Spec => []IInv
  BY InitialState, StepKeeps, PTL DEF Spec

\* The counters stay between zero and what the machine was booted with, and the
\* menu thread works on a task exactly where its program says so.
THEOREM KernelTypes == Spec => []TypeOK
<1>1. IInv => TypeOK
  BY DEF IInv
<1>. QED
  BY <1>1, KernelInvariant, PTL

\* No interleaving of the unlocked cleanups leaves a RAM block without a task.
THEOREM KernelNoOrphanBlock == Spec => []NoOrphanBlock
<1>1. IInv => NoOrphanBlock
  BY DEF IInv
<1>. QED
  BY <1>1, KernelInvariant, PTL

\* Every core acquired for a dispatch is released, and acquiring never blocks.
THEOREM KernelCoresReturned == Spec => []CoresReturned
<1>1. IInv => CoresReturned
  BY DEF IInv
<1>. QED
  BY <1>1, KernelInvariant, PTL

-----------------------------------------------------------------------------
(* The scheduling half: QInv, on top of IInv, action by action.            *)

USE DEF IInv, TypeOK, QInv, LaunchedStates, DeadStates, QueueableStates,
        DispatchLabels, DeadWhenCleaned, OutOfTheQueues, ReadingHolds,
        ReadyIsQueued, QueuedOnceIfReady, PausedTaskIsStopped, NoLiveTaskFreed
HIDE DEF TasksFit

\* Nothing is launched, so nothing is queued.
LEMMA InitialQueues == Init => QInv
  BY DEF Init

\* No child touches the tables, and only a stopped one is ever continued.
LEMMA ChildKeepsQInv ==
  ASSUME IInv, QInv, NEW p \in Tasks,
         ChildStops(p) \/ ChildExits(p) \/ ChildEnds(p)
  PROVE  QInv'
<1>1. CASE ChildStops(p)
  BY <1>1 DEF ChildStops
<1>2. CASE ChildExits(p)
  BY <1>2 DEF ChildExits
<1>3. CASE ChildEnds(p)
  BY <1>3 DEF ChildEnds
<1>. QED
  BY <1>1, <1>2, <1>3

\* The monitor thread works on a child it has collected.
LEMMA MonitorKeepsQInv ==
  ASSUME IInv, QInv, NEW p \in Tasks, Monitor(p)
  PROVE  QInv'
<1>1. CASE MonitorReaps(p)
  BY <1>1 DEF MonitorReaps, Collect
<1>2. CASE MonitorGivesUp(p)
  BY <1>2 DEF MonitorGivesUp
<1>3. CASE MonitorEnters(p)
  BY <1>3 DEF MonitorEnters
<1>4. CASE MonitorMarks(p)
  BY <1>4 DEF MonitorMarks, SetState
<1>5. CASE MonitorDequeues(p)
  BY <1>5 DEF MonitorDequeues, RemoveProcessByPID
<1>6. CASE MonitorUnblocks(p)
  BY <1>6 DEF MonitorUnblocks
<1>7. CASE MonitorLoads(p)
  BY <1>7 DEF MonitorLoads
<1>8. CASE MonitorStores(p)
  <2>1. avail' \in 0 .. Total
    BY <1>8 DEF MonitorStores, Refund
  <2>. QED
    BY <1>8, <2>1 DEF MonitorStores
<1>9. CASE MonitorForgets(p)
  BY <1>9 DEF MonitorForgets
<1>. QED
  BY <1>1, <1>2, <1>3, <1>4, <1>5, <1>6, <1>7, <1>8, <1>9 DEF Monitor

\* The menu thread cleans up after a child that is dead or dying.
LEMMA CleanKeepsQInv ==
  ASSUME IInv, QInv, Clean
  PROVE  QInv'
<1>1. CASE Complete
  BY <1>1 DEF Complete, Return
<1>2. CASE CleanDequeue
  BY <1>2 DEF CleanDequeue, RemoveProcessByPID
<1>3. CASE CleanMark
  BY <1>3 DEF CleanMark, SetState
<1>4. CASE CleanUnblock
  BY <1>4 DEF CleanUnblock
<1>5. CASE CleanLoad
  BY <1>5 DEF CleanLoad
<1>6. CASE CleanStore
  BY <1>6 DEF CleanStore, Refund
<1>7. CASE CleanForget
  BY <1>7 DEF CleanForget, Return
<1>. QED
  BY <1>1, <1>2, <1>3, <1>4, <1>5, <1>6, <1>7 DEF Clean

\* A launch queues the task once, before the child is told to stop itself.
LEMMA LaunchKeepsQInv ==
  ASSUME IInv, QInv, Launch
  PROVE  QInv'
<1>1. CASE CheckResources
  BY <1>1 DEF CheckResources, Deny
<1>2. CASE AllocateBlock
  BY <1>2 DEF AllocateBlock, Deny
<1>3. CASE TakeResources
  BY <1>3 DEF TakeResources
<1>4. CASE ChargeResources
  BY <1>4 DEF ChargeResources
<1>5. CASE Register
  BY <1>5 DEF Register, Enqueue
<1>6. CASE AwaitStop
  BY <1>6 DEF AwaitStop, Collect
<1>7. CASE SpawnMonitor
  BY <1>7 DEF SpawnMonitor
<1>8. CASE AwaitDenied
  BY <1>8 DEF AwaitDenied, Collect
<1>. QED
  BY <1>1, <1>2, <1>3, <1>4, <1>5, <1>6, <1>7, <1>8 DEF Launch

\* The scheduler takes a task out of the queues before it runs it, and stops it
\* before it puts it back.
LEMMA ScheduleKeepsQInv ==
  ASSUME IInv, QInv, Schedule
  PROVE  QInv'
<1>1. CASE StartScheduler
  BY <1>1 DEF StartScheduler
<1>2. CASE Restore
  BY <1>2 DEF Restore, ReadyAgain, SetState, SetLabel
<1>3. CASE RestoreDone
  BY <1>3 DEF RestoreDone
<1>4. CASE NothingToDispatch
  BY <1>4 DEF NothingToDispatch
<1>5. ASSUME NEW q \in Tasks, LookToRestore(q) PROVE QInv'
  BY <1>5 DEF LookToRestore
<1>6. ASSUME NEW q \in Tasks, Select(q) PROVE QInv'
  BY <1>6 DEF Select
<1>7. ASSUME NEW q \in Tasks, DispatchParallel(q) PROVE QInv'
  BY <1>7 DEF DispatchParallel, SetState, SetLabel, Continued
<1>8. CASE AcquireCores
  BY <1>8 DEF AcquireCores, SetLabel
<1>9. CASE StartRunning
  BY <1>9 DEF StartRunning, SetState, Continued
<1>10. CASE AwaitCompletion
  BY <1>10 DEF AwaitCompletion, Collect, ReleaseCores
<1>11. CASE CompleteInSlice
  BY <1>11 DEF CompleteInSlice, Collect
<1>12. CASE HideInSlice
  BY <1>12 DEF HideInSlice, Stopped, SetState, SetLabel
<1>13. CASE QuantumExpires
  BY <1>13 DEF QuantumExpires, Stopped
<1>14. CASE FinishExpired
  BY <1>14 DEF FinishExpired, Collect, ReleaseCores
<1>15. CASE StoppedExpired
  BY <1>15 DEF StoppedExpired, ReleaseCores
<1>16. CASE Requeue
  BY <1>16 DEF Requeue, ReadyAgain, SetState, SetLabel
<1>17. CASE AfterRun
  BY <1>17 DEF AfterRun
<1>18. CASE ParallelDone
  BY <1>18 DEF ParallelDone, HasReadyProcess
<1>. QED
  BY <1>1, <1>2, <1>3, <1>4, <1>5, <1>6, <1>7, <1>8, <1>9, <1>10, <1>11,
       <1>12, <1>13, <1>14, <1>15, <1>16, <1>17, <1>18 DEF Schedule

\* Shutdown kills before it cleans up.
LEMMA ShutDownKeepsQInv ==
  ASSUME IInv, QInv, ShutDown
  PROVE  QInv'
<1>1. ASSUME NEW q \in Tasks, QuitKill(q) PROVE QInv'
  BY <1>1 DEF QuitKill, Killed
<1>2. CASE QuitPoll
  BY <1>2 DEF QuitPoll, Collect
<1>3. CASE ClearQueues
  BY <1>3 DEF ClearQueues
<1>4. CASE JoinMonitors
  BY <1>4 DEF JoinMonitors
<1>. QED
  BY <1>1, <1>2, <1>3, <1>4 DEF ShutDown

\* What the user chooses rests on a reading of the table.
LEMMA ChoiceKeepsQInv ==
  ASSUME IInv, QInv, Choice
  PROVE  QInv'
<1>1. CASE ChooseNothing
  BY <1>1 DEF ChooseNothing
<1>2. CASE ConfirmClose
  BY <1>2 DEF ConfirmClose, Killed
<1>3. CASE ChooseShutdown
  BY <1>3 DEF ChooseShutdown
<1>4. ASSUME NEW parallel \in BOOLEAN, ChooseScheduler(parallel) PROVE QInv'
  BY <1>4 DEF ChooseScheduler
<1>5. ASSUME NEW q \in Tasks, Fork(q) PROVE QInv'
  BY <1>5 DEF Fork
<1>6. ASSUME NEW q \in Tasks, ChooseForTask(q) PROVE QInv'
  BY <1>6 DEF ChooseForTask
<1>7. ASSUME NEW q \in Tasks, ChooseClose(q) PROVE QInv'
  BY <1>7 DEF ChooseClose
<1>. QED
  BY <1>1, <1>2, <1>3, <1>4, <1>5, <1>6, <1>7 DEF Choice

\* What the menu thread does on its own rests on such a reading, too.
LEMMA MainKeepsQInv ==
  ASSUME IInv, QInv, MainStep
  PROVE  QInv'
<1>1. CASE StartLoop
  BY <1>1 DEF StartLoop
<1>2. CASE HideWindow
  BY <1>2 DEF HideWindow, Stopped, SetState, SetLabel, WindowDone
<1>3. CASE ShowParallel
  BY <1>3 DEF ShowParallel, Continued, SetState, SetLabel, WindowDone
<1>4. CASE ShowReady
  BY <1>4 DEF ShowReady, ReadyAgain, SetState, SetLabel, WindowDone
<1>5. CASE WindowsDone
  BY <1>5 DEF WindowsDone, HasReadyProcess
<1>6. CASE SweepDone
  BY <1>6 DEF SweepDone
<1>7. ASSUME NEW q \in Tasks, LookAtWindow(q) PROVE QInv'
  BY <1>7 DEF LookAtWindow, MayBeHidden
<1>8. ASSUME NEW q \in Tasks, Sweep(q) PROVE QInv'
  BY <1>8 DEF Sweep, Collect
<1>9. CASE PauseTask
  BY <1>9 DEF PauseTask, RemoveProcessByPID, Stopped, SetState, SetLabel
<1>10. CASE ResumeTask
  BY <1>10 DEF ResumeTask, ReadyAgain, SetState, SetLabel
<1>11. CASE EnqueueReady
  <2>1. cur \in Tasks /\ ready[cur] = 0 /\ ready' = [ready EXCEPT ![cur] = 1]
    BY <1>11 DEF EnqueueReady, Enqueue
  <2>2. \A p \in Tasks : /\ child[p] # "stopped" => child'[p] = child[p]
                         /\ child[p] = "stopped" => child'[p] \in {"stopped", "running"}
                         /\ p # cur => child'[p] = child[p]
    BY <1>11 DEF EnqueueReady, Continued
  <2>3. DeadWhenCleaned'
    BY <1>11, <2>2 DEF EnqueueReady, Return
  <2>4. OutOfTheQueues' /\ ReadingHolds'
    <3>1. pc' \in {"top", "windows", "sweep", "restore", "quit", "after"}
      BY <1>11 DEF EnqueueReady, Return
    <3>2. \A p \in Tasks : child[p] \notin {"unborn", "asking", "denied"} =>
                           child'[p] \notin {"unborn", "asking", "denied"}
      BY <2>2
    <3>3. child[cur] \notin {"unborn", "asking", "denied"}
      BY <1>11 DEF EnqueueReady
    <3>4. OutOfTheQueues'
      BY <2>1, <2>2, <3>1, <3>2, <3>3
    <3>. QED
      BY <3>1, <3>4
  <2>5. ReadyIsQueued'
    <3>. SUFFICES ASSUME NEW p \in Tasks, pcb[p] = "READY", child'[p] \notin DeadStates
                  PROVE  ready'[p] = 1
      BY <1>11 DEF EnqueueReady
    <3>1. child[p] \notin DeadStates
      BY <2>2
    <3>2. p # cur => ready[p] = 1
      BY <1>11, <3>1 DEF EnqueueReady
    <3>. QED
      BY <2>1, <3>2
  <2>6. QueuedOnceIfReady' /\ NoLiveTaskFreed'
    BY <1>11, <2>1, <2>2 DEF EnqueueReady, Return
  <2>7. PausedTaskIsStopped'
    BY <1>11, <2>1, <2>2 DEF EnqueueReady, Return
  <2>. QED
    BY <2>3, <2>4, <2>5, <2>6, <2>7
<1>12. CASE PollKilled
  BY <1>12 DEF PollKilled, Collect
<1>. QED
  BY <1>1, <1>2, <1>3, <1>4, <1>5, <1>6, <1>7, <1>8, <1>9, <1>10, <1>11,
       <1>12, CleanKeepsQInv, LaunchKeepsQInv, ScheduleKeepsQInv, ShutDownKeepsQInv DEF
       MainStep

\* QInv is inductive relative to IInv.
LEMMA StepKeepsQInv == IInv /\ QInv /\ [Next]_vars => QInv'
<1>. SUFFICES ASSUME IInv, QInv, [Next]_vars PROVE QInv'
  OBVIOUS
<1>1. ASSUME NEW p \in Tasks,
             ChildStops(p) \/ ChildExits(p) \/ ChildEnds(p) \/ Monitor(p)
      PROVE  QInv'
  BY <1>1, ChildKeepsQInv, MonitorKeepsQInv
<1>2. CASE Choice \/ MainStep
  BY <1>2, ChoiceKeepsQInv, MainKeepsQInv
<1>3. CASE SeeHidden
  BY <1>3 DEF SeeHidden
<1>4. CASE UNCHANGED vars
  BY <1>4 DEF vars
<1>. QED
  BY <1>1, <1>2, <1>3, <1>4 DEF Next, Halted

\* The actions that write the state of a task, one by one: what they have read
\* earlier (ReadingHolds) still says enough about it.
LEMMA StepRespectsPause ==
  ASSUME IInv, QInv, [Next]_vars
  PROVE  RespectsPause
<1>. USE DEF RespectsPause
<1>1. CASE UNCHANGED pcb
  BY <1>1
<1>2. ASSUME NEW p \in Tasks, Monitor(p), pcb' # pcb PROVE RespectsPause
  BY <1>2 DEF Monitor, MonitorReaps, MonitorGivesUp, MonitorEnters, MonitorMarks,
     MonitorDequeues, MonitorUnblocks, MonitorLoads, MonitorStores, MonitorForgets,
     SetState
<1>3. CASE Clean /\ pcb' # pcb
  BY <1>3 DEF Clean, Complete, CleanDequeue, CleanMark, CleanUnblock, CleanLoad,
     CleanStore, CleanForget, SetState
<1>4. CASE Launch /\ pcb' # pcb
  BY <1>4 DEF Launch, CheckResources, AllocateBlock, TakeResources, ChargeResources,
     Register, AwaitStop, SpawnMonitor, AwaitDenied
<1>5. CASE HideWindow
  BY <1>5 DEF HideWindow, SetState
<1>6. CASE ShowParallel
  BY <1>6 DEF ShowParallel, SetState
<1>7. CASE ShowReady \/ ResumeTask \/ Restore \/ Requeue
  BY <1>7, ZenonT(40) DEF ShowReady, ResumeTask, Restore, Requeue, ReadyAgain, SetState
<1>8. CASE PauseTask
  BY <1>8, ZenonT(40) DEF PauseTask, SetState
<1>9. CASE StartRunning
  BY <1>9 DEF StartRunning, SetState
<1>10. CASE HideInSlice
  BY <1>10 DEF HideInSlice, SetState
<1>11. ASSUME NEW p \in Tasks, DispatchParallel(p) PROVE RespectsPause
  <2>1. ready[p] \in Nat /\ ready[p] > 0
    BY <1>11 DEF DispatchParallel
  <2>2. pcb[p] \in QueueableStates
    BY <2>1
  <2>3. pcb' = pcb \/ pcb' = [pcb EXCEPT ![p] = "RUNNING"]
    BY <1>11 DEF DispatchParallel, SetState
  <2>4. \A q \in Tasks : q # p => pcb'[q] = pcb[q]
    BY <2>3
  <2>. QED
    BY <2>2, <2>4
<1>12. CASE Schedule /\ pcb' # pcb
  <2>1. \/ Restore \/ Requeue \/ StartRunning \/ HideInSlice
        \/ \E p \in Tasks : DispatchParallel(p)
    BY <1>12 DEF Schedule, StartScheduler, RestoreDone, NothingToDispatch,
       LookToRestore, Select, AcquireCores, AwaitCompletion, CompleteInSlice,
       QuantumExpires, FinishExpired, StoppedExpired, AfterRun, ParallelDone
  <2>. QED
    BY <2>1, <1>7, <1>9, <1>10, <1>11
<1>13. CASE ShutDown /\ pcb' # pcb
  BY <1>13 DEF ShutDown, QuitKill, QuitPoll, ClearQueues, JoinMonitors
<1>14. CASE Choice /\ pcb' # pcb
  BY <1>14 DEF Choice, ChooseNothing, ConfirmClose, ChooseShutdown, ChooseScheduler,
     Fork, ChooseForTask, ChooseClose
<1>15. CASE MainStep /\ pcb' # pcb
  <2>1. \/ HideWindow \/ ShowParallel \/ ShowReady \/ PauseTask \/ ResumeTask
        \/ Clean \/ Launch \/ Schedule \/ ShutDown
    BY <1>15 DEF MainStep, StartLoop, WindowsDone, SweepDone, LookAtWindow, Sweep,
       EnqueueReady, PollKilled
  <2>. QED
    BY <2>1, <1>3, <1>4, <1>5, <1>6, <1>7, <1>8, <1>12, <1>13, <1>15
<1>16. ASSUME NEW p \in Tasks, ChildStops(p) \/ ChildExits(p) \/ ChildEnds(p)
       PROVE  RespectsPause
  BY <1>16, <1>1 DEF ChildStops, ChildExits, ChildEnds
<1>17. CASE SeeHidden \/ UNCHANGED vars
  BY <1>17, <1>1 DEF SeeHidden, vars
<1>. QED
  BY <1>1, <1>2, <1>14, <1>15, <1>16, <1>17 DEF Next, Halted

HIDE DEF IInv, QInv, TypeOK, ReadyIsQueued, QueuedOnceIfReady, PausedTaskIsStopped,
         NoLiveTaskFreed

\* Both halves together hold in every reachable state.
THEOREM KernelSchedulingInvariant == Spec => [](IInv /\ QInv)
<1>1. Init => IInv /\ QInv
  BY InitialState, InitialQueues
<1>2. (IInv /\ QInv) /\ [Next]_vars => (IInv /\ QInv)'
  BY StepKeeps, StepKeepsQInv
<1>. QED
  BY <1>1, <1>2, PTL DEF Spec

\* No interleaving queues a task twice, and a queued task is never running,
\* blocked or minimized.
THEOREM KernelQueuedOnceIfReady == Spec => []QueuedOnceIfReady
<1>1. QInv => QueuedOnceIfReady
  BY DEF QInv
<1>. QED
  BY <1>1, KernelSchedulingInvariant, PTL

\* A READY task that waits for a dispatch is queued whenever the menu is reached.
THEOREM KernelNoLostTask == Spec => []NoLostTask
<1>1. QInv => NoLostTask
  BY DEF QInv, ReadyIsQueued, NoLostTask
<1>. QED
  BY <1>1, KernelSchedulingInvariant, PTL

\* A task the table calls blocked or minimized does not execute.
THEOREM KernelPausedTaskIsStopped == Spec => []PausedTaskIsStopped
<1>1. QInv => PausedTaskIsStopped
  BY DEF QInv
<1>. QED
  BY <1>1, KernelSchedulingInvariant, PTL

\* No cleanup takes the RAM, or the PCB, of a child that may still execute.
THEOREM KernelNoLiveTaskFreed == Spec => []NoLiveTaskFreed
<1>1. QInv => NoLiveTaskFreed
  BY DEF QInv
<1>. QED
  BY <1>1, KernelSchedulingInvariant, PTL

\* A task the user has paused runs again only after the user has resumed it: no
\* window event, and no dispatch based on an older reading, overtakes that.
THEOREM KernelPauseIsRespected == Spec => PauseIsRespected
<1>1. IInv /\ QInv /\ [Next]_vars => RespectsPause
  BY StepRespectsPause
<1>. QED
  BY <1>1, KernelSchedulingInvariant, PTL DEF Spec, PauseIsRespected

HIDE DEF CoresReturned, NoOrphanBlock, CleanupOrder, TasksFit, Registered, ChildStates,
         PcbStates, MonitorStates, CleanupLabels, LaunchLabels, RunLabels, TaskLabels,
         IdleLabels, GrantLabels, HoldLabels, FreedLabels

-----------------------------------------------------------------------------
(* Module Kernel implements module TaskLifecycle.  A step of the kernel    *)
(* moves one task along its life cycle, or moves none; which one follows   *)
(* from three facts about each task: whether it owns a block, whether it   *)
(* has a PCB and whether its request has been answered.                    *)

Unanswered == {"unborn", "asking"}

\* What the stage of a task is computed from does not change.
SameStage(q) ==
  /\ q \in blocks' <=> q \in blocks
  /\ pcb'[q] = "none" <=> pcb[q] = "none"
  /\ child'[q] \in Unanswered <=> child[q] \in Unanswered

\* When all three facts stay, the abstract kernel takes no step.
LEMMA NoMove ==
  ASSUME \A q \in Tasks : SameStage(q)
  PROVE  [Lifecycle!Next]_[p \in Tasks |-> Stage(p)]
<1>1. \A q \in Tasks : Stage(q)' = Stage(q)
  BY DEF SameStage, Stage, Unanswered
<1>. QED
  BY <1>1

\* When they stay for the other tasks, the step of one task is the step of all.
LEMMA OneMoves ==
  ASSUME NEW p \in Tasks, NEW from, NEW to,
         \A q \in Tasks \ {p} : SameStage(q),
         Stage(p) = from, Stage(p)' = to
  PROVE  Lifecycle!Moves(p, from, to)
<1>1. \A q \in Tasks \ {p} : Stage(q)' = Stage(q)
  BY DEF SameStage, Stage, Unanswered
<1>. QED
  BY <1>1 DEF Lifecycle!Moves

USE DEF tables, ledger, monitors, loops, MainKeeps, ChildOnly, Goto,
        IInv, TypeOK, NoOrphanBlock, CleanupOrder, ChildStates, PcbStates,
        IdleLabels, GrantLabels, FreedLabels, SameStage, Unanswered

-----------------------------------------------------------------------------
(* The steps that move a task.                                             *)

\* releaseMemoryBlock: the task gives its block back, unless another cleanup has.
LEMMA UnblockMaps ==
  ASSUME IInv, NEW p \in Tasks,
         \/ MonitorUnblocks(p)
         \/ CleanUnblock /\ p = cur
  PROVE  [Lifecycle!Next]_[q \in Tasks |-> Stage(q)]
<1>1. /\ blocks' = blocks \ {p}
      /\ UNCHANGED <<pcb, child>>
  BY DEF MonitorUnblocks, CleanUnblock
<1>2. CASE p \in blocks
  <2>1. pcb[p] # "none"
    BY <1>2 DEF MonitorUnblocks, CleanUnblock
  <2>2. Stage(p) = "registered" /\ Stage(p)' = "closing"
    BY <1>1, <1>2, <2>1 DEF Stage
  <2>3. Lifecycle!GiveBack(p)
    BY <1>1, <2>2, OneMoves DEF Lifecycle!GiveBack
  <2>. QED
    BY <2>3 DEF Lifecycle!Next
<1>3. CASE p \notin blocks
  BY <1>1, <1>3, NoMove
<1>. QED
  BY <1>2, <1>3

\* removeProcess: the task is forgotten, unless another cleanup has done it.
LEMMA ForgetMaps ==
  ASSUME IInv, NEW p \in Tasks,
         \/ MonitorForgets(p)
         \/ CleanForget /\ p = cur
  PROVE  [Lifecycle!Next]_[q \in Tasks |-> Stage(q)]
<1>1. /\ pcb' = [pcb EXCEPT ![p] = "none"]
      /\ UNCHANGED <<blocks, child>>
      /\ p \notin blocks
  BY DEF MonitorForgets, CleanForget
<1>2. CASE pcb[p] # "none"
  <2>1. child[p] \notin Unanswered
    BY <1>2 DEF MonitorForgets, CleanForget
  <2>2. Stage(p) = "closing" /\ Stage(p)' = "gone"
    BY <1>1, <1>2, <2>1 DEF Stage
  <2>3. Lifecycle!Forget(p)
    BY <1>1, <2>2, OneMoves DEF Lifecycle!Forget
  <2>. QED
    BY <2>3 DEF Lifecycle!Next
<1>3. CASE pcb[p] = "none"
  BY <1>1, <1>3, NoMove
<1>. QED
  BY <1>2, <1>3

\* A denial ends the life of a task before it has a block.
LEMMA DenyMaps ==
  ASSUME IInv, pc \in {"check", "allocate"}, Deny, UNCHANGED <<pcb, blocks>>
  PROVE  [Lifecycle!Next]_[q \in Tasks |-> Stage(q)]
<1>1. PICK p \in Tasks : p = cur
  OBVIOUS
<1>2. Stage(p) = "absent" /\ Stage(p)' = "gone"
  BY <1>1 DEF Stage, Deny
<1>3. \A q \in Tasks \ {p} : SameStage(q)
  BY <1>1 DEF Deny
<1>4. Lifecycle!Refuse(p)
  BY <1>2, <1>3, OneMoves DEF Lifecycle!Refuse
<1>. QED
  BY <1>4 DEF Lifecycle!Next

\* First fit finds room only if what is allocated and the request fit together.
LEMMA AllocateMaps ==
  ASSUME IInv, AllocateBlock
  PROVE  [Lifecycle!Next]_[q \in Tasks |-> Stage(q)]
<1>1. PICK p \in Tasks : p = cur
  BY DEF AllocateBlock
<1>2. CASE Deny /\ UNCHANGED blocks
  BY <1>2, DenyMaps DEF AllocateBlock
<1>3. CASE /\ Load(blocks) + Need[p] <= Room
           /\ blocks' = blocks \cup {p} /\ UNCHANGED child
  <2>1. UNCHANGED pcb
    BY DEF AllocateBlock
  <2>2. Stage(p) = "absent" /\ Stage(p)' = "reserved"
    BY <1>1, <1>3, <2>1 DEF Stage, AllocateBlock
  <2>3. \A q \in Tasks \ {p} : SameStage(q)
    BY <1>3, <2>1
  <2>4. Lifecycle!Holding([q \in Tasks |-> Stage(q)]) = blocks
    BY DEF Lifecycle!Holding, Stage
  <2>5. Lifecycle!Reserve(p)
    BY <1>3, <2>2, <2>3, <2>4, OneMoves DEF Lifecycle!Reserve
  <2>. QED
    BY <2>5 DEF Lifecycle!Next
<1>. QED
  BY <1>1, <1>2, <1>3 DEF AllocateBlock

\* createPCB registers a task that owns a block.
LEMMA RegisterMaps ==
  ASSUME IInv, Register
  PROVE  [Lifecycle!Next]_[q \in Tasks |-> Stage(q)]
<1>1. PICK p \in Tasks : p = cur
  BY DEF Register
<1>2. Stage(p) = "reserved" /\ Stage(p)' = "registered"
  BY <1>1 DEF Stage, Register
<1>3. \A q \in Tasks \ {p} : SameStage(q)
  BY <1>1 DEF Register
<1>4. Lifecycle!Register(p)
  BY <1>2, <1>3, OneMoves DEF Lifecycle!Register
<1>. QED
  BY <1>4 DEF Lifecycle!Next

-----------------------------------------------------------------------------
(* The steps that move none.                                               *)

\* Neither a child nor its monitor's bookkeeping moves a task.
LEMMA ChildMovesNone ==
  ASSUME IInv, NEW p \in Tasks,
         \/ ChildStops(p) \/ ChildExits(p) \/ ChildEnds(p)
         \/ Monitor(p) /\ ~MonitorUnblocks(p) /\ ~MonitorForgets(p)
  PROVE  \A q \in Tasks : SameStage(q)
<1>1. CASE ChildStops(p)
  BY <1>1 DEF ChildStops
<1>2. CASE ChildExits(p)
  BY <1>2 DEF ChildExits
<1>3. CASE ChildEnds(p)
  BY <1>3 DEF ChildEnds
<1>4. CASE MonitorReaps(p)
  BY <1>4 DEF MonitorReaps, Collect
<1>5. CASE MonitorGivesUp(p)
  BY <1>5 DEF MonitorGivesUp
<1>6. CASE MonitorEnters(p)
  BY <1>6 DEF MonitorEnters
<1>7. CASE MonitorMarks(p)
  BY <1>7 DEF MonitorMarks, SetState
<1>8. CASE MonitorDequeues(p)
  BY <1>8 DEF MonitorDequeues
<1>9. CASE MonitorLoads(p)
  BY <1>9 DEF MonitorLoads
<1>10. CASE MonitorStores(p)
  BY <1>10 DEF MonitorStores
<1>. QED
  BY <1>1, <1>2, <1>3, <1>4, <1>5, <1>6, <1>7, <1>8, <1>9, <1>10 DEF Monitor

\* The scheduler moves no task.
LEMMA ScheduleMovesNone ==
  ASSUME IInv, Schedule
  PROVE  \A q \in Tasks : SameStage(q)
<1>1. CASE StartScheduler
  BY <1>1 DEF StartScheduler
<1>2. CASE Restore
  BY <1>2 DEF Restore, ReadyAgain, SetState
<1>3. CASE RestoreDone
  BY <1>3 DEF RestoreDone
<1>4. CASE NothingToDispatch
  BY <1>4 DEF NothingToDispatch
<1>5. ASSUME NEW r \in Tasks, LookToRestore(r)
      PROVE  \A q \in Tasks : SameStage(q)
  BY <1>5 DEF LookToRestore
<1>6. ASSUME NEW r \in Tasks, Select(r)
      PROVE  \A q \in Tasks : SameStage(q)
  BY <1>6 DEF Select
<1>7. ASSUME NEW r \in Tasks, DispatchParallel(r)
      PROVE  \A q \in Tasks : SameStage(q)
  BY <1>7, ZenonT(40) DEF DispatchParallel, SetState, Continued
<1>8. CASE AcquireCores
  BY <1>8 DEF AcquireCores
<1>9. CASE StartRunning
  BY <1>9 DEF StartRunning, SetState, Continued
<1>10. CASE AwaitCompletion
  BY <1>10 DEF AwaitCompletion, Collect
<1>11. CASE CompleteInSlice
  BY <1>11 DEF CompleteInSlice, Collect
<1>12. CASE HideInSlice
  BY <1>12 DEF HideInSlice, Stopped, SetState
<1>13. CASE QuantumExpires
  BY <1>13 DEF QuantumExpires, Stopped
<1>14. CASE FinishExpired
  BY <1>14 DEF FinishExpired, Collect
<1>15. CASE StoppedExpired
  BY <1>15 DEF StoppedExpired
<1>16. CASE Requeue
  BY <1>16 DEF Requeue, ReadyAgain, SetState
<1>17. CASE AfterRun
  BY <1>17 DEF AfterRun
<1>18. CASE ParallelDone
  BY <1>18 DEF ParallelDone
<1>. QED
  BY <1>1, <1>2, <1>3, <1>4, <1>5, <1>6, <1>7, <1>8, <1>9, <1>10, <1>11,
       <1>12, <1>13, <1>14, <1>15, <1>16, <1>17, <1>18 DEF Schedule

\* Nor does a choice of the user, before it is carried out.
LEMMA ChoiceMovesNone ==
  ASSUME IInv, Choice \/ SeeHidden
  PROVE  \A q \in Tasks : SameStage(q)
<1>1. CASE ChooseNothing
  BY <1>1 DEF ChooseNothing
<1>2. CASE ConfirmClose
  BY <1>2 DEF ConfirmClose, Killed
<1>3. CASE ChooseShutdown
  BY <1>3 DEF ChooseShutdown
<1>4. ASSUME NEW b \in BOOLEAN, ChooseScheduler(b)
      PROVE  \A q \in Tasks : SameStage(q)
  BY <1>4 DEF ChooseScheduler
<1>5. ASSUME NEW r \in Tasks, Fork(r)
      PROVE  \A q \in Tasks : SameStage(q)
  BY <1>5 DEF Fork
<1>6. ASSUME NEW r \in Tasks, ChooseForTask(r)
      PROVE  \A q \in Tasks : SameStage(q)
  BY <1>6 DEF ChooseForTask
<1>7. ASSUME NEW r \in Tasks, ChooseClose(r)
      PROVE  \A q \in Tasks : SameStage(q)
  BY <1>7 DEF ChooseClose
<1>8. CASE SeeHidden
  BY <1>8 DEF SeeHidden
<1>. QED
  BY <1>1, <1>2, <1>3, <1>4, <1>5, <1>6, <1>7, <1>8 DEF Choice

\* Nor do the windows, pausing, resuming and waiting for a killed child.
LEMMA MenuMovesNone ==
  ASSUME IInv, 
         \/ StartLoop \/ HideWindow \/ ShowParallel \/ ShowReady \/ WindowsDone
         \/ SweepDone \/ PauseTask \/ ResumeTask \/ EnqueueReady \/ PollKilled
         \/ \E p \in Tasks : LookAtWindow(p) \/ Sweep(p)
  PROVE  \A q \in Tasks : SameStage(q)
<1>1. CASE StartLoop
  BY <1>1 DEF StartLoop
<1>2. CASE HideWindow
  BY <1>2 DEF HideWindow, Stopped, SetState, WindowDone
<1>3. CASE ShowParallel
  BY <1>3 DEF ShowParallel, Continued, SetState, WindowDone
<1>4. CASE ShowReady
  BY <1>4 DEF ShowReady, ReadyAgain, SetState, WindowDone
<1>5. CASE WindowsDone
  BY <1>5 DEF WindowsDone
<1>6. CASE SweepDone
  BY <1>6 DEF SweepDone
<1>7. CASE PauseTask
  BY <1>7, ZenonT(40) DEF PauseTask, Stopped, SetState
<1>8. CASE ResumeTask
  BY <1>8 DEF ResumeTask, ReadyAgain, SetState
<1>9. CASE EnqueueReady
  BY <1>9 DEF EnqueueReady, Continued, Return
<1>10. CASE PollKilled
  BY <1>10 DEF PollKilled, Collect
<1>11. ASSUME NEW r \in Tasks, LookAtWindow(r)
      PROVE  \A q \in Tasks : SameStage(q)
  BY <1>11 DEF LookAtWindow
<1>12. ASSUME NEW r \in Tasks, Sweep(r)
      PROVE  \A q \in Tasks : SameStage(q)
  BY <1>12 DEF Sweep, Collect
<1>. QED
  BY <1>1, <1>2, <1>3, <1>4, <1>5, <1>6, <1>7, <1>8, <1>9, <1>10, <1>11,
     <1>12

\* Nor do the rest of a launch, of a cleanup and of shutdown.
LEMMA OtherMovesNone ==
  ASSUME IInv, 
         \/ Complete \/ CleanDequeue \/ CleanMark \/ CleanLoad \/ CleanStore
         \/ TakeResources \/ ChargeResources \/ AwaitStop \/ SpawnMonitor \/ AwaitDenied
         \/ CheckResources /\ ~Deny
         \/ ShutDown
  PROVE  \A q \in Tasks : SameStage(q)
<1>1. CASE Complete
  BY <1>1 DEF Complete, Return
<1>2. CASE CleanDequeue
  BY <1>2 DEF CleanDequeue
<1>3. CASE CleanMark
  BY <1>3 DEF CleanMark, SetState
<1>4. CASE CleanLoad
  BY <1>4 DEF CleanLoad
<1>5. CASE CleanStore
  BY <1>5 DEF CleanStore
<1>6. CASE TakeResources
  BY <1>6 DEF TakeResources
<1>7. CASE ChargeResources
  BY <1>7 DEF ChargeResources
<1>8. CASE AwaitStop
  BY <1>8 DEF AwaitStop, Collect
<1>9. CASE SpawnMonitor
  BY <1>9 DEF SpawnMonitor
<1>10. CASE AwaitDenied
  BY <1>10 DEF AwaitDenied, Collect
<1>11. CASE CheckResources /\ ~Deny
  BY <1>11 DEF CheckResources, Deny
<1>12. ASSUME NEW r \in Tasks, QuitKill(r)
      PROVE  \A q \in Tasks : SameStage(q)
  BY <1>12 DEF QuitKill, Killed
<1>13. CASE QuitPoll
  BY <1>13 DEF QuitPoll, Collect
<1>14. CASE ClearQueues
  BY <1>14 DEF ClearQueues
<1>15. CASE JoinMonitors
  BY <1>15 DEF JoinMonitors
<1>. QED
  BY <1>1, <1>2, <1>3, <1>4, <1>5, <1>6, <1>7, <1>8, <1>9, <1>10, <1>11,
       <1>12, <1>13, <1>14, <1>15 DEF ShutDown

-----------------------------------------------------------------------------
\* Every step of the kernel is a step of the life cycle of one task, or none.
LEMMA StepMaps ==
  IInv /\ [Next]_vars => [Lifecycle!Next]_[p \in Tasks |-> Stage(p)]
<1>. SUFFICES ASSUME IInv, [Next]_vars
              PROVE  [Lifecycle!Next]_[p \in Tasks |-> Stage(p)]
  OBVIOUS
<1>1. ASSUME NEW p \in Tasks,
             ChildStops(p) \/ ChildExits(p) \/ ChildEnds(p) \/ Monitor(p)
      PROVE  [Lifecycle!Next]_[q \in Tasks |-> Stage(q)]
  <2>1. CASE MonitorUnblocks(p)
    BY <2>1, UnblockMaps
  <2>2. CASE MonitorForgets(p)
    BY <2>2, ForgetMaps
  <2>3. CASE ~MonitorUnblocks(p) /\ ~MonitorForgets(p)
    BY <1>1, <2>3, ChildMovesNone, NoMove
  <2>. QED
    BY <2>1, <2>2, <2>3
<1>2. CASE Clean
  <2>1. CASE CleanUnblock
    BY <2>1, UnblockMaps DEF CleanUnblock
  <2>2. CASE CleanForget
    BY <2>2, ForgetMaps DEF CleanForget
  <2>. QED
    BY <1>2, <2>1, <2>2, OtherMovesNone, NoMove DEF Clean
<1>3. CASE Launch
  <2>1. CASE CheckResources /\ Deny
    BY <2>1, DenyMaps DEF CheckResources
  <2>. QED
    BY <1>3, <2>1, AllocateMaps, RegisterMaps, OtherMovesNone, NoMove DEF Launch
<1>4. CASE Schedule \/ ShutDown
  BY <1>4, ScheduleMovesNone, OtherMovesNone, NoMove
<1>5. CASE Choice \/ SeeHidden
  BY <1>5, ChoiceMovesNone, NoMove
<1>6. CASE MainStep
  BY <1>2, <1>3, <1>4, <1>6, MenuMovesNone, NoMove DEF MainStep
<1>7. CASE UNCHANGED vars
  BY <1>7, NoMove DEF vars
<1>. QED
  BY <1>1, <1>5, <1>6, <1>7 DEF Next, Halted

HIDE DEF IInv

\* The kernel implements the life cycle: whoever cleans up, and in whatever
\* interleaving, a block is given back once and a task forgotten once, in order.
THEOREM KernelImplementsLifecycle == Spec => LifecycleSpec
<1>1. Init => Lifecycle!Init
  BY DEF Init, Lifecycle!Init, Stage
<1>. QED
  BY <1>1, StepMaps, KernelInvariant, PTL DEF Spec, LifecycleSpec, Lifecycle!Spec

=============================================================================
