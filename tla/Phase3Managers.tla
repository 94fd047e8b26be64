--------------------------- MODULE Phase3Managers ---------------------------
(***************************************************************************)
(* The managers of the Phase 3 kernel: process table, ready queues with    *)
(* aging, counters, RAM layout, deadlock records.  One thread calls them,  *)
(* so that each call is a function from the old value to the new one.      *)
(***************************************************************************)
EXTENDS Integers, Sequences, SequencesExt

Nobody == -1    \* the pid of a free block, and no victim

-----------------------------------------------------------------------------
(* ProcessManager: the table is a function from the pids to PCBs.          *)

NoPCB == [state |-> "none", priority |-> 0, waiting |-> 0, start |-> -1, end |-> -1]

Registered(table) == {p \in DOMAIN table : table[p] # NoPCB}

\* All updates do nothing when the PCB is gone; creation does nothing when it
\* is there.
createPCB(table, p, priority) ==
  IF p \in Registered(table) THEN table
  ELSE [table EXCEPT ![p] = [NoPCB EXCEPT !.state = "NEW", !.priority = priority]]

updateProcessState(table, p, state) ==
  IF p \in Registered(table) THEN [table EXCEPT ![p].state = state] ELSE table

updateMemoryBlock(table, p, block) ==
  IF p \in Registered(table)
    THEN [table EXCEPT ![p].start = block.start, ![p].end = block.end] ELSE table

removeProcess(table, p) == [table EXCEPT ![p] = NoPCB]

incrementWaitingTime(table, p) == [table EXCEPT ![p].waiting = @ + 1]

resetWaitingTime(table, p) ==
  IF p \in Registered(table) THEN [table EXCEPT ![p].waiting = 0] ELSE table

improvePriority(table, p) ==
  IF p \in Registered(table) /\ table[p].priority > 1
    THEN [table EXCEPT ![p].priority = @ - 1, ![p].waiting = 0] ELSE table

-----------------------------------------------------------------------------
(* ReadyQueueManager: system, interactive and background queue of items.   *)

Queues == 1..3

NoItems == [k \in Queues |-> <<>>]

Item(p, priority) == [pid |-> p, priority |-> priority]

Level(priority) == IF priority <= 1 THEN 1 ELSE IF priority = 2 THEN 2 ELSE 3

addProcessToReadyQueue(queues, p, priority) ==
  [queues EXCEPT ![Level(priority)] = Append(@, Item(p, priority))]

hasReadyProcess(queues) == \E k \in Queues : queues[k] # <<>>

removeFromQueueByPID(queue, p) ==
  FoldLeft(LAMBDA kept, it : IF it.pid = p THEN kept ELSE Append(kept, it), <<>>, queue)

removeProcessByPID(queues, p) == [k \in Queues |-> removeFromQueueByPID(queues[k], p)]

insertAgedProcess(queues, it) == [queues EXCEPT ![Level(it.priority)] = Append(@, it)]

\* At priority 1 the waiting time only grows and is shown; it stays at 0 here.
AgePCB(table, p, threshold) ==
  LET waits == incrementWaitingTime(table, p)
  IN IF table[p].priority <= 1 THEN table
     ELSE IF waits[p].waiting >= threshold THEN improvePriority(waits, p) ELSE waits

\* One turn of the loop of applyAging; an item without a PCB is dropped.
AgeItem(aged, it, threshold) ==
  LET table == AgePCB(aged.table, it.pid, threshold)
  IN IF it.pid \notin Registered(aged.table) THEN aged
     ELSE [table |-> table,
           queues |-> insertAgedProcess(aged.queues, Item(it.pid, table[it.pid].priority))]

applyAging(queues, table, threshold) ==
  FoldLeft(LAMBDA aged, it : AgeItem(aged, it, threshold),
           [table |-> table, queues |-> NoItems], queues[1] \o queues[2] \o queues[3])

\* selectNextProcess of the scheduler: the first queue that is not empty.
FirstQueue(queues) ==
  CHOOSE k \in Queues : queues[k] # <<>> /\ \A j \in 1..(k - 1) : queues[j] = <<>>

-----------------------------------------------------------------------------
(* ResourceManager: a counter, and the layout as a sequence of blocks.     *)

checkResources(available, n) == n > 0 /\ n <= available

allocateResources(available, n) ==
  IF checkResources(available, n) THEN available - n ELSE available

releaseResources(available, n, total) ==
  IF available + n > total THEN total ELSE available + n

Block(from, to, p) == [start |-> from, end |-> to, pid |-> p]

IsFree(b) == b.pid = Nobody
SizeOf(b) == b.end - b.start

initializeResources(total) == <<Block(0, total, Nobody)>>

\* The index of the first free block that is large enough, 0 if there is none.
FirstFit(blocks, n) ==
  LET fits == {i \in DOMAIN blocks : IsFree(blocks[i]) /\ SizeOf(blocks[i]) >= n}
  IN IF fits = {} THEN 0 ELSE CHOOSE i \in fits : \A j \in fits : i <= j

Allocated(blocks, p, n) ==
  LET b == blocks[FirstFit(blocks, n)] IN Block(b.start, b.start + n, p)

allocateMemoryBlock(blocks, p, n) ==
  LET i == FirstFit(blocks, n)
      mine == Allocated(blocks, p, n)
      rest == Block(mine.end, blocks[i].end, Nobody)
  IN IF SizeOf(blocks[i]) = n THEN ReplaceAt(blocks, i, mine)
     ELSE InsertAt(ReplaceAt(blocks, i, mine), i + 1, rest)

\* The loop steps back after a merge unless it stands on the first block, which
\* it then leaves: the first block swallows one neighbour, never two.
MergeStep(done, b, first) ==
  IF /\ done # <<>> /\ IsFree(Last(done)) /\ IsFree(b)
     /\ Len(done) = 1 => done[1] = first
    THEN ReplaceAt(done, Len(done), [Last(done) EXCEPT !.end = b.end])
    ELSE Append(done, b)

mergeFreeMemoryBlocks(blocks) ==
  FoldLeft(LAMBDA done, b : MergeStep(done, b, blocks[1]), <<>>, blocks)

releaseMemoryBlock(blocks, p) ==
  IF \A i \in DOMAIN blocks : blocks[i].pid # p THEN blocks
  ELSE mergeFreeMemoryBlocks(
         [i \in DOMAIN blocks |->
            IF blocks[i].pid = p THEN [blocks[i] EXCEPT !.pid = Nobody] ELSE blocks[i]])

-----------------------------------------------------------------------------
(* DeadlockManager: two records that wait for each other; the later of the *)
(* first such pair is the victim.                                          *)

Record(p, holding, waitingFor) == [pid |-> p, holding |-> holding, waitingFor |-> waitingFor]

WaitFor(r, s) == r.waitingFor = s.holding /\ s.waitingFor = r.holding

detectDeadlock(records) ==
  LET pairs == {ij \in (DOMAIN records) \X (DOMAIN records) :
                  ij[1] # ij[2] /\ WaitFor(records[ij[1]], records[ij[2]])}
      Earlier(a, b) == a[1] < b[1] \/ (a[1] = b[1] /\ a[2] <= b[2])
  IN IF pairs = {} THEN Nobody
     ELSE records[(CHOOSE ij \in pairs : \A other \in pairs : Earlier(ij, other))[2]].pid

=============================================================================
