-------------------------- MODULE ResourceManager ---------------------------
(***************************************************************************)
(* The resource manager: three counters and the RAM layout, a list of      *)
(* blocks.  The menu thread launches one task at a time (check, place,     *)
(* charge); a monitor thread may clean up another task between two of      *)
(* these calls.  Calls are atomic here; module Kernel has the races of     *)
(* the counters.                                                           *)
(***************************************************************************)
EXTENDS Integers, Sequences, FiniteSets, SequencesExt

CONSTANTS
  Tasks,     \* places for tasks that live at a time; a pid is never reused
  Programs,  \* the demands of the catalog: records [ram, hdd, cores]
  Capacity,  \* what the machine was booted with: a record of the same kind
  Free       \* the pid of a free block, -1 in the code

Resources == {"ram", "hdd", "cores"}

ASSUME ResourceAssumption ==
  /\ Capacity \in [Resources -> Nat \ {0}]
  /\ Programs \subseteq [Resources -> Nat \ {0}]
  /\ Free \notin Tasks
  /\ IsFiniteSet(Tasks)

VARIABLES
  memoryBlocks,  \* the layout: records [start, end, pid]
  available,     \* availableRAM, availableHDD, availableCores
  phase,         \* how far each task is
  demand         \* what it asked for

vars == <<memoryBlocks, available, phase, demand>>

NoDemand == [r \in Resources |-> 0]

Block(from, to, p) == [start |-> from, end |-> to, pid |-> p]

IsFree(b) == b.pid = Free
SizeOf(b) == b.end - b.start

Init ==
  /\ memoryBlocks = <<Block(0, Capacity["ram"], Free)>>
  /\ available = Capacity
  /\ phase = [p \in Tasks |-> "none"]
  /\ demand = [p \in Tasks |-> NoDemand]

-----------------------------------------------------------------------------
(* Operators on the layout.                                                *)

HasRoom(b, n) == IsFree(b) /\ SizeOf(b) >= n

\* Fault: the last block that is large enough instead of the first.
LastFit(n) ==
  LET fits == {i \in DOMAIN memoryBlocks : HasRoom(memoryBlocks[i], n)}
  IN IF fits = {} THEN 0 ELSE CHOOSE i \in fits : \A j \in fits : j <= i

\* The index of the first block that is large enough, 0 if there is none.
FirstFit(n) ==
  LET fits == {i \in DOMAIN memoryBlocks : HasRoom(memoryBlocks[i], n)}
  IN IF fits = {} THEN 0 ELSE CHOOSE i \in fits : \A j \in fits : i <= j

\* The block is replaced by the task's block and, if any, what is left of it.
Put(i, n, p) ==
  LET b == memoryBlocks[i]
      mine == Block(b.start, b.start + n, p)
      rest == Block(b.start + n, b.end, Free)
  IN IF SizeOf(b) = n THEN ReplaceAt(memoryBlocks, i, mine)
     ELSE InsertAt(ReplaceAt(memoryBlocks, i, mine), i + 1, rest)

\* Fault: the loop moves on after a merge, as it would with an unconditional
\* i++.
MergePairs(bs) ==
  FoldLeft(LAMBDA done, b :
             IF done # <<>> /\ IsFree(Last(done)) /\ IsFree(b)
                /\ Last(done) \in ToSet(bs)
               THEN ReplaceAt(done, Len(done), [Last(done) EXCEPT !.end = b.end])
               ELSE Append(done, b),
           <<>>, bs)

\* A free block after a free block is swallowed.
MergeStep(done, b) ==
  IF done # <<>> /\ IsFree(Last(done)) /\ IsFree(b)
    THEN ReplaceAt(done, Len(done), [Last(done) EXCEPT !.end = b.end])
    ELSE Append(done, b)

\* mergeFreeMemoryBlocks: a free block swallows all the free blocks after it.
Merge(bs) == FoldLeft(MergeStep, <<>>, bs)

Fits(d) == \A r \in Resources : d[r] > 0 /\ d[r] <= available[r]

-----------------------------------------------------------------------------
(* Launching.                                                              *)

\* Fault: the disk is not looked at.
CheckWithoutDisk(p, d) ==
  /\ phase[p] = "none"
  /\ \A q \in Tasks : phase[q] \notin {"checked", "placed"}
  /\ d["ram"] <= available["ram"] /\ d["cores"] <= available["cores"]
  /\ phase' = [phase EXCEPT ![p] = "checked"]
  /\ demand' = [demand EXCEPT ![p] = d]
  /\ UNCHANGED <<memoryBlocks, available>>

\* checkResources; a demand that does not fit changes nothing.
CheckResources(p, d) ==
  /\ phase[p] = "none"
  /\ \A q \in Tasks : phase[q] \notin {"checked", "placed"}
  /\ Fits(d)
  /\ phase' = [phase EXCEPT ![p] = "checked"]
  /\ demand' = [demand EXCEPT ![p] = d]
  /\ UNCHANGED <<memoryBlocks, available>>

AllocateMemoryBlock(p) ==
  /\ phase[p] = "checked"
  /\ LET n == demand[p]["ram"]
         i == FirstFit(n)
     IN IF i = 0
          THEN phase' = [phase EXCEPT ![p] = "refused"] /\ UNCHANGED memoryBlocks
          ELSE /\ memoryBlocks' = Put(i, n, p)
               /\ phase' = [phase EXCEPT ![p] = "placed"]
  /\ UNCHANGED <<available, demand>>

\* allocateResources checks again; launch ignores what it returns.
AllocateResources(p) ==
  /\ phase[p] = "placed"
  /\ available' = IF Fits(demand[p]) THEN [r \in Resources |-> available[r] - demand[p][r]]
                  ELSE available
  /\ phase' = [phase EXCEPT ![p] = "live"]
  /\ UNCHANGED <<memoryBlocks, demand>>

DeniedChildExits(p) ==
  /\ phase[p] = "refused"
  /\ phase' = [phase EXCEPT ![p] = "none"]
  /\ demand' = [demand EXCEPT ![p] = NoDemand]
  /\ UNCHANGED <<memoryBlocks, available>>

-----------------------------------------------------------------------------
(* Cleaning up.                                                            *)

ReleaseMemoryBlock(p) ==
  /\ phase[p] = "live"
  /\ memoryBlocks' =
       Merge([i \in DOMAIN memoryBlocks |->
                IF memoryBlocks[i].pid = p THEN [memoryBlocks[i] EXCEPT !.pid = Free]
                ELSE memoryBlocks[i]])
  /\ phase' = [phase EXCEPT ![p] = "freed"]
  /\ UNCHANGED <<available, demand>>

\* releaseResources: added, then clamped.
ReleaseResources(p) ==
  /\ phase[p] = "freed"
  /\ available' = [r \in Resources |->
                     LET sum == available[r] + demand[p][r]
                     IN IF sum > Capacity[r] THEN Capacity[r] ELSE sum]
  /\ phase' = [phase EXCEPT ![p] = "none"]
  /\ demand' = [demand EXCEPT ![p] = NoDemand]
  /\ UNCHANGED memoryBlocks

Next ==
  \E p \in Tasks :
    \/ \E d \in Programs : CheckResources(p, d)
    \/ AllocateMemoryBlock(p) \/ AllocateResources(p) \/ DeniedChildExits(p)
    \/ ReleaseMemoryBlock(p) \/ ReleaseResources(p)

Spec == Init /\ [][Next]_vars

-----------------------------------------------------------------------------
(* Properties.                                                             *)

\* The ranges of the variables.
TypeOK ==
  /\ memoryBlocks \in Seq([start : 0..Capacity["ram"], end : 0..Capacity["ram"],
                           pid : Tasks \cup {Free}])
  /\ available \in [Resources -> Int]
  /\ \A r \in Resources : available[r] \in 0..Capacity[r]
  /\ phase \in [Tasks -> {"none", "checked", "refused", "placed", "live", "freed"}]
  /\ demand \in [Tasks -> Programs \cup {NoDemand}]

\* Splitting, merging and erasing keep the blocks, none of them empty, side by
\* side from the first address to the last: no address is lost or owned twice.
Tiled ==
  /\ memoryBlocks # <<>>
  /\ memoryBlocks[1].start = 0
  /\ memoryBlocks[Len(memoryBlocks)].end = Capacity["ram"]
  /\ \A i \in DOMAIN memoryBlocks : SizeOf(memoryBlocks[i]) > 0
  /\ \A i \in 1..(Len(memoryBlocks) - 1) : memoryBlocks[i].end = memoryBlocks[i + 1].start

\* The merge loop leaves no two free blocks side by side, so that the first
\* free block that is large enough is all that a search needs to find.
NoFreeNeighbours ==
  \A i \in 1..(Len(memoryBlocks) - 1) :
    ~(IsFree(memoryBlocks[i]) /\ IsFree(memoryBlocks[i + 1]))

\* The list of blocks is what a search may rely on.
LayoutIsSound == TypeOK /\ Tiled /\ NoFreeNeighbours

SumOf(f(_), S) == FoldSet(LAMBDA x, s : f(x) + s, 0, S)
InPhase(ps) == {p \in Tasks : phase[p] \in ps}

\* What the tasks ps ask of a resource, and how much RAM p has in a layout.
TotalOf(d, r, ps) == SumOf(LAMBDA p : d[p][r], ps)
SizeIn(bs, p) == SumOf(LAMBDA i : IF bs[i].pid = p THEN SizeOf(bs[i]) ELSE 0, DOMAIN bs)

\* The counters and the layout are updated by different calls, and launch
\* ignores the result of one: the counters stand for exactly the tasks that
\* were charged and not refunded, the layout for those that have a block.
LedgerMatchesLayout ==
  /\ \A r \in Resources :
       available[r] = Capacity[r] - TotalOf(demand, r, InPhase({"live", "freed"}))
  /\ \A p \in Tasks :
       SizeIn(memoryBlocks, p) = IF phase[p] \in {"placed", "live"} THEN demand[p]["ram"] ELSE 0

\* The owner of each address, by the block it is in.
OwnerOf(bs) ==
  [a \in 0..(Capacity["ram"] - 1) |->
     LET b == CHOOSE b \in ToSet(bs) : b.start <= a /\ a < b.end IN b.pid]

Wanted == [p \in Tasks |-> demand[p]["ram"]]
Refused == {p \in Tasks : phase[p] = "refused"}

\* The layout implements a map of addresses to owners: every allocation takes
\* the lowest free run that is long enough, and a refusal means there is none.
Map ==
  INSTANCE MemoryMap WITH
    Size <- Capacity["ram"], owner <- OwnerOf(memoryBlocks), want <- Wanted,
    refused <- Refused

ImplementsMemoryMap == Map!Spec

=============================================================================
