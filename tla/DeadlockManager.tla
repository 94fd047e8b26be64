-------------------------- MODULE DeadlockManager ---------------------------
(***************************************************************************)
(* The deadlock manager: who holds and who waits for which resource, and   *)
(* the depth-first search of detectDeadlock for a circular wait, one turn  *)
(* of its loops at a time.                                                 *)
(*                                                                         *)
(* The records are a set, and the order in which the search takes roots    *)
(* and successors (that of the pids and of the records) is left open: what *)
(* is said here does not depend on it.  The calls of the recursive lambda  *)
(* are the frames of a stack.                                              *)
(***************************************************************************)
EXTENDS Integers, Sequences, FiniteSets

CONSTANTS
  Pids,
  ResourceNames,
  MaxRecords  \* a bound on the records that are added before a search

ASSUME PidsAssumption == Pids \subseteq Nat \ {0}

VARIABLES
  records,        \* records [pid, holding, waiting]
  pc,             \* "idle", "search", "deadlock" or "clear"
  globalVisited,
  activeStack,
  stack,          \* the calls of hasCycle: [pid, left], left to look at
  victim          \* victimPID, 0 until one is chosen

search == <<globalVisited, activeStack, stack>>
detectorVars == <<records, pc, search, victim>>

Records == [pid : Pids, holding : ResourceNames, waiting : ResourceNames]
Frames == [pid : Pids, left : SUBSET Pids]

Known == {r.pid : r \in records}

\* waitForGraph[p]
WaitForGraph(p) ==
  {q \in Known \ {p} :
     \E w, h \in records : w.pid = p /\ h.pid = q /\ w.waiting = h.holding}

Larger(p, q) == IF p > q THEN p ELSE q

DetectorInit ==
  /\ records = {}
  /\ pc = "idle"
  /\ globalVisited = {} /\ activeStack = {} /\ stack = <<>>
  /\ victim = 0

-----------------------------------------------------------------------------
AddRecord ==
  /\ pc = "idle" /\ Cardinality(records) < MaxRecords
  /\ \E r \in Records : records' = records \cup {r}
  /\ UNCHANGED <<pc, search, victim>>

ClearRecords ==
  /\ pc = "idle"
  /\ records' = {}
  /\ UNCHANGED <<pc, search, victim>>

DetectDeadlock ==
  /\ pc = "idle"
  /\ pc' = "search"
  /\ globalVisited' = {} /\ activeStack' = {} /\ stack' = <<>>
  /\ victim' = 0
  /\ UNCHANGED records

\* A call of hasCycle(p), on top of the calls s.
Call(p, s) ==
  /\ globalVisited' = globalVisited \cup {p}
  /\ activeStack' = activeStack \cup {p}
  /\ stack' = Append(s, [pid |-> p, left |-> WaitForGraph(p)])

StartFrom(p) ==
  /\ pc = "search" /\ stack = <<>>
  /\ p \in Known \ globalVisited
  /\ Call(p, stack)
  /\ UNCHANGED <<records, pc, victim>>

Top == stack[Len(stack)]

\* The calls, the top one without the successor it looks at.
Looking(n) ==
  [stack EXCEPT ![Len(stack)] = [pid |-> Top.pid, left |-> Top.left \ {n}]]

\* Fault: the victim is taken from the bottom of the stack.
FindAnyVictim(n) ==
  /\ pc = "search" /\ stack # <<>>
  /\ n \in Top.left /\ n \in activeStack
  /\ pc' = "deadlock"
  /\ victim' = Larger(stack[1].pid, n)
  /\ UNCHANGED <<records, search>>

\* The edge from the top call to an active one closes a cycle.
FindCycle(n) ==
  /\ pc = "search" /\ stack # <<>>
  /\ n \in Top.left /\ n \in activeStack
  /\ pc' = "deadlock"
  /\ victim' = Larger(Top.pid, n)
  /\ UNCHANGED <<records, search>>

Descend(n) ==
  /\ pc = "search" /\ stack # <<>>
  /\ n \in Top.left /\ n \notin activeStack /\ n \notin globalVisited
  /\ Call(n, Looking(n))
  /\ UNCHANGED <<records, pc, victim>>

\* Fault: the loop does not move on.
LookAgain(n) ==
  /\ pc = "search" /\ stack # <<>>
  /\ n \in Top.left /\ n \notin activeStack /\ n \in globalVisited
  /\ UNCHANGED detectorVars

PassOver(n) ==
  /\ pc = "search" /\ stack # <<>>
  /\ n \in Top.left /\ n \notin activeStack /\ n \in globalVisited
  /\ stack' = Looking(n)
  /\ UNCHANGED <<records, pc, globalVisited, activeStack, victim>>

\* Faults: the node stays active; it returns after its first successor.
ReturnStillActive ==
  /\ pc = "search" /\ stack # <<>>
  /\ Top.left = {}
  /\ stack' = SubSeq(stack, 1, Len(stack) - 1)
  /\ UNCHANGED <<records, pc, globalVisited, activeStack, victim>>

ReturnEarly ==
  /\ pc = "search" /\ stack # <<>>
  /\ Top.left # WaitForGraph(Top.pid) \/ Top.left = {}
  /\ activeStack' = activeStack \ {Top.pid}
  /\ stack' = SubSeq(stack, 1, Len(stack) - 1)
  /\ UNCHANGED <<records, pc, globalVisited, victim>>

\* hasCycle returns false.
Return ==
  /\ pc = "search" /\ stack # <<>>
  /\ Top.left = {}
  /\ activeStack' = activeStack \ {Top.pid}
  /\ stack' = SubSeq(stack, 1, Len(stack) - 1)
  /\ UNCHANGED <<records, pc, globalVisited, victim>>

NothingFound ==
  /\ pc = "search" /\ stack = <<>>
  /\ Known \subseteq globalVisited
  /\ pc' = "clear"
  /\ UNCHANGED <<records, search, victim>>

\* detectDeadlock returns; its local sets are gone.
Answer ==
  /\ pc \in {"deadlock", "clear"}
  /\ pc' = "idle"
  /\ globalVisited' = {} /\ activeStack' = {} /\ stack' = <<>>
  /\ victim' = 0
  /\ UNCHANGED records

Search ==
  \/ \E p \in Pids : StartFrom(p) \/ FindCycle(p) \/ Descend(p) \/ PassOver(p)
  \/ Return \/ NothingFound

DetectorNext == AddRecord \/ ClearRecords \/ DetectDeadlock \/ Search \/ Answer

DetectorSpec == DetectorInit /\ [][DetectorNext]_detectorVars
FairDetectorSpec == DetectorSpec /\ WF_detectorVars(Search)

-----------------------------------------------------------------------------
(* Properties.                                                             *)

\* The ranges of the variables.
DetectorTypeOK ==
  /\ records \subseteq Records
  /\ pc \in {"idle", "search", "deadlock", "clear"}
  /\ globalVisited \subseteq Pids
  /\ activeStack \subseteq Pids
  /\ stack \in Seq(Frames)
  /\ victim \in Pids \cup {0}

WaitsFor(p, q) ==
  p # q /\ \E w, h \in records : w.pid = p /\ h.pid = q /\ w.waiting = h.holding

\* Everybody in S waits for somebody in S.
CircularWait(S) == S # {} /\ \A p \in S : \E q \in S : WaitsFor(p, q)

\* detectDeadlock says yes only when there is a circular wait, although it
\* stops at the first edge to a node it is still busy with.
NoFalseAlarm == pc = "deadlock" => \E S \in SUBSET Known : CircularWait(S)

\* It says no only when there is none, although it never visits a node twice.
NoMissedDeadlock == pc = "clear" => \A S \in SUBSET Known : ~CircularWait(S)

\* The process it names takes part: who follows the waiting from p on, through
\* any set closed under waiting, comes back to p.
ComesBackTo(p) ==
  \A T \in SUBSET Known :
    /\ \A q \in Known : WaitsFor(p, q) => q \in T
    /\ \A t \in T : \A q \in Known : WaitsFor(t, q) => q \in T
    => p \in T

VictimTakesPart == pc = "deadlock" => ComesBackTo(victim)

\* The search comes to an end, whatever the graph (detectDeadlock returns).
SearchEnds == pc = "search" ~> pc \in {"deadlock", "clear"}

-----------------------------------------------------------------------------
(* The strengthening under which the properties are inductive: nodes that  *)
(* have returned are closed under waiting and free of circles, and the     *)
(* calls on the stack form a path.                                         *)

Returned == globalVisited \ activeStack

StackIsPath ==
  /\ activeStack = {stack[i].pid : i \in 1..Len(stack)}
  /\ \A i, j \in 1..Len(stack) : stack[i].pid = stack[j].pid => i = j
  /\ \A i \in 1..(Len(stack) - 1) : stack[i + 1].pid \in WaitForGraph(stack[i].pid)
  /\ \A i \in 1..Len(stack) : stack[i].left \subseteq WaitForGraph(stack[i].pid)

\* What a call has looked at has returned, or is the call above it.
LookedAt ==
  \A i \in 1..Len(stack) : \A n \in WaitForGraph(stack[i].pid) \ stack[i].left :
    n \in Returned \/ (i < Len(stack) /\ n = stack[i + 1].pid)

\* Whoever follows the waiting from a call comes to the calls above it.
Closed(T) == \A t \in T : WaitForGraph(t) \subseteq T

CallsFollow ==
  \A T \in SUBSET Known : Closed(T) =>
    \A i, j \in 1..Len(stack) : i < j /\ stack[i].pid \in T => stack[j].pid \in T

ReturnedClosed == \A p \in Returned : WaitForGraph(p) \subseteq Returned

ReturnedFree == \A S \in SUBSET Returned : ~CircularWait(S)

SearchInv ==
  pc = "search" =>
    /\ activeStack \subseteq globalVisited /\ globalVisited \subseteq Known
    /\ StackIsPath /\ CallsFollow /\ LookedAt /\ ReturnedClosed /\ ReturnedFree

DetectorInv == DetectorTypeOK /\ SearchInv /\ NoFalseAlarm /\ NoMissedDeadlock /\ VictimTakesPart

=============================================================================
