---------------------------- MODULE Phase3Proofs ----------------------------
(***************************************************************************)
(* Proofs about module Phase3Kernel, for any tasks and any machine.        *)
(***************************************************************************)
EXTENDS Phase3Kernel, Induction

LivePCBs == [state : States, priority : 1..3, waiting : Nat, start : Int, end : Int]
PCBs == LivePCBs \cup {NoPCB}
Tables == [Tasks -> PCBs]
Items == [pid : Tasks, priority : 1..3]
Blocks == [start : Int, end : Int, pid : Tasks \cup {Nobody}]

\* Who registers and what a PCB says of its RAM do not change.
SameBlocks(t, u) ==
  /\ Registered(u) = Registered(t)
  /\ \A p \in Registered(t) : u[p].start = t[p].start /\ u[p].end = t[p].end

-----------------------------------------------------------------------------
(* The process table.                                                      *)

LEMMA PCBFacts ==
  ASSUME NEW t \in Tables
  PROVE  /\ DOMAIN t = Tasks
         /\ \A p \in Tasks : p \in Registered(t) <=> t[p] \in LivePCBs
         /\ \A p \in Tasks : p \notin Registered(t) <=> t[p] = NoPCB
         /\ NoPCB \in PCBs /\ NoPCB \notin LivePCBs
         /\ Registered(t) \subseteq Tasks
<1>1. NoPCB \notin LivePCBs
  <2>1. NoPCB.priority = 0
    BY DEF NoPCB
  <2>2. \A b \in LivePCBs : b.priority \in 1..3
    BY DEF LivePCBs
  <2>. QED
    BY <2>1, <2>2
<1>. QED
  BY <1>1 DEF Tables, PCBs, Registered

LEMMA LiveUpdates ==
  ASSUME NEW b \in LivePCBs
  PROVE  /\ \A s \in States :
              LET c == [b EXCEPT !.state = s]
              IN /\ c \in LivePCBs /\ c.state = s /\ c.priority = b.priority
                 /\ c.start = b.start /\ c.end = b.end
         /\ \A n \in Nat :
              LET c == [b EXCEPT !.waiting = n]
              IN /\ c \in LivePCBs /\ c.state = b.state /\ c.priority = b.priority
                 /\ c.start = b.start /\ c.end = b.end
         /\ \A n \in 1..3 :
              LET c == [b EXCEPT !.priority = n, !.waiting = 0]
              IN /\ c \in LivePCBs /\ c.state = b.state /\ c.priority = n
                 /\ c.start = b.start /\ c.end = b.end
         /\ \A m, n \in Int :
              LET c == [b EXCEPT !.start = m, !.end = n]
              IN /\ c \in LivePCBs /\ c.state = b.state /\ c.priority = b.priority
                 /\ c.start = m /\ c.end = n
  BY DEF LivePCBs

LEMMA UpdateStateFacts ==
  ASSUME NEW t \in Tables, NEW p \in Tasks, NEW s \in States, NEW u, u = updateProcessState(t, p, s)
  PROVE  /\ u \in Tables /\ SameBlocks(t, u)
         /\ \A q \in Tasks : q # p => u[q] = t[q]
         /\ p \in Registered(t) => u[p].state = s /\ u[p].priority = t[p].priority
         /\ p \notin Registered(t) => u = t
<1>1. CASE p \in Registered(t)
  <2>1. t[p] \in LivePCBs
    BY <1>1, PCBFacts
  <2>2. u = [t EXCEPT ![p] = [t[p] EXCEPT !.state = s]]
    BY <1>1 DEF updateProcessState
  <2>3. /\ [t[p] EXCEPT !.state = s] \in LivePCBs
        /\ [t[p] EXCEPT !.state = s].state = s
        /\ [t[p] EXCEPT !.state = s].priority = t[p].priority
        /\ [t[p] EXCEPT !.state = s].start = t[p].start
        /\ [t[p] EXCEPT !.state = s].end = t[p].end
    BY <2>1, LiveUpdates
  <2>4. /\ u \in Tables /\ \A q \in Tasks : q # p => u[q] = t[q]
        /\ u[p] = [t[p] EXCEPT !.state = s]
    BY <2>2, <2>3 DEF Tables, PCBs
  <2>5. Registered(u) = Registered(t)
    BY <1>1, <2>3, <2>4, PCBFacts
  <2>. QED
    BY <1>1, <2>3, <2>4, <2>5, PCBFacts DEF SameBlocks
<1>2. CASE p \notin Registered(t)
  BY <1>2 DEF updateProcessState, SameBlocks
<1>. QED
  BY <1>1, <1>2

LEMMA RemoveFacts ==
  ASSUME NEW t \in Tables, NEW p \in Tasks, NEW u, u = removeProcess(t, p)
  PROVE  /\ u \in Tables /\ u[p] = NoPCB
         /\ \A q \in Tasks : q # p => u[q] = t[q]
         /\ Registered(u) = Registered(t) \ {p}
<1>1. u \in Tables /\ u[p] = NoPCB /\ \A q \in Tasks : q # p => u[q] = t[q]
  BY PCBFacts DEF removeProcess, Tables
<1>. QED
  BY <1>1, PCBFacts

LEMMA ResetFacts ==
  ASSUME NEW t \in Tables, NEW p \in Tasks, NEW u, u = resetWaitingTime(t, p)
  PROVE  /\ u \in Tables /\ SameBlocks(t, u)
         /\ \A q \in Tasks : u[q].state = t[q].state /\ u[q].priority = t[q].priority
<1>1. CASE p \in Registered(t)
  <2>1. t[p] \in LivePCBs
    BY <1>1, PCBFacts
  <2>2. u = [t EXCEPT ![p] = [t[p] EXCEPT !.waiting = 0]]
    BY <1>1 DEF resetWaitingTime
  <2>3. /\ [t[p] EXCEPT !.waiting = 0] \in LivePCBs
        /\ [t[p] EXCEPT !.waiting = 0].state = t[p].state
        /\ [t[p] EXCEPT !.waiting = 0].priority = t[p].priority
        /\ [t[p] EXCEPT !.waiting = 0].start = t[p].start
        /\ [t[p] EXCEPT !.waiting = 0].end = t[p].end
    BY <2>1, LiveUpdates
  <2>4. /\ u \in Tables /\ \A q \in Tasks : q # p => u[q] = t[q]
        /\ u[p] = [t[p] EXCEPT !.waiting = 0]
    BY <2>2, <2>3 DEF Tables, PCBs
  <2>5. Registered(u) = Registered(t)
    BY <1>1, <2>3, <2>4, PCBFacts
  <2>. QED
    BY <1>1, <2>3, <2>4, <2>5, PCBFacts DEF SameBlocks
<1>2. CASE p \notin Registered(t)
  BY <1>2 DEF resetWaitingTime, SameBlocks
<1>. QED
  BY <1>1, <1>2

LEMMA NewPCB ==
  ASSUME NEW priority \in 1..3, NEW c, c = [NoPCB EXCEPT !.state = "NEW", !.priority = priority]
  PROVE  c \in LivePCBs /\ c.priority = priority
<1>1. PICK x, r : r = -1 /\ x = NoPCB
  OBVIOUS
<1>2. x = [state |-> "none", priority |-> 0, waiting |-> 0, start |-> r, end |-> r]
  BY <1>1 DEF NoPCB
<1>3. c = [x EXCEPT !.state = "NEW", !.priority = priority]
  BY <1>1
<1>4. c = [state |-> "NEW", priority |-> priority, waiting |-> 0, start |-> r, end |-> r]
  BY <1>2, <1>3
<1>5. r \in Int
  BY <1>1
<1>. QED
  BY <1>4, <1>5 DEF LivePCBs, States

\* The PCB b with a block.
PlacedAt(b, m, n) == [b EXCEPT !.start = m, !.end = n]

LEMMA PlacedPCB ==
  ASSUME NEW b \in LivePCBs, NEW m \in Int, NEW n \in Int, NEW c, c = PlacedAt(b, m, n)
  PROVE  c \in LivePCBs /\ c.priority = b.priority /\ c.start = m /\ c.end = n
  BY DEF LivePCBs, PlacedAt

\* createPCB, updateMemoryBlock and updateProcessState in a row: a launch.
Launched(t, p, priority, block) ==
  updateProcessState(updateMemoryBlock(createPCB(t, p, priority), p, block), p, "READY")

LEMMA LaunchFacts ==
  ASSUME NEW t \in Tables, NEW p \in Tasks, t[p] = NoPCB, NEW priority \in 1..3,
         NEW block, block.start \in Int, block.end \in Int,
         NEW u, u = Launched(t, p, priority, block)
  PROVE  /\ u \in Tables /\ \A q \in Tasks : q # p => u[q] = t[q]
         /\ Registered(u) = Registered(t) \cup {p}
         /\ u[p].state = "READY" /\ u[p].priority = priority
         /\ u[p].start = block.start /\ u[p].end = block.end
<1>1. PICK m, n, new, placed, v, w :
         /\ m = block.start /\ n = block.end
         /\ new = [NoPCB EXCEPT !.state = "NEW", !.priority = priority]
         /\ placed = PlacedAt(new, m, n)
         /\ v = createPCB(t, p, priority)
         /\ w = updateMemoryBlock(v, p, block)
  OBVIOUS
<1>2. new \in LivePCBs /\ new.priority = priority
  BY <1>1, NewPCB
<1>3. v \in Tables /\ v[p] = new /\ \A q \in Tasks : q # p => v[q] = t[q]
  <2>1. p \notin Registered(t)
    BY PCBFacts
  <2>2. v = [t EXCEPT ![p] = new]
    BY <1>1, <2>1 DEF createPCB
  <2>. QED
    BY <1>2, <2>2 DEF Tables, PCBs
<1>4. placed \in LivePCBs /\ placed.priority = priority /\ placed.start = m /\ placed.end = n
  <2>1. m \in Int /\ n \in Int
    BY <1>1
  <2>2. placed = PlacedAt(new, m, n)
    BY <1>1
  <2>3. placed \in LivePCBs /\ placed.priority = new.priority /\ placed.start = m /\ placed.end = n
    BY <1>2, <2>1, <2>2, PlacedPCB
  <2>. QED
    BY <1>2, <2>3
<1>5. w \in Tables /\ w[p] = placed /\ \A q \in Tasks : q # p => w[q] = t[q]
  <2>1. p \in Registered(v)
    BY <1>2, <1>3, PCBFacts
  <2>2. w = [v EXCEPT ![p] = PlacedAt(v[p], m, n)]
    BY <1>1, <2>1 DEF updateMemoryBlock, PlacedAt
  <2>3. w = [v EXCEPT ![p] = placed]
    BY <1>1, <1>3, <2>2
  <2>. QED
    BY <1>3, <1>4, <2>3 DEF Tables, PCBs
<1>6. u = updateProcessState(w, p, "READY")
  BY <1>1 DEF Launched
<1>7. /\ p \in Registered(w) /\ \A q \in Tasks : q # p => (q \in Registered(w) <=> q \in Registered(t))
  BY <1>4, <1>5, PCBFacts
<1>8. /\ u \in Tables /\ SameBlocks(w, u) /\ \A q \in Tasks : q # p => u[q] = w[q]
      /\ u[p].state = "READY" /\ u[p].priority = w[p].priority
  <2>1. "READY" \in States
    BY DEF States
  <2>. QED
    BY <1>5, <1>6, <1>7, <2>1, UpdateStateFacts
<1>9. Registered(u) = Registered(t) \cup {p}
  <2>1. Registered(u) = Registered(w)
    BY <1>8 DEF SameBlocks
  <2>. QED
    BY <1>5, <1>7, <2>1, PCBFacts
<1>10. u[p].start = m /\ u[p].end = n
  BY <1>4, <1>5, <1>7, <1>8 DEF SameBlocks
<1>11. m = block.start /\ n = block.end
  BY <1>1
<1>12. \A q \in Tasks : q # p => u[q] = t[q]
  BY <1>5, <1>8
<1>. QED
  BY <1>4, <1>5, <1>8, <1>9, <1>10, <1>11, <1>12

\* One turn of applyAging leaves everything but the priority and the waiting time
\* of its task.
LEMMA AgePCBFacts ==
  ASSUME NEW t \in Tables, NEW p \in Tasks, p \in Registered(t), NEW u,
         u = AgePCB(t, p, AgingThreshold)
  PROVE  /\ u \in Tables /\ SameBlocks(t, u)
         /\ \A q \in Tasks : q # p => u[q] = t[q]
         /\ \A q \in Tasks : u[q].state = t[q].state
         /\ u[p].priority \in 1..3
<1>. DEFINE waits == incrementWaitingTime(t, p)
<1>1. t[p] \in LivePCBs /\ t[p].waiting \in Nat /\ t[p].priority \in 1..3
  <2>1. t[p] \in LivePCBs
    BY PCBFacts
  <2>. QED
    BY <2>1 DEF LivePCBs
<1>2. PICK m : m = t[p].waiting + 1
  OBVIOUS
<1>3. m \in Nat
  BY <1>1, <1>2
<1>4. PICK n : n = t[p].priority - 1
  OBVIOUS
<1>5. waits = [t EXCEPT ![p] = [t[p] EXCEPT !.waiting = m]]
  BY <1>2 DEF incrementWaitingTime
<1>6. PICK b : b = [t[p] EXCEPT !.waiting = m]
  OBVIOUS
<1>7. /\ b \in LivePCBs /\ b.state = t[p].state /\ b.priority = t[p].priority
      /\ b.start = t[p].start /\ b.end = t[p].end
  BY <1>1, <1>3, <1>6, LiveUpdates
<1>8. waits = [t EXCEPT ![p] = b]
  BY <1>5, <1>6
<1>9. /\ waits \in Tables /\ waits[p] = b /\ \A q \in Tasks : q # p => waits[q] = t[q]
  BY <1>7, <1>8 DEF Tables, PCBs
<1>10. p \in Registered(waits)
  BY <1>7, <1>9, PCBFacts
<1>11. ASSUME t[p].priority > 1
       PROVE  LET c == [b EXCEPT !.priority = n, !.waiting = 0]
              IN /\ improvePriority(waits, p) = [waits EXCEPT ![p] = c]
                 /\ n \in 1..3
  <2>1. waits[p].priority > 1 /\ waits[p].priority - 1 = n /\ n \in 1..3
    BY <1>1, <1>4, <1>7, <1>9, <1>11
  <2>. HIDE DEF waits
  <2>2. improvePriority(waits, p)
          = [waits EXCEPT ![p] = [waits[p] EXCEPT !.priority = waits[p].priority - 1, !.waiting = 0]]
    BY <1>10, <2>1 DEF improvePriority
  <2>. QED
    BY <1>9, <2>1, <2>2
<1>. HIDE DEF waits
<1>12. \/ u = t \/ u = waits
       \/ /\ t[p].priority > 1
          /\ u = improvePriority(waits, p)
  <2>1. u = t \/ (t[p].priority > 1 /\ (u = waits \/ u = improvePriority(waits, p)))
    BY <1>1 DEF AgePCB, waits
  <2>. QED
    BY <2>1
<1>13. PICK c : /\ c \in LivePCBs /\ c.state = t[p].state
                /\ c.start = t[p].start /\ c.end = t[p].end
                /\ u = [t EXCEPT ![p] = c]
  <2>1. CASE u = t
    <3>1. u = [t EXCEPT ![p] = t[p]]
      BY <2>1 DEF Tables
    <3>. QED
      BY <1>1, <3>1
  <2>2. CASE u = waits
    BY <1>7, <1>8, <2>2
  <2>3. CASE t[p].priority > 1 /\ u = improvePriority(waits, p)
    <3>1. PICK c : c = [b EXCEPT !.priority = n, !.waiting = 0]
      OBVIOUS
    <3>2. /\ c \in LivePCBs /\ c.state = b.state /\ c.start = b.start /\ c.end = b.end
      BY <1>7, <1>11, <2>3, <3>1, LiveUpdates
    <3>3. u = [waits EXCEPT ![p] = c]
      BY <1>11, <2>3, <3>1
    <3>4. u = [t EXCEPT ![p] = c]
      BY <1>8, <3>3 DEF Tables
    <3>. QED
      BY <1>7, <3>2, <3>4
  <2>. QED
    BY <1>12, <2>1, <2>2, <2>3
<1>14. /\ u \in Tables /\ u[p] = c /\ \A q \in Tasks : q # p => u[q] = t[q]
  BY <1>13 DEF Tables, PCBs
<1>15. Registered(u) = Registered(t)
  BY <1>13, <1>14, PCBFacts
<1>16. c.priority \in 1..3
  BY <1>13 DEF LivePCBs
<1>. QED
  BY <1>13, <1>14, <1>15, <1>16, PCBFacts DEF SameBlocks

-----------------------------------------------------------------------------
(* Admission.                                                              *)

LEMMA ProgramFacts ==
  ASSUME NEW p \in Tasks
  PROVE  /\ Program[p].priority \in 1..3 /\ Program[p].ram \in Nat /\ Program[p].ram > 0
         /\ Program[p].type \in {"system", "timed"}
         /\ p # Nobody
  BY Phase3Assumption DEF Nobody

\* The first free block that is large enough is one.
LEMMA FirstFitFacts ==
  ASSUME NEW s \in Seq(Blocks), NEW n \in Nat, FirstFit(s, n) # 0
  PROVE  /\ FirstFit(s, n) \in 1..Len(s)
         /\ IsFree(s[FirstFit(s, n)]) /\ SizeOf(s[FirstFit(s, n)]) >= n
<1>. DEFINE fits == {i \in DOMAIN s : IsFree(s[i]) /\ SizeOf(s[i]) >= n}
<1>1. DOMAIN s = 1..Len(s) /\ Len(s) \in Nat
  OBVIOUS
<1>2. fits \subseteq Nat /\ fits # {}
  BY <1>1 DEF FirstFit
<1>3. \E i \in fits : \A j \in fits : i <= j
  <2>. HIDE DEF fits
  <2>. QED
    BY <1>2, LeastElement
<1>4. FirstFit(s, n) = CHOOSE i \in fits : \A j \in fits : i <= j
  BY <1>2 DEF FirstFit
<1>5. FirstFit(s, n) \in fits
  <2>. HIDE DEF fits
  <2>. QED
    BY <1>3, <1>4
<1>. QED
  BY <1>1, <1>5

\* A task that is admitted gets the beginning of a free block.
LEMMA AdmitsFacts ==
  ASSUME memoryBlocks \in Seq(Blocks), NEW p \in Tasks, Admits(p)
  PROVE  LET i == FirstFit(memoryBlocks, Program[p].ram)
             block == Allocated(memoryBlocks, p, Program[p].ram)
         IN /\ i \in 1..Len(memoryBlocks) /\ memoryBlocks[i] \in Blocks
            /\ IsFree(memoryBlocks[i]) /\ SizeOf(memoryBlocks[i]) >= Program[p].ram
            /\ block.start = memoryBlocks[i].start /\ block.pid = p
            /\ block.end = memoryBlocks[i].start + Program[p].ram
            /\ block.start \in Int /\ block.end \in Int
            /\ Program[p].ram <= available
<1>1. PICK i, n, b : i = FirstFit(memoryBlocks, n) /\ n = Program[p].ram /\ b = memoryBlocks[i]
  <2>1. PICK n : n = Program[p].ram
    OBVIOUS
  <2>. QED
    BY <2>1
<1>2. n \in Nat /\ i # 0 /\ n <= available
  BY <1>1, ProgramFacts DEF Admits, checkResources
<1>3. i \in 1..Len(memoryBlocks) /\ IsFree(b) /\ SizeOf(b) >= n
  BY <1>1, <1>2, FirstFitFacts
<1>4. b \in Blocks /\ b.start \in Int
  <2>1. b \in Blocks
    BY <1>1, <1>3
  <2>. QED
    BY <2>1 DEF Blocks
<1>5. Allocated(memoryBlocks, p, n) = Block(b.start, b.start + n, p)
  BY <1>1 DEF Allocated
<1>6. PICK m, e : m = b.start /\ e = m + n
  OBVIOUS
<1>7. m \in Int /\ e \in Int
  BY <1>2, <1>4, <1>6
<1>8. /\ Block(m, e, p).start = m /\ Block(m, e, p).end = e /\ Block(m, e, p).pid = p
  BY DEF Block
<1>. QED
  BY <1>1, <1>2, <1>3, <1>4, <1>5, <1>6, <1>7, <1>8

-----------------------------------------------------------------------------
(* The ready queues: who stands in which.                                  *)

QueueSets == [Queues -> Seq(Items)]

\* The tasks S stand in the queues q, each once, in that of the priority its PCB
\* in t shows.
Match(q, t, S) ==
  /\ \A k \in Queues : DistinctSeq(q[k])
  /\ \A k \in Queues : \A p : InSeq(q[k], p) <=> p \in S /\ t[p].priority = k

LEMMA ItemFacts ==
  ASSUME NEW p \in Tasks, NEW k \in 1..3
  PROVE  Item(p, k) \in Items /\ Item(p, k).pid = p /\ Item(p, k).priority = k /\ Level(k) = k
         /\ k \in Queues
  BY DEF Item, Items, Level, Queues

LEMMA PidFacts ==
  ASSUME NEW s \in Seq(Items)
  PROVE  /\ \A i \in 1..Len(s) : s[i] \in Items /\ s[i].pid \in Tasks
         /\ \A p : InSeq(s, p) => p \in Tasks
<1>1. \A i \in 1..Len(s) : s[i] \in Items
  OBVIOUS
<1>2. \A i \in 1..Len(s) : s[i].pid \in Tasks
  BY <1>1 DEF Items
<1>. QED
  BY <1>1, <1>2 DEF InSeq

LEMMA NoItemsFacts ==
  NoItems \in QueueSets /\ \A t : Match(NoItems, t, {})
<1>1. \A k \in Queues : NoItems[k] = <<>>
  BY DEF NoItems
<1>2. <<>> \in Seq(Items) /\ DistinctSeq(<<>>) /\ \A p : ~InSeq(<<>>, p)
  BY EmptyFacts
<1>3. NoItems \in QueueSets
  BY <1>2 DEF NoItems, QueueSets
<1>. QED
  BY <1>1, <1>2, <1>3 DEF Match

\* Queues in which nobody stands.
LEMMA NobodyQueues ==
  ASSUME NEW q \in QueueSets, NEW t, Match(q, t, {}) PROVE q = NoItems
<1>1. ASSUME NEW k \in Queues PROVE q[k] = <<>>
  <2>1. q[k] \in Seq(Items) /\ \A p : ~InSeq(q[k], p)
    BY DEF QueueSets, Match
  <2>2. \A i \in 1..Len(q[k]) : FALSE
    BY <2>1 DEF InSeq
  <2>3. Len(q[k]) \in Nat /\ ~(1 \in 1..Len(q[k]))
    BY <2>1, <2>2
  <2>4. Len(q[k]) = 0
    BY <2>3
  <2>. QED
    BY <2>1, <2>4
<1>. QED
  BY <1>1 DEF QueueSets, NoItems

\* A task that is in no queue is put into that of its priority.
LEMMA AddFacts ==
  ASSUME NEW q \in QueueSets, NEW p \in Tasks, NEW k \in 1..3
  PROVE  /\ addProcessToReadyQueue(q, p, k) \in QueueSets
         /\ \A t, u, S :
              /\ Match(q, t, S) /\ p \notin S
              /\ u[p].priority = k /\ \A r \in S : u[r].priority = t[r].priority
              => Match(addProcessToReadyQueue(q, p, k), u, S \cup {p})
<1>1. PICK it, v : it = Item(p, k) /\ v = addProcessToReadyQueue(q, p, k)
  OBVIOUS
<1>2. it \in Items /\ it.pid = p /\ k \in Queues /\ Level(k) = k
  BY <1>1, ItemFacts
<1>3. \A l \in Queues : q[l] \in Seq(Items)
  BY DEF QueueSets
<1>4. /\ Append(q[k], it) \in Seq(Items)
      /\ \A r : InSeq(Append(q[k], it), r) <=> InSeq(q[k], r) \/ r = p
      /\ DistinctSeq(q[k]) /\ ~InSeq(q[k], p) => DistinctSeq(Append(q[k], it))
  BY <1>2, <1>3, AppendFacts
<1>5. v = [q EXCEPT ![k] = Append(q[k], it)]
  BY <1>1, <1>2 DEF addProcessToReadyQueue
<1>6. /\ v \in QueueSets /\ v[k] = Append(q[k], it)
      /\ \A l \in Queues : l # k => v[l] = q[l]
  BY <1>2, <1>4, <1>5 DEF QueueSets
<1>7. ASSUME NEW t, NEW u, NEW S, Match(q, t, S), p \notin S,
             u[p].priority = k, \A r \in S : u[r].priority = t[r].priority
      PROVE  Match(v, u, S \cup {p})
  <2>1. \A l \in Queues : DistinctSeq(v[l])
    <3>1. ~InSeq(q[k], p) /\ \A l \in Queues : DistinctSeq(q[l])
      BY <1>2, <1>7 DEF Match
    <3>. QED
      BY <1>4, <1>6, <3>1
  <2>2. ASSUME NEW l \in Queues, NEW r
        PROVE  InSeq(v[l], r) <=> r \in S \cup {p} /\ u[r].priority = l
    <3>1. InSeq(q[l], r) <=> r \in S /\ t[r].priority = l
      BY <1>7 DEF Match
    <3>2. InSeq(v[l], r) <=> InSeq(q[l], r) \/ (l = k /\ r = p)
      BY <1>4, <1>6
    <3>. QED
      BY <1>7, <3>1, <3>2
  <2>. QED
    BY <2>1, <2>2 DEF Match
<1>. QED
  BY <1>1, <1>6, <1>7

\* A task is taken out of the queues.
LEMMA RemoveItemFacts ==
  ASSUME NEW q \in QueueSets, NEW p
  PROVE  /\ removeProcessByPID(q, p) \in QueueSets
         /\ \A t, S : Match(q, t, S) => Match(removeProcessByPID(q, p), t, S \ {p})
<1>1. PICK v : v = removeProcessByPID(q, p)
  OBVIOUS
<1>2. \A l \in Queues : v[l] = Others(q[l], p)
  BY <1>1 DEF removeProcessByPID, removeFromQueueByPID, Others
<1>3. \A l \in Queues : q[l] \in Seq(Items)
  BY DEF QueueSets
<1>4. \A l \in Queues : /\ Others(q[l], p) \in Seq(Items)
                        /\ \A r : InSeq(Others(q[l], p), r) <=> InSeq(q[l], r) /\ r # p
                        /\ DistinctSeq(q[l]) => DistinctSeq(Others(q[l], p))
  BY <1>3, OthersFacts
<1>5. v \in QueueSets
  BY <1>1, <1>2, <1>4 DEF QueueSets, removeProcessByPID
<1>6. ASSUME NEW t, NEW S, Match(q, t, S) PROVE Match(v, t, S \ {p})
  BY <1>2, <1>4, <1>6 DEF Match
<1>. QED
  BY <1>1, <1>5, <1>6

\* The first item of a queue is taken.
LEMMA TakeFacts ==
  ASSUME NEW q \in QueueSets, NEW k \in Queues, q[k] # <<>>, NEW p, p = Head(q[k]).pid
  PROVE  /\ p \in Tasks /\ [q EXCEPT ![k] = Tail(@)] \in QueueSets
         /\ \A t, S : Match(q, t, S) => /\ p \in S
                                        /\ Match([q EXCEPT ![k] = Tail(@)], t, S \ {p})
<1>1. PICK v : v = [q EXCEPT ![k] = Tail(q[k])]
  OBVIOUS
<1>2. q[k] \in Seq(Items)
  BY DEF QueueSets
<1>3. /\ InSeq(q[k], p) /\ Tail(q[k]) \in Seq(Items)
      /\ \A r : InSeq(q[k], r) => InSeq(Tail(q[k]), r) \/ r = p
      /\ \A r : InSeq(Tail(q[k]), r) => InSeq(q[k], r)
      /\ DistinctSeq(q[k]) => DistinctSeq(Tail(q[k])) /\ ~InSeq(Tail(q[k]), p)
  BY <1>2, TailFacts
<1>4. p \in Tasks
  BY <1>2, <1>3, PidFacts
<1>5. v \in QueueSets /\ v[k] = Tail(q[k]) /\ \A l \in Queues : l # k => v[l] = q[l]
  BY <1>1, <1>3 DEF QueueSets
<1>6. ASSUME NEW t, NEW S, Match(q, t, S) PROVE p \in S /\ Match(v, t, S \ {p})
  <2>1. p \in S /\ t[p].priority = k /\ \A l \in Queues : DistinctSeq(q[l])
    BY <1>3, <1>6 DEF Match
  <2>2. \A l \in Queues : DistinctSeq(v[l])
    BY <1>3, <1>5, <2>1
  <2>3. ASSUME NEW l \in Queues, NEW r
        PROVE  InSeq(v[l], r) <=> r \in S \ {p} /\ t[r].priority = l
    <3>1. InSeq(q[l], r) <=> r \in S /\ t[r].priority = l
      BY <1>6 DEF Match
    <3>2. CASE l = k
      BY <1>3, <1>5, <2>1, <3>1, <3>2
    <3>3. CASE l # k
      BY <1>5, <2>1, <3>1, <3>3
    <3>. QED
      BY <3>2, <3>3
  <2>. QED
    BY <2>1, <2>2, <2>3 DEF Match
<1>. QED
  BY <1>1, <1>4, <1>5, <1>6

-----------------------------------------------------------------------------
(* Aging.                                                                  *)

Drained(q) == q[1] \o q[2] \o q[3]

LEMMA DrainedFacts ==
  ASSUME NEW q \in QueueSets
  PROVE  /\ Drained(q) \in Seq(Items)
         /\ \A t, S : t \in Tables /\ S \subseteq Registered(t) /\ Match(q, t, S) =>
              DistinctSeq(Drained(q)) /\ \A p : InSeq(Drained(q), p) <=> p \in S
<1>1. PICK x, y, z, w : x = q[1] /\ y = q[2] /\ z = q[3] /\ w = x \o y
  OBVIOUS
<1>2. 1 \in Queues /\ 2 \in Queues /\ 3 \in Queues
  BY DEF Queues
<1>3. x \in Seq(Items) /\ y \in Seq(Items) /\ z \in Seq(Items)
  BY <1>1, <1>2 DEF QueueSets
<1>4. /\ w \in Seq(Items)
      /\ \A p : InSeq(w, p) <=> InSeq(x, p) \/ InSeq(y, p)
      /\ DistinctSeq(x) /\ DistinctSeq(y) /\ Separate(x, y) => DistinctSeq(w)
  BY <1>1, <1>3, ConcatFacts
<1>5. /\ w \o z \in Seq(Items)
      /\ \A p : InSeq(w \o z, p) <=> InSeq(w, p) \/ InSeq(z, p)
      /\ DistinctSeq(w) /\ DistinctSeq(z) /\ Separate(w, z) => DistinctSeq(w \o z)
  BY <1>3, <1>4, ConcatFacts
<1>6. Drained(q) = w \o z
  BY <1>1 DEF Drained
<1>7. ASSUME NEW t \in Tables, NEW S, S \subseteq Registered(t), Match(q, t, S)
      PROVE  DistinctSeq(w \o z) /\ \A p : InSeq(w \o z, p) <=> p \in S
  <2>1. /\ DistinctSeq(x) /\ DistinctSeq(y) /\ DistinctSeq(z)
        /\ \A p : InSeq(x, p) <=> p \in S /\ t[p].priority = 1
        /\ \A p : InSeq(y, p) <=> p \in S /\ t[p].priority = 2
        /\ \A p : InSeq(z, p) <=> p \in S /\ t[p].priority = 3
    BY <1>1, <1>2, <1>7 DEF Match
  <2>2. \A p \in S : t[p].priority \in 1..3
    BY <1>7, PCBFacts DEF LivePCBs
  <2>3. \A p \in S : t[p].priority = 1 \/ t[p].priority = 2 \/ t[p].priority = 3
    BY <2>2
  <2>4. Separate(x, y)
    BY <2>1 DEF Separate
  <2>5. Separate(w, z)
    BY <1>4, <2>1 DEF Separate
  <2>. QED
    BY <1>4, <1>5, <2>1, <2>3, <2>4, <2>5
<1>. QED
  BY <1>5, <1>6, <1>7

\* The tasks of the first n items of d.
Passed(d, n) == {d[i].pid : i \in 1..n}

LEMMA PassedFacts ==
  ASSUME NEW d \in Seq(Items), DistinctSeq(d)
  PROVE  /\ Passed(d, 0) = {}
         /\ \A p : p \in Passed(d, Len(d)) <=> InSeq(d, p)
         /\ \A n \in Nat : n < Len(d) => /\ d[n + 1].pid \notin Passed(d, n)
                                         /\ Passed(d, n + 1) = Passed(d, n) \cup {d[n + 1].pid}
<1>1. Len(d) \in Nat
  OBVIOUS
<1>2. Passed(d, 0) = {} /\ \A p : p \in Passed(d, Len(d)) <=> InSeq(d, p)
  BY DEF Passed, InSeq
<1>3. ASSUME NEW n \in Nat, n < Len(d)
      PROVE  /\ d[n + 1].pid \notin Passed(d, n)
             /\ Passed(d, n + 1) = Passed(d, n) \cup {d[n + 1].pid}
  <2>1. n + 1 \in 1..Len(d) /\ \A i \in 1..n : i \in 1..Len(d) /\ i # n + 1 /\ i \in 1..(n + 1)
    BY <1>1, <1>3
  <2>2. \A i \in 1..(n + 1) : i \in 1..n \/ i = n + 1
    OBVIOUS
  <2>3. n + 1 \in 1..(n + 1)
    OBVIOUS
  <2>4. d[n + 1].pid \notin Passed(d, n)
    BY <2>1 DEF Passed, DistinctSeq
  <2>5. Passed(d, n + 1) = Passed(d, n) \cup {d[n + 1].pid}
    BY <2>1, <2>2, <2>3 DEF Passed
  <2>. QED
    BY <2>4, <2>5
<1>. QED
  BY <1>2, <1>3

\* What aging leaves of a table: its tasks, where they are in RAM, their states.
SameTasks(t, u) ==
  /\ SameBlocks(t, u)
  /\ \A p \in Tasks : u[p].state = t[p].state

AgedTypes == [table : Tables, queues : QueueSets]

\* One turn of the loop of applyAging.
LEMMA AgeItemFacts ==
  ASSUME NEW a \in AgedTypes, NEW it \in Items
  PROVE  LET b == AgeItem(a, it, AgingThreshold)
         IN /\ b \in AgedTypes /\ SameTasks(a.table, b.table)
            /\ \A q \in Tasks : q # it.pid => b.table[q] = a.table[q]
            /\ \A S : /\ Match(a.queues, a.table, S) /\ S \subseteq Tasks
                      /\ it.pid \notin S /\ it.pid \in Registered(a.table)
                      => Match(b.queues, b.table, S \cup {it.pid})
<1>1. PICK b, p, t, q : /\ b = AgeItem(a, it, AgingThreshold)
                        /\ p = it.pid /\ t = a.table /\ q = a.queues
  OBVIOUS
<1>2. t \in Tables /\ q \in QueueSets /\ p \in Tasks
  BY <1>1 DEF AgedTypes, Items
<1>3. CASE p \notin Registered(t)
  <2>1. b = a
    BY <1>1, <1>3 DEF AgeItem
  <2>2. SameTasks(t, t)
    BY DEF SameTasks, SameBlocks
  <2>. QED
    BY <1>1, <1>3, <2>1, <2>2
<1>4. CASE p \in Registered(t)
  <2>1. PICK u, k, v : /\ u = AgePCB(t, p, AgingThreshold) /\ k = u[p].priority
                       /\ v = addProcessToReadyQueue(q, p, k)
    OBVIOUS
  <2>2. /\ u \in Tables /\ SameBlocks(t, u)
        /\ \A r \in Tasks : r # p => u[r] = t[r]
        /\ \A r \in Tasks : u[r].state = t[r].state
        /\ k \in 1..3
    BY <1>2, <1>4, <2>1, AgePCBFacts
  <2>3. v = insertAgedProcess(q, Item(p, k))
    <3>1. Item(p, k).priority = k
      BY DEF Item
    <3>. QED
      BY <2>1, <3>1 DEF insertAgedProcess, addProcessToReadyQueue
  <2>4. b = [table |-> u, queues |-> v]
    BY <1>1, <1>4, <2>1, <2>3 DEF AgeItem
  <2>5. v \in QueueSets
    BY <1>2, <2>1, <2>2, AddFacts
  <2>6. b \in AgedTypes /\ b.table = u /\ b.queues = v
    BY <2>2, <2>4, <2>5 DEF AgedTypes
  <2>7. ASSUME NEW S, Match(q, t, S), S \subseteq Tasks, p \notin S
        PROVE  Match(v, u, S \cup {p})
    <3>1. \A r \in S : u[r].priority = t[r].priority
      BY <2>2, <2>7
    <3>. QED
      BY <1>2, <2>1, <2>2, <2>7, <3>1, AddFacts
  <2>8. SameTasks(t, u)
    BY <2>2 DEF SameTasks
  <2>. QED
    BY <1>1, <2>2, <2>6, <2>7, <2>8
<1>. QED
  BY <1>3, <1>4

\* applyAging runs through the items of the three queues.
AgingRuns(q, t, a) ==
  \E h \in [0..Len(Drained(q)) -> AgedTypes] :
    /\ h[0] = [table |-> t, queues |-> NoItems]
    /\ \A i \in 1..Len(Drained(q)) : h[i] = AgeItem(h[i - 1], Drained(q)[i], AgingThreshold)
    /\ a = h[Len(Drained(q))]

LEMMA AgingFolds ==
  ASSUME NEW q \in QueueSets, NEW t \in Tables
  PROVE  AgingRuns(q, t, applyAging(q, t, AgingThreshold))
<1>. DEFINE X == AgedTypes
            b == [table |-> t, queues |-> NoItems]
            s == Drained(q)
            D == SUBSET DOMAIN s
            Age(a, it) == AgeItem(a, it, AgingThreshold)
            P(g) == g = [d \in D |-> IF d = {} THEN b ELSE Age(g[d \ {Max(d)}], s[Max(d)])]
            iter == CHOOSE g : P(g)
<1>1. PICK F \in [X \X Items -> X] : \A x \in X, e \in Items : F[<<x, e>>] = Age(x, e)
  <2>. DEFINE F == [z \in X \X Items |-> Age(z[1], z[2])]
  <2>1. \A x \in X, e \in Items : Age(x, e) \in X
    BY AgeItemFacts
  <2>. HIDE DEF X, Age
  <2>2. F \in [X \X Items -> X] /\ \A x \in X, e \in Items : F[<<x, e>>] = Age(x, e)
    BY <2>1
  <2>. HIDE DEF F
  <2>. QED
    BY <2>2
<1>2. b \in X /\ s \in Seq(Items) /\ Len(s) \in Nat /\ DOMAIN s = 1..Len(s)
  <2>1. s \in Seq(Items)
    BY DrainedFacts
  <2>2. b \in X
    BY NoItemsFacts DEF AgedTypes
  <2>. HIDE DEF s, X, b
  <2>. QED
    BY <2>1, <2>2
<1>. HIDE DEF X, b, s
<1>3. \A d \in D \ {{}} : Max(d) \in DOMAIN s /\ s[Max(d)] \in Items /\ d \ {Max(d)} \in D
  <2>1. ASSUME NEW d \in D \ {{}}
        PROVE  Max(d) \in DOMAIN s /\ s[Max(d)] \in Items /\ d \ {Max(d)} \in D
    <3>1. Max(d) \in d
      BY <1>2, MaxOfSubset
    <3>2. Max(d) \in 1..Len(s)
      BY <1>2, <3>1
    <3>. HIDE DEF Max
    <3>. QED
      BY <1>2, <3>2
  <2>. HIDE DEF D
  <2>. QED
    BY <2>1
<1>4. \E g : P(g)
  <2>1. HasFoldLeft(X, b, F, s)
    BY <1>2, FoldLeftExists
  <2>2. PICK g \in [D -> X] : /\ g[{}] = b
           /\ \A d \in D \ {{}} : g[d] = F[<<g[d \ {Max(d)}], s[Max(d)]>>]
    BY <2>1 DEF HasFoldLeft
  <2>3. \A d \in D \ {{}} : g[d] = Age(g[d \ {Max(d)}], s[Max(d)])
    <3>. HIDE DEF D, Age
    <3>. QED
      BY <1>1, <1>3, <2>2
  <2>. QED
    <3>. HIDE DEF Age
    <3>. QED
      BY <2>2, <2>3
<1>5. P(iter)
  <2>. HIDE DEF P
  <2>. QED
    BY <1>4
<1>6. applyAging(q, t, AgingThreshold) = iter[DOMAIN s]
  BY DEF applyAging, FoldLeft, MapThenFoldSet, Drained, b, s
<1>7. /\ iter[{}] = b
      /\ \A d \in D \ {{}} : iter[d] = Age(iter[d \ {Max(d)}], s[Max(d)])
  <2>. HIDE DEF iter
  <2>. QED
    BY <1>5
<1>8. RunsTo(X, b, F, s, iter[DOMAIN s])
  <2>1. \A d \in SUBSET DOMAIN s : d # {} /\ iter[d \ {Max(d)}] \in X =>
          iter[d] = F[<<iter[d \ {Max(d)}], s[Max(d)]>>]
    <3>. HIDE DEF iter, Age
    <3>. QED
      BY <1>1, <1>3, <1>7
  <2>. HIDE DEF iter
  <2>. QED
    BY <1>2, <1>7, <2>1, FoldLeftRuns
<1>. HIDE DEF D, iter
<1>9. PICK h \in [0..Len(s) -> X] :
            /\ h[0] = b
            /\ \A i \in 1..Len(s) : h[i] = F[<<h[i - 1], s[i]>>]
            /\ iter[DOMAIN s] = h[Len(s)]
  BY <1>8 DEF RunsTo
<1>10. \A i \in 1..Len(s) : h[i] = Age(h[i - 1], s[i])
  <2>1. \A i \in 1..Len(s) : i - 1 \in 0..Len(s) /\ s[i] \in Items
    BY <1>2
  <2>. HIDE DEF Age
  <2>. QED
    BY <1>1, <1>9, <2>1
<1>. QED
  BY <1>6, <1>9, <1>10 DEF AgingRuns, s, b, X

\* Aging leaves a task in line in line, and everything but its priority and its
\* waiting time.
LEMMA AgingFacts ==
  ASSUME NEW q \in QueueSets, NEW t \in Tables, NEW a, a = applyAging(q, t, AgingThreshold)
  PROVE  /\ a \in AgedTypes /\ SameTasks(t, a.table)
         /\ \A S : Match(q, t, S) /\ S \subseteq Registered(t) => Match(a.queues, a.table, S)
<1>1. PICK s : s = Drained(q)
  OBVIOUS
<1>2. s \in Seq(Items) /\ Len(s) \in Nat /\ \A i \in 1..Len(s) : s[i] \in Items
  BY <1>1, DrainedFacts
<1>3. PICK h \in [0..Len(s) -> AgedTypes] :
            /\ h[0] = [table |-> t, queues |-> NoItems]
            /\ \A i \in 1..Len(s) : h[i] = AgeItem(h[i - 1], s[i], AgingThreshold)
            /\ a = h[Len(s)]
  BY <1>1, AgingFolds DEF AgingRuns
<1>4. ASSUME NEW n \in Nat, n + 1 <= Len(s)
      PROVE  /\ n \in 0..Len(s) /\ n < Len(s) /\ n + 1 \in 1..Len(s)
             /\ h[n] \in AgedTypes /\ s[n + 1] \in Items
             /\ h[n + 1] = AgeItem(h[n], s[n + 1], AgingThreshold)
  <2>1. n \in 0..Len(s) /\ n < Len(s) /\ n + 1 \in 1..Len(s) /\ (n + 1) - 1 = n
    BY <1>2, <1>4
  <2>. QED
    BY <1>2, <1>3, <2>1
<1>5. SameTasks(t, a.table)
  <2>. DEFINE T == {n \in Nat : n <= Len(s) => SameTasks(t, h[n].table)}
  <2>1. 0 \in T
    <3>1. h[0].table = t
      BY <1>3
    <3>. QED
      BY <3>1 DEF SameTasks, SameBlocks
  <2>2. ASSUME NEW n \in Nat, n \in T PROVE n + 1 \in T
    <3>1. SUFFICES ASSUME n + 1 <= Len(s) PROVE SameTasks(t, h[n + 1].table)
      OBVIOUS
    <3>2. SameTasks(t, h[n].table)
      BY <1>2, <2>2, <3>1
    <3>3. SameTasks(h[n].table, h[n + 1].table)
      BY <1>4, <3>1, AgeItemFacts
    <3>. QED
      BY <3>2, <3>3 DEF SameTasks, SameBlocks
  <2>3. \A n \in Nat : n \in T
    <3>. HIDE DEF T
    <3>. QED
      BY <2>1, <2>2, SetInduction
  <2>. QED
    BY <1>2, <1>3, <2>3
<1>6. ASSUME NEW S, Match(q, t, S), S \subseteq Registered(t)
      PROVE  Match(a.queues, a.table, S)
  <2>1. DistinctSeq(s) /\ \A p : InSeq(s, p) <=> p \in S
    BY <1>1, <1>6, DrainedFacts
  <2>2. S \subseteq Tasks /\ \A i \in 1..Len(s) : s[i].pid \in S
    BY <1>6, <2>1, PCBFacts DEF InSeq
  <2>. DEFINE T == {n \in Nat : n <= Len(s) =>
                       /\ Match(h[n].queues, h[n].table, Passed(s, n))
                       /\ Registered(h[n].table) = Registered(t)}
  <2>3. 0 \in T
    <3>1. h[0].table = t /\ h[0].queues = NoItems
      BY <1>3
    <3>2. Passed(s, 0) = {}
      BY <1>2, <2>1, PassedFacts
    <3>. QED
      BY <3>1, <3>2, NoItemsFacts
  <2>4. ASSUME NEW n \in Nat, n \in T PROVE n + 1 \in T
    <3>1. SUFFICES ASSUME n + 1 <= Len(s)
                   PROVE  /\ Match(h[n + 1].queues, h[n + 1].table, Passed(s, n + 1))
                          /\ Registered(h[n + 1].table) = Registered(t)
      OBVIOUS
    <3>2. /\ Match(h[n].queues, h[n].table, Passed(s, n))
          /\ Registered(h[n].table) = Registered(t)
      BY <1>2, <2>4, <3>1
    <3>3. /\ h[n] \in AgedTypes /\ s[n + 1] \in Items /\ n < Len(s) /\ n + 1 \in 1..Len(s)
          /\ h[n + 1] = AgeItem(h[n], s[n + 1], AgingThreshold)
      BY <1>4, <3>1
    <3>4. /\ s[n + 1].pid \notin Passed(s, n)
          /\ Passed(s, n + 1) = Passed(s, n) \cup {s[n + 1].pid}
      BY <1>2, <2>1, <3>3, PassedFacts
    <3>5. Passed(s, n) \subseteq Tasks
      <4>1. \A i \in 1..n : i \in 1..Len(s)
        BY <1>2, <3>3
      <4>. QED
        BY <2>2, <4>1 DEF Passed
    <3>6. s[n + 1].pid \in Registered(h[n].table)
      BY <1>6, <2>2, <3>2, <3>3
    <3>7. /\ Match(h[n + 1].queues, h[n + 1].table, Passed(s, n) \cup {s[n + 1].pid})
          /\ SameTasks(h[n].table, h[n + 1].table)
      BY <3>2, <3>3, <3>4, <3>5, <3>6, AgeItemFacts
    <3>. QED
      BY <3>2, <3>4, <3>7 DEF SameTasks, SameBlocks
  <2>5. \A n \in Nat : n \in T
    <3>. HIDE DEF T
    <3>. QED
      BY <2>3, <2>4, SetInduction
  <2>6. Match(h[Len(s)].queues, h[Len(s)].table, Passed(s, Len(s)))
    BY <1>2, <2>5
  <2>7. Passed(s, Len(s)) = S
    BY <1>2, <2>1, PassedFacts
  <2>. QED
    BY <1>3, <2>6, <2>7
<1>. QED
  BY <1>2, <1>3, <1>5, <1>6

-----------------------------------------------------------------------------
(* The invariant of the scheduler.                                         *)

ChildStates == {"unborn", "granted", "stopped", "running", "zombie", "gone"}
FileStates == States \cup {"none"}
OnCore == {"waiting", "slice", "expired"}
AtWork == OnCore \cup {"stopwait", "clear", "command", "run"}
Labels == AtWork \cup {"boot", "top", "poll", "menu", "dispatch", "halted", "replaced", "killed"}

\* Where the file of an interrupted kernel may still be what there is to read.
Early == {"killed", "boot", "stopwait", "top"}

ReadyOf(t) == {p \in Tasks : t[p].state = "READY"}

\* The tasks that are to stand in a queue.
Line == {p \in Tasks : table[p].state = "READY" /\ ~(pc = "run" /\ cur = p)}

\* What is left of the type invariant: where the kernel is and what it works on,
\* and the dashboard.
ControlInv ==
  /\ pc \in Labels /\ cur \in Tasks \cup {Nobody}
  /\ pc \in AtWork => cur \in Tasks
  /\ {gui_command, row, pen} \subseteq Tasks \cup {Nobody}
  /\ currentMode \in {"user", "kernel"}
  /\ boots \in 1..MaxBoots /\ leaked \subseteq Tasks
  /\ executed \subseteq separate /\ separate \subseteq Windowed

Typed ==
  /\ child \in [Tasks -> ChildStates] /\ table \in Tables /\ queues \in QueueSets
  /\ gui_status \in [Tasks -> FileStates] /\ orphans \cup stale \subseteq Tasks

\* A task that was never launched has no PCB, so that launching it creates one.
Unborn == \A p \in Tasks : child[p] = "unborn" => table[p] = NoPCB

\* What the steps keep of NothingRunsUnseen by themselves...
Seen ==
  /\ \A p \in Tasks :
       /\ child[p] = "running" => (cur = p /\ pc \in {"waiting", "slice"}) \/ p \in orphans
       /\ table[p].state = "RUNNING" <=> cur = p /\ pc \in {"waiting", "slice", "expired"}
       /\ gui_status[p] = "RUNNING" <=> table[p].state = "RUNNING" \/ p \in stale
  /\ stale # {} => pc \in Early

\* ... and what they keep of it beside that: what an interrupted kernel has launched
\* is launched by no other, and so in no other's table.
LeftAlone == \A p \in orphans : child[p] # "unborn" /\ table[p] = NoPCB

\* The selected task was READY, so that dispatching it leaves no item behind.
SelectedIsReady == pc = "run" => table[cur].state = "READY"

SchedulerInv ==
  /\ Typed /\ Unborn /\ Seen
  /\ Match(queues, table, Line)
  /\ SelectedIsReady

LEMMA StatesOfFacts ==
  ASSUME NEW t \in Tables
  PROVE  StatesOf(t) \in [Tasks -> FileStates] /\ \A p \in Tasks : StatesOf(t)[p] = t[p].state
<1>1. \A p \in Tasks : t[p].state \in FileStates
  <2>1. \A b \in LivePCBs : b.state \in FileStates
    BY DEF LivePCBs, FileStates
  <2>2. NoPCB.state \in FileStates
    BY DEF NoPCB, FileStates
  <2>. QED
    BY <2>1, <2>2 DEF Tables, PCBs
<1>. QED
  BY <1>1 DEF StatesOf

\* READY, RUNNING and BLOCKED are states of a PCB, none is not.
LEMMA StateFacts ==
  ASSUME NEW t \in Tables
  PROVE  /\ \A p \in Tasks : t[p].state # "none" <=> p \in Registered(t)
         /\ ReadyOf(t) \subseteq Registered(t)
<1>1. \A b \in LivePCBs : b.state # "none"
  BY DEF LivePCBs, States
<1>2. NoPCB.state = "none"
  BY DEF NoPCB
<1>3. \A p \in Tasks : t[p].state # "none" <=> p \in Registered(t)
  BY <1>1, <1>2, PCBFacts
<1>. QED
  BY <1>3 DEF ReadyOf

\* While no task is on a core nothing runs but what an earlier kernel has left, and
\* the table calls no task RUNNING; nor does the file, but for those it is stale on.
Rests(c, t, file, o, f) ==
  \A p \in Tasks : /\ c[p] = "running" => p \in o
                   /\ t[p].state # "RUNNING"
                   /\ file[p] = "RUNNING" <=> p \in f

AtRest == Rests(child, table, gui_status, orphans, stale)

LEMMA Calm ==
  ASSUME SchedulerInv, pc \notin OnCore
  PROVE  AtRest /\ (stale # {} => pc \in Early)
  BY DEF SchedulerInv, Seen, OnCore, AtRest, Rests

\* d is c but for children that have stopped or ended.
Tame(c, d) ==
  /\ d \in [Tasks -> ChildStates]
  /\ \A p \in Tasks : d[p] \in {"running", "unborn"} => d[p] = c[p]

\* A step to a place without a task on a core or selected.
LEMMA CalmNext ==
  ASSUME pc' \notin OnCore \cup {"run"}, table' \in Tables, queues' \in QueueSets,
         child' \in [Tasks -> ChildStates], gui_status' \in [Tasks -> FileStates],
         orphans' \cup stale' \subseteq Tasks,
         AtRest', stale' # {} => pc' \in Early,
         \A p \in Tasks : child'[p] = "unborn" => table'[p] = NoPCB,
         Match(queues', table', ReadyOf(table'))
  PROVE  SchedulerInv'
<1>1. Line' = ReadyOf(table')
  BY DEF Line, ReadyOf
<1>2. Match(queues, table, Line)'
  BY <1>1
<1>3. Seen'
  BY DEF Seen, OnCore, AtRest, Rests
<1>. QED
  BY <1>2, <1>3 DEF SchedulerInv, Typed, Unborn, SelectedIsReady

LEMMA LineAway == ASSUME pc # "run" PROVE Line = ReadyOf(table)
  BY DEF Line, ReadyOf

\* A step that leaves the managers alone, away from the cores.
LEMMA QuietStep ==
  ASSUME SchedulerInv, pc \notin OnCore \cup {"run"}, pc' \notin OnCore \cup {"run"},
         table' = table, queues' = queues, Tame(child, child'), orphans' = orphans,
         \/ Tell(table)
         \/ UNCHANGED <<gui_status, stale>> /\ (pc \in Early => pc' \in Early)
  PROVE  SchedulerInv'
<1>1. AtRest /\ (stale # {} => pc \in Early)
  BY Calm
<1>2. /\ table \in Tables /\ queues \in QueueSets /\ gui_status \in [Tasks -> FileStates]
      /\ orphans \cup stale \subseteq Tasks
      /\ \A p \in Tasks : child[p] = "unborn" => table[p] = NoPCB
      /\ Match(queues, table, ReadyOf(table))
  BY LineAway DEF SchedulerInv, Typed, Unborn
<1>3. /\ gui_status' \in [Tasks -> FileStates] /\ orphans' \cup stale' \subseteq Tasks
      /\ \A p \in Tasks : gui_status'[p] = "RUNNING" <=> p \in stale'
      /\ stale' # {} => pc' \in Early
  <2>1. CASE Tell(table)
    BY <1>1, <1>2, <2>1, StatesOfFacts DEF Tell, AtRest, Rests
  <2>2. CASE UNCHANGED <<gui_status, stale>> /\ (pc \in Early => pc' \in Early)
    BY <1>1, <1>2, <2>2 DEF AtRest, Rests
  <2>. QED
    BY <2>1, <2>2
<1>4. /\ child' \in [Tasks -> ChildStates]
      /\ \A p \in Tasks : /\ child'[p] = "running" => p \in orphans'
                          /\ child'[p] = "unborn" => table[p] = NoPCB
  BY <1>1, <1>2 DEF Tame, AtRest, Rests
<1>5. Match(queues', table', ReadyOf(table'))
  BY <1>2
<1>6. AtRest'
  BY <1>1, <1>3, <1>4 DEF AtRest, Rests
<1>. QED
  BY <1>2, <1>3, <1>4, <1>5, <1>6, CalmNext

\* A step of a child or of the dashboard.
LEMMA AsideStep ==
  ASSUME SchedulerInv, UNCHANGED <<pc, cur, table, queues, gui_status, stale, orphans>>,
         Tame(child, child')
  PROVE  SchedulerInv'
<1>1. Typed' /\ Unborn'
  BY DEF SchedulerInv, Typed, Unborn, Tame
<1>2. Seen'
  BY DEF SchedulerInv, Seen, Tame
<1>3. Match(queues, table, Line)' /\ SelectedIsReady'
  <2>1. Line' = Line
    BY DEF Line
  <2>. QED
    BY <2>1 DEF SchedulerInv, SelectedIsReady
<1>. QED
  BY <1>1, <1>2, <1>3 DEF SchedulerInv

-----------------------------------------------------------------------------
(* The steps keep the invariant of the scheduler.                          *)

\* No step but a dispatch lets a child run, and none brings one back unlaunched.
LEMMA TameSteps ==
  ASSUME child \in [Tasks -> ChildStates], NEW p \in Tasks, NEW S,
         \/ ChildStops(p) \/ ChildExits(p) \/ Stop(p) \/ AwaitStopOf(p) \/ Kill(S)
         \/ child' = [child EXCEPT ![p] = "gone"] \/ child' = [child EXCEPT ![p] = "granted"]
         \/ child' = child
  PROVE  Tame(child, child')
<1>1. CASE child' = child
  BY <1>1 DEF Tame
<1>2. CASE Kill(S)
  BY <1>2 DEF Kill, Tame, ChildStates
<1>3. ASSUME NEW s \in {"stopped", "zombie", "gone", "granted"}, child' = [child EXCEPT ![p] = s]
      PROVE  Tame(child, child')
  BY <1>3 DEF Tame, ChildStates
<1>4. CASE ChildStops(p)
  BY <1>3, <1>4 DEF ChildStops
<1>5. CASE ChildExits(p)
  BY <1>3, <1>5 DEF ChildExits
<1>6. CASE Stop(p)
  BY <1>6 DEF Stop, Tame, ChildStates
<1>7. CASE AwaitStopOf(p)
  BY <1>7 DEF AwaitStopOf, Tame, ChildStates
<1>. QED
  BY <1>1, <1>2, <1>3, <1>4, <1>5, <1>6, <1>7

LEMMA InitScheduler == Init => SchedulerInv
<1>. SUFFICES ASSUME Init PROVE SchedulerInv
  OBVIOUS
<1>1. /\ table = NoPCBs /\ queues = NoItems /\ pc = "boot" /\ cur = Nobody
      /\ child = [p \in Tasks |-> "unborn"] /\ gui_status = [p \in Tasks |-> "none"]
      /\ orphans = {} /\ stale = {}
  BY DEF Init, NoStatus
<1>2. table \in Tables /\ \A p \in Tasks : table[p] = NoPCB
  BY <1>1, PCBFacts DEF NoPCBs, Tables, PCBs
<1>3. \A p \in Tasks : table[p].state = "none"
  BY <1>2 DEF NoPCB
<1>4. Line = {}
  BY <1>3 DEF Line
<1>5. Typed /\ Unborn
  BY <1>1, <1>2, NoItemsFacts DEF Typed, Unborn, ChildStates, FileStates
<1>6. Seen
  BY <1>1, <1>3 DEF Seen
<1>7. Match(queues, table, Line) /\ SelectedIsReady
  BY <1>1, <1>4, NoItemsFacts DEF SelectedIsReady
<1>. QED
  BY <1>5, <1>6, <1>7 DEF SchedulerInv

\* A step after which no task is in the table.
LEMMA EmptiedScheduler ==
  ASSUME table' = NoPCBs, queues' = NoItems, pc' \in {"boot", "killed", "halted"},
         child' \in [Tasks -> ChildStates], gui_status' \in [Tasks -> FileStates],
         orphans' \cup stale' \subseteq Tasks, stale' # {} => pc' \in Early,
         \A p \in Tasks : /\ child'[p] = "running" => p \in orphans'
                          /\ gui_status'[p] = "RUNNING" <=> p \in stale'
  PROVE  SchedulerInv'
<1>1. table' \in Tables /\ \A p \in Tasks : table'[p] = NoPCB
  BY PCBFacts DEF NoPCBs, Tables, PCBs
<1>2. \A p \in Tasks : table'[p].state = "none"
  BY <1>1 DEF NoPCB
<1>3. ReadyOf(table') = {}
  BY <1>2 DEF ReadyOf
<1>4. queues' \in QueueSets /\ Match(queues', table', ReadyOf(table'))
  BY <1>3, NoItemsFacts
<1>5. pc' \notin OnCore \cup {"run"}
  BY DEF OnCore
<1>6. AtRest'
  BY <1>2 DEF AtRest, Rests
<1>. QED
  BY <1>1, <1>4, <1>5, <1>6, CalmNext

LEMMA NextBootScheduler == SchedulerInv /\ NextBoot => SchedulerInv'
<1>. SUFFICES ASSUME SchedulerInv, NextBoot PROVE SchedulerInv'
  OBVIOUS
<1>1. /\ table' = NoPCBs /\ queues' = NoItems /\ pc' = "boot"
      /\ UNCHANGED <<child, gui_status, stale, orphans>>
  BY DEF NextBoot, MemoryIsNew, files, status, programs
<1>2. pc \notin OnCore /\ pc' \in Early
  BY <1>1 DEF NextBoot, Ended, OnCore, Early
<1>3. \A p \in Tasks : /\ child[p] = "running" => p \in orphans
                       /\ gui_status[p] = "RUNNING" <=> p \in stale
  BY <1>2, Calm DEF AtRest, Rests
<1>. QED
  BY <1>1, <1>2, <1>3, EmptiedScheduler DEF SchedulerInv, Typed

\* The kernel is interrupted wherever it is.
LEMMA InterruptedScheduler == SchedulerInv /\ Interrupted => SchedulerInv'
<1>. SUFFICES ASSUME SchedulerInv, Interrupted PROVE SchedulerInv'
  OBVIOUS
<1>1. /\ table' = NoPCBs /\ queues' = NoItems /\ pc' = "killed" /\ pc' \in Early
      /\ child' \in {f \in [Tasks -> UNION {Left(child[p]) : p \in Tasks}] :
                       \A p \in Tasks : f[p] \in Left(child[p])}
      /\ gui_status' \in {gui_status, NoStatus}
      /\ stale' = {p \in Tasks : gui_status'[p] = "RUNNING"}
      /\ orphans' = orphans \cup {p \in Tasks : child'[p] = "running"}
  BY DEF Interrupted, MemoryIsNew, Early
<1>2. child' \in [Tasks -> ChildStates]
  <2>1. \A p \in Tasks : Left(child[p]) \subseteq ChildStates
    BY DEF Left, ChildStates, SchedulerInv, Typed
  <2>. QED
    BY <1>1, <2>1
<1>3. gui_status' \in [Tasks -> FileStates]
  BY <1>1 DEF SchedulerInv, Typed, NoStatus, FileStates
<1>. QED
  BY <1>1, <1>2, <1>3, EmptiedScheduler DEF SchedulerInv, Typed

\* Shutdown: without a registered task the queues are empty as they are.
LEMMA ShutdownQueues ==
  ASSUME SchedulerInv, Shutdown PROVE queues' = NoItems
<1>1. pc = "menu" /\ queues' = IF Registered(table) = {} THEN queues ELSE NoItems
  BY DEF Shutdown
<1>2. CASE Registered(table) = {}
  <2>1. table \in Tables /\ queues \in QueueSets /\ Match(queues, table, ReadyOf(table))
    BY <1>1, LineAway DEF SchedulerInv, Typed
  <2>2. ReadyOf(table) = {}
    BY <1>2, <2>1, StateFacts
  <2>3. queues = NoItems
    BY <2>1, <2>2, NobodyQueues
  <2>. QED
    BY <1>1, <1>2, <2>3
<1>3. CASE Registered(table) # {}
  BY <1>1, <1>3
<1>. QED
  BY <1>2, <1>3

LEMMA ShutdownScheduler == SchedulerInv /\ Shutdown => SchedulerInv'
<1>. SUFFICES ASSUME SchedulerInv, Shutdown PROVE SchedulerInv'
  OBVIOUS
<1>1. /\ table' = NoPCBs /\ pc' = "halted" /\ pc = "menu"
      /\ Kill(Registered(table)) /\ UNCHANGED <<gui_status, stale, orphans>>
  BY DEF Shutdown, Goto, files, status, history, programs
<1>2. AtRest /\ stale = {}
  BY <1>1, Calm DEF OnCore, Early
<1>3. /\ child' \in [Tasks -> ChildStates]
      /\ \A p \in Tasks : child'[p] = "running" => p \in orphans
  BY <1>1, <1>2 DEF Kill, ChildStates, SchedulerInv, Typed, AtRest, Rests
<1>4. /\ gui_status' \in [Tasks -> FileStates] /\ orphans' \cup stale' \subseteq Tasks
      /\ \A p \in Tasks : gui_status'[p] = "RUNNING" <=> p \in stale'
  BY <1>1, <1>2 DEF SchedulerInv, Typed, AtRest, Rests
<1>. QED
  BY <1>1, <1>2, <1>3, <1>4, ShutdownQueues, EmptiedScheduler

\* Launches, of which one that is denied starts nothing.
LEMMA StartScheduled ==
  ASSUME SchedulerInv, memoryBlocks \in Seq(Blocks), NEW p \in Tasks, pc \in {"boot", "menu"},
         Start(p), orphans' = orphans
  PROVE  SchedulerInv'
<1>1. /\ pc \notin OnCore \cup {"run"} /\ child[p] = "unborn" /\ child \in [Tasks -> ChildStates]
      /\ gui_status' = gui_status /\ stale' = stale /\ orphans' = orphans
  BY DEF OnCore, Start, files, status, SchedulerInv, Typed
<1>2. CASE Deny(p)
  <2>1. /\ child' = [child EXCEPT ![p] = "gone"] /\ table' = table /\ queues' = queues /\ pc' = "top"
    BY <1>2 DEF Deny, Goto, managers
  <2>2. pc' \notin OnCore \cup {"run"} /\ pc' \in Early
    BY <2>1 DEF OnCore, Early
  <2>. QED
    BY <1>1, <2>1, <2>2, TameSteps, QuietStep
<1>3. CASE Grant(p)
  <2>1. PICK k, n, block :
             /\ k = Program[p].priority /\ n = Program[p].ram
             /\ block = Allocated(memoryBlocks, p, n)
    OBVIOUS
  <2>2. /\ table' = Launched(table, p, k, block)
        /\ queues' = addProcessToReadyQueue(queues, p, k)
        /\ child' = [child EXCEPT ![p] = "granted"] /\ pc' = "stopwait"
    BY <1>3, <2>1 DEF Grant, Launched
  <2>3. k \in 1..3 /\ block.start \in Int /\ block.end \in Int
    <3>1. Admits(p)
      BY <1>3 DEF Grant
    <3>. QED
      BY <2>1, <3>1, AdmitsFacts, ProgramFacts
  <2>4. table \in Tables /\ queues \in QueueSets /\ table[p] = NoPCB
        /\ Match(queues, table, ReadyOf(table))
    BY <1>1, LineAway DEF SchedulerInv, Typed, Unborn
  <2>5. /\ table' \in Tables /\ \A q \in Tasks : q # p => table'[q] = table[q]
        /\ table'[p].state = "READY" /\ table'[p].priority = k
    BY <2>2, <2>3, <2>4, LaunchFacts
  <2>6. p \notin ReadyOf(table)
    BY <2>4 DEF ReadyOf, NoPCB
  <2>7. ReadyOf(table') = ReadyOf(table) \cup {p}
    BY <2>5 DEF ReadyOf
  <2>8. \A r \in ReadyOf(table) : table'[r].priority = table[r].priority
    BY <2>5, <2>6 DEF ReadyOf
  <2>9. queues' \in QueueSets /\ Match(queues', table', ReadyOf(table'))
    BY <2>2, <2>3, <2>4, <2>5, <2>6, <2>7, <2>8, AddFacts
  <2>10. AtRest
    BY <1>1, Calm
  <2>11. AtRest'
    BY <1>1, <2>2, <2>5, <2>10 DEF AtRest, Rests
  <2>12. \A q \in Tasks : child'[q] = "unborn" => table'[q] = NoPCB
    BY <1>1, <2>2, <2>5 DEF SchedulerInv, Unborn
  <2>13. /\ child' \in [Tasks -> ChildStates] /\ gui_status' \in [Tasks -> FileStates]
         /\ pc' \notin OnCore \cup {"run"} /\ pc' \in Early
         /\ orphans' \cup stale' \subseteq Tasks
    BY <1>1, <2>2 DEF SchedulerInv, Typed, ChildStates, OnCore, Early
  <2>. QED
    BY <1>1, <2>5, <2>9, <2>11, <2>12, <2>13, CalmNext
<1>. QED
  BY <1>2, <1>3 DEF Start

\* The menu options that a registered task is named in.
LEMMA MenuPlace ==
  ASSUME SchedulerInv, Chosen
  PROVE  /\ pc = "menu" /\ pc \notin OnCore \cup {"run"} /\ pc' = "top" /\ pc' \notin OnCore \cup {"run"}
         /\ gui_status' = gui_status /\ gui_status \in [Tasks -> FileStates]
         /\ stale' = {} /\ stale = {} /\ orphans' = orphans /\ orphans' \cup stale' \subseteq Tasks
         /\ child \in [Tasks -> ChildStates] /\ table \in Tables /\ queues \in QueueSets
         /\ AtRest
         /\ \A q \in Tasks : child[q] = "unborn" => table[q] = NoPCB
         /\ Match(queues, table, ReadyOf(table))
<1>1. pc = "menu" /\ pc' = "top" /\ UNCHANGED <<gui_status, stale, orphans>>
  BY DEF Chosen, Goto, files, status, programs
<1>2. pc \notin OnCore \cup {"run"} /\ pc' \notin OnCore \cup {"run"}
  BY <1>1 DEF OnCore
<1>3. AtRest /\ stale = {}
  BY <1>1, <1>2, Calm DEF Early
<1>. QED
  BY <1>1, <1>2, <1>3, LineAway DEF SchedulerInv, Typed, Unborn

LEMMA MinimizeScheduled ==
  ASSUME SchedulerInv, NEW p \in Tasks, Minimize(p) PROVE SchedulerInv'
<1>1. /\ Chosen /\ p \in Registered(table) /\ queues' = removeProcessByPID(queues, p)
      /\ Stop(p) /\ table' = updateProcessState(table, p, "BLOCKED")
  BY DEF Minimize
<1>2. /\ table' \in Tables /\ \A q \in Tasks : q # p => table'[q] = table[q]
      /\ table'[p].state = "BLOCKED"
  <2>1. "BLOCKED" \in States
    BY DEF States
  <2>. QED
    BY <1>1, <2>1, MenuPlace, UpdateStateFacts
<1>3. ReadyOf(table') = ReadyOf(table) \ {p}
  BY <1>2 DEF ReadyOf
<1>4. queues' \in QueueSets /\ Match(queues', table, ReadyOf(table) \ {p})
  BY <1>1, MenuPlace, RemoveItemFacts
<1>5. Match(queues', table', ReadyOf(table'))
  BY <1>2, <1>3, <1>4 DEF Match, ReadyOf
<1>6. Tame(child, child')
  BY <1>1, MenuPlace, TameSteps
<1>7. /\ child' \in [Tasks -> ChildStates]
      /\ \A q \in Tasks : /\ child'[q] = "running" => q \in orphans
                          /\ child'[q] = "unborn" => table'[q] = NoPCB
  <2>1. child[p] # "unborn"
    BY <1>1, MenuPlace, PCBFacts
  <2>. QED
    BY <1>1, <1>2, <1>6, <2>1, MenuPlace DEF Tame, AtRest, Rests
<1>8. AtRest'
  BY <1>1, <1>2, <1>7, MenuPlace DEF AtRest, Rests
<1>. QED
  BY <1>1, <1>2, <1>4, <1>5, <1>7, <1>8, MenuPlace, CalmNext

\* Resume and SwitchTo.
LEMMA MakeReadyScheduled ==
  ASSUME SchedulerInv, NEW p \in Tasks, MakeReady(p), p \in Registered(table),
         table[p].state # "READY"
  PROVE  SchedulerInv'
<1>1. PICK k : k = table[p].priority
  OBVIOUS
<1>2. /\ Chosen /\ table' = updateProcessState(table, p, "READY")
      /\ queues' = addProcessToReadyQueue(queues, p, k) /\ child' = child
  BY <1>1 DEF MakeReady
<1>3. /\ table' \in Tables /\ \A q \in Tasks : q # p => table'[q] = table[q]
      /\ table'[p].state = "READY" /\ table'[p].priority = k
  <2>1. "READY" \in States
    BY DEF States
  <2>. QED
    BY <1>1, <1>2, <2>1, MenuPlace, UpdateStateFacts
<1>4. ReadyOf(table') = ReadyOf(table) \cup {p} /\ p \notin ReadyOf(table)
  BY <1>3 DEF ReadyOf
<1>5. k \in 1..3
  <2>1. table[p] \in LivePCBs
    BY <1>2, MenuPlace, PCBFacts
  <2>. QED
    BY <1>1, <2>1 DEF LivePCBs
<1>6. \A r \in ReadyOf(table) : table'[r].priority = table[r].priority
  BY <1>3, <1>4 DEF ReadyOf
<1>7. queues' \in QueueSets /\ Match(queues', table', ReadyOf(table'))
  <2>1. queues \in QueueSets /\ Match(queues, table, ReadyOf(table))
    BY <1>2, MenuPlace
  <2>2. /\ queues' \in QueueSets
        /\ Match(queues', table', ReadyOf(table) \cup {p})
    BY <1>2, <1>3, <1>4, <1>5, <1>6, <2>1, AddFacts
  <2>. QED
    BY <1>4, <2>2
<1>8. child[p] # "unborn"
  <2>1. table[p] # NoPCB
    BY DEF Registered
  <2>. QED
    BY <1>2, <2>1, MenuPlace
<1>9. /\ child' \in [Tasks -> ChildStates]
      /\ \A q \in Tasks : /\ child'[q] = "running" => q \in orphans
                          /\ child'[q] = "unborn" => table'[q] = NoPCB
  BY <1>2, <1>3, <1>8, MenuPlace DEF AtRest, Rests
<1>10. AtRest'
  BY <1>2, <1>3, <1>9, MenuPlace DEF AtRest, Rests
<1>. QED
  BY <1>2, <1>3, <1>7, <1>9, <1>10, MenuPlace, CalmNext

\* A task is removed: Close, KernelKill and DeadlockSimulation.
LEMMA RemovedScheduled ==
  ASSUME SchedulerInv, NEW p \in Tasks, Chosen, Kill({p}), Forget(p) PROVE SchedulerInv'
<1>1. /\ table' = removeProcess(table, p) /\ queues' = removeProcessByPID(queues, p)
      /\ child' = [q \in Tasks |-> IF q = p THEN "gone" ELSE child[q]]
  BY DEF Forget, Kill
<1>2. /\ table' \in Tables /\ table'[p] = NoPCB /\ \A q \in Tasks : q # p => table'[q] = table[q]
  BY <1>1, MenuPlace, RemoveFacts
<1>3. table'[p].state = "none"
  BY <1>2 DEF NoPCB
<1>4. ReadyOf(table') = ReadyOf(table) \ {p}
  BY <1>2, <1>3 DEF ReadyOf
<1>5. queues' \in QueueSets /\ Match(queues', table, ReadyOf(table) \ {p})
  BY <1>1, MenuPlace, RemoveItemFacts
<1>6. Match(queues', table', ReadyOf(table'))
  BY <1>2, <1>4, <1>5 DEF Match, ReadyOf
<1>7. /\ child' \in [Tasks -> ChildStates]
      /\ \A q \in Tasks : /\ child'[q] = "running" => q \in orphans
                          /\ child'[q] = "unborn" => table'[q] = NoPCB
  BY <1>1, <1>2, MenuPlace DEF ChildStates, AtRest, Rests
<1>8. AtRest'
  BY <1>2, <1>3, <1>7, MenuPlace DEF AtRest, Rests
<1>. QED
  BY <1>2, <1>5, <1>6, <1>7, <1>8, MenuPlace, CalmNext

\* The later of the two tasks of the simulated deadlock is its victim.
LEMMA VictimIsSecond ==
  ASSUME NEW p, NEW q
  PROVE  detectDeadlock(Simulated(p, q)) = q
<1>. DEFINE records == Simulated(p, q)
            pairs == {ij \in (DOMAIN records) \X (DOMAIN records) :
                        ij[1] # ij[2] /\ WaitFor(records[ij[1]], records[ij[2]])}
            Earlier(a, b) == a[1] < b[1] \/ (a[1] = b[1] /\ a[2] <= b[2])
            First(a) == \A other \in pairs : Earlier(a, other)
<1>1. DOMAIN records = {1, 2}
  BY DEF Simulated
<1>2. WaitFor(records[1], records[2]) /\ WaitFor(records[2], records[1])
  BY DEF Simulated, WaitFor, Record
<1>3. records[2].pid = q
  BY DEF Simulated, Record
<1>. HIDE DEF records
<1>4. pairs = {<<1, 2>>, <<2, 1>>}
  BY <1>1, <1>2
<1>. HIDE DEF pairs
<1>5. First(<<1, 2>>) /\ ~First(<<2, 1>>)
  BY <1>4
<1>. HIDE DEF First
<1>6. (CHOOSE ij \in pairs : First(ij)) = <<1, 2>>
  BY <1>4, <1>5
<1>7. pairs # {}
  BY <1>4
<1>8. detectDeadlock(records) = records[(CHOOSE ij \in pairs : First(ij))[2]].pid
  BY <1>7 DEF detectDeadlock, pairs, First
<1>9. \A v : v = <<1, 2>> => records[v[2]].pid = records[2].pid
  OBVIOUS
<1>10. detectDeadlock(records) = records[2].pid
  BY <1>6, <1>8, <1>9, Zenon
<1>. QED
  BY <1>3, <1>10 DEF records

\* A queue that is not empty is found.
LEMMA FirstQueueFacts ==
  ASSUME NEW q, hasReadyProcess(q)
  PROVE  FirstQueue(q) \in Queues /\ q[FirstQueue(q)] # <<>>
<1>. DEFINE S == {k \in Queues : q[k] # <<>>}
            First(k) == q[k] # <<>> /\ \A j \in 1..(k - 1) : q[j] = <<>>
<1>1. S \subseteq Nat /\ S # {} /\ Queues = 1..3
  BY DEF hasReadyProcess, Queues
<1>2. PICK m \in S : \A n \in S : m <= n
  BY <1>1, LeastElement
<1>3. \A j \in 1..(m - 1) : j \in Queues /\ ~(m <= j)
  BY <1>1, <1>2
<1>4. First(m)
  BY <1>2, <1>3
<1>5. FirstQueue(q) = CHOOSE k \in Queues : First(k)
  BY DEF FirstQueue
<1>6. FirstQueue(q) \in Queues /\ First(FirstQueue(q))
  <2>. HIDE DEF First
  <2>. QED
    BY <1>2, <1>4, <1>5
<1>. QED
  BY <1>6

LEMMA SelectScheduled == SchedulerInv /\ SelectNext => SchedulerInv'
<1>. SUFFICES ASSUME SchedulerInv, SelectNext PROVE SchedulerInv'
  OBVIOUS
<1>1. PICK a : /\ a = applyAging(queues, table, AgingThreshold)
               /\ \/ hasReadyProcess(a.queues) /\ Select(a, FirstQueue(a.queues))
                  \/ /\ ~hasReadyProcess(a.queues)
                     /\ queues' = a.queues /\ table' = a.table /\ Goto("top")
  BY DEF SelectNext
<1>2. pc = "dispatch" /\ child' = child /\ UNCHANGED <<gui_status, stale, orphans>>
  BY DEF SelectNext, files, status, history, programs
<1>3. pc \notin OnCore \cup {"run"}
  BY <1>2 DEF OnCore
<1>4. /\ table \in Tables /\ queues \in QueueSets /\ Match(queues, table, ReadyOf(table))
      /\ child \in [Tasks -> ChildStates] /\ gui_status \in [Tasks -> FileStates]
      /\ orphans \cup stale \subseteq Tasks
      /\ \A p \in Tasks : child[p] = "unborn" => table[p] = NoPCB
  BY <1>3, LineAway DEF SchedulerInv, Typed, Unborn
<1>5. AtRest /\ stale = {}
  BY <1>2, <1>3, Calm DEF Early
<1>6. PICK u, q : u = a.table /\ q = a.queues
  OBVIOUS
<1>7. u \in Tables /\ q \in QueueSets /\ SameTasks(table, u) /\ Match(q, u, ReadyOf(table))
  <2>1. /\ a \in AgedTypes /\ SameTasks(table, a.table)
        /\ Match(a.queues, a.table, ReadyOf(table))
    BY <1>1, <1>4, StateFacts, AgingFacts
  <2>. QED
    BY <1>6, <2>1 DEF AgedTypes
<1>8. /\ \A p \in Tasks : u[p].state = table[p].state
      /\ Registered(u) = Registered(table) /\ ReadyOf(u) = ReadyOf(table)
  BY <1>7 DEF SameTasks, SameBlocks, ReadyOf
<1>9. CASE hasReadyProcess(q) /\ Select(a, FirstQueue(q))
  <2>1. PICK k, p : k = FirstQueue(q) /\ p = Head(q[k]).pid
    OBVIOUS
  <2>2. /\ queues' = [q EXCEPT ![k] = Tail(@)] /\ table' = resetWaitingTime(u, p)
        /\ pc' = "run" /\ cur' = p
    BY <1>6, <1>9, <2>1 DEF Select
  <2>3. k \in Queues /\ q[k] # <<>>
    BY <1>9, <2>1, FirstQueueFacts
  <2>4. /\ p \in Tasks /\ queues' \in QueueSets /\ p \in ReadyOf(table)
        /\ Match(queues', u, ReadyOf(table) \ {p})
    BY <1>7, <2>1, <2>2, <2>3, TakeFacts
  <2>5. /\ table' \in Tables /\ SameBlocks(u, table')
        /\ \A r \in Tasks : table'[r].state = u[r].state /\ table'[r].priority = u[r].priority
    BY <1>7, <2>2, <2>4, ResetFacts
  <2>6. Line' = ReadyOf(table) \ {p}
    BY <1>8, <2>2, <2>5 DEF Line, ReadyOf
  <2>7. Match(queues', table', ReadyOf(table) \ {p})
    BY <2>4, <2>5 DEF Match, ReadyOf
  <2>8. Match(queues, table, Line)'
    BY <2>6, <2>7
  <2>9. Typed'
    BY <1>2, <1>4, <2>4, <2>5 DEF Typed
  <2>10. Unborn'
    <3>1. \A r \in Tasks : table[r] = NoPCB => table'[r] = NoPCB
      <4>1. Registered(table') = Registered(table)
        BY <1>8, <2>5 DEF SameBlocks
      <4>. QED
        BY <1>4, <2>5, <4>1, PCBFacts
    <3>. QED
      BY <1>2, <1>4, <3>1 DEF Unborn
  <2>11. Seen'
    BY <1>2, <1>5, <1>8, <2>2, <2>5 DEF Seen, AtRest, Rests
  <2>12. SelectedIsReady'
    BY <1>8, <2>2, <2>4, <2>5 DEF SelectedIsReady, ReadyOf
  <2>. QED
    BY <2>8, <2>9, <2>10, <2>11, <2>12 DEF SchedulerInv
<1>10. CASE queues' = q /\ table' = u /\ Goto("top")
  <2>1. pc' \notin OnCore \cup {"run"}
    BY <1>10 DEF Goto, OnCore
  <2>2. \A p \in Tasks : child'[p] = "unborn" => table'[p] = NoPCB
    BY <1>2, <1>4, <1>7, <1>8, <1>10, PCBFacts
  <2>3. Match(queues', table', ReadyOf(table'))
    BY <1>7, <1>8, <1>10
  <2>4. AtRest' /\ stale' = {}
    BY <1>2, <1>5, <1>8, <1>10 DEF AtRest, Rests
  <2>. QED
    BY <1>2, <1>4, <1>7, <1>10, <2>1, <2>2, <2>3, <2>4, CalmNext
<1>. QED
  BY <1>1, <1>6, <1>9, <1>10

\* runProcess as far as its first wait.
LEMMA DispatchScheduled == SchedulerInv /\ cur \in Tasks /\ Dispatch => SchedulerInv'
<1>. SUFFICES ASSUME SchedulerInv, cur \in Tasks, Dispatch PROVE SchedulerInv'
  OBVIOUS
<1>1. /\ pc = "run" /\ cur \in Registered(table) /\ cur' = cur /\ queues' = queues
      /\ table' = updateProcessState(table, cur, "RUNNING") /\ gui_status' = StatesOf(table')
      /\ stale' = {} /\ orphans' = orphans
      /\ child' = [child EXCEPT ![cur] = IF child[cur] = "stopped" THEN "running" ELSE child[cur]]
      /\ pc' \in {"waiting", "slice"}
  BY DEF Dispatch, Continue, Tell, history, programs
<1>2. /\ table \in Tables /\ queues \in QueueSets /\ child \in [Tasks -> ChildStates]
      /\ Match(queues, table, Line)
      /\ \A p \in Tasks : child[p] = "unborn" => table[p] = NoPCB
      /\ orphans \cup stale \subseteq Tasks
  BY DEF SchedulerInv, Typed, Unborn
<1>3. /\ table' \in Tables /\ SameBlocks(table, table')
      /\ \A q \in Tasks : q # cur => table'[q] = table[q]
      /\ table'[cur].state = "RUNNING" /\ table'[cur].priority = table[cur].priority
  <2>1. "RUNNING" \in States
    BY DEF States
  <2>. QED
    BY <1>1, <1>2, <2>1, UpdateStateFacts
<1>4. /\ gui_status' \in [Tasks -> FileStates]
      /\ \A p \in Tasks : gui_status'[p] = table'[p].state
  BY <1>1, <1>3, StatesOfFacts
<1>5. child' \in [Tasks -> ChildStates] /\ \A q \in Tasks : q # cur => child'[q] = child[q]
  BY <1>1, <1>2 DEF ChildStates
<1>6. AtRest
  BY <1>1, Calm DEF OnCore
<1>7. Line' = Line
  BY <1>1, <1>3 DEF Line
<1>8. Match(queues, table, Line)'
  <2>1. \A p \in Tasks : table'[p].priority = table[p].priority
    BY <1>3
  <2>. QED
    BY <1>1, <1>2, <1>7, <2>1 DEF Match, Line
<1>9. Typed'
  BY <1>1, <1>2, <1>3, <1>4, <1>5 DEF Typed
<1>10. Unborn'
  <2>1. child[cur] # "unborn"
    BY <1>1, <1>2 DEF Registered
  <2>2. child'[cur] # "unborn"
    BY <1>1, <1>2, <2>1
  <2>. QED
    BY <1>2, <1>3, <1>5, <2>2 DEF Unborn
<1>11. Seen'
  BY <1>1, <1>3, <1>4, <1>5, <1>6 DEF Seen, AtRest, Rests
<1>12. SelectedIsReady'
  BY <1>1 DEF SelectedIsReady
<1>. QED
  BY <1>8, <1>9, <1>10, <1>11, <1>12 DEF SchedulerInv

\* While a task is on the core.
LEMMA CorePlace ==
  ASSUME SchedulerInv, cur \in Tasks, pc \in OnCore
  PROVE  /\ child \in [Tasks -> ChildStates] /\ table \in Tables /\ queues \in QueueSets
         /\ gui_status \in [Tasks -> FileStates] /\ orphans \subseteq Tasks /\ stale = {}
         /\ Match(queues, table, ReadyOf(table))
         /\ table[cur].state = "RUNNING" /\ cur \notin ReadyOf(table)
         /\ cur \in Registered(table) /\ child[cur] # "unborn"
         /\ \A p \in Tasks : child[p] = "unborn" => table[p] = NoPCB
         /\ \A p \in Tasks : p # cur => /\ child[p] = "running" => p \in orphans
                                        /\ table[p].state # "RUNNING"
<1>1. pc # "run"
  BY DEF OnCore
<1>2. /\ child \in [Tasks -> ChildStates] /\ table \in Tables /\ queues \in QueueSets
      /\ gui_status \in [Tasks -> FileStates] /\ orphans \subseteq Tasks
      /\ Match(queues, table, ReadyOf(table))
      /\ \A p \in Tasks : child[p] = "unborn" => table[p] = NoPCB
  BY <1>1, LineAway DEF SchedulerInv, Typed, Unborn
<1>3. /\ table[cur].state = "RUNNING" /\ stale = {}
      /\ \A p \in Tasks : p # cur => /\ child[p] = "running" => p \in orphans
                                     /\ table[p].state # "RUNNING"
  BY DEF SchedulerInv, Seen, OnCore, Early
<1>4. cur \notin ReadyOf(table) /\ cur \in Registered(table) /\ child[cur] # "unborn"
  <2>1. cur \in Registered(table)
    BY <1>2, <1>3, StateFacts
  <2>. QED
    BY <1>2, <1>3, <2>1, PCBFacts DEF ReadyOf
<1>. QED
  BY <1>2, <1>3, <1>4

LEMMA ReturnPlace == Return => pc' \notin OnCore \cup {"run"}
<1>. SUFFICES ASSUME Return PROVE pc' \notin OnCore \cup {"run"}
  OBVIOUS
<1>1. pc' = "top" \/ pc' = "dispatch"
  BY DEF Return
<1>. QED
  BY <1>1 DEF OnCore

\* A task that has ended.
LEMMA CompleteScheduled ==
  ASSUME SchedulerInv, cur \in Tasks, pc \in OnCore, Complete PROVE SchedulerInv'
<1>1. /\ child' = [p \in Tasks |-> IF p = cur THEN "gone" ELSE child[p]]
      /\ table' = removeProcess(table, cur) /\ queues' = queues
      /\ gui_status' = StatesOf(table') /\ stale' = {} /\ orphans' = orphans
  BY DEF Complete, Kill, Tell, history, programs
<1>2. /\ table' \in Tables /\ table'[cur] = NoPCB
      /\ \A q \in Tasks : q # cur => table'[q] = table[q]
  BY <1>1, CorePlace, RemoveFacts
<1>3. table'[cur].state = "none"
  BY <1>2 DEF NoPCB
<1>4. ReadyOf(table') = ReadyOf(table)
  BY <1>2, <1>3, CorePlace DEF ReadyOf
<1>5. \A q \in ReadyOf(table) : table'[q].priority = table[q].priority
  BY <1>2, CorePlace DEF ReadyOf
<1>6. Match(queues', table', ReadyOf(table'))
  BY <1>1, <1>4, <1>5, CorePlace DEF Match
<1>7. /\ gui_status' \in [Tasks -> FileStates]
      /\ \A q \in Tasks : gui_status'[q] = table'[q].state
  BY <1>1, <1>2, StatesOfFacts
<1>8. /\ child' \in [Tasks -> ChildStates] /\ orphans' \cup stale' \subseteq Tasks
      /\ \A q \in Tasks : child'[q] = "running" => q \in orphans'
  BY <1>1, CorePlace DEF ChildStates
<1>9. \A q \in Tasks : child'[q] = "unborn" => table'[q] = NoPCB
  BY <1>1, <1>2, CorePlace
<1>10. AtRest' /\ stale' = {}
  BY <1>1, <1>2, <1>3, <1>7, <1>8, CorePlace DEF AtRest, Rests
<1>11. pc' \notin OnCore \cup {"run"}
  BY ReturnPlace DEF Complete
<1>12. queues' \in QueueSets
  BY <1>1, CorePlace
<1>. QED
  BY <1>2, <1>6, <1>7, <1>8, <1>9, <1>10, <1>11, <1>12, CalmNext

\* The quantum ends: the child is stopped, and its PCB says RUNNING until it has.
LEMMA ExpireScheduled ==
  ASSUME SchedulerInv, cur \in Tasks, QuantumExpires PROVE SchedulerInv'
<1>1. /\ pc = "slice" /\ pc' = "expired" /\ cur' = cur
      /\ table' = table /\ queues' = queues /\ UNCHANGED <<gui_status, stale, orphans>>
      /\ child' = [child EXCEPT ![cur] = IF child[cur] = "running" THEN "stopped" ELSE child[cur]]
  BY DEF QuantumExpires, Stop, managers, files, status, history, programs
<1>2. /\ child' \in [Tasks -> ChildStates] /\ child'[cur] # "running"
      /\ \A q \in Tasks : child'[q] = child[q] \/ child'[q] = "stopped"
  BY <1>1 DEF SchedulerInv, Typed, ChildStates
<1>3. Typed' /\ Unborn'
  BY <1>1, <1>2 DEF SchedulerInv, Typed, Unborn
<1>4. Seen'
  BY <1>1, <1>2 DEF SchedulerInv, Seen, Early
<1>5. Line' = Line
  BY <1>1 DEF Line
<1>6. Match(queues, table, Line)' /\ SelectedIsReady'
  BY <1>1, <1>5 DEF SchedulerInv, SelectedIsReady
<1>. QED
  BY <1>3, <1>4, <1>6 DEF SchedulerInv

\* The stopped child is put at the end of its queue.
LEMMA RequeueScheduled ==
  ASSUME SchedulerInv, cur \in Tasks, Requeue PROVE SchedulerInv'
<1>1. PICK k : k = table[cur].priority
  OBVIOUS
<1>2. /\ pc = "expired" /\ AwaitStopOf(cur)
      /\ table' = updateProcessState(table, cur, "READY") /\ gui_status' = StatesOf(table')
      /\ stale' = {} /\ orphans' = orphans
      /\ queues' = addProcessToReadyQueue(queues, cur, k) /\ Return
  BY <1>1 DEF Requeue, Tell, history, programs
<1>3. pc \in OnCore
  BY <1>2 DEF OnCore
<1>4. /\ table' \in Tables /\ \A q \in Tasks : q # cur => table'[q] = table[q]
      /\ table'[cur].state = "READY" /\ table'[cur].priority = k
  <2>1. "READY" \in States
    BY DEF States
  <2>. QED
    BY <1>1, <1>2, <1>3, <2>1, CorePlace, UpdateStateFacts
<1>5. k \in 1..3
  <2>1. table[cur] \in LivePCBs
    BY <1>3, CorePlace, PCBFacts
  <2>. QED
    BY <1>1, <2>1 DEF LivePCBs
<1>6. ReadyOf(table') = ReadyOf(table) \cup {cur} /\ cur \notin ReadyOf(table)
  BY <1>3, <1>4, CorePlace DEF ReadyOf
<1>7. \A r \in ReadyOf(table) : table'[r].priority = table[r].priority
  BY <1>4, <1>6 DEF ReadyOf
<1>8. queues' \in QueueSets /\ Match(queues', table', ReadyOf(table'))
  <2>1. queues \in QueueSets /\ Match(queues, table, ReadyOf(table))
    BY <1>3, CorePlace
  <2>2. /\ queues' \in QueueSets
        /\ Match(queues', table', ReadyOf(table) \cup {cur})
    BY <1>2, <1>4, <1>5, <1>6, <1>7, <2>1, AddFacts
  <2>. QED
    BY <1>6, <2>2
<1>9. /\ gui_status' \in [Tasks -> FileStates]
      /\ \A q \in Tasks : gui_status'[q] = table'[q].state
  BY <1>2, <1>4, StatesOfFacts
<1>10. /\ child' \in [Tasks -> ChildStates] /\ child'[cur] \notin {"running", "unborn"}
       /\ \A q \in Tasks : q # cur => child'[q] = child[q]
  BY <1>2, <1>3, CorePlace DEF AwaitStopOf, ChildStates
<1>11. /\ orphans' \cup stale' \subseteq Tasks
       /\ \A q \in Tasks : /\ child'[q] = "running" => q \in orphans'
                           /\ child'[q] = "unborn" => table'[q] = NoPCB
  BY <1>2, <1>3, <1>4, <1>10, CorePlace
<1>12. AtRest' /\ stale' = {}
  BY <1>2, <1>3, <1>4, <1>9, <1>11, CorePlace DEF AtRest, Rests
<1>13. pc' \notin OnCore \cup {"run"}
  BY <1>2, ReturnPlace
<1>. QED
  BY <1>4, <1>8, <1>9, <1>10, <1>11, <1>12, <1>13, CalmNext

\* The command of the dashboard: the task is selected, or the command refused.
LEMMA CommandScheduled ==
  ASSUME SchedulerInv, cur \in Tasks, ExecuteCommand PROVE SchedulerInv'
<1>1. /\ pc = "command" /\ pc \notin OnCore \cup {"run"}
      /\ child' = child /\ table' = table /\ orphans' = orphans
  BY DEF ExecuteCommand, OnCore, history, programs
<1>2. CASE RefuseCommand(cur)
  <2>1. pc' = "top" /\ queues' = queues /\ UNCHANGED <<gui_status, stale>>
    BY <1>2 DEF RefuseCommand, Goto, status
  <2>2. pc' \notin OnCore \cup {"run"} /\ pc' \in Early /\ Tame(child, child')
    BY <1>1, <2>1, TameSteps DEF OnCore, Early, SchedulerInv, Typed
  <2>. QED
    BY <1>1, <2>1, <2>2, QuietStep
<1>3. CASE RunSingle(cur)
  <2>1. /\ table[cur].state = "READY" /\ queues' = removeProcessByPID(queues, cur)
        /\ gui_status' = StatesOf(table) /\ stale' = {} /\ pc' = "run" /\ cur' = cur
    BY <1>3 DEF RunSingle, Tell
  <2>2. /\ table \in Tables /\ queues \in QueueSets /\ Match(queues, table, ReadyOf(table))
    BY <1>1, LineAway DEF SchedulerInv, Typed
  <2>3. Line' = ReadyOf(table) \ {cur}
    BY <1>1, <2>1 DEF Line, ReadyOf
  <2>4. queues' \in QueueSets /\ Match(queues', table', Line')
    BY <1>1, <2>1, <2>2, <2>3, RemoveItemFacts
  <2>5. /\ gui_status' \in [Tasks -> FileStates]
        /\ \A q \in Tasks : gui_status'[q] = table'[q].state
    BY <1>1, <2>1, <2>2, StatesOfFacts
  <2>6. Typed' /\ Unborn'
    <3>1. orphans' \cup stale' \subseteq Tasks
      BY <1>1, <2>1 DEF SchedulerInv, Typed
    <3>. QED
      BY <1>1, <2>4, <2>5, <3>1 DEF SchedulerInv, Typed, Unborn
  <2>7. AtRest
    BY <1>1, Calm
  <2>8. Seen'
    BY <1>1, <2>1, <2>5, <2>7 DEF Seen, AtRest, Rests
  <2>9. Match(queues, table, Line)' /\ SelectedIsReady'
    BY <1>1, <2>1, <2>4 DEF SelectedIsReady
  <2>. QED
    BY <2>6, <2>8, <2>9 DEF SchedulerInv
<1>. QED
  BY <1>2, <1>3 DEF ExecuteCommand

\* The steps that leave the managers alone.
Quiet ==
  \/ BootWithoutClock \/ AwaitAdmitted \/ WriteStatus \/ PollFindsNothing \/ MenuTimeout
  \/ PollFinds \/ ClearCommand \/ ChooseNothing \/ ToKernelMode \/ ToUserMode
  \/ StartScheduler \/ SchedulerFinishes \/ OpenSchedulingTerminal \/ OpenGraphicalDashboard

LEMMA QuietPlaces ==
  ASSUME Quiet
  PROVE  /\ pc \notin OnCore \cup {"run"} /\ pc' \notin OnCore \cup {"run", "halted"}
         /\ UNCHANGED managers
         /\ child' = child \/ (pc = "stopwait" /\ AwaitStopOf(cur))
         /\ Tell(table) \/ (UNCHANGED <<gui_status, stale>> /\ (pc \in Early => pc' \in Early))
         /\ orphans' = orphans
<1>1. CASE BootWithoutClock \/ AwaitAdmitted \/ WriteStatus \/ PollFindsNothing \/ MenuTimeout
  BY <1>1 DEF BootWithoutClock, AwaitAdmitted, WriteStatus, PollFindsNothing, MenuTimeout,
              Goto, files, status, history, programs, OnCore, Early
<1>2. CASE PollFinds \/ ClearCommand \/ StartScheduler \/ SchedulerFinishes
  BY <1>2 DEF PollFinds, ClearCommand, StartScheduler, SchedulerFinishes, Goto, files, status,
              history, programs, managers, OnCore, Early
<1>3. CASE ChooseNothing \/ ToKernelMode \/ ToUserMode
  BY <1>3 DEF ChooseNothing, ToKernelMode, ToUserMode, Chosen, Goto, files, status, programs,
              managers, OnCore, Early
<1>4. CASE OpenSchedulingTerminal \/ OpenGraphicalDashboard
  BY <1>4 DEF OpenSchedulingTerminal, OpenGraphicalDashboard, Goto, files, status, history,
              programs, managers, OnCore, Early
<1>. QED
  BY <1>1, <1>2, <1>3, <1>4 DEF Quiet

LEMMA QuietScheduled ==
  ASSUME SchedulerInv, ControlInv, Quiet PROVE SchedulerInv'
<1>1. /\ pc \notin OnCore \cup {"run"} /\ pc' \notin OnCore \cup {"run"}
      /\ table' = table /\ queues' = queues /\ orphans' = orphans
      /\ Tell(table) \/ (UNCHANGED <<gui_status, stale>> /\ (pc \in Early => pc' \in Early))
  BY QuietPlaces DEF managers
<1>2. Tame(child, child')
  <2>1. child \in [Tasks -> ChildStates]
    BY DEF SchedulerInv, Typed
  <2>2. CASE child' = child
    BY <2>1, <2>2 DEF Tame
  <2>3. CASE pc = "stopwait" /\ AwaitStopOf(cur)
    <3>1. cur \in Tasks
      BY <2>3 DEF ControlInv, AtWork
    <3>. QED
      BY <2>1, <2>3, <3>1, TameSteps
  <2>. QED
    BY <2>2, <2>3, QuietPlaces
<1>. QED
  BY <1>1, <1>2, QuietStep

\* The steps of the children and of the dashboard.
LEMMA AsideScheduled ==
  ASSUME SchedulerInv, Children \/ Dashboard PROVE SchedulerInv'
<1>1. child \in [Tasks -> ChildStates]
  BY DEF SchedulerInv, Typed
<1>2. CASE Children
  <2>1. PICK p \in Tasks : ChildStops(p) \/ OpenWindow(p) \/ ChildExits(p)
    BY <1>2 DEF Children
  <2>2. UNCHANGED <<pc, cur, table, queues, gui_status, stale, orphans>>
    BY <2>1 DEF ChildStops, OpenWindow, ChildExits, managers, control, files, status, history,
                programs
  <2>3. ChildStops(p) \/ ChildExits(p) \/ child' = child
    BY <2>1 DEF OpenWindow
  <2>. QED
    BY <1>1, <2>2, <2>3, TameSteps, AsideStep
<1>3. CASE Dashboard
  <2>1. DashboardOnly
    BY <1>3 DEF Dashboard, LoadStatus, ClickRow, LoadWithoutRow, WriteCommand
  <2>2. UNCHANGED <<pc, cur, table, queues, gui_status, stale, orphans, child>>
    BY <2>1 DEF DashboardOnly, managers, control, status, history, programs
  <2>3. Tame(child, child')
    BY <1>1, <2>2 DEF Tame
  <2>. QED
    BY <2>2, <2>3, AsideStep
<1>. QED
  BY <1>2, <1>3

-----------------------------------------------------------------------------
(* Where the kernel is.                                                    *)

LEMMA InitControl == Init => ControlInv
<1>1. 1 \in 1..MaxBoots
  BY Phase3Assumption
<1>. QED
  BY <1>1 DEF Init, ControlInv, Labels, AtWork, OnCore

LEMMA QuietControl ==
  ASSUME ControlInv, Quiet PROVE ControlInv'
<1>1. CASE BootWithoutClock \/ AwaitAdmitted \/ WriteStatus \/ PollFindsNothing \/ MenuTimeout
  BY <1>1 DEF BootWithoutClock, AwaitAdmitted, WriteStatus, PollFindsNothing, MenuTimeout,
              Goto, files, status, dashboard, history, programs, ControlInv,
              Labels, AtWork, OnCore
<1>2. CASE PollFinds \/ ClearCommand \/ StartScheduler \/ SchedulerFinishes
  BY <1>2 DEF PollFinds, ClearCommand, StartScheduler, SchedulerFinishes, Goto, files, status,
              dashboard, history, programs, ControlInv, Labels, AtWork, OnCore
<1>3. CASE ChooseNothing \/ ToKernelMode \/ ToUserMode
  BY <1>3 DEF ChooseNothing, ToKernelMode, ToUserMode, Chosen, Goto, files, status, dashboard,
              history, programs, ControlInv, Labels, AtWork, OnCore
<1>4. CASE OpenSchedulingTerminal \/ OpenGraphicalDashboard
  BY <1>4 DEF OpenSchedulingTerminal, OpenGraphicalDashboard, Goto, files, status,
              dashboard, history, programs, ControlInv, Labels, AtWork, OnCore
<1>. QED
  BY <1>1, <1>2, <1>3, <1>4 DEF Quiet

\* The options that name a task.
LEMMA ChosenControl ==
  ASSUME ControlInv, Chosen, currentMode' = currentMode, leaked' \subseteq Tasks
  PROVE  ControlInv'
  BY DEF ControlInv, Chosen, Goto, files, dashboard, programs, Labels, AtWork, OnCore

LEMMA NextControl ==
  ASSUME ControlInv, SchedulerInv, Next PROVE ControlInv'
<1>1. ASSUME NEW p \in Tasks, Start(p), executed' = executed,
             separate' = separate \/ separate' = separate \cup ({p} \cap Windowed)
      PROVE  ControlInv'
  BY <1>1 DEF Start, Grant, Deny, Goto, files, dashboard, ControlInv,
              Labels, AtWork, OnCore
<1>2. CASE KernelStep
  <2>1. CASE \E p \in Tasks : AutoStart(p)
    BY <1>1, <2>1 DEF AutoStart, programs
  <2>2. CASE Quiet
    BY <2>2, QuietControl
  <2>3. CASE ExecuteCommand
    BY <2>3 DEF ExecuteCommand, RunSingle, RefuseCommand, Goto, dashboard, history,
                programs, ControlInv, Labels, AtWork, OnCore
  <2>4. CASE SelectNext
    <3>1. /\ currentMode' = currentMode /\ UNCHANGED <<files, dashboard, history>>
          /\ \/ pc' = "top" /\ cur' = Nobody
             \/ pc' = "run" /\ cur' \in Tasks
      <4>1. PICK a : /\ a = applyAging(queues, table, AgingThreshold)
                     /\ \/ hasReadyProcess(a.queues) /\ Select(a, FirstQueue(a.queues))
                        \/ Goto("top")
        BY <2>4 DEF SelectNext
      <4>2. currentMode' = currentMode /\ UNCHANGED <<files, dashboard, history>>
        BY <2>4 DEF SelectNext
      <4>3. CASE hasReadyProcess(a.queues) /\ Select(a, FirstQueue(a.queues))
        <5>1. a.queues \in QueueSets
          <6>1. table \in Tables /\ queues \in QueueSets
            BY DEF SchedulerInv, Typed
          <6>. QED
            BY <4>1, <6>1, AgingFacts DEF AgedTypes
        <5>2. PICK k : k = FirstQueue(a.queues)
          OBVIOUS
        <5>3. k \in Queues /\ a.queues[k] # <<>>
          BY <4>3, <5>2, FirstQueueFacts
        <5>4. pc' = "run" /\ cur' = Head(a.queues[k]).pid
          BY <4>3, <5>2 DEF Select
        <5>. QED
          BY <4>2, <5>1, <5>3, <5>4, TakeFacts
      <4>. QED
        BY <4>1, <4>2, <4>3 DEF Goto
    <3>. QED
      BY <3>1 DEF files, dashboard, history, programs, ControlInv, Labels, AtWork, OnCore
  <2>5. CASE Dispatch
    BY <2>5 DEF Dispatch, dashboard, history, programs, ControlInv, Labels, AtWork, OnCore
  <2>6. CASE SystemTaskEnds \/ TimedTaskEnds
    BY <2>6 DEF SystemTaskEnds, TimedTaskEnds, Complete, Return, dashboard, history, programs,
                ControlInv, Labels, AtWork, OnCore
  <2>7. CASE QuantumExpires
    BY <2>7 DEF QuantumExpires, files, dashboard, history, programs, ControlInv, Labels, AtWork,
                OnCore
  <2>8. CASE Requeue
    BY <2>8 DEF Requeue, Return, dashboard, history, programs, ControlInv, Labels, AtWork, OnCore
  <2>. QED
    BY <1>2, <2>1, <2>2, <2>3, <2>4, <2>5, <2>6, <2>7, <2>8 DEF KernelStep, Quiet
<1>3. CASE User
  <2>1. ASSUME NEW p \in Tasks, LaunchTask(p) PROVE ControlInv'
    BY <1>1, <2>1 DEF LaunchTask
  <2>2. ASSUME NEW p \in Tasks, Minimize(p) \/ MakeReady(p) PROVE ControlInv'
    <3>1. Chosen /\ currentMode' = currentMode /\ leaked' \subseteq Tasks
      BY <2>2 DEF Minimize, MakeReady, ControlInv
    <3>. QED
      BY <3>1, ChosenControl
  <2>3. ASSUME NEW p \in Tasks, Close(p) \/ KernelKill(p) PROVE ControlInv'
    <3>1. Chosen /\ currentMode' = currentMode /\ leaked' \subseteq Tasks
      BY <2>3 DEF Close, KernelKill, ControlInv
    <3>. QED
      BY <3>1, ChosenControl
  <2>4. ASSUME NEW p \in Tasks, NEW q \in Tasks, DeadlockSimulation(p, q) PROVE ControlInv'
    <3>1. Chosen /\ currentMode' = currentMode /\ leaked' \subseteq Tasks
      BY <2>4 DEF DeadlockSimulation, ControlInv
    <3>. QED
      BY <3>1, ChosenControl
  <2>5. CASE Quiet
    BY <2>5, QuietControl
  <2>6. CASE Shutdown
    BY <2>6 DEF Shutdown, Goto, files, dashboard, history, programs, ControlInv,
                Labels, AtWork, OnCore
  <2>7. CASE NextBoot
    <3>1. boots + 1 \in 1..MaxBoots
      BY <2>7, Phase3Assumption DEF NextBoot, ControlInv
    <3>. QED
      BY <2>7, <3>1 DEF NextBoot, MemoryIsNew, files, dashboard, programs, ControlInv, Labels,
                        AtWork, OnCore
  <2>8. CASE Interrupted
    BY <2>8 DEF Interrupted, MemoryIsNew, dashboard, ControlInv, Labels, AtWork, OnCore
  <2>. QED
    BY <1>3, <2>1, <2>2, <2>3, <2>4, <2>5, <2>6, <2>7, <2>8 DEF User, Quiet, Resume, SwitchTo
<1>4. CASE Children
  BY <1>4 DEF Children, ChildStops, OpenWindow, ChildExits, control, files, dashboard, history,
              programs, ControlInv
<1>5. CASE Dashboard
  BY <1>5 DEF Dashboard, DashboardOnly, LoadStatus, ClickRow, LoadWithoutRow, WriteCommand,
              control, history, programs, ControlInv
<1>. QED
  BY <1>2, <1>3, <1>4, <1>5 DEF Next

-----------------------------------------------------------------------------
(* What an interrupted kernel has left.                                    *)

\* No step makes a launched task one that was never launched.
LEMMA LaunchedStays ==
  ASSUME child \in [Tasks -> ChildStates], child' \in [Tasks -> ChildStates], Next,
         NEW p \in Tasks, child[p] # "unborn"
  PROVE  child'[p] # "unborn"
<1>. DEFINE Stays == child'[p] # "unborn"
<1>1. CASE child' = child
  BY <1>1
<1>2. ASSUME NEW q \in Tasks, NEW v, v # "unborn", child' = [child EXCEPT ![q] = v] PROVE Stays
  BY <1>2
<1>3. ASSUME NEW q \in Tasks, Stop(q) \/ Continue(q) \/ AwaitStopOf(q) PROVE Stays
  BY <1>3 DEF Stop, Continue, AwaitStopOf
<1>4. ASSUME NEW S, Kill(S) PROVE Stays
  BY <1>4 DEF Kill
<1>5. ASSUME NEW q \in Tasks, Start(q) PROVE Stays
  BY <1>2, <1>5 DEF Start, Grant, Deny
<1>6. CASE KernelStep
  <2>1. CASE AwaitAdmitted \/ Dispatch \/ QuantumExpires \/ Requeue
    BY <2>1 DEF AwaitAdmitted, Dispatch, QuantumExpires, Requeue, Stop, Continue, AwaitStopOf
  <2>2. CASE SystemTaskEnds \/ TimedTaskEnds
    BY <1>4, <2>2 DEF SystemTaskEnds, TimedTaskEnds, Complete
  <2>. QED
    BY <1>1, <1>5, <1>6, <2>1, <2>2
       DEF KernelStep, AutoStart, BootWithoutClock, WriteStatus, PollFindsNothing, MenuTimeout,
           PollFinds, ClearCommand, ExecuteCommand, SchedulerFinishes, SelectNext
<1>7. CASE User
  <2>1. ASSUME NEW q \in Tasks, Minimize(q) \/ Resume(q) \/ SwitchTo(q) PROVE Stays
    BY <1>1, <1>3, <2>1 DEF Minimize, Resume, SwitchTo, MakeReady
  <2>2. ASSUME NEW q \in Tasks,
               Close(q) \/ KernelKill(q) \/ \E r \in Tasks : DeadlockSimulation(q, r)
        PROVE  Stays
    BY <1>4, <2>2 DEF Close, KernelKill, DeadlockSimulation, ForceTerminate
  <2>3. CASE Interrupted
    BY <2>3 DEF Interrupted, Left
  <2>4. CASE Shutdown
    BY <1>4, <2>4 DEF Shutdown
  <2>. QED
    BY <1>1, <1>5, <1>7, <2>1, <2>2, <2>3, <2>4
       DEF User, LaunchTask, ChooseNothing, ToKernelMode, ToUserMode, StartScheduler,
           OpenSchedulingTerminal, OpenGraphicalDashboard, NextBoot
<1>8. CASE Children
  BY <1>1, <1>2, <1>8 DEF Children, ChildStops, OpenWindow, ChildExits
<1>9. CASE Dashboard
  BY <1>1, <1>9 DEF Dashboard, LoadStatus, ClickRow, LoadWithoutRow, WriteCommand, DashboardOnly
<1>. QED
  BY <1>6, <1>7, <1>8, <1>9 DEF Next

\* No step creates a PCB but the launch of a task that was never launched.
LEMMA AbsentStays ==
  ASSUME SchedulerInv, ControlInv, Next, memoryBlocks \in Seq(Blocks),
         NEW p \in Tasks, table[p] = NoPCB, child[p] # "unborn"
  PROVE  table'[p] = NoPCB
<1>. DEFINE Stays == table'[p] = NoPCB
<1>1. /\ table \in Tables /\ queues \in QueueSets
      /\ pc \in AtWork => cur \in Tasks
  BY DEF SchedulerInv, Typed, ControlInv
<1>2. CASE table' = table
  BY <1>2
<1>3. ASSUME NEW q \in Tasks, NEW state \in States, table' = updateProcessState(table, q, state)
      PROVE  Stays
  <2>1. CASE q \in Registered(table)
    <3>1. q # p
      BY <2>1 DEF Registered
    <3>. QED
      BY <1>1, <1>3, <3>1, UpdateStateFacts
  <2>2. CASE q \notin Registered(table)
    BY <1>2, <1>3, <2>2 DEF updateProcessState
  <2>. QED
    BY <2>1, <2>2
<1>4. ASSUME NEW q \in Tasks, table' = removeProcess(table, q) PROVE Stays
  BY <1>1, <1>4, RemoveFacts
<1>5. CASE table' = NoPCBs
  BY <1>5 DEF NoPCBs
<1>6. ASSUME NEW q \in Tasks, Start(q) PROVE Stays
  <2>1. CASE Deny(q)
    BY <1>2, <2>1 DEF Deny, managers
  <2>2. CASE Grant(q)
    <3>1. PICK k, n, block : /\ k = Program[q].priority /\ n = Program[q].ram
                             /\ block = Allocated(memoryBlocks, q, n)
      OBVIOUS
    <3>2. table' = Launched(table, q, k, block) /\ Admits(q) /\ child[q] = "unborn"
      BY <1>6, <2>2, <3>1 DEF Grant, Launched, Start
    <3>3. k \in 1..3 /\ block.start \in Int /\ block.end \in Int
      BY <3>1, <3>2, AdmitsFacts, ProgramFacts
    <3>4. table[q] = NoPCB /\ q # p
      BY <3>2 DEF SchedulerInv, Unborn
    <3>. QED
      BY <1>1, <3>2, <3>3, <3>4, LaunchFacts
  <2>. QED
    BY <1>6, <2>1, <2>2 DEF Start
<1>7. CASE Quiet
  BY <1>2, <1>7, QuietPlaces DEF managers
<1>8. CASE KernelStep
  <2>1. CASE SelectNext
    <3>1. PICK a : /\ a = applyAging(queues, table, AgingThreshold)
                   /\ \/ hasReadyProcess(a.queues) /\ Select(a, FirstQueue(a.queues))
                      \/ table' = a.table
      BY <2>1 DEF SelectNext
    <3>2. a.table \in Tables /\ a.queues \in QueueSets /\ SameBlocks(table, a.table)
      BY <1>1, <3>1, AgingFacts DEF AgedTypes, SameTasks
    <3>3. a.table[p] = NoPCB
      BY <1>1, <3>2, PCBFacts DEF SameBlocks
    <3>4. CASE hasReadyProcess(a.queues) /\ Select(a, FirstQueue(a.queues))
      <4>1. PICK k, q : k = FirstQueue(a.queues) /\ q = Head(a.queues[k]).pid
        OBVIOUS
      <4>2. k \in Queues /\ a.queues[k] # <<>> /\ table' = resetWaitingTime(a.table, q)
        BY <3>4, <4>1, FirstQueueFacts DEF Select
      <4>3. q \in Tasks
        BY <3>2, <4>1, <4>2, TakeFacts
      <4>4. table' \in Tables /\ SameBlocks(a.table, table')
        BY <3>2, <4>2, <4>3, ResetFacts
      <4>. QED
        BY <3>2, <3>3, <4>4, PCBFacts DEF SameBlocks
    <3>. QED
      BY <3>1, <3>3, <3>4
  <2>2. CASE Dispatch \/ Requeue
    BY <1>1, <1>3, <2>2 DEF Dispatch, Requeue, AtWork, OnCore, States
  <2>3. CASE SystemTaskEnds \/ TimedTaskEnds
    BY <1>1, <1>4, <2>3 DEF SystemTaskEnds, TimedTaskEnds, Complete, AtWork, OnCore
  <2>4. CASE ExecuteCommand \/ QuantumExpires
    BY <1>2, <2>4 DEF ExecuteCommand, QuantumExpires, managers
  <2>. QED
    BY <1>6, <1>7, <1>8, <2>1, <2>2, <2>3, <2>4 DEF KernelStep, Quiet, AutoStart
<1>9. CASE User
  <2>1. ASSUME NEW q \in Tasks, Minimize(q) \/ Resume(q) \/ SwitchTo(q) PROVE Stays
    BY <1>3, <2>1 DEF Minimize, Resume, SwitchTo, MakeReady, States
  <2>2. ASSUME NEW q \in Tasks, Close(q) \/ KernelKill(q) PROVE Stays
    BY <1>4, <2>2 DEF Close, KernelKill, ForceTerminate, Forget
  <2>3. ASSUME NEW q \in Tasks, NEW r \in Tasks, DeadlockSimulation(q, r) PROVE Stays
    BY <1>4, <2>3, VictimIsSecond DEF DeadlockSimulation, ForceTerminate, Forget
  <2>4. CASE Shutdown \/ NextBoot \/ Interrupted
    BY <1>5, <2>4 DEF Shutdown, NextBoot, Interrupted, MemoryIsNew
  <2>. QED
    BY <1>6, <1>7, <1>9, <2>1, <2>2, <2>3, <2>4 DEF User, Quiet, LaunchTask
<1>10. CASE Children \/ Dashboard
  BY <1>2, <1>10 DEF Children, ChildStops, OpenWindow, ChildExits, Dashboard, LoadStatus, ClickRow,
                     LoadWithoutRow, WriteCommand, DashboardOnly, managers
<1>. QED
  BY <1>8, <1>9, <1>10 DEF Next

LEMMA OrphansStay ==
  ASSUME Next, ~Interrupted PROVE orphans' = orphans
<1>. USE DEF history, programs
<1>1. CASE KernelStep
  BY <1>1 DEF KernelStep, AutoStart, BootWithoutClock, AwaitAdmitted, WriteStatus,
              PollFindsNothing, MenuTimeout, PollFinds, ClearCommand, ExecuteCommand,
              SchedulerFinishes, SelectNext, Dispatch, SystemTaskEnds, TimedTaskEnds, Complete,
              QuantumExpires, Requeue
<1>2. CASE User
  BY <1>2 DEF User, LaunchTask, Minimize, Resume, SwitchTo, MakeReady, Close, KernelKill,
              DeadlockSimulation, Chosen, ChooseNothing, ToKernelMode, ToUserMode, StartScheduler,
              OpenSchedulingTerminal, OpenGraphicalDashboard, Shutdown, NextBoot
<1>3. CASE Children \/ Dashboard
  BY <1>3 DEF Children, ChildStops, OpenWindow, ChildExits, Dashboard, LoadStatus, ClickRow,
              LoadWithoutRow, WriteCommand, DashboardOnly
<1>. QED
  BY <1>1, <1>2, <1>3 DEF Next

LEMMA NextLeftAlone ==
  ASSUME SchedulerInv, SchedulerInv', ControlInv, LeftAlone, memoryBlocks \in Seq(Blocks), Next
  PROVE  LeftAlone'
<1>1. child \in [Tasks -> ChildStates] /\ child' \in [Tasks -> ChildStates] /\ orphans \subseteq Tasks
  BY DEF SchedulerInv, Typed
<1>2. ASSUME NEW p \in orphans PROVE child'[p] # "unborn" /\ table'[p] = NoPCB
  BY <1>1, <1>2, LaunchedStays, AbsentStays DEF LeftAlone
<1>3. CASE Interrupted
  <2>1. /\ orphans' = orphans \cup {p \in Tasks : child'[p] = "running"} /\ table' = NoPCBs
    BY <1>3 DEF Interrupted, MemoryIsNew
  <2>. QED
    BY <1>2, <2>1 DEF LeftAlone, NoPCBs
<1>4. CASE ~Interrupted
  <2>1. orphans' = orphans
    BY <1>4, OrphansStay
  <2>. QED
    BY <1>2, <2>1 DEF LeftAlone
<1>. QED
  BY <1>3, <1>4

-----------------------------------------------------------------------------
(* The RAM layout.                                                         *)

\* The blocks of s follow each other from 0 to the address end.
Layout(s, to) ==
  /\ s \in Seq(Blocks) /\ Len(s) >= 1
  /\ s[1].start = 0 /\ s[Len(s)].end = to
  /\ \A i \in 1..Len(s) : s[i].start < s[i].end
  /\ \A i, j \in 1..Len(s) : j = i + 1 => s[i].end = s[j].start

HasBlock(s, b) == \E i \in 1..Len(s) : s[i] = b

\* The tasks' blocks in t are those of s, and b.
Adds(s, t, b) == \A c : ~IsFree(c) => (HasBlock(t, c) <=> HasBlock(s, c) \/ c = b)

\* The only free neighbours are the first two blocks: what a merge leaves.
OnlyFirst(s) ==
  \A i, j \in 1..Len(s) : j = i + 1 /\ IsFree(s[i]) /\ IsFree(s[j]) => i = 1

\* No free block before two free neighbours: what allocations make of it.
Merged(s) ==
  \A i, j, k \in 1..Len(s) : j = i + 1 /\ IsFree(s[i]) /\ IsFree(s[j]) /\ k < i => ~IsFree(s[k])

\* t is s with x for its block i.
IsChange(s, i, x, t) ==
  /\ t \in Seq(Blocks) /\ Len(t) = Len(s)
  /\ \A j \in 1..Len(s) : t[j] = IF j = i THEN x ELSE s[j]

LEMMA Changed ==
  ASSUME NEW s \in Seq(Blocks), NEW i \in 1..Len(s), NEW x \in Blocks
  PROVE  IsChange(s, i, x, ReplaceAt(s, i, x))
  BY DEF IsChange, ReplaceAt

\* The merge of a block into the last one.
Longer(b, to) == [b EXCEPT !.end = to]

LEMMA LongerFacts ==
  ASSUME NEW b \in Blocks, NEW to \in Int
  PROVE  /\ Longer(b, to) \in Blocks /\ Longer(b, to).start = b.start
         /\ Longer(b, to).end = to /\ Longer(b, to).pid = b.pid
  BY DEF Longer, Blocks

LEMMA MergeStepTyped ==
  ASSUME NEW d \in Seq(Blocks), NEW b \in Blocks, NEW first
  PROVE  MergeStep(d, b, first) \in Seq(Blocks)
<1>1. b.end \in Int /\ Len(d) \in Nat
  BY DEF Blocks
<1>2. CASE d = <<>>
  BY <1>2 DEF MergeStep
<1>3. CASE d # <<>>
  <2>1. Len(d) \in 1..Len(d)
    BY <1>1, <1>3, EmptySeq
  <2>2. d[Len(d)] \in Blocks
    BY <2>1
  <2>3. Longer(d[Len(d)], b.end) \in Blocks
    BY <1>1, <2>2, LongerFacts
  <2>4. ReplaceAt(d, Len(d), Longer(d[Len(d)], b.end)) \in Seq(Blocks)
    BY <2>1, <2>3, Changed DEF IsChange
  <2>5. \/ MergeStep(d, b, first) = ReplaceAt(d, Len(d), Longer(d[Len(d)], b.end))
        \/ MergeStep(d, b, first) = Append(d, b)
    BY DEF MergeStep, Last, Longer
  <2>. QED
    BY <2>4, <2>5
<1>. QED
  BY <1>2, <1>3

\* The next block is appended, or swallowed by the last one.
LEMMA MergeStepFacts ==
  ASSUME NEW d, NEW m, Layout(d, m), OnlyFirst(d), NEW b \in Blocks, b.start = m, m < b.end,
         NEW first, NEW e, e = MergeStep(d, b, first)
  PROVE  Layout(e, b.end) /\ OnlyFirst(e) /\ Adds(d, e, b)
<1>1. PICK n, z : n = Len(d) /\ z = d[n]
  OBVIOUS
<1>2. /\ d \in Seq(Blocks) /\ n \in Nat /\ n >= 1 /\ n \in 1..n /\ 1 \in 1..n
      /\ d[1].start = 0 /\ z.end = m
      /\ \A i \in 1..n : d[i] \in Blocks /\ d[i].start < d[i].end
      /\ \A i, j \in 1..n : j = i + 1 => d[i].end = d[j].start
      /\ z \in Blocks /\ b.start \in Int /\ b.end \in Int /\ m \in Int /\ z.start \in Int
      /\ z.start < z.end
  <2>1. d \in Seq(Blocks) /\ n \in Nat /\ n >= 1
    BY <1>1 DEF Layout
  <2>2. n \in 1..n /\ 1 \in 1..n
    BY <2>1
  <2>3. /\ d[1].start = 0 /\ z.end = m
        /\ \A i \in 1..n : d[i].start < d[i].end
        /\ \A i, j \in 1..n : j = i + 1 => d[i].end = d[j].start
    BY <1>1 DEF Layout
  <2>4. \A i \in 1..n : d[i] \in Blocks
    BY <1>1, <2>1
  <2>5. z \in Blocks /\ z.start < z.end
    BY <1>1, <2>2, <2>3, <2>4
  <2>6. b.start \in Int /\ b.end \in Int /\ z.start \in Int
    BY <2>5 DEF Blocks
  <2>. QED
    BY <2>1, <2>2, <2>3, <2>4, <2>5, <2>6
<1>3. \A i, j \in 1..n : j = i + 1 /\ IsFree(d[i]) /\ IsFree(d[j]) => i = 1
  BY <1>1 DEF OnlyFirst
<1>4. d # <<>> /\ Last(d) = z
  BY <1>1, <1>2 DEF Last
<1>5. CASE e = Append(d, b) /\ (IsFree(z) /\ IsFree(b) => n = 1)
  <2>1. /\ e \in Seq(Blocks) /\ Len(e) = n + 1
        /\ \A i \in 1..n : e[i] = d[i]
        /\ e[n + 1] = b
    BY <1>1, <1>2, <1>5, AppendFacts
  <2>2. \A i \in 1..(n + 1) : i \in 1..n \/ i = n + 1
    BY <1>2
  <2>3. \A i, j \in 1..(n + 1) : j = i + 1 => i \in 1..n /\ (j \in 1..n \/ (i = n /\ j = n + 1))
    BY <1>2
  <2>4. Layout(e, b.end)
    <3>1. \A i \in 1..(n + 1) : e[i].start < e[i].end
      BY <1>2, <2>1, <2>2
    <3>2. \A i, j \in 1..(n + 1) : j = i + 1 => e[i].end = e[j].start
      BY <1>1, <1>2, <2>1, <2>3
    <3>3. e[1].start = 0 /\ n + 1 >= 1
      BY <1>2, <2>1
    <3>. QED
      BY <2>1, <3>1, <3>2, <3>3 DEF Layout
  <2>5. OnlyFirst(e)
    <3>1. \A i, j \in 1..(n + 1) : j = i + 1 /\ IsFree(e[i]) /\ IsFree(e[j]) => i = 1
      BY <1>1, <1>2, <1>3, <1>5, <2>1, <2>3
    <3>. QED
      BY <2>1, <3>1 DEF OnlyFirst
  <2>6. Adds(d, e, b)
    <3>1. n + 1 \in 1..(n + 1) /\ \A i \in 1..n : i \in 1..(n + 1)
      BY <1>2
    <3>2. \A c : (\E i \in 1..(n + 1) : e[i] = c) <=> (\E i \in 1..n : d[i] = c) \/ c = b
      BY <2>1, <2>2, <3>1
    <3>. QED
      BY <1>1, <2>1, <3>2 DEF Adds, HasBlock
  <2>. QED
    BY <2>4, <2>5, <2>6
<1>6. CASE e = ReplaceAt(d, n, Longer(z, b.end)) /\ IsFree(z) /\ IsFree(b)
  <2>1. PICK y : y = Longer(z, b.end)
    OBVIOUS
  <2>2. y \in Blocks /\ y.start = z.start /\ y.end = b.end /\ y.pid = z.pid
    BY <1>2, <2>1, LongerFacts
  <2>3. /\ e \in Seq(Blocks) /\ Len(e) = n
        /\ \A i \in 1..n : e[i] = IF i = n THEN y ELSE d[i]
    <3>1. e = ReplaceAt(d, n, y) /\ n \in 1..Len(d)
      BY <1>1, <1>2, <1>6, <2>1
    <3>2. d \in Seq(Blocks) /\ n \in 1..Len(d) /\ y \in Blocks
      BY <1>2, <2>2, <3>1
    <3>3. /\ e \in Seq(Blocks) /\ Len(e) = Len(d)
          /\ \A i \in 1..Len(d) : e[i] = IF i = n THEN y ELSE d[i]
      <4>1. IsChange(d, n, y, ReplaceAt(d, n, y))
        BY <3>2, Changed
      <4>. QED
        BY <3>1, <4>1 DEF IsChange
    <3>. QED
      BY <1>1, <3>3
  <2>4. /\ e[n] = y /\ \A i \in 1..n : i # n => e[i] = d[i]
        /\ \A i \in 1..n : e[i].start = d[i].start /\ e[i].pid = d[i].pid
    BY <1>1, <1>2, <2>2, <2>3
  <2>5. Layout(e, b.end)
    <3>1. y.start < y.end
      BY <1>2, <2>2
    <3>2. \A i \in 1..n : e[i].start < e[i].end
      BY <1>2, <2>4, <3>1
    <3>3. \A i, j \in 1..n : j = i + 1 => e[i].end = e[j].start
      <4>1. \A i, j \in 1..n : j = i + 1 => i # n
        BY <1>2
      <4>. QED
        BY <1>2, <2>4, <4>1
    <3>. QED
      BY <1>2, <2>2, <2>3, <2>4, <3>2, <3>3 DEF Layout
  <2>6. OnlyFirst(e)
    BY <1>3, <2>3, <2>4 DEF OnlyFirst, IsFree
  <2>7. Adds(d, e, b)
    <3>1. IsFree(y)
      BY <1>6, <2>2 DEF IsFree
    <3>2. \A c : ~IsFree(c) => ((\E i \in 1..n : e[i] = c) <=> (\E i \in 1..n : d[i] = c))
      BY <1>1, <1>6, <2>4, <3>1
    <3>. QED
      BY <1>1, <1>6, <2>3, <3>2 DEF Adds, HasBlock
  <2>. QED
    BY <2>5, <2>6, <2>7
<1>7. \/ e = Append(d, b) /\ (IsFree(z) /\ IsFree(b) => n = 1)
      \/ e = ReplaceAt(d, n, Longer(z, b.end)) /\ IsFree(z) /\ IsFree(b)
  BY <1>1, <1>4 DEF MergeStep, Longer
<1>. QED
  BY <1>5, <1>6, <1>7

\* mergeFreeMemoryBlocks runs through the blocks.
MergeRuns(s, r) ==
  \E h \in [0..Len(s) -> Seq(Blocks)] :
    /\ h[0] = <<>>
    /\ \A i \in 1..Len(s) : h[i] = MergeStep(h[i - 1], s[i], s[1])
    /\ r = h[Len(s)]

LEMMA MergeFolds ==
  ASSUME NEW s \in Seq(Blocks)
  PROVE  MergeRuns(s, mergeFreeMemoryBlocks(s))
<1>. DEFINE X == Seq(Blocks)
            D == SUBSET DOMAIN s
            Step(d, b) == MergeStep(d, b, s[1])
            P(g) == g = [d \in D |-> IF d = {} THEN <<>> ELSE Step(g[d \ {Max(d)}], s[Max(d)])]
            iter == CHOOSE g : P(g)
<1>1. PICK F \in [X \X Blocks -> X] : \A x \in X, e \in Blocks : F[<<x, e>>] = Step(x, e)
  <2>. DEFINE F == [z \in X \X Blocks |-> Step(z[1], z[2])]
  <2>1. \A x \in X, e \in Blocks : Step(x, e) \in X
    BY MergeStepTyped
  <2>. HIDE DEF X, Step
  <2>2. F \in [X \X Blocks -> X] /\ \A x \in X, e \in Blocks : F[<<x, e>>] = Step(x, e)
    BY <2>1
  <2>. HIDE DEF F
  <2>. QED
    BY <2>2
<1>2. <<>> \in X /\ Len(s) \in Nat /\ DOMAIN s = 1..Len(s)
  OBVIOUS
<1>. HIDE DEF X
<1>3. \A d \in D \ {{}} : Max(d) \in DOMAIN s /\ s[Max(d)] \in Blocks /\ d \ {Max(d)} \in D
  <2>1. ASSUME NEW d \in D \ {{}}
        PROVE  Max(d) \in DOMAIN s /\ s[Max(d)] \in Blocks /\ d \ {Max(d)} \in D
    <3>1. Max(d) \in d
      BY <1>2, MaxOfSubset
    <3>2. Max(d) \in 1..Len(s)
      BY <1>2, <3>1
    <3>. HIDE DEF Max
    <3>. QED
      BY <1>2, <3>2
  <2>. HIDE DEF D
  <2>. QED
    BY <2>1
<1>4. \E g : P(g)
  <2>1. HasFoldLeft(X, <<>>, F, s)
    BY <1>2, FoldLeftExists
  <2>2. PICK g \in [D -> X] : /\ g[{}] = <<>>
           /\ \A d \in D \ {{}} : g[d] = F[<<g[d \ {Max(d)}], s[Max(d)]>>]
    BY <2>1 DEF HasFoldLeft
  <2>3. \A d \in D \ {{}} : g[d] = Step(g[d \ {Max(d)}], s[Max(d)])
    <3>. HIDE DEF D, Step
    <3>. QED
      BY <1>1, <1>3, <2>2
  <2>. QED
    <3>. HIDE DEF Step
    <3>. QED
      BY <2>2, <2>3
<1>5. P(iter)
  <2>. HIDE DEF P
  <2>. QED
    BY <1>4
<1>6. mergeFreeMemoryBlocks(s) = iter[DOMAIN s]
  BY DEF mergeFreeMemoryBlocks, FoldLeft, MapThenFoldSet
<1>7. /\ iter[{}] = <<>>
      /\ \A d \in D \ {{}} : iter[d] = Step(iter[d \ {Max(d)}], s[Max(d)])
  <2>. HIDE DEF iter
  <2>. QED
    BY <1>5
<1>8. RunsTo(X, <<>>, F, s, iter[DOMAIN s])
  <2>1. \A d \in SUBSET DOMAIN s : d # {} /\ iter[d \ {Max(d)}] \in X =>
          iter[d] = F[<<iter[d \ {Max(d)}], s[Max(d)]>>]
    <3>. HIDE DEF iter, Step
    <3>. QED
      BY <1>1, <1>3, <1>7
  <2>. HIDE DEF iter
  <2>. QED
    BY <1>2, <1>7, <2>1, FoldLeftRuns
<1>. HIDE DEF D, iter
<1>9. PICK h \in [0..Len(s) -> X] :
            /\ h[0] = <<>>
            /\ \A i \in 1..Len(s) : h[i] = F[<<h[i - 1], s[i]>>]
            /\ iter[DOMAIN s] = h[Len(s)]
  BY <1>8 DEF RunsTo
<1>10. \A i \in 1..Len(s) : h[i] = Step(h[i - 1], s[i])
  <2>1. \A i \in 1..Len(s) : i - 1 \in 0..Len(s) /\ s[i] \in Blocks
    BY <1>2
  <2>. HIDE DEF Step
  <2>. QED
    BY <1>1, <1>9, <2>1
<1>. QED
  BY <1>6, <1>9, <1>10 DEF MergeRuns, X

\* A merge covers the same RAM, leaves the tasks their blocks, and leaves free
\* neighbours at the start of the layout only.
LEMMA MergeFacts ==
  ASSUME NEW s, NEW to, Layout(s, to), NEW r, r = mergeFreeMemoryBlocks(s)
  PROVE  /\ Layout(r, to) /\ OnlyFirst(r)
         /\ \A c : ~IsFree(c) => (HasBlock(r, c) <=> HasBlock(s, c))
<1>1. PICK n : n = Len(s)
  OBVIOUS
<1>2. /\ s \in Seq(Blocks) /\ n \in Nat /\ n >= 1
      /\ s[1].start = 0 /\ s[n].end = to
      /\ \A i \in 1..n : s[i] \in Blocks /\ s[i].start < s[i].end
      /\ \A i, j \in 1..n : j = i + 1 => s[i].end = s[j].start
  <2>1. s \in Seq(Blocks) /\ n \in Nat /\ n >= 1
    BY <1>1 DEF Layout
  <2>2. \A i \in 1..n : s[i] \in Blocks
    BY <1>1, <2>1
  <2>. QED
    BY <1>1, <2>1, <2>2 DEF Layout
<1>3. PICK h \in [0..n -> Seq(Blocks)] :
            /\ h[0] = <<>>
            /\ \A i \in 1..n : h[i] = MergeStep(h[i - 1], s[i], s[1])
            /\ r = h[n]
  BY <1>1, <1>2, MergeFolds DEF MergeRuns
<1>. DEFINE Good(i) == /\ Layout(h[i], s[i].end) /\ OnlyFirst(h[i])
                       /\ \A c : ~IsFree(c) => (HasBlock(h[i], c) <=> \E j \in 1..i : s[j] = c)
            T == {i \in Nat : 1 <= i /\ i <= n => Good(i)}
<1>4. 0 \in T
  OBVIOUS
<1>5. Good(1)
  <2>1. PICK b : b = s[1]
    OBVIOUS
  <2>2. 1 \in 1..n /\ b \in Blocks /\ b.start = 0 /\ b.start < b.end
    BY <1>2, <2>1
  <2>3. h[1] = <<b>>
    <3>1. h[1] = MergeStep(h[0], b, b)
      BY <1>3, <2>1, <2>2
    <3>. QED
      BY <1>3, <3>1 DEF MergeStep
  <2>4. PICK d : d = <<b>>
    OBVIOUS
  <2>5. d \in Seq(Blocks) /\ Len(d) = 1 /\ d[1] = b
    BY <2>2, <2>4
  <2>6. \A i \in 1..1 : i = 1
    OBVIOUS
  <2>7. Layout(d, b.end)
    BY <2>2, <2>5, <2>6 DEF Layout
  <2>8. OnlyFirst(d)
    BY <2>5, <2>6 DEF OnlyFirst
  <2>9. \A c : HasBlock(d, c) <=> \E j \in 1..1 : s[j] = c
    BY <2>1, <2>5, <2>6 DEF HasBlock
  <2>. QED
    BY <2>1, <2>3, <2>4, <2>7, <2>8, <2>9
<1>6. ASSUME NEW i \in Nat, i \in T PROVE i + 1 \in T
  <2>1. CASE i = 0
    BY <1>5, <2>1
  <2>2. CASE i # 0
    <3>1. SUFFICES ASSUME i + 1 <= n PROVE Good(i + 1)
      OBVIOUS
    <3>2. 1 <= i /\ i <= n /\ i \in 1..n /\ i + 1 \in 1..n /\ (i + 1) - 1 = i
      BY <1>2, <2>2, <3>1
    <3>3. Good(i)
      BY <1>6, <3>2
    <3>4. PICK d, e, b : d = h[i] /\ e = h[i + 1] /\ b = s[i + 1]
      OBVIOUS
    <3>5. e = MergeStep(d, b, s[1])
      BY <1>3, <3>2, <3>4
    <3>6. b \in Blocks /\ b.start = s[i].end /\ s[i].end < b.end
      BY <1>2, <3>2, <3>4
    <3>7. Layout(e, b.end) /\ OnlyFirst(e) /\ Adds(d, e, b)
      BY <3>3, <3>4, <3>5, <3>6, MergeStepFacts
    <3>8. \A c : ~IsFree(c) => (HasBlock(e, c) <=> \E j \in 1..(i + 1) : s[j] = c)
      <4>1. \A j \in 1..(i + 1) : j \in 1..i \/ j = i + 1
        OBVIOUS
      <4>2. i + 1 \in 1..(i + 1) /\ \A j \in 1..i : j \in 1..(i + 1)
        OBVIOUS
      <4>3. \A c : (\E j \in 1..(i + 1) : s[j] = c) <=> (\E j \in 1..i : s[j] = c) \/ b = c
        BY <3>4, <4>1, <4>2
      <4>4. \A c : ~IsFree(c) => (HasBlock(d, c) <=> \E j \in 1..i : s[j] = c)
        BY <3>3, <3>4
      <4>. QED
        BY <3>7, <4>3, <4>4 DEF Adds
    <3>. QED
      BY <3>4, <3>7, <3>8
  <2>. QED
    BY <2>1, <2>2
<1>7. \A i \in Nat : i \in T
  <2>. HIDE DEF T
  <2>. QED
    BY <1>4, <1>6, SetInduction
<1>8. Good(n)
  BY <1>2, <1>7
<1>. QED
  BY <1>1, <1>2, <1>3, <1>8 DEF HasBlock

\* The blocks of p become free.
Freed(s, p) ==
  [i \in DOMAIN s |-> IF s[i].pid = p THEN [s[i] EXCEPT !.pid = Nobody] ELSE s[i]]

LEMMA FreedFacts ==
  ASSUME NEW s, NEW to, Layout(s, to), NEW p \in Tasks
  PROVE  /\ Layout(Freed(s, p), to)
         /\ \A c : ~IsFree(c) => (HasBlock(Freed(s, p), c) <=> HasBlock(s, c) /\ c.pid # p)
<1>1. PICK n, f : n = Len(s) /\ f = Freed(s, p)
  OBVIOUS
<1>2. /\ s \in Seq(Blocks) /\ n \in Nat /\ n >= 1 /\ DOMAIN s = 1..n
      /\ s[1].start = 0 /\ s[n].end = to /\ 1 \in 1..n /\ n \in 1..n
      /\ \A i \in 1..n : s[i] \in Blocks /\ s[i].start < s[i].end
      /\ \A i, j \in 1..n : j = i + 1 => s[i].end = s[j].start
  <2>1. s \in Seq(Blocks) /\ n \in Nat /\ n >= 1
    BY <1>1 DEF Layout
  <2>2. DOMAIN s = 1..n /\ \A i \in 1..n : s[i] \in Blocks
    BY <1>1, <2>1
  <2>3. 1 \in 1..n /\ n \in 1..n
    BY <2>1
  <2>. QED
    BY <1>1, <2>1, <2>2, <2>3 DEF Layout
<1>3. ASSUME NEW b \in Blocks, NEW c, c = [b EXCEPT !.pid = Nobody]
      PROVE  c \in Blocks /\ c.start = b.start /\ c.end = b.end /\ c.pid = Nobody
  BY <1>3 DEF Blocks
<1>4. /\ f \in Seq(Blocks) /\ Len(f) = n
      /\ \A i \in 1..n : /\ f[i] \in Blocks /\ f[i].start = s[i].start /\ f[i].end = s[i].end
                         /\ s[i].pid = p => f[i].pid = Nobody
                         /\ s[i].pid # p => f[i] = s[i]
  <2>1. f = [i \in 1..n |-> IF s[i].pid = p THEN [s[i] EXCEPT !.pid = Nobody] ELSE s[i]]
    BY <1>1, <1>2 DEF Freed
  <2>2. \A i \in 1..n : /\ f[i] \in Blocks /\ f[i].start = s[i].start /\ f[i].end = s[i].end
                        /\ s[i].pid = p => f[i].pid = Nobody
                        /\ s[i].pid # p => f[i] = s[i]
    BY <1>2, <1>3, <2>1
  <2>3. f \in [1..n -> Blocks]
    BY <2>1, <2>2
  <2>4. f \in Seq(Blocks) /\ Len(f) = n
    BY <1>2, <2>3
  <2>. QED
    BY <2>2, <2>4
<1>5. Layout(f, to)
  BY <1>2, <1>4 DEF Layout
<1>6. ASSUME NEW c, ~IsFree(c) PROVE HasBlock(f, c) <=> HasBlock(s, c) /\ c.pid # p
  <2>1. \A i \in 1..n : f[i] = c => s[i] = c /\ s[i].pid # p
    BY <1>4, <1>6 DEF IsFree
  <2>2. \A i \in 1..n : s[i] = c /\ c.pid # p => f[i] = c
    BY <1>4
  <2>. QED
    BY <1>1, <1>4, <2>1, <2>2 DEF HasBlock
<1>. QED
  BY <1>1, <1>5, <1>6

\* releaseMemoryBlock: the RAM stays covered, the others keep their blocks.
LEMMA ReleaseFacts ==
  ASSUME NEW s, NEW to, Layout(s, to), NEW p \in Tasks, NEW r, r = releaseMemoryBlock(s, p)
  PROVE  /\ Layout(r, to) /\ (Merged(s) => Merged(r))
         /\ \A c : ~IsFree(c) => (HasBlock(r, c) <=> HasBlock(s, c) /\ c.pid # p)
<1>1. s \in Seq(Blocks) /\ DOMAIN s = 1..Len(s)
  BY DEF Layout
<1>2. CASE \A i \in DOMAIN s : s[i].pid # p
  <2>1. r = s
    BY <1>2 DEF releaseMemoryBlock
  <2>2. \A c : HasBlock(s, c) => c.pid # p
    BY <1>1, <1>2 DEF HasBlock
  <2>. QED
    BY <2>1, <2>2
<1>3. CASE ~(\A i \in DOMAIN s : s[i].pid # p)
  <2>1. r = mergeFreeMemoryBlocks(Freed(s, p))
    BY <1>3 DEF releaseMemoryBlock, Freed
  <2>2. PICK f : f = Freed(s, p)
    OBVIOUS
  <2>3. /\ Layout(f, to)
        /\ \A c : ~IsFree(c) => (HasBlock(f, c) <=> HasBlock(s, c) /\ c.pid # p)
    BY <2>2, FreedFacts
  <2>4. /\ Layout(r, to) /\ OnlyFirst(r)
        /\ \A c : ~IsFree(c) => (HasBlock(r, c) <=> HasBlock(f, c))
    BY <2>1, <2>2, <2>3, MergeFacts
  <2>5. Merged(r)
    <3>1. \A i, j, k \in 1..Len(r) : i = 1 => ~(k < i)
      OBVIOUS
    <3>. QED
      BY <2>4, <3>1 DEF OnlyFirst, Merged
  <2>. QED
    BY <2>3, <2>4, <2>5
<1>. QED
  BY <1>2, <1>3

\* allocateMemoryBlock when the first fit is exact: the block gets an owner.
LEMMA WholeBlock ==
  ASSUME NEW s, NEW to, Layout(s, to), Merged(s), NEW i \in 1..Len(s), IsFree(s[i]),
         NEW b \in Blocks, ~IsFree(b), b.start = s[i].start, b.end = s[i].end,
         NEW r, r = ReplaceAt(s, i, b)
  PROVE  Layout(r, to) /\ Merged(r) /\ Adds(s, r, b)
<1>1. PICK n : n = Len(s)
  OBVIOUS
<1>2. /\ s \in Seq(Blocks) /\ n \in Nat /\ n >= 1 /\ i \in 1..n /\ 1 \in 1..n /\ n \in 1..n
      /\ s[1].start = 0 /\ s[n].end = to
      /\ \A j \in 1..n : s[j].start < s[j].end
      /\ \A j, k \in 1..n : k = j + 1 => s[j].end = s[k].start
  <2>1. s \in Seq(Blocks) /\ n \in Nat /\ n >= 1
    BY <1>1 DEF Layout
  <2>2. 1 \in 1..n /\ n \in 1..n
    BY <2>1
  <2>. QED
    BY <1>1, <2>1, <2>2 DEF Layout
<1>3. /\ r \in Seq(Blocks) /\ Len(r) = n
      /\ r[i] = b /\ \A j \in 1..n : j # i => r[j] = s[j]
  <2>1. s \in Seq(Blocks) /\ i \in 1..Len(s) /\ b \in Blocks
    BY <1>2
  <2>2. /\ r \in Seq(Blocks) /\ Len(r) = Len(s)
        /\ \A j \in 1..Len(s) : r[j] = IF j = i THEN b ELSE s[j]
    <3>1. IsChange(s, i, b, ReplaceAt(s, i, b))
      BY <2>1, Changed
    <3>. QED
      BY <3>1 DEF IsChange
  <2>. QED
    BY <1>1, <2>1, <2>2
<1>4. \A j \in 1..n : r[j].start = s[j].start /\ r[j].end = s[j].end
  BY <1>3
<1>5. Layout(r, to)
  BY <1>2, <1>3, <1>4 DEF Layout
<1>6. Merged(r)
  <2>1. \A j \in 1..n : IsFree(r[j]) => j # i /\ IsFree(s[j])
    BY <1>3
  <2>2. \A j, k, l \in 1..n : k = j + 1 /\ IsFree(s[j]) /\ IsFree(s[k]) /\ l < j => ~IsFree(s[l])
    BY <1>1 DEF Merged
  <2>3. \A j, k, l \in 1..n : k = j + 1 /\ IsFree(r[j]) /\ IsFree(r[k]) /\ l < j => ~IsFree(r[l])
    BY <2>1, <2>2
  <2>. QED
    BY <1>3, <2>3 DEF Merged
<1>7. Adds(s, r, b)
  <2>1. \A c : ~IsFree(c) => ((\E j \in 1..n : r[j] = c) <=> (\E j \in 1..n : s[j] = c) \/ c = b)
    BY <1>2, <1>3
  <2>. QED
    BY <1>1, <1>3, <2>1 DEF Adds, HasBlock
<1>. QED
  BY <1>5, <1>6, <1>7

\* When it is larger: what is left becomes a free block behind the task's.
LEMMA SplitBlock ==
  ASSUME NEW s, NEW to, Layout(s, to), Merged(s), NEW i \in 1..Len(s), IsFree(s[i]),
         NEW b \in Blocks, ~IsFree(b), b.start = s[i].start, b.start < b.end,
         NEW e \in Blocks, IsFree(e), e.start = b.end, e.end = s[i].end, e.start < e.end,
         NEW r, r = InsertAt(ReplaceAt(s, i, b), i + 1, e)
  PROVE  Layout(r, to) /\ Merged(r) /\ Adds(s, r, b)
<1>1. PICK n, u : n = Len(s) /\ u = ReplaceAt(s, i, b)
  OBVIOUS
<1>2. /\ s \in Seq(Blocks) /\ n \in Nat /\ n >= 1 /\ i \in 1..n /\ 1 \in 1..n /\ n \in 1..n
      /\ s[1].start = 0 /\ s[n].end = to
      /\ \A j \in 1..n : s[j].start < s[j].end
      /\ \A j, k \in 1..n : k = j + 1 => s[j].end = s[k].start
  <2>1. s \in Seq(Blocks) /\ n \in Nat /\ n >= 1
    BY <1>1 DEF Layout
  <2>2. 1 \in 1..n /\ n \in 1..n
    BY <2>1
  <2>. QED
    BY <1>1, <2>1, <2>2 DEF Layout
<1>3. /\ u \in Seq(Blocks) /\ Len(u) = n
      /\ u[i] = b /\ \A j \in 1..n : j # i => u[j] = s[j]
  <2>1. s \in Seq(Blocks) /\ i \in 1..Len(s) /\ b \in Blocks
    BY <1>2
  <2>2. /\ u \in Seq(Blocks) /\ Len(u) = Len(s)
        /\ \A j \in 1..Len(s) : u[j] = IF j = i THEN b ELSE s[j]
    <3>1. IsChange(s, i, b, ReplaceAt(s, i, b))
      BY <2>1, Changed
    <3>. QED
      BY <1>1, <3>1 DEF IsChange
  <2>. QED
    BY <1>1, <2>1, <2>2
<1>4. /\ r \in Seq(Blocks) /\ Len(r) = n + 1
      /\ \A j \in 1..(n + 1) : r[j] = IF j < i + 1 THEN u[j] ELSE IF j = i + 1 THEN e ELSE u[j - 1]
  <2>1. i + 1 \in 1..(Len(u) + 1) /\ r = InsertAt(u, i + 1, e)
    BY <1>1, <1>2, <1>3
  <2>2. IsInsertion(Blocks, u, i + 1, e, r)
    BY <1>3, <2>1, Inserted
  <2>. QED
    BY <1>3, <2>2 DEF IsInsertion
<1>5. /\ i + 1 \in 1..(n + 1) /\ r[i] = b /\ r[i + 1] = e
      /\ \A j \in 1..n : j < i => j \in 1..(n + 1) /\ r[j] = s[j]
      /\ \A j \in 1..n : j > i => j + 1 \in 1..(n + 1) /\ r[j + 1] = s[j]
  <2>1. i + 1 \in 1..(n + 1) /\ ~(i + 1 < i + 1) /\ i < i + 1 /\ i \in 1..(n + 1)
    BY <1>2
  <2>2. ASSUME NEW j \in 1..n, j < i PROVE j \in 1..(n + 1) /\ r[j] = s[j]
    <3>1. j \in 1..(n + 1) /\ j < i + 1 /\ j # i
      BY <1>2, <2>2
    <3>. QED
      BY <1>3, <1>4, <3>1
  <2>3. ASSUME NEW j \in 1..n, j > i PROVE j + 1 \in 1..(n + 1) /\ r[j + 1] = s[j]
    <3>1. j + 1 \in 1..(n + 1) /\ ~(j + 1 < i + 1) /\ j + 1 # i + 1 /\ (j + 1) - 1 = j /\ j # i
      BY <1>2, <2>3
    <3>. QED
      BY <1>3, <1>4, <3>1
  <2>. QED
    BY <1>3, <1>4, <2>1, <2>2, <2>3
<1>6. ASSUME NEW j \in 1..(n + 1)
      PROVE  \/ j \in 1..n /\ j < i
             \/ j = i
             \/ j = i + 1
             \/ j - 1 \in 1..n /\ j - 1 > i /\ j = (j - 1) + 1
  BY <1>2
<1>7. Layout(r, to)
  <2>1. ASSUME NEW j \in 1..(n + 1) PROVE r[j].start < r[j].end
    <3>1. CASE j \in 1..n /\ j < i
      BY <1>2, <1>5, <3>1
    <3>2. CASE j = i \/ j = i + 1
      BY <1>5, <3>2
    <3>3. CASE j - 1 \in 1..n /\ j - 1 > i /\ j = (j - 1) + 1
      <4>1. PICK k \in 1..n : k = j - 1
        BY <3>3
      <4>2. r[k + 1] = s[k] /\ j = k + 1
        BY <1>5, <3>3, <4>1
      <4>. QED
        BY <1>2, <4>1, <4>2
    <3>. QED
      BY <1>6, <3>1, <3>2, <3>3
  <2>2. ASSUME NEW j \in 1..(n + 1), NEW k \in 1..(n + 1), k = j + 1 PROVE r[j].end = r[k].start
    <3>1. CASE j < i
      <4>1. j \in 1..n /\ k \in 1..n /\ (k < i \/ k = i)
        BY <1>2, <2>2, <3>1
      <4>2. r[k].start = s[k].start
        BY <1>5, <4>1
      <4>. QED
        BY <1>2, <1>5, <2>2, <3>1, <4>1, <4>2
    <3>2. CASE j = i
      BY <1>5, <2>2, <3>2
    <3>3. CASE j = i + 1
      <4>1. i + 1 \in 1..n /\ i + 1 > i /\ k = (i + 1) + 1
        BY <1>2, <2>2, <3>3
      <4>2. r[k] = s[i + 1] /\ r[j].end = s[i].end
        BY <1>5, <3>3, <4>1
      <4>. QED
        BY <1>2, <4>1, <4>2
    <3>4. CASE j > i + 1
      <4>1. PICK m : m = j - 1
        OBVIOUS
      <4>2. m \in 1..n /\ m > i /\ j \in 1..n /\ j > i /\ j = m + 1 /\ k = j + 1
        BY <1>2, <2>2, <3>4, <4>1
      <4>3. r[m + 1] = s[m] /\ r[j + 1] = s[j]
        BY <1>5, <4>2
      <4>. QED
        BY <1>2, <4>2, <4>3
    <3>. QED
      BY <1>2, <3>1, <3>2, <3>3, <3>4
  <2>3. r[1].start = 0
    <3>1. CASE i = 1
      BY <1>2, <1>5, <3>1
    <3>2. CASE i # 1
      <4>1. 1 < i
        BY <1>2, <3>2
      <4>. QED
        BY <1>2, <1>5, <4>1
    <3>. QED
      BY <3>1, <3>2
  <2>4. r[n + 1].end = to
    <3>1. CASE i = n
      BY <1>2, <1>5, <3>1
    <3>2. CASE i # n
      <4>1. n > i
        BY <1>2, <3>2
      <4>. QED
        BY <1>2, <1>5, <4>1
    <3>. QED
      BY <3>1, <3>2
  <2>5. n + 1 >= 1
    BY <1>2
  <2>. QED
    BY <1>4, <2>1, <2>2, <2>3, <2>4, <2>5 DEF Layout
<1>8. Merged(r)
  <2>1. \A j, k, l \in 1..n : k = j + 1 /\ IsFree(s[j]) /\ IsFree(s[k]) /\ l < j => ~IsFree(s[l])
    BY <1>1 DEF Merged
  <2>2. ASSUME NEW j \in 1..(n + 1), NEW k \in 1..(n + 1), NEW l \in 1..(n + 1),
               k = j + 1, IsFree(r[j]), IsFree(r[k]), l < j
        PROVE  ~IsFree(r[l])
    <3>1. j # i /\ k # i
      BY <1>5, <2>2
    <3>2. CASE j < i
      <4>1. j \in 1..n /\ k \in 1..n /\ l \in 1..n /\ k < i /\ l < i
        BY <1>2, <2>2, <3>1, <3>2
      <4>2. r[j] = s[j] /\ r[k] = s[k] /\ r[l] = s[l]
        BY <1>5, <3>2, <4>1
      <4>. QED
        BY <2>1, <2>2, <4>1, <4>2
    <3>3. CASE j = i + 1
      <4>1. i + 1 \in 1..n /\ i + 1 > i /\ k = (i + 1) + 1 /\ (l < i \/ l = i)
        BY <1>2, <2>2, <3>3
      <4>2. r[k] = s[i + 1]
        BY <1>5, <4>1
      <4>3. CASE l = i
        BY <1>5, <4>3
      <4>4. CASE l < i
        <5>1. l \in 1..n /\ r[l] = s[l]
          BY <1>2, <1>5, <4>4
        <5>. QED
          BY <1>2, <2>1, <2>2, <4>1, <4>2, <4>4, <5>1
      <4>. QED
        BY <4>1, <4>3, <4>4
    <3>4. CASE j > i + 1
      <4>1. PICK m : m = j - 1
        OBVIOUS
      <4>2. m \in 1..n /\ m > i /\ j \in 1..n /\ j > i /\ j = m + 1 /\ k = j + 1 /\ i < m
        BY <1>2, <2>2, <3>4, <4>1
      <4>3. r[m + 1] = s[m] /\ r[j + 1] = s[j]
        BY <1>5, <4>2
      <4>4. ~IsFree(s[i])
        BY <1>2, <2>1, <2>2, <4>2, <4>3
      <4>. QED
        BY <4>4
    <3>. QED
      BY <1>2, <3>1, <3>2, <3>3, <3>4
  <2>. QED
    BY <1>4, <2>2 DEF Merged
<1>9. Adds(s, r, b)
  <2>1. ASSUME NEW c, ~IsFree(c), NEW j \in 1..(n + 1), r[j] = c
        PROVE  (\E k \in 1..n : s[k] = c) \/ c = b
    <3>1. CASE j \in 1..n /\ j < i
      BY <1>5, <2>1, <3>1
    <3>2. CASE j = i \/ j = i + 1
      BY <1>5, <2>1, <3>2
    <3>3. CASE j - 1 \in 1..n /\ j - 1 > i /\ j = (j - 1) + 1
      <4>1. PICK k \in 1..n : k = j - 1
        BY <3>3
      <4>2. r[k + 1] = s[k] /\ j = k + 1
        BY <1>5, <3>3, <4>1
      <4>. QED
        BY <2>1, <4>2
    <3>. QED
      BY <1>6, <3>1, <3>2, <3>3
  <2>2. ASSUME NEW c, ~IsFree(c), NEW j \in 1..n, s[j] = c PROVE \E k \in 1..(n + 1) : r[k] = c
    <3>1. j # i
      BY <2>2
    <3>2. j < i \/ j > i
      BY <1>2, <3>1
    <3>. QED
      BY <1>5, <2>2, <3>2
  <2>3. i \in 1..(n + 1)
    BY <1>2
  <2>4. \A c : ~IsFree(c) => ((\E j \in 1..(n + 1) : r[j] = c) <=> (\E j \in 1..n : s[j] = c) \/ c = b)
    BY <1>5, <2>1, <2>2, <2>3
  <2>. QED
    BY <1>1, <1>4, <2>4 DEF Adds, HasBlock
<1>. QED
  BY <1>7, <1>8, <1>9

LEMMA AllocationFacts ==
  ASSUME NEW s, NEW to, Layout(s, to), Merged(s), NEW p \in Tasks, NEW n, n = Program[p].ram,
         FirstFit(s, n) # 0
  PROVE  LET r == allocateMemoryBlock(s, p, n)
         IN Layout(r, to) /\ Merged(r) /\ Adds(s, r, Allocated(s, p, n))
<1>1. PICK i, z, b, e, r : /\ i = FirstFit(s, n) /\ z = s[i] /\ b = Allocated(s, p, n)
                           /\ e = Block(b.end, z.end, Nobody)
                           /\ r = allocateMemoryBlock(s, p, n)
  OBVIOUS
<1>2. n \in Nat /\ n > 0 /\ p # Nobody
  BY ProgramFacts
<1>3. s \in Seq(Blocks)
  BY DEF Layout
<1>4. i \in 1..Len(s) /\ IsFree(z) /\ SizeOf(z) >= n
  BY <1>1, <1>2, <1>3, FirstFitFacts
<1>5. z \in Blocks /\ z.start \in Int /\ z.end \in Int /\ z.end - z.start >= n
  <2>1. z \in Blocks
    BY <1>1, <1>3, <1>4
  <2>. QED
    BY <1>4, <2>1 DEF Blocks, SizeOf
<1>6. b = Block(z.start, z.start + n, p)
  BY <1>1 DEF Allocated
<1>7. b \in Blocks /\ ~IsFree(b) /\ b.start = z.start /\ b.end = z.start + n /\ b.start < b.end
  <2>1. b.start = z.start /\ b.end = z.start + n /\ b.pid = p
    BY <1>6 DEF Block
  <2>2. b \in Blocks
    BY <1>2, <1>5, <1>6 DEF Block, Blocks
  <2>. QED
    BY <1>2, <1>5, <2>1, <2>2 DEF IsFree
<1>8. e \in Blocks /\ IsFree(e) /\ e.start = b.end /\ e.end = z.end
  <2>1. e.start = b.end /\ e.end = z.end /\ e.pid = Nobody
    BY <1>1 DEF Block
  <2>2. b.end \in Int
    BY <1>2, <1>5, <1>7
  <2>3. e \in Blocks
    BY <1>1, <1>5, <2>2 DEF Block, Blocks
  <2>. QED
    BY <2>1, <2>3 DEF IsFree
<1>9. CASE SizeOf(z) = n
  <2>1. r = ReplaceAt(s, i, b)
    BY <1>1, <1>9 DEF allocateMemoryBlock
  <2>2. b.end = z.end
    BY <1>2, <1>5, <1>7, <1>9 DEF SizeOf
  <2>. QED
    BY <1>1, <1>4, <1>7, <2>1, <2>2, WholeBlock
<1>10. CASE SizeOf(z) # n
  <2>1. r = InsertAt(ReplaceAt(s, i, b), i + 1, e)
    BY <1>1, <1>10 DEF allocateMemoryBlock
  <2>2. e.start < e.end
    BY <1>2, <1>5, <1>7, <1>8, <1>10 DEF SizeOf
  <2>3. /\ i \in 1..Len(s) /\ IsFree(s[i]) /\ b.start = s[i].start /\ e.end = s[i].end
        /\ b \in Blocks /\ ~IsFree(b) /\ b.start < b.end
        /\ e \in Blocks /\ IsFree(e) /\ e.start = b.end
    BY <1>1, <1>4, <1>7, <1>8
  <2>4. Layout(r, to) /\ Merged(r) /\ Adds(s, r, b)
    BY <2>1, <2>2, <2>3, SplitBlock
  <2>. QED
    BY <1>1, <2>4
<1>. QED
  BY <1>1, <1>9, <1>10

-----------------------------------------------------------------------------
(* The counter.                                                            *)

\* What RamOf returns is the sum of what the programs need.
LEMMA RamIsSum ==
  ASSUME NEW S, IsFiniteSet(S), S \subseteq Tasks
  PROVE  \E g : SumsUp(S, [p \in S |-> Program[p].ram], g) /\ RamOf(S) = g[S]
<1>. DEFINE w == [p \in S |-> Program[p].ram]
            P(g) == g = [s \in SUBSET S |->
                           IF s = {} THEN 0
                           ELSE Program[CHOOSE x \in s : TRUE].ram + g[s \ {CHOOSE x \in s : TRUE}]]
            iter == CHOOSE g : P(g)
<1>1. \E g : P(g)
  <2>1. \A p \in S : w[p] \in Nat
    BY ProgramFacts
  <2>2. HasSums(S, w)
    <3>. HIDE DEF w
    <3>. QED
      BY <2>1, SumsExist
  <2>3. PICK g \in [SUBSET S -> Nat] : SumsUp(S, w, g)
    BY <2>2 DEF HasSums
  <2>4. \A s \in SUBSET S : s # {} =>
          g[s] = Program[CHOOSE x \in s : TRUE].ram + g[s \ {CHOOSE x \in s : TRUE}]
    BY <2>3 DEF SumsUp
  <2>5. P(g)
    BY <2>3, <2>4 DEF SumsUp
  <2>. HIDE DEF P
  <2>. QED
    BY <2>5
<1>2. P(iter)
  <2>. HIDE DEF P
  <2>. QED
    BY <1>1
<1>3. RamOf(S) = iter[S]
  BY DEF RamOf, FoldSet, MapThenFoldSet
<1>4. SumsUp(S, w, iter)
  <2>. HIDE DEF iter
  <2>. QED
    BY <1>2 DEF SumsUp
<1>. QED
  <2>. HIDE DEF iter
  <2>. QED
    BY <1>3, <1>4

LEMMA RamOfNone == RamOf({}) = 0
<1>1. PICK g : SumsUp({}, [p \in {} |-> Program[p].ram], g) /\ RamOf({}) = g[{}]
  BY FS_EmptySet, RamIsSum
<1>. QED
  BY <1>1 DEF SumsUp

\* One task's RAM is a part of the sum.
LEMMA RamWithout ==
  ASSUME NEW S, IsFiniteSet(S), S \subseteq Tasks, NEW p \in S
  PROVE  /\ RamOf(S) = Program[p].ram + RamOf(S \ {p})
         /\ RamOf(S \ {p}) \in Nat
<1>. DEFINE R == S \ {p}
            w == [q \in S |-> Program[q].ram]
            v == [q \in R |-> Program[q].ram]
<1>1. IsFiniteSet(R) /\ R \subseteq S /\ R \subseteq Tasks
  BY FS_Subset
<1>2. PICK g : SumsUp(S, w, g) /\ RamOf(S) = g[S]
  BY RamIsSum
<1>3. PICK h : SumsUp(R, v, h) /\ RamOf(R) = h[R]
  <2>. HIDE DEF R
  <2>. QED
    BY <1>1, RamIsSum
<1>4. /\ \A q \in R : v[q] = w[q] /\ v[q] \in Nat
      /\ \A q \in S : w[q] \in Nat
      /\ w[p] = Program[p].ram
  BY <1>1, ProgramFacts
<1>. HIDE DEF w, v
<1>5. g[S] = w[p] + g[R]
  <2>1. Numbers(S, w)
    BY <1>4 DEF Numbers
  <2>2. AddsUp(S, w, g)
    BY <1>2, <2>1, SumOfAny
  <2>. QED
    BY <2>2 DEF AddsUp
<1>. HIDE DEF R
<1>6. h[R] = g[R]
  BY <1>1, <1>2, <1>3, <1>4, SumsAgree
<1>7. h[R] \in Nat
  <2>1. Numbers(R, v)
    BY <1>4 DEF Numbers
  <2>2. AddsUp(R, v, h)
    BY <1>1, <1>3, <2>1, SumOfAny
  <2>. QED
    BY <2>2 DEF AddsUp
<1>. QED
  BY <1>2, <1>3, <1>4, <1>5, <1>6, <1>7 DEF R

LEMMA RamIsNumber ==
  ASSUME NEW S, IsFiniteSet(S), S \subseteq Tasks
  PROVE  RamOf(S) \in Nat
<1>1. CASE S = {}
  BY <1>1, RamOfNone
<1>2. CASE S # {}
  <2>1. PICK p \in S : TRUE
    BY <1>2
  <2>2. /\ RamOf(S) = Program[p].ram + RamOf(S \ {p}) /\ RamOf(S \ {p}) \in Nat
        /\ Program[p].ram \in Nat
    BY RamWithout, ProgramFacts
  <2>. QED
    BY <2>2
<1>. QED
  BY <1>1, <1>2

\* The counter and the registered tasks make up the machine.
Accounts(t, n) ==
  /\ IsFiniteSet(Registered(t))
  /\ n \in Nat /\ n + RamOf(Registered(t)) = Capacity

LEMMA GrantAccounts ==
  ASSUME NEW t \in Tables, NEW n, Accounts(t, n), NEW p \in Tasks, p \notin Registered(t),
         Program[p].ram <= n, NEW u, Registered(u) = Registered(t) \cup {p}
  PROVE  Accounts(u, allocateResources(n, Program[p].ram))
<1>1. PICK R, S, m : R = Registered(t) /\ S = Registered(u) /\ m = Program[p].ram
  OBVIOUS
<1>2. R \subseteq Tasks /\ IsFiniteSet(R) /\ n \in Nat /\ n + RamOf(R) = Capacity
  BY <1>1, PCBFacts DEF Accounts
<1>3. S = R \cup {p} /\ S \ {p} = R /\ S \subseteq Tasks /\ IsFiniteSet(S) /\ p \in S
  BY <1>1, <1>2, FS_AddElement
<1>4. RamOf(S) = m + RamOf(R) /\ RamOf(R) \in Nat
  BY <1>1, <1>3, RamWithout
<1>5. m \in Nat /\ m > 0 /\ m <= n /\ Capacity \in Nat
  BY <1>1, ProgramFacts, Phase3Assumption
<1>6. allocateResources(n, m) = n - m
  BY <1>2, <1>5 DEF allocateResources, checkResources
<1>7. n - m \in Nat /\ (n - m) + RamOf(S) = Capacity
  BY <1>2, <1>4, <1>5
<1>. QED
  BY <1>1, <1>3, <1>6, <1>7 DEF Accounts

LEMMA ReleaseAccounts ==
  ASSUME NEW t \in Tables, NEW n, Accounts(t, n), NEW p \in Registered(t),
         NEW u, Registered(u) = Registered(t) \ {p}
  PROVE  Accounts(u, releaseResources(n, Program[p].ram, Capacity))
<1>1. PICK R, S, m : R = Registered(t) /\ S = Registered(u) /\ m = Program[p].ram
  OBVIOUS
<1>2. R \subseteq Tasks /\ IsFiniteSet(R) /\ n \in Nat /\ n + RamOf(R) = Capacity
  BY <1>1, PCBFacts DEF Accounts
<1>3. S = R \ {p} /\ S \subseteq R /\ IsFiniteSet(S) /\ p \in R /\ p \in Tasks
  BY <1>1, <1>2, FS_Subset
<1>4. RamOf(R) = m + RamOf(S) /\ RamOf(S) \in Nat
  BY <1>1, <1>2, <1>3, RamWithout
<1>5. m \in Nat /\ Capacity \in Nat
  BY <1>1, <1>3, ProgramFacts, Phase3Assumption
<1>6. releaseResources(n, m, Capacity) = n + m
  BY <1>2, <1>4, <1>5 DEF releaseResources
<1>7. n + m \in Nat /\ (n + m) + RamOf(S) = Capacity
  BY <1>2, <1>4, <1>5
<1>. QED
  BY <1>1, <1>3, <1>6, <1>7 DEF Accounts

\* The release of all: the counter ends where the machine began.
LEMMA ReleaseAllCounts ==
  ASSUME NEW R, IsFiniteSet(R), R \subseteq Tasks, NEW n \in Nat, n + RamOf(R) = Capacity
  PROVE  FoldSet(LAMBDA p, m : releaseResources(m, Program[p].ram, Capacity), n, R) = Capacity
<1>. DEFINE Give(p, m) == releaseResources(m, Program[p].ram, Capacity)
            P(g) == g = [s \in SUBSET R |->
                           IF s = {} THEN n
                           ELSE Give(CHOOSE x \in s : TRUE, g[s \ {CHOOSE x \in s : TRUE}])]
            iter == CHOOSE g : P(g)
<1>1. Capacity \in Nat /\ \A p \in R : Program[p].ram \in Nat
  BY ProgramFacts, Phase3Assumption
<1>2. PICK F \in [Nat \X R -> Nat] : \A m \in Nat, p \in R : F[<<m, p>>] = Give(p, m)
  <2>. DEFINE F == [z \in Nat \X R |-> Give(z[2], z[1])]
  <2>1. \A m \in Nat, p \in R : Give(p, m) \in Nat
    BY <1>1 DEF releaseResources
  <2>. HIDE DEF Give
  <2>2. F \in [Nat \X R -> Nat] /\ \A m \in Nat, p \in R : F[<<m, p>>] = Give(p, m)
    BY <2>1
  <2>. HIDE DEF F
  <2>. QED
    BY <2>2
<1>3. PICK c \in [(SUBSET R) \ {{}} -> R] : \A s \in (SUBSET R) \ {{}} : c[s] = CHOOSE x \in s : TRUE
  <2>. DEFINE c == [s \in (SUBSET R) \ {{}} |-> CHOOSE x \in s : TRUE]
  <2>1. c \in [(SUBSET R) \ {{}} -> R] /\ \A s \in (SUBSET R) \ {{}} : c[s] = CHOOSE x \in s : TRUE
    OBVIOUS
  <2>. HIDE DEF c
  <2>. QED
    BY <2>1
<1>4. \A s \in (SUBSET R) \ {{}} : c[s] \in s
  BY <1>3
<1>. HIDE DEF Give
<1>5. \E g : P(g)
  <2>1. HasFold(R, Nat, n, F, c)
    BY <1>4, FoldExists
  <2>2. PICK g \in [SUBSET R -> Nat] : /\ g[{}] = n
           /\ \A s \in (SUBSET R) \ {{}} : g[s] = F[<<g[s \ {c[s]}], c[s]>>]
    BY <2>1 DEF HasFold
  <2>3. \A s \in (SUBSET R) \ {{}} : g[s] = Give(c[s], g[s \ {c[s]}])
    BY <1>2, <1>4, <2>2
  <2>4. P(g)
    BY <1>3, <2>2, <2>3
  <2>. HIDE DEF P
  <2>. QED
    BY <2>4
<1>6. P(iter)
  <2>. HIDE DEF P
  <2>. QED
    BY <1>5
<1>7. FoldSet(LAMBDA p, m : releaseResources(m, Program[p].ram, Capacity), n, R) = iter[R]
  BY DEF FoldSet, MapThenFoldSet, Give
<1>8. iter[{}] = n /\ \A s \in (SUBSET R) \ {{}} : iter[s] = Give(c[s], iter[s \ {c[s]}])
  <2>. HIDE DEF iter
  <2>1. iter[{}] = n
    BY <1>6
  <2>2. ASSUME NEW s \in (SUBSET R) \ {{}} PROVE iter[s] = Give(c[s], iter[s \ {c[s]}])
    <3>1. iter[s] = Give(CHOOSE x \in s : TRUE, iter[s \ {CHOOSE x \in s : TRUE}])
      BY <1>6
    <3>. QED
      BY <1>3, <3>1
  <2>. QED
    BY <2>1, <2>2
<1>. HIDE DEF iter
<1>. DEFINE B == {s \in SUBSET R : iter[s] = IF n + RamOf(s) > Capacity THEN Capacity
                                             ELSE n + RamOf(s)}
<1>9. {} \in B
  <2>1. n <= Capacity
    <3>1. RamOf(R) \in Nat
      BY RamIsNumber
    <3>. QED
      BY <1>1, <3>1
  <2>. QED
    BY <1>1, <1>8, <2>1, RamOfNone
<1>10. ASSUME NEW s \in SUBSET R, s # {}, \A x \in s : s \ {x} \in B PROVE s \in B
  <2>1. PICK p, k, m, l : p = c[s] /\ k = RamOf(s \ {p}) /\ m = iter[s \ {p}] /\ l = Program[p].ram
    OBVIOUS
  <2>2. p \in s /\ p \in R /\ l \in Nat
    BY <1>1, <1>4, <1>10, <2>1
  <2>3. RamOf(s) = l + k /\ k \in Nat
    <3>1. IsFiniteSet(s) /\ s \subseteq Tasks
      BY FS_Subset
    <3>. QED
      BY <2>1, <2>2, <3>1, RamWithout
  <2>4. m = IF n + k > Capacity THEN Capacity ELSE n + k
    BY <1>10, <2>1, <2>2
  <2>5. iter[s] = IF m + l > Capacity THEN Capacity ELSE m + l
    BY <1>8, <1>10, <2>1 DEF Give, releaseResources
  <2>6. iter[s] = IF n + (l + k) > Capacity THEN Capacity ELSE n + (l + k)
    <3>1. PICK v : v = iter[s]
      OBVIOUS
    <3>2. v = IF m + l > Capacity THEN Capacity ELSE m + l
      BY <2>5, <3>1
    <3>3. v = IF n + (l + k) > Capacity THEN Capacity ELSE n + (l + k)
      BY <1>1, <2>2, <2>3, <2>4, <3>2
    <3>. QED
      BY <3>1, <3>3
  <2>. QED
    BY <2>3, <2>6
<1>. HIDE DEF B
<1>11. R \in B
  BY <1>9, <1>10, SubsetInduction
<1>. QED
  BY <1>1, <1>7, <1>11 DEF B

AllReleased(s, R) == FoldSet(LAMBDA p, blocks : releaseMemoryBlock(blocks, p), s, R)

\* The layout ends without a block of those released.
LEMMA ReleaseAllBlocks ==
  ASSUME NEW R, IsFiniteSet(R), R \subseteq Tasks, NEW s, Layout(s, Capacity), Merged(s),
         NEW r, r = AllReleased(s, R)
  PROVE  /\ Layout(r, Capacity) /\ Merged(r)
         /\ \A c : ~IsFree(c) => (HasBlock(r, c) <=> HasBlock(s, c) /\ c.pid \notin R)
<1>. DEFINE X == {t \in Seq(Blocks) : Layout(t, Capacity)}
            P(g) == g = [d \in SUBSET R |->
                           IF d = {} THEN s
                           ELSE releaseMemoryBlock(g[d \ {CHOOSE x \in d : TRUE}],
                                                   CHOOSE x \in d : TRUE)]
            iter == CHOOSE g : P(g)
<1>1. PICK F \in [X \X R -> X] : \A t \in X, p \in R : F[<<t, p>>] = releaseMemoryBlock(t, p)
  <2>. DEFINE F == [z \in X \X R |-> releaseMemoryBlock(z[1], z[2])]
  <2>1. \A t \in X, p \in R : releaseMemoryBlock(t, p) \in X
    <3>1. \A t : Layout(t, Capacity) => t \in Seq(Blocks)
      BY DEF Layout
    <3>2. ASSUME NEW t \in X, NEW p \in R PROVE Layout(releaseMemoryBlock(t, p), Capacity)
      BY ReleaseFacts
    <3>. QED
      BY <3>1, <3>2
  <2>. HIDE DEF X
  <2>2. F \in [X \X R -> X] /\ \A t \in X, p \in R : F[<<t, p>>] = releaseMemoryBlock(t, p)
    BY <2>1
  <2>. HIDE DEF F
  <2>. QED
    BY <2>2
<1>2. PICK c \in [(SUBSET R) \ {{}} -> R] : \A d \in (SUBSET R) \ {{}} : c[d] = CHOOSE x \in d : TRUE
  <2>. DEFINE c == [d \in (SUBSET R) \ {{}} |-> CHOOSE x \in d : TRUE]
  <2>1. c \in [(SUBSET R) \ {{}} -> R] /\ \A d \in (SUBSET R) \ {{}} : c[d] = CHOOSE x \in d : TRUE
    OBVIOUS
  <2>. HIDE DEF c
  <2>. QED
    BY <2>1
<1>3. \A d \in (SUBSET R) \ {{}} : c[d] \in d
  BY <1>2
<1>4. s \in X
  BY DEF Layout
<1>. HIDE DEF X
<1>5. \E g : P(g)
  <2>1. HasFold(R, X, s, F, c)
    BY <1>3, <1>4, FoldExists
  <2>2. PICK g \in [SUBSET R -> X] : /\ g[{}] = s
           /\ \A d \in (SUBSET R) \ {{}} : g[d] = F[<<g[d \ {c[d]}], c[d]>>]
    BY <2>1 DEF HasFold
  <2>3. \A d \in (SUBSET R) \ {{}} : g[d] = releaseMemoryBlock(g[d \ {c[d]}], c[d])
    BY <1>1, <1>3, <2>2
  <2>4. P(g)
    BY <1>2, <2>2, <2>3
  <2>. HIDE DEF P
  <2>. QED
    BY <2>4
<1>6. P(iter)
  <2>. HIDE DEF P
  <2>. QED
    BY <1>5
<1>7. r = iter[R]
  BY DEF AllReleased, FoldSet, MapThenFoldSet
<1>8. iter[{}] = s /\ \A d \in (SUBSET R) \ {{}} : iter[d] = releaseMemoryBlock(iter[d \ {c[d]}], c[d])
  <2>. HIDE DEF iter
  <2>1. iter[{}] = s
    BY <1>6
  <2>2. ASSUME NEW d \in (SUBSET R) \ {{}} PROVE iter[d] = releaseMemoryBlock(iter[d \ {c[d]}], c[d])
    <3>1. iter[d] = releaseMemoryBlock(iter[d \ {CHOOSE x \in d : TRUE}], CHOOSE x \in d : TRUE)
      BY <1>6
    <3>. QED
      BY <1>2, <3>1
  <2>. QED
    BY <2>1, <2>2
<1>. HIDE DEF iter
<1>. DEFINE Good(t, d) ==
              /\ Layout(t, Capacity) /\ Merged(t)
              /\ \A b : ~IsFree(b) => (HasBlock(t, b) <=> HasBlock(s, b) /\ b.pid \notin d)
            B == {d \in SUBSET R : Good(iter[d], d)}
<1>9. {} \in B
  BY <1>8
<1>10. ASSUME NEW d \in SUBSET R, d # {}, \A x \in d : d \ {x} \in B PROVE d \in B
  <2>1. PICK p, t, u : p = c[d] /\ t = iter[d \ {p}] /\ u = iter[d]
    OBVIOUS
  <2>2. p \in d /\ p \in Tasks /\ u = releaseMemoryBlock(t, p)
    BY <1>3, <1>8, <1>10, <2>1
  <2>3. Good(t, d \ {p})
    BY <1>10, <2>1, <2>2
  <2>4. /\ Layout(u, Capacity) /\ Merged(u)
        /\ \A b : ~IsFree(b) => (HasBlock(u, b) <=> HasBlock(t, b) /\ b.pid # p)
    BY <2>2, <2>3, ReleaseFacts
  <2>5. Good(u, d)
    BY <2>2, <2>3, <2>4
  <2>. QED
    BY <2>1, <2>5
<1>. HIDE DEF B
<1>11. R \in B
  BY <1>9, <1>10, SubsetInduction
<1>. QED
  BY <1>7, <1>11 DEF B

-----------------------------------------------------------------------------
(* The books: layout, table, counter and slots.                            *)

\* In the layout s the registered tasks have the blocks that t says, and no other
\* task has one but those out.
Owned(s, t, out) ==
  /\ \A p \in Registered(t) : HasBlock(s, Block(t[p].start, t[p].end, p))
  /\ \A c : ~IsFree(c) /\ HasBlock(s, c) => c.pid \in Registered(t) \cup out

SlotsInv == slots = Cores - (IF pc \in OnCore THEN 1 ELSE 0)

HaltInv == pc = "halted" => Registered(table) = {} /\ queues = NoItems /\ available = Capacity

MemoryInv ==
  /\ Layout(memoryBlocks, Capacity) /\ Merged(memoryBlocks)
  /\ Owned(memoryBlocks, table, leaked) /\ Accounts(table, available)
  /\ SlotsInv /\ HaltInv

LEMMA BlockFacts ==
  ASSUME NEW m, NEW n, NEW p \in Tasks
  PROVE  /\ Block(m, n, p).pid = p /\ Block(m, n, p).start = m /\ Block(m, n, p).end = n
         /\ ~IsFree(Block(m, n, p))
  BY ProgramFacts DEF Block, IsFree

LEMMA FirstLayout ==
  LET s == initializeResources(Capacity)
  IN Layout(s, Capacity) /\ Merged(s) /\ \A c : HasBlock(s, c) => IsFree(c)
<1>1. PICK b, s : b = Block(0, Capacity, Nobody) /\ s = <<b>>
  OBVIOUS
<1>2. Capacity \in Nat /\ Capacity > 0
  BY Phase3Assumption
<1>3. b \in Blocks /\ b.start = 0 /\ b.end = Capacity /\ IsFree(b)
  BY <1>1, <1>2 DEF Block, Blocks, IsFree
<1>4. s \in Seq(Blocks) /\ Len(s) = 1 /\ s[1] = b /\ \A i \in 1..1 : i = 1
  BY <1>1, <1>3
<1>5. Layout(s, Capacity)
  BY <1>2, <1>3, <1>4 DEF Layout
<1>6. Merged(s) /\ \A c : HasBlock(s, c) => IsFree(c)
  BY <1>3, <1>4 DEF Merged, HasBlock
<1>. QED
  BY <1>1, <1>5, <1>6 DEF initializeResources

\* A machine that has booted.
LEMMA BootedBooks ==
  ASSUME table = NoPCBs, available = Capacity, memoryBlocks = initializeResources(Capacity),
         slots = Cores, pc = "boot"
  PROVE  MemoryInv
<1>1. Registered(table) = {}
  <2>1. table \in Tables /\ \A p \in Tasks : table[p] = NoPCB
    BY PCBFacts DEF NoPCBs, Tables, PCBs
  <2>. QED
    BY <2>1, PCBFacts
<1>2. /\ Layout(memoryBlocks, Capacity) /\ Merged(memoryBlocks)
      /\ \A c : HasBlock(memoryBlocks, c) => IsFree(c)
  BY FirstLayout
<1>3. Owned(memoryBlocks, table, leaked)
  BY <1>1, <1>2 DEF Owned
<1>4. Accounts(table, available)
  BY <1>1, RamOfNone, FS_EmptySet, Phase3Assumption DEF Accounts
<1>5. SlotsInv /\ HaltInv
  BY Phase3Assumption DEF SlotsInv, HaltInv, OnCore
<1>. QED
  BY <1>2, <1>3, <1>4, <1>5 DEF MemoryInv

LEMMA InitBooks == Init => MemoryInv
  BY BootedBooks DEF Init

\* What was in the memory of a kernel is new for the next, which has not yet booted
\* or has.
LEMMA NewMemoryBooks ==
  ASSUME NextBoot \/ Interrupted PROVE MemoryInv'
<1>1. /\ table' = NoPCBs /\ available' = Capacity /\ memoryBlocks' = initializeResources(Capacity)
      /\ slots' = Cores /\ pc' \in {"boot", "killed"}
  BY DEF NextBoot, Interrupted, MemoryIsNew
<1>2. Registered(table') = {}
  <2>1. table' \in Tables /\ \A p \in Tasks : table'[p] = NoPCB
    BY <1>1, PCBFacts DEF NoPCBs, Tables, PCBs
  <2>. QED
    BY <2>1, PCBFacts
<1>3. /\ Layout(memoryBlocks', Capacity) /\ Merged(memoryBlocks')
      /\ \A c : HasBlock(memoryBlocks', c) => IsFree(c)
  BY <1>1, FirstLayout
<1>4. Owned(memoryBlocks', table', leaked')
  BY <1>2, <1>3 DEF Owned
<1>5. Accounts(table', available')
  BY <1>1, <1>2, RamOfNone, FS_EmptySet, Phase3Assumption DEF Accounts
<1>6. SlotsInv' /\ HaltInv'
  BY <1>1, Phase3Assumption DEF SlotsInv, HaltInv, OnCore
<1>. QED
  BY <1>3, <1>4, <1>5, <1>6 DEF MemoryInv

\* A step that leaves layout and counter alone.
LEMMA KeptBooks ==
  ASSUME MemoryInv, SameBlocks(table, table'), UNCHANGED <<available, memoryBlocks, leaked>>,
         SlotsInv', HaltInv'
  PROVE  MemoryInv'
<1>1. Owned(memoryBlocks', table', leaked')
  BY DEF MemoryInv, Owned, SameBlocks
<1>2. Accounts(table', available')
  BY DEF MemoryInv, Accounts, SameBlocks
<1>. QED
  BY <1>1, <1>2 DEF MemoryInv

LEMMA GrantBooks ==
  ASSUME MemoryInv, SchedulerInv, pc \notin OnCore, NEW p \in Tasks, child[p] = "unborn", Grant(p),
         leaked' = leaked
  PROVE  MemoryInv'
<1>1. PICK k, n, b : /\ k = Program[p].priority /\ n = Program[p].ram
                     /\ b = Allocated(memoryBlocks, p, n)
  OBVIOUS
<1>2. /\ Admits(p) /\ table' = Launched(table, p, k, b)
      /\ memoryBlocks' = allocateMemoryBlock(memoryBlocks, p, n)
      /\ available' = allocateResources(available, n)
      /\ pc' = "stopwait" /\ slots' = slots
  BY <1>1 DEF Grant, Launched
<1>3. table \in Tables /\ table[p] = NoPCB /\ p \notin Registered(table)
  BY DEF SchedulerInv, Typed, Unborn, Registered
<1>4. /\ Layout(memoryBlocks, Capacity) /\ Merged(memoryBlocks) /\ memoryBlocks \in Seq(Blocks)
      /\ Owned(memoryBlocks, table, leaked) /\ Accounts(table, available)
  BY DEF MemoryInv, Layout
<1>5. /\ b.start \in Int /\ b.end \in Int /\ b.pid = p /\ n <= available
      /\ FirstFit(memoryBlocks, n) # 0
  BY <1>1, <1>2, <1>4, AdmitsFacts DEF Admits
<1>6. /\ \A q \in Tasks : q # p => table'[q] = table[q]
      /\ Registered(table') = Registered(table) \cup {p}
      /\ table'[p].start = b.start /\ table'[p].end = b.end
  <2>1. k \in 1..3
    BY <1>1, ProgramFacts
  <2>. QED
    BY <1>2, <1>3, <1>5, <2>1, LaunchFacts
<1>7. /\ Layout(memoryBlocks', Capacity) /\ Merged(memoryBlocks')
      /\ Adds(memoryBlocks, memoryBlocks', b)
  BY <1>1, <1>2, <1>4, <1>5, AllocationFacts
<1>8. b = Block(b.start, b.end, p)
  BY <1>1 DEF Allocated, Block
<1>9. Owned(memoryBlocks', table', leaked')
  <2>1. Registered(table) \subseteq Tasks
    BY <1>3, PCBFacts
  <2>2. ASSUME NEW q \in Registered(table')
        PROVE  HasBlock(memoryBlocks', Block(table'[q].start, table'[q].end, q))
    <3>1. q \in Tasks
      BY <1>6, <2>1, <2>2
    <3>2. ~IsFree(Block(table'[q].start, table'[q].end, q))
      BY <3>1, BlockFacts
    <3>3. CASE q = p
      BY <1>6, <1>7, <1>8, <3>2, <3>3 DEF Adds
    <3>4. CASE q # p
      <4>1. q \in Registered(table) /\ table'[q] = table[q]
        BY <1>6, <2>2, <3>1, <3>4
      <4>2. HasBlock(memoryBlocks, Block(table'[q].start, table'[q].end, q))
        BY <1>4, <4>1 DEF Owned
      <4>. QED
        BY <1>7, <3>2, <4>2 DEF Adds
    <3>. QED
      BY <3>3, <3>4
  <2>3. ASSUME NEW c, ~IsFree(c), HasBlock(memoryBlocks', c) PROVE c.pid \in Registered(table') \cup leaked'
    <3>1. HasBlock(memoryBlocks, c) \/ c = b
      BY <1>7, <2>3 DEF Adds
    <3>. QED
      BY <1>4, <1>5, <1>6, <2>3, <3>1 DEF Owned
  <2>. QED
    BY <2>2, <2>3 DEF Owned
<1>10. Accounts(table', available')
  BY <1>1, <1>2, <1>3, <1>4, <1>5, <1>6, GrantAccounts
<1>11. SlotsInv' /\ HaltInv'
  BY <1>2 DEF MemoryInv, SlotsInv, HaltInv, OnCore
<1>. QED
  BY <1>7, <1>9, <1>10, <1>11 DEF MemoryInv

\* A registered task is removed, and with it its block or not.
LEMMA RemovedBooks ==
  ASSUME MemoryInv, table \in Tables, NEW p \in Registered(table), table' = removeProcess(table, p),
         available' = releaseResources(available, Program[p].ram, Capacity),
         \/ memoryBlocks' = releaseMemoryBlock(memoryBlocks, p) /\ leaked' = leaked
         \/ memoryBlocks' = memoryBlocks /\ leaked' = leaked \cup {p},
         SlotsInv', HaltInv'
  PROVE  MemoryInv'
<1>1. p \in Tasks /\ Registered(table) \subseteq Tasks
  BY PCBFacts
<1>2. /\ Registered(table') = Registered(table) \ {p}
      /\ \A q \in Tasks : q # p => table'[q] = table[q]
  BY <1>1, RemoveFacts
<1>3. /\ Layout(memoryBlocks, Capacity) /\ Merged(memoryBlocks)
      /\ Owned(memoryBlocks, table, leaked) /\ Accounts(table, available)
  BY DEF MemoryInv
<1>4. Accounts(table', available')
  BY <1>2, <1>3, ReleaseAccounts
<1>5. ASSUME NEW q \in Registered(table')
      PROVE  /\ HasBlock(memoryBlocks, Block(table'[q].start, table'[q].end, q)) /\ q # p
             /\ ~IsFree(Block(table'[q].start, table'[q].end, q))
             /\ Block(table'[q].start, table'[q].end, q).pid = q
  <2>1. q \in Registered(table) /\ q # p /\ q \in Tasks
    BY <1>1, <1>2, <1>5
  <2>. QED
    BY <1>2, <1>3, <2>1, BlockFacts DEF Owned
<1>6. CASE memoryBlocks' = releaseMemoryBlock(memoryBlocks, p) /\ leaked' = leaked
  <2>1. /\ Layout(memoryBlocks', Capacity) /\ Merged(memoryBlocks')
        /\ \A c : ~IsFree(c) => (HasBlock(memoryBlocks', c) <=> HasBlock(memoryBlocks, c) /\ c.pid # p)
    BY <1>1, <1>3, <1>6, ReleaseFacts
  <2>2. Owned(memoryBlocks', table', leaked')
    <3>1. \A q \in Registered(table') : HasBlock(memoryBlocks', Block(table'[q].start, table'[q].end, q))
      BY <1>5, <2>1
    <3>2. \A c : ~IsFree(c) /\ HasBlock(memoryBlocks', c) => c.pid \in Registered(table') \cup leaked'
      BY <1>2, <1>3, <1>6, <2>1 DEF Owned
    <3>. QED
      BY <3>1, <3>2 DEF Owned
  <2>. QED
    BY <1>4, <2>1, <2>2 DEF MemoryInv
<1>7. CASE memoryBlocks' = memoryBlocks /\ leaked' = leaked \cup {p}
  <2>1. Owned(memoryBlocks', table', leaked')
    <3>1. \A q \in Registered(table') : HasBlock(memoryBlocks', Block(table'[q].start, table'[q].end, q))
      BY <1>5, <1>7
    <3>2. \A c : ~IsFree(c) /\ HasBlock(memoryBlocks', c) => c.pid \in Registered(table') \cup leaked'
      BY <1>2, <1>3, <1>7 DEF Owned
    <3>. QED
      BY <3>1, <3>2 DEF Owned
  <2>. QED
    BY <1>3, <1>4, <1>7, <2>1 DEF MemoryInv
<1>. QED
  BY <1>6, <1>7

LEMMA ShutdownBooks ==
  ASSUME MemoryInv, SchedulerInv, Shutdown PROVE MemoryInv'
<1>1. PICK R : R = Registered(table)
  OBVIOUS
<1>2. /\ pc = "menu" /\ pc' = "halted" /\ table' = NoPCBs
      /\ available' = FoldSet(LAMBDA p, n : releaseResources(n, Program[p].ram, Capacity),
                              available, R)
      /\ memoryBlocks' = AllReleased(memoryBlocks, R)
      /\ slots' = slots /\ leaked' = leaked
  BY <1>1 DEF Shutdown, Goto, AllReleased, history
<1>3. /\ Layout(memoryBlocks, Capacity) /\ Merged(memoryBlocks)
      /\ Owned(memoryBlocks, table, leaked)
      /\ IsFiniteSet(R) /\ R \subseteq Tasks /\ available \in Nat /\ available + RamOf(R) = Capacity
  BY <1>1, PCBFacts DEF MemoryInv, Accounts, SchedulerInv, Typed
<1>4. available' = Capacity
  <2>1. FoldSet(LAMBDA p, n : releaseResources(n, Program[p].ram, Capacity), available, R) = Capacity
    BY <1>3, ReleaseAllCounts
  <2>. QED
    BY <1>2, <2>1
<1>5. /\ Layout(memoryBlocks', Capacity) /\ Merged(memoryBlocks')
      /\ \A c : ~IsFree(c) => (HasBlock(memoryBlocks', c) <=> HasBlock(memoryBlocks, c) /\ c.pid \notin R)
  <2>1. memoryBlocks' = AllReleased(memoryBlocks, R)
    BY <1>2
  <2>. QED
    BY <1>3, <2>1, ReleaseAllBlocks
<1>6. table' = NoPCBs /\ pc = "menu" /\ pc' = "halted" /\ queues' = NoItems /\ slots' = slots
      /\ leaked' = leaked
  BY <1>2, ShutdownQueues
<1>7. Registered(table') = {}
  <2>1. table' \in Tables /\ \A p \in Tasks : table'[p] = NoPCB
    BY <1>6, PCBFacts DEF NoPCBs, Tables, PCBs
  <2>. QED
    BY <2>1, PCBFacts
<1>8. Owned(memoryBlocks', table', leaked')
  BY <1>1, <1>3, <1>5, <1>6, <1>7 DEF Owned
<1>9. Accounts(table', available')
  BY <1>4, <1>7, RamOfNone, FS_EmptySet, Phase3Assumption DEF Accounts
<1>10. SlotsInv' /\ HaltInv'
  BY <1>4, <1>6, <1>7 DEF MemoryInv, SlotsInv, HaltInv, OnCore
<1>. QED
  BY <1>5, <1>8, <1>9, <1>10 DEF MemoryInv

LEMMA NextBooks ==
  ASSUME MemoryInv, ControlInv, SchedulerInv, Next PROVE MemoryInv'
<1>1. /\ table \in Tables /\ queues \in QueueSets /\ Cores \in Nat
      /\ SlotsInv /\ HaltInv
  BY Phase3Assumption DEF SchedulerInv, Typed, MemoryInv
<1>2. SameBlocks(table, table)
  BY DEF SameBlocks
<1>3. ASSUME NEW p \in Tasks, Start(p), pc \in {"boot", "menu"} PROVE MemoryInv'
  <2>1. pc \notin OnCore /\ child[p] = "unborn" /\ leaked' = leaked
    BY <1>3 DEF Start, OnCore
  <2>2. CASE Grant(p)
    BY <2>1, <2>2, GrantBooks
  <2>3. CASE Deny(p)
    <3>1. UNCHANGED managers /\ pc' = "top"
      BY <2>3 DEF Deny, Goto
    <3>2. SlotsInv' /\ HaltInv'
      BY <1>1, <2>1, <3>1 DEF SlotsInv, HaltInv, managers, OnCore
    <3>. QED
      BY <1>2, <2>1, <3>1, <3>2, KeptBooks DEF managers
  <2>. QED
    BY <1>3, <2>2, <2>3 DEF Start
<1>4. CASE Quiet
  <2>1. /\ pc \notin OnCore /\ pc' \notin OnCore \cup {"halted"} /\ UNCHANGED managers
    BY <1>4, QuietPlaces
  <2>2. leaked' = leaked
    BY <1>4 DEF Quiet, BootWithoutClock, AwaitAdmitted, WriteStatus, PollFindsNothing, MenuTimeout,
                PollFinds, ClearCommand, ChooseNothing, ToKernelMode, ToUserMode, StartScheduler,
                SchedulerFinishes, OpenSchedulingTerminal, OpenGraphicalDashboard, Chosen, history
  <2>3. SlotsInv' /\ HaltInv'
    BY <1>1, <2>1 DEF SlotsInv, HaltInv, managers
  <2>. QED
    BY <1>2, <2>1, <2>2, <2>3, KeptBooks DEF managers
<1>5. CASE KernelStep
  <2>1. CASE \E p \in Tasks : AutoStart(p)
    BY <1>3, <2>1 DEF AutoStart
  <2>2. CASE ExecuteCommand
    <3>1. /\ pc = "command" /\ UNCHANGED <<table, available, memoryBlocks, slots, leaked>>
          /\ pc' = "run" \/ pc' = "top"
      BY <2>2 DEF ExecuteCommand, RunSingle, RefuseCommand, Goto, history
    <3>2. SlotsInv' /\ HaltInv'
      BY <1>1, <3>1 DEF SlotsInv, HaltInv, OnCore
    <3>. QED
      BY <1>2, <3>1, <3>2, KeptBooks
  <2>3. CASE SelectNext
    <3>1. PICK a : /\ a = applyAging(queues, table, AgingThreshold)
                   /\ \/ hasReadyProcess(a.queues) /\ Select(a, FirstQueue(a.queues))
                      \/ table' = a.table /\ Goto("top")
      BY <2>3 DEF SelectNext
    <3>2. pc = "dispatch" /\ UNCHANGED <<available, memoryBlocks, slots, leaked>>
      BY <2>3 DEF SelectNext, history
    <3>3. pc' = "top" \/ pc' = "run"
      BY <3>1 DEF Select, Goto
    <3>4. a.table \in Tables /\ a.queues \in QueueSets /\ SameBlocks(table, a.table)
      BY <1>1, <3>1, AgingFacts DEF AgedTypes, SameTasks
    <3>5. SameBlocks(table, table')
      <4>1. CASE hasReadyProcess(a.queues) /\ Select(a, FirstQueue(a.queues))
        <5>1. PICK k, p : k = FirstQueue(a.queues) /\ p = Head(a.queues[k]).pid
          OBVIOUS
        <5>2. k \in Queues /\ a.queues[k] # <<>> /\ table' = resetWaitingTime(a.table, p)
          BY <4>1, <5>1, FirstQueueFacts DEF Select
        <5>3. p \in Tasks
          BY <3>4, <5>1, <5>2, TakeFacts
        <5>4. SameBlocks(a.table, table')
          BY <3>4, <5>2, <5>3, ResetFacts
        <5>. QED
          BY <3>4, <5>4 DEF SameBlocks
      <4>. QED
        BY <3>1, <3>4, <4>1
    <3>6. SlotsInv' /\ HaltInv'
      BY <1>1, <3>2, <3>3 DEF SlotsInv, HaltInv, OnCore
    <3>. QED
      BY <3>2, <3>5, <3>6, KeptBooks
  <2>4. CASE Dispatch
    <3>1. /\ pc = "run" /\ pc' \in {"waiting", "slice"} /\ cur \in Registered(table)
          /\ slots' = slots - 1 /\ table' = updateProcessState(table, cur, "RUNNING")
          /\ UNCHANGED <<available, memoryBlocks, leaked>>
      BY <2>4 DEF Dispatch, history
    <3>2. SameBlocks(table, table')
      <4>1. cur \in Tasks /\ "RUNNING" \in States
        BY <1>1, <3>1, PCBFacts DEF States
      <4>. QED
        BY <1>1, <3>1, <4>1, UpdateStateFacts
    <3>3. SlotsInv' /\ HaltInv'
      BY <1>1, <3>1 DEF SlotsInv, HaltInv, OnCore
    <3>. QED
      BY <3>1, <3>2, <3>3, KeptBooks
  <2>5. CASE SystemTaskEnds \/ TimedTaskEnds
    <3>1. pc \in {"waiting", "slice"} /\ Complete
      BY <2>5 DEF SystemTaskEnds, TimedTaskEnds
    <3>2. /\ slots' = slots + 1 /\ table' = removeProcess(table, cur)
          /\ available' = releaseResources(available, Program[cur].ram, Capacity)
          /\ memoryBlocks' = releaseMemoryBlock(memoryBlocks, cur) /\ leaked' = leaked
          /\ pc' \in {"top", "dispatch"}
      BY <3>1 DEF Complete, Return, history
    <3>3. cur \in Registered(table)
      <4>1. cur \in Tasks /\ pc \in OnCore
        BY <3>1 DEF ControlInv, AtWork, OnCore
      <4>. QED
        BY <4>1, CorePlace
    <3>4. SlotsInv' /\ HaltInv'
      BY <1>1, <3>1, <3>2 DEF SlotsInv, HaltInv, OnCore
    <3>. QED
      BY <1>1, <3>2, <3>3, <3>4, RemovedBooks
  <2>6. CASE QuantumExpires
    <3>1. pc = "slice" /\ pc' = "expired" /\ UNCHANGED managers /\ leaked' = leaked
      BY <2>6 DEF QuantumExpires, history
    <3>2. SlotsInv' /\ HaltInv'
      BY <1>1, <3>1 DEF SlotsInv, HaltInv, managers, OnCore
    <3>. QED
      BY <1>2, <3>1, <3>2, KeptBooks DEF managers
  <2>7. CASE Requeue
    <3>1. /\ pc = "expired" /\ pc' \in {"top", "dispatch"} /\ slots' = slots + 1
          /\ table' = updateProcessState(table, cur, "READY")
          /\ UNCHANGED <<available, memoryBlocks, leaked>>
      BY <2>7 DEF Requeue, Return, history
    <3>2. SameBlocks(table, table')
      <4>1. cur \in Tasks /\ "READY" \in States
        BY <3>1 DEF ControlInv, AtWork, OnCore, States
      <4>. QED
        BY <1>1, <3>1, <4>1, UpdateStateFacts
    <3>3. SlotsInv' /\ HaltInv'
      BY <1>1, <3>1 DEF SlotsInv, HaltInv, OnCore
    <3>. QED
      BY <3>1, <3>2, <3>3, KeptBooks
  <2>. QED
    BY <1>4, <1>5, <2>1, <2>2, <2>3, <2>4, <2>5, <2>6, <2>7 DEF KernelStep, Quiet
<1>6. ASSUME Chosen PROVE SlotsInv' /\ HaltInv'
  BY <1>1, <1>6 DEF Chosen, Goto, SlotsInv, HaltInv, OnCore
<1>7. CASE User
  <2>1. ASSUME NEW p \in Tasks, LaunchTask(p) PROVE MemoryInv'
    BY <1>3, <2>1 DEF LaunchTask
  <2>2. ASSUME NEW p \in Tasks, Minimize(p) \/ MakeReady(p) PROVE MemoryInv'
    <3>1. /\ Chosen /\ UNCHANGED <<available, memoryBlocks, leaked>>
          /\ \/ table' = updateProcessState(table, p, "BLOCKED")
             \/ table' = updateProcessState(table, p, "READY")
      BY <2>2 DEF Minimize, MakeReady
    <3>2. SameBlocks(table, table')
      <4>1. "BLOCKED" \in States /\ "READY" \in States
        BY DEF States
      <4>. QED
        BY <1>1, <3>1, <4>1, UpdateStateFacts
    <3>. QED
      BY <1>6, <3>1, <3>2, KeptBooks
  <2>3. ASSUME NEW p \in Registered(table), Chosen, ForceTerminate(p), leaked' = leaked
        PROVE  MemoryInv'
    <3>1. /\ table' = removeProcess(table, p)
          /\ available' = releaseResources(available, Program[p].ram, Capacity)
          /\ memoryBlocks' = releaseMemoryBlock(memoryBlocks, p)
      BY <2>3 DEF ForceTerminate, Forget
    <3>. QED
      BY <1>1, <1>6, <2>3, <3>1, RemovedBooks
  <2>4. ASSUME NEW p \in Tasks, Close(p) PROVE MemoryInv'
    BY <2>3, <2>4 DEF Close
  <2>5. ASSUME NEW p \in Tasks, KernelKill(p) PROVE MemoryInv'
    <3>1. /\ Chosen /\ p \in Registered(table) /\ table' = removeProcess(table, p)
          /\ available' = releaseResources(available, Program[p].ram, Capacity)
          /\ memoryBlocks' = memoryBlocks /\ leaked' = leaked \cup {p}
      BY <2>5 DEF KernelKill, Forget
    <3>. QED
      BY <1>1, <1>6, <3>1, RemovedBooks
  <2>6. ASSUME NEW p \in Tasks, NEW q \in Tasks, DeadlockSimulation(p, q) PROVE MemoryInv'
    <3>1. /\ Chosen /\ q \in Registered(table) /\ leaked' = leaked
          /\ ForceTerminate(detectDeadlock(Simulated(p, q)))
      BY <2>6 DEF DeadlockSimulation
    <3>2. ForceTerminate(q)
      BY <3>1, VictimIsSecond
    <3>. QED
      BY <2>3, <3>1, <3>2
  <2>. QED
    BY <1>1, <1>4, <1>7, <2>1, <2>2, <2>4, <2>5, <2>6, ShutdownBooks, NewMemoryBooks
       DEF User, Quiet, Resume, SwitchTo
<1>8. CASE Children \/ Dashboard
  <2>1. UNCHANGED <<managers, pc, leaked>>
    BY <1>8 DEF Children, ChildStops, OpenWindow, ChildExits, Dashboard, DashboardOnly, LoadStatus,
                ClickRow, LoadWithoutRow, WriteCommand, control, history
  <2>2. SlotsInv' /\ HaltInv'
    BY <1>1, <2>1 DEF SlotsInv, HaltInv, managers
  <2>. QED
    BY <1>2, <2>1, <2>2, KeptBooks DEF managers
<1>. QED
  BY <1>5, <1>7, <1>8 DEF Next

-----------------------------------------------------------------------------
(* The invariant.                                                          *)

Inv ==
  /\ ControlInv /\ SchedulerInv /\ LeftAlone /\ MemoryInv /\ single \in BOOLEAN

LEMMA NextScheduler ==
  ASSUME ControlInv, SchedulerInv, MemoryInv, Next PROVE SchedulerInv'
<1>1. memoryBlocks \in Seq(Blocks)
  BY DEF MemoryInv, Layout
<1>2. ASSUME pc \in AtWork PROVE cur \in Tasks
  BY <1>2 DEF ControlInv
<1>3. CASE KernelStep
  <2>1. CASE \E p \in Tasks : AutoStart(p)
    BY <1>1, <2>1, StartScheduled DEF AutoStart, programs
  <2>2. CASE Quiet
    BY <2>2, QuietScheduled
  <2>3. CASE ExecuteCommand
    <3>1. cur \in Tasks
      BY <1>2, <2>3 DEF ExecuteCommand, AtWork
    <3>. QED
      BY <2>3, <3>1, CommandScheduled
  <2>4. CASE SelectNext
    BY <2>4, SelectScheduled
  <2>5. CASE Dispatch
    <3>1. cur \in Tasks
      BY <1>2, <2>5 DEF Dispatch, AtWork
    <3>. QED
      BY <2>5, <3>1, DispatchScheduled
  <2>6. CASE SystemTaskEnds \/ TimedTaskEnds
    <3>1. pc \in OnCore /\ Complete
      BY <2>6 DEF SystemTaskEnds, TimedTaskEnds, OnCore
    <3>2. cur \in Tasks
      BY <1>2, <3>1 DEF AtWork
    <3>. QED
      BY <3>1, <3>2, CompleteScheduled
  <2>7. CASE QuantumExpires
    <3>1. cur \in Tasks
      BY <1>2, <2>7 DEF QuantumExpires, AtWork, OnCore
    <3>. QED
      BY <2>7, <3>1, ExpireScheduled
  <2>8. CASE Requeue
    <3>1. cur \in Tasks
      BY <1>2, <2>8 DEF Requeue, AtWork, OnCore
    <3>. QED
      BY <2>8, <3>1, RequeueScheduled
  <2>. QED
    BY <1>3, <2>1, <2>2, <2>3, <2>4, <2>5, <2>6, <2>7, <2>8 DEF KernelStep, Quiet
<1>4. CASE User
  <2>1. ASSUME NEW p \in Tasks, LaunchTask(p) PROVE SchedulerInv'
    BY <1>1, <2>1, StartScheduled DEF LaunchTask
  <2>2. ASSUME NEW p \in Tasks, Minimize(p) PROVE SchedulerInv'
    BY <2>2, MinimizeScheduled
  <2>3. ASSUME NEW p \in Tasks, Resume(p) \/ SwitchTo(p) PROVE SchedulerInv'
    <3>1. MakeReady(p) /\ table[p].state \in {"BLOCKED", "NEW"}
      BY <2>3 DEF Resume, SwitchTo
    <3>2. p \in Registered(table) /\ table[p].state # "READY"
      <4>1. table \in Tables
        BY DEF SchedulerInv, Typed
      <4>2. table[p].state # "none" /\ table[p].state # "READY"
        BY <3>1
      <4>. QED
        BY <4>1, <4>2, StateFacts
    <3>. QED
      BY <3>1, <3>2, MakeReadyScheduled
  <2>4. ASSUME NEW p \in Tasks, Close(p) \/ KernelKill(p) PROVE SchedulerInv'
    <3>1. Chosen /\ Kill({p}) /\ Forget(p)
      BY <2>4 DEF Close, KernelKill, ForceTerminate
    <3>. QED
      BY <3>1, RemovedScheduled
  <2>5. ASSUME NEW p \in Tasks, NEW q \in Tasks, DeadlockSimulation(p, q) PROVE SchedulerInv'
    <3>1. Chosen /\ ForceTerminate(detectDeadlock(Simulated(p, q)))
      BY <2>5 DEF DeadlockSimulation
    <3>2. Kill({q}) /\ Forget(q)
      BY <3>1, VictimIsSecond DEF ForceTerminate
    <3>. QED
      BY <3>1, <3>2, RemovedScheduled
  <2>6. CASE Quiet
    BY <2>6, QuietScheduled
  <2>. QED
    BY <1>4, <2>1, <2>2, <2>3, <2>4, <2>5, <2>6, ShutdownScheduler, NextBootScheduler,
       InterruptedScheduler DEF User, Quiet
<1>5. CASE Children \/ Dashboard
  BY <1>5, AsideScheduled
<1>. QED
  BY <1>3, <1>4, <1>5 DEF Next

LEMMA NextSingle ==
  ASSUME single \in BOOLEAN, Next PROVE single' \in BOOLEAN
<1>1. ASSUME UNCHANGED single \/ single' = TRUE \/ single' = FALSE PROVE single' \in BOOLEAN
  BY <1>1
<1>2. ASSUME NEW label, Goto(label) PROVE single' \in BOOLEAN
  BY <1>1, <1>2 DEF Goto
<1>3. ASSUME Chosen PROVE single' \in BOOLEAN
  BY <1>2, <1>3 DEF Chosen
<1>4. ASSUME NEW p \in Tasks, Start(p) PROVE single' \in BOOLEAN
  BY <1>1, <1>2, <1>4 DEF Start, Grant, Deny
<1>5. CASE KernelStep
  <2>1. CASE \E p \in Tasks : AutoStart(p)
    BY <1>4, <2>1 DEF AutoStart
  <2>2. CASE BootWithoutClock \/ AwaitAdmitted \/ WriteStatus \/ PollFindsNothing \/ MenuTimeout
             \/ SchedulerFinishes
    BY <1>2, <2>2 DEF BootWithoutClock, AwaitAdmitted, WriteStatus, PollFindsNothing, MenuTimeout,
                      SchedulerFinishes
  <2>3. CASE PollFinds \/ ClearCommand \/ Dispatch \/ QuantumExpires
    BY <1>1, <2>3 DEF PollFinds, ClearCommand, Dispatch, QuantumExpires
  <2>4. CASE ExecuteCommand
    BY <1>1, <1>2, <2>4 DEF ExecuteCommand, RunSingle, RefuseCommand
  <2>5. CASE SelectNext
    <3>1. PICK aged : IF hasReadyProcess(aged.queues) THEN Select(aged, FirstQueue(aged.queues))
                      ELSE queues' = aged.queues /\ table' = aged.table /\ Goto("top")
      BY <2>5 DEF SelectNext
    <3>. QED
      BY <1>1, <1>2, <3>1 DEF Select
  <2>6. CASE SystemTaskEnds \/ TimedTaskEnds \/ Requeue
    BY <1>1, <2>6 DEF SystemTaskEnds, TimedTaskEnds, Complete, Requeue, Return
  <2>. QED
    BY <1>5, <2>1, <2>2, <2>3, <2>4, <2>5, <2>6 DEF KernelStep
<1>6. CASE User
  <2>1. ASSUME NEW p \in Tasks, LaunchTask(p) PROVE single' \in BOOLEAN
    BY <1>4, <2>1 DEF LaunchTask
  <2>2. ASSUME NEW p \in Tasks,
               Minimize(p) \/ Resume(p) \/ SwitchTo(p) \/ Close(p) \/ KernelKill(p)
                 \/ \E q \in Tasks : DeadlockSimulation(p, q)
        PROVE  single' \in BOOLEAN
    BY <1>3, <2>2 DEF Minimize, Resume, SwitchTo, MakeReady, Close, KernelKill, DeadlockSimulation
  <2>3. CASE ChooseNothing \/ ToKernelMode \/ ToUserMode
    BY <1>3, <2>3 DEF ChooseNothing, ToKernelMode, ToUserMode
  <2>4. CASE StartScheduler \/ OpenSchedulingTerminal \/ OpenGraphicalDashboard \/ Shutdown
             \/ NextBoot \/ Interrupted
    BY <1>1, <1>2, <2>4 DEF StartScheduler, OpenSchedulingTerminal, OpenGraphicalDashboard,
                            Shutdown, NextBoot, Interrupted, MemoryIsNew
  <2>. QED
    BY <1>6, <2>1, <2>2, <2>3, <2>4 DEF User
<1>7. CASE Children \/ Dashboard
  BY <1>1, <1>7 DEF Children, ChildStops, OpenWindow, ChildExits, Dashboard, LoadStatus, LoadWithoutRow,
                    ClickRow, WriteCommand, DashboardOnly, control
<1>. QED
  BY <1>5, <1>6, <1>7 DEF Next

LEMMA InvHolds == Spec => []Inv
<1>1. Init => Inv
  BY InitControl, InitScheduler, InitBooks DEF Inv, Init, LeftAlone
<1>2. Inv /\ [Next]_vars => Inv'
  <2>1. CASE Next
    <3>1. SUFFICES ASSUME Inv PROVE Inv'
      BY <2>1
    <3>2. ControlInv' /\ SchedulerInv'
      BY <2>1, <3>1, NextControl, NextScheduler DEF Inv
    <3>3. MemoryInv' /\ (single \in BOOLEAN)'
      BY <2>1, <3>1, NextBooks, NextSingle DEF Inv
    <3>4. LeftAlone'
      BY <2>1, <3>1, <3>2, NextLeftAlone DEF Inv, MemoryInv, Layout
    <3>. QED
      BY <3>2, <3>3, <3>4 DEF Inv
  <2>2. CASE UNCHANGED vars
    <3>1. SUFFICES ASSUME Inv PROVE Inv'
      BY <2>2
    <3>2. /\ UNCHANGED <<child, table, queues, available, memoryBlocks, slots>>
          /\ UNCHANGED <<pc, cur, single, currentMode, gui_status, gui_command, row, pen>>
          /\ UNCHANGED <<stale, boots, leaked, separate, executed, orphans>>
      BY <2>2 DEF vars, managers, control, files, status, dashboard, history, programs
    <3>3. ControlInv'
      BY <3>1, <3>2 DEF Inv, ControlInv
    <3>4. SchedulerInv'
      <4>1. Line' = Line
        BY <3>2 DEF Line
      <4>2. Match(queues, table, Line)'
        BY <3>1, <3>2, <4>1 DEF Inv, SchedulerInv
      <4>3. (Typed /\ Unborn /\ Seen /\ SelectedIsReady)'
        BY <3>1, <3>2 DEF Inv, SchedulerInv, Typed, Unborn, Seen, SelectedIsReady
      <4>. QED
        BY <4>2, <4>3 DEF SchedulerInv
    <3>5. MemoryInv'
      BY <3>1, <3>2 DEF Inv, MemoryInv, SlotsInv, HaltInv
    <3>6. (single \in BOOLEAN)'
      BY <3>1, <3>2, Zenon DEF Inv
    <3>7. LeftAlone'
      BY <3>1, <3>2 DEF Inv, LeftAlone
    <3>. QED
      BY <3>3, <3>4, <3>5, <3>6, <3>7 DEF Inv
  <2>. QED
    BY <2>1, <2>2
<1>. QED
  BY <1>1, <1>2, PTL DEF Spec

-----------------------------------------------------------------------------
(* What the runs check.                                                    *)

\* No process that the kernel forked for a task runs on behind its back: it runs the
\* one it dispatched last, whose PCB says RUNNING, or an interrupted kernel left it,
\* and no later one has it in its table; and the status file calls RUNNING what the
\* table does, but for what an interrupted kernel told it, until the next one offers
\* its menu (runProcess, runSingleProcessByPID, writeGUIStatusFile and main, with
\* quanta, menu options, kills, ghosts, interruptions and reboots).
THEOREM Phase3NothingRunsUnseen == Spec => []NothingRunsUnseen
<1>1. Inv => NothingRunsUnseen
  <2>1. SUFFICES ASSUME Seen, LeftAlone, table \in Tables PROVE NothingRunsUnseen
    BY DEF Inv, SchedulerInv, Typed
  <2>2. \A p \in Tasks : p \in orphans => p \in orphans \ Registered(table)
    BY <2>1, PCBFacts DEF LeftAlone
  <2>. QED
    BY <2>1, <2>2 DEF Seen, NothingRunsUnseen, Early
<1>. QED
  BY <1>1, InvHolds, PTL

LEMMA ItemsOfFacts ==
  ASSUME SchedulerInv, NEW p \in Tasks
  PROVE  /\ \A x : x \in ItemsOf(p) <=>
                     \E k \in Queues : \E i \in 1..Len(queues[k]) :
                       x = <<k, i>> /\ queues[k][i].pid = p
         /\ \A k \in Queues : InSeq(queues[k], p) <=> p \in Line /\ table[p].priority = k
         /\ \A k \in Queues : DistinctSeq(queues[k])
         /\ p \in Line => table[p].priority \in Queues /\ Level(table[p].priority) = table[p].priority
<1>1. \A k \in Queues : DOMAIN queues[k] = 1..Len(queues[k])
  BY DEF SchedulerInv, Typed, QueueSets
<1>2. \A x : x \in ItemsOf(p) <=>
               \E k \in Queues : \E i \in 1..Len(queues[k]) : x = <<k, i>> /\ queues[k][i].pid = p
  BY <1>1 DEF ItemsOf
<1>3. Match(queues, table, Line)
  BY DEF SchedulerInv
<1>4. ASSUME p \in Line
      PROVE  table[p].priority \in Queues /\ Level(table[p].priority) = table[p].priority
  <2>1. table \in Tables /\ table[p].state # "none"
    BY <1>4 DEF SchedulerInv, Typed, Line
  <2>2. table[p] \in LivePCBs
    BY <2>1, StateFacts, PCBFacts
  <2>3. table[p].priority \in 1..3
    BY <2>2 DEF LivePCBs
  <2>. QED
    BY <2>3, ItemFacts
<1>. QED
  BY <1>2, <1>3, <1>4 DEF Match

\* However often a task is minimized, resumed, aged, dispatched by a click or
\* requeued, it is READY exactly while one item of it lies in a queue, and that is
\* the queue of its priority (addProcessToReadyQueue, removeProcessByPID, applyAging).
THEOREM Phase3ReadyIsQueuedOnce == Spec => []ReadyIsQueuedOnce
<1>1. Inv => ReadyIsQueuedOnce
  <2>1. SUFFICES ASSUME Inv, NEW p \in Tasks
                 PROVE  /\ Cardinality(ItemsOf(p)) = IF p \in Line THEN 1 ELSE 0
                        /\ \A at \in ItemsOf(p) : at[1] = Level(table[p].priority)
    BY DEF ReadyIsQueuedOnce, Line
  <2>2. SchedulerInv
    BY <2>1 DEF Inv
  <2>3. CASE p \notin Line
    <3>1. ItemsOf(p) = {}
      BY <2>2, <2>3, ItemsOfFacts DEF InSeq
    <3>. QED
      BY <2>3, <3>1, FS_EmptySet
  <2>4. CASE p \in Line
    <3>1. PICK k \in Queues : k = table[p].priority /\ Level(k) = k
      BY <2>2, <2>4, ItemsOfFacts
    <3>2. PICK i \in 1..Len(queues[k]) : queues[k][i].pid = p
      BY <2>2, <2>4, <3>1, ItemsOfFacts DEF InSeq
    <3>3. \A j \in 1..Len(queues[k]) : queues[k][j].pid = p => j = i
      BY <2>2, <3>2, ItemsOfFacts DEF DistinctSeq
    <3>4. \A m \in Queues : \A j \in 1..Len(queues[m]) : queues[m][j].pid = p => m = k
      BY <2>2, <3>1, ItemsOfFacts DEF InSeq
    <3>5. \A x : x \in ItemsOf(p) <=> x = <<k, i>>
      BY <2>2, <3>2, <3>3, <3>4, ItemsOfFacts
    <3>6. ItemsOf(p) = {<<k, i>>}
      BY <3>5
    <3>7. Cardinality(ItemsOf(p)) = 1
      BY <3>6, FS_Singleton
    <3>. QED
      BY <2>4, <3>1, <3>6, <3>7
  <2>. QED
    BY <2>3, <2>4
<1>. QED
  BY <1>1, InvHolds, PTL

LEMMA InvIsTyped == ASSUME Inv PROVE TypeOK
<1>1. ControlInv /\ Typed /\ MemoryInv /\ single \in BOOLEAN
  BY DEF Inv, SchedulerInv
<1>2. DOMAIN table = Tasks
  BY <1>1, PCBFacts DEF Typed
<1>3. \A p \in Registered(table) : table[p].state \in States /\ table[p].priority \in 1..3
  <2>1. \A b \in LivePCBs : b.state \in States /\ b.priority \in 1..3
    BY DEF LivePCBs
  <2>. QED
    BY <1>1, <2>1, PCBFacts DEF Typed
<1>4. \A k \in Queues : \A i \in DOMAIN queues[k] : queues[k][i].pid \in Tasks
  <2>1. SUFFICES ASSUME NEW k \in Queues, NEW i \in DOMAIN queues[k]
                 PROVE  queues[k][i].pid \in Tasks
    OBVIOUS
  <2>2. PICK s : s = queues[k] /\ s \in Seq(Items) /\ DOMAIN s = 1..Len(s)
    BY <1>1 DEF Typed, QueueSets
  <2>3. i \in 1..Len(s)
    BY <2>2
  <2>. QED
    BY <2>2, <2>3, PidFacts
<1>5. available \in 0..Capacity
  <2>1. Accounts(table, available) /\ Registered(table) \subseteq Tasks
    BY <1>1, PCBFacts DEF MemoryInv, Typed
  <2>2. RamOf(Registered(table)) \in Nat
    BY <2>1, RamIsNumber DEF Accounts
  <2>. QED
    BY <2>1, <2>2, Phase3Assumption DEF Accounts
<1>6. slots \in 0..Cores
  BY <1>1, Phase3Assumption DEF MemoryInv, SlotsInv
<1>7. /\ child \in [Tasks -> {"unborn", "granted", "stopped", "running", "zombie", "gone"}]
      /\ gui_status \in [Tasks -> States \cup {"none"}]
  BY <1>1 DEF Typed, ChildStates, FileStates
<1>8. pc \in {"boot", "top", "poll", "menu", "stopwait", "clear", "command", "dispatch",
              "run", "waiting", "slice", "expired", "halted", "replaced", "killed"}
  BY <1>1 DEF ControlInv, Labels, AtWork, OnCore
<1>9. /\ currentMode \in {"user", "kernel"} /\ cur \in Tasks \cup {Nobody}
      /\ {gui_command, row, pen} \subseteq Tasks \cup {Nobody}
      /\ boots \in 1..MaxBoots /\ leaked \subseteq Tasks
      /\ executed \subseteq separate /\ separate \subseteq Windowed
      /\ orphans \cup stale \subseteq Tasks
  BY <1>1 DEF ControlInv, Typed
<1>. QED
  BY <1>1, <1>2, <1>3, <1>4, <1>5, <1>6, <1>7, <1>8, <1>9 DEF TypeOK

LEMMA TiledFacts ==
  ASSUME Layout(memoryBlocks, Capacity), Merged(memoryBlocks)
  PROVE  Tiled /\ FreeIsMerged /\ \A b : b \in ToSet(memoryBlocks) <=> HasBlock(memoryBlocks, b)
<1>1. PICK s, n, to : /\ s = memoryBlocks /\ n = Len(s) /\ to = Capacity
  OBVIOUS
<1>2. /\ s \in Seq(Blocks) /\ n \in Nat /\ n >= 1 /\ DOMAIN s = 1..n /\ s # <<>>
      /\ Head(s) = s[1] /\ Last(s) = s[n]
  BY <1>1 DEF Layout, Last
<1>3. \A i \in 1..n : s[i].start \in Int /\ s[i].end \in Int
  <2>1. \A i \in 1..n : s[i] \in Blocks
    BY <1>1, <1>2
  <2>. QED
    BY <2>1 DEF Blocks
<1>4. \A i \in 1..n : SizeOf(s[i]) > 0
  <2>1. SUFFICES ASSUME NEW i \in 1..n PROVE SizeOf(s[i]) > 0
    OBVIOUS
  <2>2. PICK a, z \in Int : a = s[i].start /\ z = s[i].end
    BY <1>3
  <2>3. a < z
    BY <1>1, <2>2 DEF Layout
  <2>. QED
    BY <2>2, <2>3 DEF SizeOf
<1>5. \A i \in 1..n : i > 1 => s[i].start = s[i - 1].end
  <2>1. SUFFICES ASSUME NEW i \in 1..n, i > 1 PROVE s[i].start = s[i - 1].end
    OBVIOUS
  <2>2. PICK j \in 1..n : j = i - 1 /\ i = j + 1
    BY <1>2, <2>1
  <2>. QED
    BY <1>1, <2>2 DEF Layout
<1>6. Tiled
  BY <1>1, <1>2, <1>4, <1>5 DEF Tiled, Layout
<1>7. FreeIsMerged
  <2>1. SUFFICES ASSUME NEW i \in 1..(n - 1), IsFree(s[i]), IsFree(s[i + 1]), NEW k \in 1..(i - 1)
                 PROVE  ~IsFree(s[k])
    BY <1>1 DEF FreeIsMerged
  <2>2. PICK j \in 1..n : j = i + 1 /\ i \in 1..n /\ k \in 1..n /\ k < i
    BY <1>2, <2>1
  <2>. QED
    BY <1>1, <2>1, <2>2 DEF Merged
<1>8. \A b : b \in ToSet(s) <=> HasBlock(s, b)
  BY <1>1, <1>2 DEF ToSet, HasBlock
<1>. QED
  BY <1>1, <1>6, <1>7, <1>8

\* Through launches, runs, kills, deadlock recovery and shutdown, what is free and
\* what the registered tasks were granted make up the machine, in the counter
\* (allocateResources, releaseResources) and in the layout (allocateMemoryBlock,
\* releaseMemoryBlock, mergeFreeMemoryBlocks), and a task on the core holds its slot.
THEOREM Phase3BookkeepingIsExact == Spec => []BookkeepingIsExact
<1>1. Inv => BookkeepingIsExact
  <2>1. SUFFICES ASSUME Inv PROVE BookkeepingIsExact
    OBVIOUS
  <2>2. TypeOK /\ MemoryInv
    BY <2>1, InvIsTyped DEF Inv
  <2>3. /\ Tiled /\ FreeIsMerged
        /\ \A b : b \in ToSet(memoryBlocks) <=> HasBlock(memoryBlocks, b)
    BY <2>2, TiledFacts DEF MemoryInv
  <2>4. BlocksAreOwned
    BY <2>2, <2>3 DEF MemoryInv, Owned, BlocksAreOwned
  <2>5. available + RamOf(Registered(table)) = Capacity
    BY <2>2 DEF MemoryInv, Accounts
  <2>6. slots = Cores - (IF pc \in {"waiting", "slice", "expired"} THEN 1 ELSE 0)
    BY <2>2 DEF MemoryInv, SlotsInv, OnCore
  <2>7. pc = "halted" => Registered(table) = {} /\ queues = NoItems /\ available = Capacity
    BY <2>2 DEF MemoryInv, HaltInv
  <2>. QED
    BY <2>2, <2>3, <2>4, <2>5, <2>6, <2>7 DEF BookkeepingIsExact
<1>. QED
  BY <1>1, InvHolds, PTL

==============================================================================
