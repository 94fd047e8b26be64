---------------------------- MODULE ManagerProofs ----------------------------
(***************************************************************************)
(* Proofs about two managers of the kernel.  The resource manager: the     *)
(* layout of the RAM stays sound, it implements the map of addresses to    *)
(* owners, and the counters stand for the tasks that were charged.  The    *)
(* deadlock manager: detectDeadlock answers rightly for every set of       *)
(* records, every number of processes and every order of the search.       *)
(***************************************************************************)
EXTENDS ResourceManager, DeadlockManager, SequenceTheorems, Induction

RAM == Capacity["ram"]

\* What the layout is a sequence of.
Blocks == [start : 0..RAM, end : 0..RAM, pid : Tasks \cup {Free}]

\* The blocks of s lie side by side from address 0 to address e.
TiledTo(s, e) ==
  /\ s \in Seq(Blocks) /\ s # <<>>
  /\ s[1].start = 0
  /\ s[Len(s)].end = e
  /\ \A i \in 1..Len(s) : s[i].start < s[i].end
  /\ \A i \in 1..(Len(s) - 1) : s[i].end = s[i + 1].start

\* No two free blocks of s are side by side.
Apart(s) == \A i \in 1..(Len(s) - 1) : s[i].pid # Free \/ s[i + 1].pid # Free

\* No task has two blocks of s.
OneEach(s) ==
  \A i, j \in 1..Len(s) : s[i].pid = s[j].pid /\ s[i].pid # Free => i = j

\* b is the block of a task in s.
TaskBlock(b, s) == b.pid # Free /\ \E i \in 1..Len(s) : s[i] = b

\* The address a is in the block b.
Holds(b, a) == b.start <= a /\ a < b.end

\* The machine has some RAM.
LEMMA RAMIsPositive == RAM \in Nat /\ RAM > 0
  BY ResourceAssumption DEF Resources, RAM

-----------------------------------------------------------------------------
(* The list of blocks.                                                     *)

\* A block of a layout is a block, and not empty.
LEMMA BlocksWithin ==
  ASSUME NEW s, NEW e, TiledTo(s, e), NEW i \in 1..Len(s)
  PROVE  /\ s[i] \in Blocks /\ s[i].start \in Nat /\ s[i].end \in Nat
         /\ s[i].start \in 0..RAM /\ s[i].end \in 0..RAM /\ s[i].start < s[i].end
         /\ s[i].pid \in Tasks \cup {Free}
<1>1. s[i] \in Blocks /\ s[i].start < s[i].end
  BY DEF TiledTo
<1>2. s[i].start \in 0..RAM /\ s[i].end \in 0..RAM /\ s[i].pid \in Tasks \cup {Free}
  BY <1>1 DEF Blocks
<1>. QED
  BY <1>1, <1>2, RAMIsPositive

LEMMA LayoutNumbers ==
  ASSUME NEW s, NEW e, TiledTo(s, e)
  PROVE  Len(s) \in Nat /\ \A i \in 1..Len(s) : s[i].start \in Nat /\ s[i].end \in Nat
<1>1. Len(s) \in Nat
  BY DEF TiledTo
<1>2. ASSUME NEW i \in 1..Len(s) PROVE s[i].start \in Nat /\ s[i].end \in Nat
  BY BlocksWithin
<1>. QED
  BY <1>1, <1>2

\* A block ends before the blocks behind it begin.
LEMMA BlocksInOrder ==
  ASSUME NEW s, NEW e, TiledTo(s, e)
  PROVE  \A i, j \in 1..Len(s) : i < j => s[i].end <= s[j].start
<1>1. /\ Len(s) \in Nat
      /\ \A i \in 1..Len(s) : s[i].start \in Nat /\ s[i].end \in Nat
  BY LayoutNumbers
<1>2. SUFFICES ASSUME NEW i \in 1..Len(s)
               PROVE  \A j \in 1..Len(s) : i < j => s[i].end <= s[j].start
  OBVIOUS
<1>. DEFINE T == {n \in Nat : i + n + 1 <= Len(s) => s[i].end <= s[i + n + 1].start}
<1>3. 0 \in T
  BY <1>1 DEF TiledTo
<1>4. ASSUME NEW n \in Nat, n \in T PROVE n + 1 \in T
  <2>1. CASE i + (n + 1) + 1 <= Len(s)
    <3>1. i + n + 1 \in 1..(Len(s) - 1) /\ i + n + 1 \in 1..Len(s)
      BY <1>1, <2>1
    <3>2. s[i + n + 1].start < s[i + n + 1].end /\ s[i + n + 1].end = s[(i + n + 1) + 1].start
      BY <3>1 DEF TiledTo
    <3>3. s[i].end <= s[i + n + 1].start
      BY <1>4, <3>1
    <3>4. /\ i + (n + 1) + 1 \in 1..Len(s)
          /\ s[(i + n + 1) + 1] = s[i + (n + 1) + 1]
      BY <1>1, <2>1
    <3>. QED
      BY <1>1, <3>1, <3>2, <3>3, <3>4
  <2>. QED
    BY <2>1
<1>5. \A n \in Nat : n \in T
  <2>. HIDE DEF T
  <2>. QED
    BY <1>3, <1>4, SetInduction
<1>6. ASSUME NEW j \in 1..Len(s), i < j PROVE s[i].end <= s[j].start
  <2>1. j - i - 1 \in Nat /\ i + (j - i - 1) + 1 = j
    BY <1>6
  <2>2. j - i - 1 \in T
    BY <1>5, <2>1
  <2>. QED
    BY <2>1, <2>2
<1>. QED
  BY <1>6

\* Every address is in a block.
LEMMA AddressHeld ==
  ASSUME NEW s, NEW e, TiledTo(s, e), NEW a \in Nat, a < e
  PROVE  \E i \in 1..Len(s) : Holds(s[i], a)
<1>1. /\ Len(s) \in Nat /\ Len(s) > 0
      /\ \A i \in 1..Len(s) : s[i].start \in Nat /\ s[i].end \in Nat
  BY LayoutNumbers DEF TiledTo
<1>. DEFINE T == {i \in 1..Len(s) : a < s[i].end}
<1>2. T \subseteq Nat /\ T # {}
  BY <1>1 DEF TiledTo
<1>3. PICK i \in T : \A j \in T : i <= j
  <2>. HIDE DEF T
  <2>. QED
    BY <1>2, LeastElement
<1>4. CASE i = 1
  BY <1>1, <1>3, <1>4 DEF TiledTo, Holds
<1>5. CASE i # 1
  <2>1. i - 1 \in 1..(Len(s) - 1) /\ i - 1 \in 1..Len(s) /\ (i - 1) + 1 = i
    BY <1>1, <1>5
  <2>2. s[i - 1].end = s[i].start /\ ~(a < s[i - 1].end)
    BY <1>3, <2>1 DEF TiledTo
  <2>. QED
    BY <1>1, <1>3, <2>1, <2>2 DEF Holds
<1>. QED
  BY <1>4, <1>5

\* An address is in one block only.
LEMMA AddressHeldOnce ==
  ASSUME NEW s, NEW e, TiledTo(s, e), NEW a \in Nat,
         NEW i \in 1..Len(s), NEW j \in 1..Len(s), Holds(s[i], a), Holds(s[j], a)
  PROVE  i = j
<1>1. /\ Len(s) \in Nat
      /\ \A k \in 1..Len(s) : s[k].start \in Nat /\ s[k].end \in Nat
  BY LayoutNumbers
<1>2. ~(i < j) /\ ~(j < i)
  BY <1>1, BlocksInOrder DEF Holds
<1>. QED
  BY <1>1, <1>2

-----------------------------------------------------------------------------
(* Placing a block.                                                        *)

\* t is s with its block i replaced by mine and, unless mine fills it, rest.
IsPut(s, t, i, mine, rest) ==
  /\ t \in Seq(Blocks)
  /\ mine.start = s[i].start /\ mine.end = rest.start /\ rest.end = s[i].end
  /\ mine.start < mine.end
  /\ \/ /\ rest.start = rest.end
        /\ Len(t) = Len(s)
        /\ \A j \in 1..Len(s) : t[j] = IF j = i THEN mine ELSE s[j]
     \/ /\ rest.start < rest.end
        /\ Len(t) = Len(s) + 1
        /\ \A j \in 1..(Len(s) + 1) :
             t[j] = IF j = i THEN mine ELSE IF j = i + 1 THEN rest
                    ELSE IF j < i THEN s[j] ELSE s[j - 1]

\* What Put makes of the layout, index by index.
LEMMA PutIndexed ==
  ASSUME NEW p \in Tasks, NEW n \in Nat, NEW i \in 1..Len(memoryBlocks),
         TiledTo(memoryBlocks, RAM), n > 0, HasRoom(memoryBlocks[i], n)
  PROVE  /\ IsPut(memoryBlocks, Put(i, n, p), i,
                  Block(memoryBlocks[i].start, memoryBlocks[i].start + n, p),
                  Block(memoryBlocks[i].start + n, memoryBlocks[i].end, Free))
         /\ Block(memoryBlocks[i].start, memoryBlocks[i].start + n, p) \in Blocks
         /\ Block(memoryBlocks[i].start + n, memoryBlocks[i].end, Free) \in Blocks
<1>. DEFINE s == memoryBlocks
            mine == Block(s[i].start, s[i].start + n, p)
            rest == Block(s[i].start + n, s[i].end, Free)
            u == ReplaceAt(s, i, mine)
            t == Put(i, n, p)
<1>0. s[i].start \in 0..RAM /\ s[i].end \in 0..RAM /\ RAM \in Nat
  BY BlocksWithin, RAMIsPositive
<1>1. /\ Len(s) \in Nat /\ s \in Seq(Blocks) /\ DOMAIN s = 1..Len(s)
      /\ i \in 1..Len(s)
      /\ s[i].start + n <= s[i].end
  BY <1>0 DEF TiledTo, HasRoom, SizeOf
<1>2. /\ mine \in Blocks /\ rest \in Blocks
      /\ mine.start = s[i].start /\ mine.end = rest.start /\ rest.end = s[i].end
      /\ mine.start < mine.end /\ rest.start = s[i].start + n
  BY <1>0, <1>1 DEF Block, Blocks
<1>3. CASE SizeOf(s[i]) = n
  <2>1. t = u
    BY <1>3 DEF Put
  <2>2. rest.start = rest.end
    BY <1>0, <1>2, <1>3 DEF SizeOf
  <2>. HIDE DEF mine, rest
  <2>3. /\ u \in Seq(Blocks) /\ Len(u) = Len(s)
        /\ \A j \in 1..Len(s) : u[j] = IF j = i THEN mine ELSE s[j]
    <3>. HIDE DEF s
    <3>. QED
      BY <1>1, <1>2 DEF ReplaceAt
  <2>4. IsPut(s, t, i, mine, rest)
    <3>. HIDE DEF u, t, s
    <3>. QED
      BY <1>2, <2>1, <2>2, <2>3 DEF IsPut
  <2>. QED
    BY <1>2, <2>4 DEF mine, rest
<1>4. CASE SizeOf(s[i]) # n
  <2>1. t = InsertAt(u, i + 1, rest)
    BY <1>4 DEF Put
  <2>2. rest.start < rest.end
    BY <1>0, <1>1, <1>2, <1>4 DEF SizeOf
  <2>. HIDE DEF mine, rest
  <2>3. /\ u \in Seq(Blocks) /\ Len(u) = Len(s)
        /\ \A j \in 1..Len(s) : u[j] = IF j = i THEN mine ELSE s[j]
    <3>. HIDE DEF s
    <3>. QED
      BY <1>1, <1>2 DEF ReplaceAt
  <2>. HIDE DEF u
  <2>4. /\ t \in Seq(Blocks) /\ Len(t) = Len(s) + 1
        /\ \A j \in 1..(Len(s) + 1) :
             t[j] = IF j < i + 1 THEN u[j] ELSE IF j = i + 1 THEN rest ELSE u[j - 1]
    <3>1. i + 1 \in 1..(Len(u) + 1)
      BY <1>1, <2>3
    <3>2. IsInsertion(Blocks, u, i + 1, rest, t)
      BY <1>2, <2>1, <2>3, <3>1, Inserted
    <3>. HIDE DEF s, t
    <3>. QED
      BY <2>3, <3>2 DEF IsInsertion
  <2>. HIDE DEF s, t
  <2>5. ASSUME NEW j \in 1..(Len(s) + 1)
        PROVE  t[j] = IF j = i THEN mine ELSE IF j = i + 1 THEN rest
                      ELSE IF j < i THEN s[j] ELSE s[j - 1]
    <3>1. j \in Nat /\ i \in Nat /\ i \in 1..Len(s)
      BY <1>1 DEF s
    <3>2. CASE j < i + 1
      <4>1. j \in 1..Len(s)
        BY <3>1, <3>2
      <4>. QED
        BY <2>3, <2>4, <3>1, <3>2, <4>1
    <3>3. CASE j = i + 1
      BY <2>4, <3>1, <3>3
    <3>4. CASE j > i + 1
      <4>1. j - 1 \in 1..Len(s) /\ j - 1 # i
        BY <3>1, <3>4, <1>1
      <4>2. t[j] = u[j - 1]
        BY <2>4, <3>1, <3>4
      <4>3. u[j - 1] = s[j - 1]
        BY <2>3, <4>1
      <4>. QED
        BY <3>1, <3>4, <4>2, <4>3
    <3>. QED
      BY <3>1, <3>2, <3>3, <3>4
  <2>6. IsPut(s, t, i, mine, rest)
    BY <1>2, <2>2, <2>4, <2>5 DEF IsPut
  <2>. QED
    BY <1>2, <2>6 DEF mine, rest, s, t
<1>. QED
  BY <1>3, <1>4

\* A task without a block is given the first part of a free block.
LEMMA PutKeeps ==
  ASSUME NEW s, NEW t, NEW i \in 1..Len(s), NEW mine \in Blocks, NEW rest \in Blocks,
         TiledTo(s, RAM), Apart(s), OneEach(s), s[i].pid = Free,
         IsPut(s, t, i, mine, rest),
         mine.pid # Free, rest.pid = Free, \A j \in 1..Len(s) : s[j].pid # mine.pid
  PROVE  /\ TiledTo(t, RAM) /\ Apart(t) /\ OneEach(t)
         /\ \A b : TaskBlock(b, t) <=> TaskBlock(b, s) \/ b = mine
<1>1. /\ Len(s) \in Nat /\ Len(s) > 0 /\ i \in Nat /\ i \in 1..Len(s)
      /\ t \in Seq(Blocks)
      /\ mine.start = s[i].start /\ mine.end = rest.start /\ rest.end = s[i].end
      /\ mine.start < mine.end
  BY DEF TiledTo, IsPut
<1>2. /\ s[1].start = 0 /\ s[Len(s)].end = RAM
      /\ \A j \in 1..Len(s) : s[j].start < s[j].end
      /\ \A j \in 1..(Len(s) - 1) : s[j].end = s[j + 1].start
  BY DEF TiledTo
<1>3. CASE /\ rest.start = rest.end
           /\ Len(t) = Len(s)
           /\ \A j \in 1..Len(s) : t[j] = IF j = i THEN mine ELSE s[j]
  <2>1. /\ \A j \in 1..Len(s) : t[j].start = s[j].start /\ t[j].end = s[j].end
        /\ \A j \in 1..Len(s) : t[j].pid = IF j = i THEN mine.pid ELSE s[j].pid
        /\ 1 \in 1..Len(s) /\ Len(s) \in 1..Len(s)
        /\ \A j \in 1..(Len(s) - 1) : j \in 1..Len(s) /\ j + 1 \in 1..Len(s)
    BY <1>1, <1>3
  <2>2. TiledTo(t, RAM)
    BY <1>1, <1>2, <1>3, <2>1 DEF TiledTo
  <2>3. Apart(t)
    BY <1>3, <2>1 DEF Apart
  <2>4. OneEach(t)
    BY <1>3, <2>1 DEF OneEach
  <2>5. ASSUME NEW b PROVE TaskBlock(b, t) <=> TaskBlock(b, s) \/ b = mine
    BY <1>3 DEF TaskBlock
  <2>. QED
    BY <2>2, <2>3, <2>4, <2>5
<1>4. CASE /\ rest.start < rest.end
           /\ Len(t) = Len(s) + 1
           /\ \A j \in 1..(Len(s) + 1) :
                t[j] = IF j = i THEN mine ELSE IF j = i + 1 THEN rest
                       ELSE IF j < i THEN s[j] ELSE s[j - 1]
  <2>1. /\ t[i] = mine /\ t[i + 1] = rest
        /\ i \in 1..Len(t) /\ i + 1 \in 1..Len(t)
    BY <1>1, <1>4
  <2>2. \A j \in 1..Len(t) : j < i => j \in 1..Len(s) /\ t[j] = s[j]
    BY <1>1, <1>4
  <2>3. \A j \in 1..Len(t) : j > i + 1 => j - 1 \in 1..Len(s) /\ t[j] = s[j - 1]
    BY <1>1, <1>4
  <2>4. \A j \in 1..Len(t) : j < i \/ j = i \/ j = i + 1 \/ j > i + 1
    BY <1>1, <1>4
  <2>5. ASSUME NEW j \in 1..Len(t) PROVE t[j].start < t[j].end
    BY <1>1, <1>2, <1>4, <2>1, <2>2, <2>3, <2>4
  <2>6. ASSUME NEW j \in 1..(Len(t) - 1) PROVE t[j].end = t[j + 1].start
    <3>1. j \in 1..Len(t) /\ j + 1 \in 1..Len(t)
      BY <1>1, <1>4
    <3>2. CASE j + 1 < i
      <4>1. j \in 1..(Len(s) - 1)
        BY <1>1, <3>2
      <4>. QED
        BY <1>1, <1>2, <2>2, <3>1, <3>2, <4>1
    <3>3. CASE j + 1 = i
      <4>1. j \in 1..(Len(s) - 1) /\ j < i
        BY <1>1, <3>3
      <4>. QED
        BY <1>1, <1>2, <2>1, <2>2, <3>1, <3>3, <4>1
    <3>4. CASE j = i
      BY <1>1, <2>1, <3>4
    <3>5. CASE j = i + 1
      <4>1. i \in 1..(Len(s) - 1) /\ j + 1 > i + 1 /\ (j + 1) - 1 = i + 1
        BY <1>1, <1>4, <3>5
      <4>. QED
        BY <1>1, <1>2, <2>1, <2>3, <3>1, <3>5, <4>1
    <3>6. CASE j > i + 1
      <4>1. j - 1 \in 1..(Len(s) - 1) /\ (j - 1) + 1 = (j + 1) - 1 /\ j + 1 > i + 1
        BY <1>1, <1>4, <3>6
      <4>2. t[j] = s[j - 1] /\ t[j + 1] = s[(j - 1) + 1]
        BY <2>3, <3>1, <3>6, <4>1
      <4>. QED
        BY <1>2, <4>1, <4>2
    <3>. QED
      BY <1>1, <3>1, <3>2, <3>3, <3>4, <3>5, <3>6
  <2>7. t[1].start = 0
    <3>1. 1 \in 1..Len(t)
      BY <1>1, <1>4
    <3>2. CASE i = 1
      BY <1>1, <1>2, <2>1, <3>2
    <3>3. CASE i # 1
      BY <1>1, <1>2, <2>2, <3>1, <3>3
    <3>. QED
      BY <3>2, <3>3
  <2>8. t[Len(t)].end = RAM
    <3>1. Len(t) \in 1..Len(t) /\ Len(t) - 1 = Len(s)
      BY <1>1, <1>4
    <3>2. CASE i = Len(s)
      <4>1. t[Len(t)] = rest /\ rest.end = s[Len(s)].end
        BY <1>1, <1>4, <2>1, <3>2
      <4>. QED
        BY <1>2, <4>1
    <3>3. CASE i # Len(s)
      <4>1. Len(t) > i + 1
        BY <1>1, <1>4, <3>3
      <4>2. t[Len(t)] = s[Len(s)]
        BY <2>3, <3>1, <4>1
      <4>. QED
        BY <1>2, <4>2
    <3>. QED
      BY <3>2, <3>3
  <2>9. TiledTo(t, RAM)
    <3>1. t # <<>>
      BY <1>1, <1>4
    <3>. QED
      BY <1>1, <2>5, <2>6, <2>7, <2>8, <3>1 DEF TiledTo
  <2>10. ASSUME NEW j \in 1..(Len(t) - 1) PROVE t[j].pid # Free \/ t[j + 1].pid # Free
    <3>1. j \in 1..Len(t) /\ j + 1 \in 1..Len(t)
      BY <1>1, <1>4
    <3>2. CASE j + 1 < i
      <4>1. j \in 1..(Len(s) - 1)
        BY <1>1, <3>2
      <4>. QED
        BY <1>1, <2>2, <3>1, <3>2, <4>1 DEF Apart
    <3>3. CASE j + 1 = i \/ j = i
      BY <2>1, <3>3
    <3>4. CASE j = i + 1
      <4>1. i \in 1..(Len(s) - 1) /\ j + 1 > i + 1 /\ (j + 1) - 1 = i + 1
        BY <1>1, <1>4, <3>4
      <4>2. t[j + 1] = s[i + 1]
        BY <2>3, <3>1, <4>1
      <4>. QED
        BY <4>1, <4>2 DEF Apart
    <3>5. CASE j > i + 1
      <4>1. j - 1 \in 1..(Len(s) - 1) /\ (j - 1) + 1 = (j + 1) - 1 /\ j + 1 > i + 1
        BY <1>1, <1>4, <3>5
      <4>2. t[j] = s[j - 1] /\ t[j + 1] = s[(j - 1) + 1]
        BY <2>3, <3>1, <3>5, <4>1
      <4>. QED
        BY <4>1, <4>2 DEF Apart
    <3>. QED
      BY <1>1, <3>1, <3>2, <3>3, <3>4, <3>5
  <2>. DEFINE old(j) == IF j < i THEN j ELSE j - 1
  <2>11. \A j \in 1..Len(t) :
           t[j].pid # Free /\ j # i => /\ old(j) \in 1..Len(s) /\ t[j] = s[old(j)]
                                       /\ t[j].pid # mine.pid
    BY <1>1, <2>1, <2>2, <2>3, <2>4
  <2>12. OneEach(t)
    <3>1. ASSUME NEW j \in 1..Len(t), NEW k \in 1..Len(t), t[j].pid = t[k].pid, t[j].pid # Free
          PROVE  j = k
      <4>1. j = i <=> k = i
        BY <2>1, <2>11, <3>1
      <4>2. CASE j # i
        <5>1. j \in Nat /\ k \in Nat /\ j # i + 1 /\ k # i + 1
          BY <2>1, <3>1
        <5>2. old(j) = old(k)
          BY <2>11, <3>1, <4>1, <4>2 DEF OneEach
        <5>. QED
          BY <1>1, <4>1, <4>2, <5>1, <5>2
      <4>. QED
        BY <4>1, <4>2
    <3>. QED
      BY <3>1 DEF OneEach
  <2>13. ASSUME NEW b PROVE TaskBlock(b, t) <=> TaskBlock(b, s) \/ b = mine
    <3>1. ASSUME TaskBlock(b, t) PROVE TaskBlock(b, s) \/ b = mine
      <4>1. PICK j \in 1..Len(t) : t[j] = b
        BY <3>1 DEF TaskBlock
      <4>. QED
        BY <2>1, <2>11, <3>1, <4>1 DEF TaskBlock
    <3>2. ASSUME TaskBlock(b, s) PROVE TaskBlock(b, t)
      <4>1. PICK j \in 1..Len(s) : s[j] = b
        BY <3>2 DEF TaskBlock
      <4>2. j # i
        BY <3>2, <4>1 DEF TaskBlock
      <4>3. CASE j < i
        BY <1>1, <1>4, <2>2, <3>2, <4>1, <4>3 DEF TaskBlock
      <4>4. CASE j > i
        <5>1. j + 1 \in 1..Len(t) /\ j + 1 > i + 1 /\ (j + 1) - 1 = j
          BY <1>1, <1>4, <4>4
        <5>. QED
          BY <2>3, <3>2, <4>1, <5>1 DEF TaskBlock
      <4>. QED
        BY <1>1, <4>2, <4>3, <4>4
    <3>3. ASSUME b = mine PROVE TaskBlock(b, t)
      BY <2>1, <3>3 DEF TaskBlock
    <3>. QED
      BY <3>1, <3>2, <3>3
  <2>14. Apart(t)
    BY <2>10 DEF Apart
  <2>. QED
    BY <2>9, <2>12, <2>13, <2>14
<1>. QED
  BY <1>3, <1>4 DEF IsPut

-----------------------------------------------------------------------------
(* Merging the free blocks.                                                *)

\* Merge goes through the layout from left to right.
LEMMA MergeRuns ==
  ASSUME NEW bs \in Seq(Blocks),
         \A done \in Seq(Blocks), b \in Blocks : MergeStep(done, b) \in Seq(Blocks)
  PROVE  \E h \in [0..Len(bs) -> Seq(Blocks)] :
           /\ h[0] = <<>>
           /\ \A i \in 1..Len(bs) : h[i] = MergeStep(h[i - 1], bs[i])
           /\ Merge(bs) = h[Len(bs)]
<1>. DEFINE X == Seq(Blocks)
            D == SUBSET DOMAIN bs
            P(g) == g = [d \in D |-> IF d = {} THEN <<>>
                                     ELSE MergeStep(g[d \ {Max(d)}], bs[Max(d)])]
            iter == CHOOSE g : P(g)
<1>1. PICK F \in [X \X Blocks -> X] : \A x \in X, b \in Blocks : F[<<x, b>>] = MergeStep(x, b)
  <2>. DEFINE F == [z \in X \X Blocks |-> MergeStep(z[1], z[2])]
  <2>1. F \in [X \X Blocks -> X] /\ \A x \in X, b \in Blocks : F[<<x, b>>] = MergeStep(x, b)
    OBVIOUS
  <2>. HIDE DEF F
  <2>. QED
    BY <2>1
<1>2. <<>> \in X /\ Len(bs) \in Nat /\ DOMAIN bs = 1..Len(bs)
  OBVIOUS
<1>3. \A d \in D \ {{}} : Max(d) \in DOMAIN bs /\ bs[Max(d)] \in Blocks /\ d \ {Max(d)} \in D
  <2>1. ASSUME NEW d \in D \ {{}}
        PROVE  Max(d) \in DOMAIN bs /\ bs[Max(d)] \in Blocks /\ d \ {Max(d)} \in D
    <3>1. Max(d) \in d
      BY <1>2, MaxOfSubset
    <3>2. Max(d) \in 1..Len(bs)
      BY <1>2, <3>1
    <3>. HIDE DEF Max
    <3>. QED
      BY <1>2, <3>2
  <2>. HIDE DEF D
  <2>. QED
    BY <2>1
<1>4. \E g : P(g)
  <2>1. HasFoldLeft(X, <<>>, F, bs)
    <3>. HIDE DEF X
    <3>. QED
      BY <1>2, FoldLeftExists
  <2>2. PICK g \in [D -> X] : /\ g[{}] = <<>>
           /\ \A d \in D \ {{}} : g[d] = F[<<g[d \ {Max(d)}], bs[Max(d)]>>]
    BY <2>1 DEF HasFoldLeft
  <2>3. \A d \in D \ {{}} : g[d] = MergeStep(g[d \ {Max(d)}], bs[Max(d)])
    <3>. HIDE DEF X, D
    <3>. QED
      BY <1>1, <1>3, <2>2
  <2>. QED
    <3>. HIDE DEF X
    <3>. QED
      BY <2>2, <2>3
<1>5. P(iter)
  <2>. HIDE DEF P
  <2>. QED
    BY <1>4
<1>6. Merge(bs) = iter[DOMAIN bs]
  BY DEF Merge, FoldLeft, MapThenFoldSet
<1>7. /\ iter[{}] = <<>>
      /\ \A d \in D \ {{}} : iter[d] = MergeStep(iter[d \ {Max(d)}], bs[Max(d)])
  <2>. HIDE DEF iter
  <2>. QED
    BY <1>5
<1>8. RunsTo(X, <<>>, F, bs, iter[DOMAIN bs])
  <2>1. \A d \in SUBSET DOMAIN bs : d # {} /\ iter[d \ {Max(d)}] \in X =>
          iter[d] = F[<<iter[d \ {Max(d)}], bs[Max(d)]>>]
    <3>. HIDE DEF X, iter
    <3>. QED
      BY <1>1, <1>3, <1>7
  <2>. HIDE DEF X, iter
  <2>. QED
    BY <1>2, <1>7, <2>1, FoldLeftRuns
<1>. HIDE DEF X, D, iter
<1>9. PICK h \in [0..Len(bs) -> X] :
            /\ h[0] = <<>>
            /\ \A i \in 1..Len(bs) : h[i] = F[<<h[i - 1], bs[i]>>]
            /\ iter[DOMAIN bs] = h[Len(bs)]
  BY <1>8 DEF RunsTo
<1>10. \A i \in 1..Len(bs) : h[i] = MergeStep(h[i - 1], bs[i])
  <2>1. \A i \in 1..Len(bs) : i - 1 \in 0..Len(bs) /\ bs[i] \in Blocks
    BY <1>2
  <2>. QED
    BY <1>1, <1>9, <2>1
<1>. QED
  BY <1>6, <1>9, <1>10 DEF X

\* done is what Merge makes of the first k blocks of bs.
Merged(bs, done, k) ==
  /\ TiledTo(done, bs[k].end) /\ Apart(done) /\ OneEach(done)
  /\ \A b : TaskBlock(b, done) <=> b.pid # Free /\ \E j \in 1..k : bs[j] = b

\* A block is either entered behind the last one or swallowed by it.
LEMMA MergeStepCases ==
  ASSUME NEW done \in Seq(Blocks), NEW b \in Blocks
  PROVE  \/ /\ done # <<>> /\ done[Len(done)].pid = Free /\ b.pid = Free
            /\ Len(MergeStep(done, b)) = Len(done)
            /\ \A j \in 1..Len(done) :
                 MergeStep(done, b)[j] =
                   IF j = Len(done) THEN Block(done[j].start, b.end, Free) ELSE done[j]
            /\ MergeStep(done, b) \in Seq(Blocks)
         \/ /\ done = <<>> \/ done[Len(done)].pid # Free \/ b.pid # Free
            /\ Len(MergeStep(done, b)) = Len(done) + 1
            /\ \A j \in 1..Len(done) : MergeStep(done, b)[j] = done[j]
            /\ MergeStep(done, b)[Len(done) + 1] = b
            /\ MergeStep(done, b) \in Seq(Blocks)
<1>. DEFINE n == Len(done)
            x == [done[n] EXCEPT !.end = b.end]
<1>1. n \in Nat
  OBVIOUS
<1>2. CASE done # <<>> /\ done[n].pid = Free /\ b.pid = Free
  <2>1. n \in 1..n /\ done[n] \in Blocks
    BY <1>1, <1>2
  <2>2. x = Block(done[n].start, b.end, Free) /\ x \in Blocks
    BY <1>2, <2>1 DEF Blocks, Block
  <2>3. MergeStep(done, b) = [done EXCEPT ![n] = x]
    BY <1>2 DEF MergeStep, ReplaceAt, Last, IsFree
  <2>. HIDE DEF x
  <2>4. /\ Len(MergeStep(done, b)) = n
        /\ \A j \in 1..n : MergeStep(done, b)[j] = IF j = n THEN x ELSE done[j]
        /\ MergeStep(done, b) \in Seq(Blocks)
    BY <1>1, <2>1, <2>2, <2>3
  <2>. QED
    BY <1>2, <2>2, <2>4
<1>3. CASE ~(done # <<>> /\ done[n].pid = Free /\ b.pid = Free)
  <2>1. MergeStep(done, b) = Append(done, b)
    BY <1>3 DEF MergeStep, Last, IsFree
  <2>. QED
    BY <1>3, <2>1, AppendProperties
<1>. QED
  BY <1>2, <1>3

\* One more block is merged.
LEMMA MergeStepKeeps ==
  ASSUME NEW bs, TiledTo(bs, RAM), OneEach(bs), NEW k \in 1..(Len(bs) - 1),
         NEW done, Merged(bs, done, k)
  PROVE  Merged(bs, MergeStep(done, bs[k + 1]), k + 1)
<1>. DEFINE b == bs[k + 1]
            t == MergeStep(done, b)
            n == Len(done)
<1>1. /\ Len(bs) \in Nat /\ k \in 1..Len(bs) /\ k + 1 \in 1..Len(bs)
      /\ b \in Blocks /\ b.start < b.end /\ b.start \in Nat /\ b.end \in Nat
      /\ bs[k].end = b.start
  <2>1. Len(bs) \in Nat
    BY DEF TiledTo
  <2>2. k \in 1..Len(bs) /\ k + 1 \in 1..Len(bs)
    BY <2>1
  <2>. QED
    BY <2>1, <2>2, BlocksWithin DEF TiledTo
<1>2. /\ done \in Seq(Blocks) /\ n \in Nat /\ n \in 1..n
      /\ done[1].start = 0 /\ done[n].end = b.start
      /\ \A i \in 1..n : done[i].start < done[i].end
      /\ \A i \in 1..n : done[i].start \in Nat /\ done[i].end \in Nat
      /\ \A i \in 1..(n - 1) : done[i].end = done[i + 1].start
  <2>1. TiledTo(done, bs[k].end)
    BY DEF Merged
  <2>2. \A i \in 1..n : done[i].start \in Nat /\ done[i].end \in Nat
    BY <2>1, BlocksWithin
  <2>3. n \in Nat /\ n # 0
    BY <2>1 DEF TiledTo
  <2>4. n \in 1..n
    BY <2>3
  <2>5. done \in Seq(Blocks) /\ done[1].start = 0 /\ done[n].end = b.start
    BY <1>1, <2>1 DEF TiledTo
  <2>. QED
    BY <2>1, <2>2, <2>3, <2>4, <2>5 DEF TiledTo
<1>3. /\ Apart(done) /\ OneEach(done)
      /\ \A x : TaskBlock(x, done) <=> x.pid # Free /\ \E j \in 1..k : bs[j] = x
  BY DEF Merged
<1>. HIDE DEF t, b
<1>4. CASE /\ done[n].pid = Free /\ b.pid = Free
           /\ Len(t) = n /\ t \in Seq(Blocks)
           /\ \A j \in 1..n :
                t[j] = IF j = n THEN Block(done[j].start, b.end, Free) ELSE done[j]
  <2>1. /\ t[n].start = done[n].start /\ t[n].end = b.end /\ t[n].pid = Free
        /\ \A j \in 1..n : j # n => t[j] = done[j]
        /\ \A j \in 1..n : t[j].start = done[j].start /\ t[j].pid = done[j].pid
        /\ \A j \in 1..(n - 1) : j \in 1..n /\ j + 1 \in 1..n /\ j # n
    <3>1. t[n] = Block(done[n].start, b.end, Free)
      BY <1>2, <1>4
    <3>2. t[n].start = done[n].start /\ t[n].end = b.end /\ t[n].pid = Free
      BY <3>1 DEF Block
    <3>3. \A j \in 1..n : j # n => t[j] = done[j]
      BY <1>4
    <3>4. \A j \in 1..(n - 1) : j \in 1..n /\ j + 1 \in 1..n /\ j # n
      BY <1>2
    <3>. QED
      BY <1>4, <3>2, <3>3, <3>4
  <2>2. ASSUME NEW j \in 1..n PROVE t[j].start < t[j].end
    <3>1. CASE j = n
      BY <1>1, <1>2, <2>1, <3>1
    <3>2. CASE j # n
      BY <1>2, <2>1, <3>2
    <3>. QED
      BY <3>1, <3>2
  <2>3. TiledTo(t, b.end)
    <3>1. t # <<>> /\ 1 \in 1..n
      BY <1>2, <1>4
    <3>2. \A j \in 1..(n - 1) : t[j].end = t[j + 1].start
      BY <1>2, <2>1
    <3>. QED
      BY <1>2, <1>4, <2>1, <2>2, <3>1, <3>2 DEF TiledTo
  <2>4. Apart(t)
    BY <1>3, <1>4, <2>1 DEF Apart
  <2>5. OneEach(t)
    BY <1>3, <1>4, <2>1 DEF OneEach
  <2>6. ASSUME NEW x PROVE TaskBlock(x, t) <=> x.pid # Free /\ \E j \in 1..(k + 1) : bs[j] = x
    <3>1. TaskBlock(x, t) <=> TaskBlock(x, done)
      BY <1>4, <2>1 DEF TaskBlock
    <3>2. x.pid # Free => ((\E j \in 1..(k + 1) : bs[j] = x) <=> \E j \in 1..k : bs[j] = x)
      BY <1>1, <1>4 DEF b
    <3>. QED
      BY <1>3, <3>1, <3>2 DEF TaskBlock
  <2>. QED
    BY <2>3, <2>4, <2>5, <2>6 DEF Merged, b, t
<1>5. CASE /\ done[n].pid # Free \/ b.pid # Free
           /\ Len(t) = n + 1 /\ t \in Seq(Blocks)
           /\ \A j \in 1..n : t[j] = done[j]
           /\ t[n + 1] = b
  <2>1. \A j \in 1..(n + 1) : j \in 1..n \/ j = n + 1
    BY <1>2
  <2>2. TiledTo(t, b.end)
    <3>1. t # <<>> /\ 1 \in 1..n
      BY <1>2, <1>5
    <3>2. \A j \in 1..(n + 1) : t[j].start < t[j].end
      BY <1>1, <1>2, <1>5, <2>1
    <3>3. ASSUME NEW j \in 1..n PROVE t[j].end = t[j + 1].start
      <4>1. CASE j = n
        BY <1>2, <1>5, <4>1
      <4>2. CASE j # n
        <5>1. j \in 1..(n - 1) /\ j + 1 \in 1..n
          BY <1>2, <4>2
        <5>. QED
          BY <1>2, <1>5, <5>1
      <4>. QED
        BY <4>1, <4>2
    <3>4. (n + 1) - 1 = n
      BY <1>2
    <3>. QED
      BY <1>2, <1>5, <3>1, <3>2, <3>3, <3>4 DEF TiledTo
  <2>3. Apart(t)
    <3>1. ASSUME NEW j \in 1..n PROVE t[j].pid # Free \/ t[j + 1].pid # Free
      <4>1. CASE j = n
        BY <1>2, <1>5, <4>1
      <4>2. CASE j # n
        <5>1. j \in 1..(n - 1) /\ j + 1 \in 1..n
          BY <1>2, <4>2
        <5>. QED
          BY <1>3, <1>5, <5>1 DEF Apart
      <4>. QED
        BY <4>1, <4>2
    <3>2. (n + 1) - 1 = n
      BY <1>2
    <3>. QED
      BY <1>5, <3>1, <3>2 DEF Apart
  <2>4. ASSUME NEW i \in 1..n, done[i].pid # Free PROVE done[i].pid # b.pid
    <3>1. PICK j \in 1..k : bs[j] = done[i]
      BY <1>3, <2>4 DEF TaskBlock
    <3>2. j \in 1..Len(bs) /\ j # k + 1
      BY <1>1
    <3>. QED
      BY <1>1, <2>4, <3>1, <3>2 DEF OneEach, b
  <2>5. OneEach(t)
    <3>1. ASSUME NEW i \in 1..(n + 1), NEW j \in 1..(n + 1), t[i].pid = t[j].pid, t[i].pid # Free
          PROVE  i = j
      BY <1>3, <1>5, <2>1, <2>4, <3>1 DEF OneEach
    <3>. QED
      BY <1>5, <3>1 DEF OneEach
  <2>6. ASSUME NEW x PROVE TaskBlock(x, t) <=> x.pid # Free /\ \E j \in 1..(k + 1) : bs[j] = x
    <3>1. TaskBlock(x, t) <=> x.pid # Free /\ (TaskBlock(x, done) \/ x = b)
      BY <1>2, <1>5, <2>1 DEF TaskBlock
    <3>2. (\E j \in 1..(k + 1) : bs[j] = x) <=> (x = b \/ \E j \in 1..k : bs[j] = x)
      BY <1>1 DEF b
    <3>. QED
      BY <1>3, <3>1, <3>2
  <2>. QED
    BY <2>2, <2>3, <2>5, <2>6 DEF Merged, b, t
<1>. QED
  <2>1. done # <<>>
    BY <1>2
  <2>. QED
    BY <1>1, <1>2, <1>4, <1>5, <2>1, MergeStepCases DEF t

\* Merging keeps the blocks of the tasks and leaves no free neighbours.
LEMMA MergeKeeps ==
  ASSUME NEW bs, TiledTo(bs, RAM), OneEach(bs)
  PROVE  /\ TiledTo(Merge(bs), RAM) /\ Apart(Merge(bs)) /\ OneEach(Merge(bs))
         /\ \A b : TaskBlock(b, Merge(bs)) <=> TaskBlock(b, bs)
<1>1. /\ bs \in Seq(Blocks) /\ Len(bs) \in Nat /\ Len(bs) > 0
      /\ bs[1].start = 0 /\ bs[Len(bs)].end = RAM
      /\ \A i \in 1..Len(bs) : bs[i] \in Blocks /\ bs[i].start < bs[i].end
  BY DEF TiledTo
<1>2. \A done \in Seq(Blocks), b \in Blocks : MergeStep(done, b) \in Seq(Blocks)
  BY MergeStepCases
<1>3. PICK h \in [0..Len(bs) -> Seq(Blocks)] :
           /\ h[0] = <<>>
           /\ \A i \in 1..Len(bs) : h[i] = MergeStep(h[i - 1], bs[i])
           /\ Merge(bs) = h[Len(bs)]
  BY <1>1, <1>2, MergeRuns
<1>. DEFINE T == {n \in Nat : n + 1 <= Len(bs) => Merged(bs, h[n + 1], n + 1)}
<1>4. 0 \in T
  <2>1. h[1] = MergeStep(<<>>, bs[1]) /\ bs[1] \in Blocks
    <3>1. 1 \in 1..Len(bs) /\ 1 - 1 = 0
      BY <1>1
    <3>. QED
      BY <1>1, <1>3, <3>1
  <2>2. h[1] = <<bs[1]>>
    BY <2>1 DEF MergeStep
  <2>3. /\ Len(h[1]) = 1 /\ h[1][1] = bs[1] /\ h[1] # <<>> /\ h[1] \in Seq(Blocks)
    BY <2>1, <2>2
  <2>4. TiledTo(h[1], bs[1].end)
    BY <1>1, <2>3 DEF TiledTo
  <2>5. Apart(h[1]) /\ OneEach(h[1])
    BY <2>3 DEF Apart, OneEach
  <2>6. \A b : TaskBlock(b, h[1]) <=> b.pid # Free /\ \E j \in 1..1 : bs[j] = b
    BY <2>3 DEF TaskBlock
  <2>7. Merged(bs, h[1], 1)
    BY <2>4, <2>5, <2>6 DEF Merged
  <2>. QED
    BY <2>7
<1>5. ASSUME NEW n \in Nat, n \in T PROVE n + 1 \in T
  <2>1. CASE n + 2 <= Len(bs)
    <3>1. n + 1 \in 1..(Len(bs) - 1) /\ (n + 1) + 1 \in 1..Len(bs) /\ ((n + 1) + 1) - 1 = n + 1
      BY <1>1, <2>1
    <3>2. Merged(bs, h[n + 1], n + 1)
      BY <1>1, <1>5, <2>1
    <3>3. h[(n + 1) + 1] = MergeStep(h[n + 1], bs[(n + 1) + 1])
      BY <1>3, <3>1
    <3>4. Merged(bs, h[(n + 1) + 1], (n + 1) + 1)
      BY <3>1, <3>2, <3>3, MergeStepKeeps
    <3>. QED
      BY <3>4
  <2>2. CASE ~(n + 2 <= Len(bs))
    BY <1>1, <2>2
  <2>. QED
    BY <2>1, <2>2
<1>6. \A n \in Nat : n \in T
  <2>. HIDE DEF T
  <2>. QED
    BY <1>4, <1>5, SetInduction
<1>7. Merged(bs, Merge(bs), Len(bs))
  <2>1. Len(bs) - 1 \in Nat /\ (Len(bs) - 1) + 1 = Len(bs)
    BY <1>1
  <2>2. Merged(bs, h[Len(bs)], Len(bs))
    <3>1. Len(bs) - 1 \in T
      BY <1>6, <2>1
    <3>. QED
      BY <1>1, <2>1, <3>1
  <2>. QED
    BY <1>3, <2>2
<1>. QED
  BY <1>1, <1>7 DEF Merged, TaskBlock

\* A layout in which the blocks of p are free.
Freed(s, p) == [i \in DOMAIN s |-> IF s[i].pid = p THEN [s[i] EXCEPT !.pid = Free] ELSE s[i]]

\* Freeing keeps the blocks of the other tasks.
LEMMA FreedKeeps ==
  ASSUME NEW s, TiledTo(s, RAM), OneEach(s), NEW p \in Tasks
  PROVE  /\ TiledTo(Freed(s, p), RAM) /\ OneEach(Freed(s, p))
         /\ \A b : TaskBlock(b, Freed(s, p)) <=> TaskBlock(b, s) /\ b.pid # p
<1>. DEFINE t == Freed(s, p)
<1>1. /\ s \in Seq(Blocks) /\ Len(s) \in Nat /\ Len(s) > 0 /\ DOMAIN s = 1..Len(s)
      /\ \A i \in 1..Len(s) : s[i] \in Blocks
  BY DEF TiledTo
<1>2. \A i \in 1..Len(s) :
        /\ t[i] \in Blocks
        /\ t[i].start = s[i].start /\ t[i].end = s[i].end
        /\ s[i].pid = p => t[i].pid = Free
        /\ s[i].pid # p => t[i] = s[i]
  BY <1>1 DEF Freed, Blocks
<1>3. t \in Seq(Blocks) /\ Len(t) = Len(s) /\ t # <<>>
  <2>1. t \in [1..Len(s) -> Blocks]
    BY <1>1, <1>2 DEF Freed
  <2>. QED
    BY <1>1, <2>1
<1>. HIDE DEF t
<1>4. TiledTo(t, RAM)
  BY <1>1, <1>2, <1>3 DEF TiledTo
<1>5. OneEach(t)
  BY <1>2, <1>3 DEF OneEach
<1>6. \A b : TaskBlock(b, t) <=> TaskBlock(b, s) /\ b.pid # p
  BY <1>2, <1>3 DEF TaskBlock
<1>. QED
  BY <1>4, <1>5, <1>6 DEF t

-----------------------------------------------------------------------------
(* The layout stays sound.                                                 *)

\* Each task that was given RAM has one block, of the size it asked for, and
\* nobody else has one.
BlocksOfTasks ==
  \A p \in Tasks :
    IF phase[p] \in {"placed", "live"}
      THEN \E i \in 1..Len(memoryBlocks) :
             memoryBlocks[i].pid = p /\ SizeOf(memoryBlocks[i]) = demand[p]["ram"]
      ELSE \A i \in 1..Len(memoryBlocks) : memoryBlocks[i].pid # p

\* A task asks for what its program needs for as long as it lives.
DemandsOfTasks ==
  \A p \in Tasks : IF phase[p] = "none" THEN demand[p] = NoDemand ELSE demand[p] \in Programs

\* The layout invariant.
LayoutInv ==
  /\ TypeOK
  /\ TiledTo(memoryBlocks, RAM) /\ Apart(memoryBlocks) /\ OneEach(memoryBlocks)
  /\ BlocksOfTasks /\ DemandsOfTasks

\* A program needs some of everything.
LEMMA Demands ==
  ASSUME NEW d \in Programs, NEW r \in Resources
  PROVE  d[r] \in Nat /\ d[r] > 0 /\ NoDemand[r] = 0 /\ Capacity[r] \in Nat /\ Capacity[r] > 0
  BY ResourceAssumption DEF NoDemand

\* What a task asks for is a number of everything.
LEMMA DemandsAreNumbers ==
  ASSUME LayoutInv, NEW p \in Tasks, NEW r \in Resources
  PROVE  /\ demand[p][r] \in Nat
         /\ phase[p] # "none" => demand[p][r] > 0
         /\ available[r] \in Nat /\ available[r] <= Capacity[r]
         /\ Capacity[r] \in Nat /\ Capacity[r] > 0
<1>1. Capacity[r] \in Nat /\ Capacity[r] > 0 /\ NoDemand[r] = 0
  BY ResourceAssumption DEF NoDemand
<1>2. available[r] \in 0..Capacity[r]
  BY DEF LayoutInv, TypeOK
<1>3. CASE phase[p] = "none"
  BY <1>1, <1>2, <1>3 DEF LayoutInv, DemandsOfTasks
<1>4. CASE phase[p] # "none"
  <2>1. demand[p] \in Programs
    BY <1>4 DEF LayoutInv, DemandsOfTasks
  <2>. QED
    BY <1>1, <1>2, <2>1, Demands
<1>. QED
  BY <1>3, <1>4

\* The layout is one free block when the machine boots.
LEMMA LayoutInit == Init => LayoutInv
<1>. SUFFICES ASSUME Init PROVE LayoutInv
  OBVIOUS
<1>1. /\ memoryBlocks = <<Block(0, RAM, Free)>> /\ available = Capacity
      /\ phase = [p \in Tasks |-> "none"] /\ demand = [p \in Tasks |-> NoDemand]
  BY DEF Init, RAM
<1>2. Block(0, RAM, Free) \in Blocks
  BY RAMIsPositive DEF Block, Blocks
<1>3. /\ Len(memoryBlocks) = 1 /\ memoryBlocks[1] = Block(0, RAM, Free)
      /\ memoryBlocks \in Seq(Blocks) /\ memoryBlocks # <<>>
  BY <1>1, <1>2
<1>4. memoryBlocks[1].start = 0 /\ memoryBlocks[1].end = RAM /\ memoryBlocks[1].pid = Free
  BY <1>3 DEF Block
<1>5. TiledTo(memoryBlocks, RAM) /\ Apart(memoryBlocks) /\ OneEach(memoryBlocks)
  BY <1>3, <1>4, RAMIsPositive DEF TiledTo, Apart, OneEach
<1>6. BlocksOfTasks /\ DemandsOfTasks
  BY <1>1, <1>3, <1>4, ResourceAssumption DEF BlocksOfTasks, DemandsOfTasks
<1>7. TypeOK
  <2>1. /\ available \in [Resources -> Int]
        /\ \A r \in Resources : available[r] \in 0..Capacity[r]
    BY <1>1, ResourceAssumption
  <2>. QED
    BY <1>1, <1>3, <2>1 DEF TypeOK, Blocks, RAM
<1>. QED
  BY <1>5, <1>6, <1>7 DEF LayoutInv

\* The steps that only advance the task, or charge and refund it.
LEMMA PhasesKeepLayout ==
  ASSUME LayoutInv, NEW p \in Tasks, UNCHANGED memoryBlocks,
         NEW f \in {"none", "checked", "refused", "placed", "live", "freed"},
         NEW d \in Programs \cup {NoDemand},
         phase' = [phase EXCEPT ![p] = f], demand' = [demand EXCEPT ![p] = d],
         f = "none" <=> d = NoDemand, f = "none" \/ d \in Programs,
         phase[p] \in {"placed", "live"} <=> f \in {"placed", "live"},
         f \in {"placed", "live"} => d = demand[p],
         available' \in [Resources -> Int],
         \A r \in Resources : available'[r] \in 0..Capacity[r]
  PROVE  LayoutInv'
<1>1. TypeOK'
  BY DEF LayoutInv, TypeOK
<1>2. TiledTo(memoryBlocks, RAM)' /\ Apart(memoryBlocks)' /\ OneEach(memoryBlocks)'
  BY DEF LayoutInv, TiledTo, Apart, OneEach
<1>3. \A q \in Tasks : /\ phase'[q] = IF q = p THEN f ELSE phase[q]
                       /\ demand'[q] = IF q = p THEN d ELSE demand[q]
  BY DEF LayoutInv, TypeOK
<1>4. DemandsOfTasks'
  BY <1>3 DEF LayoutInv, DemandsOfTasks
<1>5. BlocksOfTasks'
  BY <1>3 DEF LayoutInv, BlocksOfTasks
<1>. QED
  BY <1>1, <1>2, <1>4, <1>5 DEF LayoutInv

\* The steps that write the layout.
LEMMA LayoutsKeepLayout ==
  ASSUME LayoutInv, NEW p \in Tasks, UNCHANGED <<available, demand>>,
         NEW f \in {"placed", "freed"}, phase[p] # "none",
         phase' = [phase EXCEPT ![p] = f],
         TiledTo(memoryBlocks, RAM)', Apart(memoryBlocks)', OneEach(memoryBlocks)',
         \A b : b.pid # p => (TaskBlock(b, memoryBlocks') <=> TaskBlock(b, memoryBlocks)),
         IF f = "placed"
           THEN \E b : TaskBlock(b, memoryBlocks') /\ b.pid = p /\ SizeOf(b) = demand[p]["ram"]
           ELSE \A b : TaskBlock(b, memoryBlocks') => b.pid # p
  PROVE  LayoutInv'
<1>1. \A q \in Tasks : phase'[q] = IF q = p THEN f ELSE phase[q]
  BY DEF LayoutInv, TypeOK
<1>2. TypeOK'
  <2>1. memoryBlocks' \in Seq(Blocks)
    BY DEF TiledTo
  <2>. QED
    BY <2>1 DEF LayoutInv, TypeOK, Blocks, RAM
<1>3. DemandsOfTasks'
  BY <1>1 DEF LayoutInv, DemandsOfTasks
<1>4. \A q \in Tasks : q # Free
  BY ResourceAssumption
<1>5. ASSUME NEW q \in Tasks
      PROVE  IF phase'[q] \in {"placed", "live"}
               THEN \E i \in 1..Len(memoryBlocks') :
                      memoryBlocks'[i].pid = q /\ SizeOf(memoryBlocks'[i]) = demand'[q]["ram"]
               ELSE \A i \in 1..Len(memoryBlocks') : memoryBlocks'[i].pid # q
  <2>1. CASE q # p
    <3>1. CASE phase[q] \in {"placed", "live"}
      <4>1. PICK i \in 1..Len(memoryBlocks) :
              memoryBlocks[i].pid = q /\ SizeOf(memoryBlocks[i]) = demand[q]["ram"]
        BY <3>1 DEF LayoutInv, BlocksOfTasks
      <4>2. PICK b : b = memoryBlocks[i]
        OBVIOUS
      <4>3. TaskBlock(b, memoryBlocks) /\ b.pid = q /\ SizeOf(b) = demand[q]["ram"]
        BY <1>4, <4>1, <4>2 DEF TaskBlock
      <4>4. TaskBlock(b, memoryBlocks')
        BY <2>1, <4>3
      <4>. QED
        BY <1>1, <2>1, <3>1, <4>3, <4>4 DEF TaskBlock
    <3>2. CASE phase[q] \notin {"placed", "live"}
      <4>1. \A i \in 1..Len(memoryBlocks) : memoryBlocks[i].pid # q
        BY <3>2 DEF LayoutInv, BlocksOfTasks
      <4>2. \A b : b.pid = q => ~TaskBlock(b, memoryBlocks)
        BY <4>1 DEF TaskBlock
      <4>. QED
        BY <1>1, <1>4, <2>1, <3>2, <4>2 DEF TaskBlock
    <3>. QED
      BY <3>1, <3>2
  <2>2. CASE q = p
    BY <1>1, <1>4, <2>2 DEF TaskBlock
  <2>. QED
    BY <2>1, <2>2
<1>6. BlocksOfTasks'
  BY <1>5 DEF BlocksOfTasks
<1>. QED
  BY <1>2, <1>3, <1>6 DEF LayoutInv

\* FirstFit finds the first block with room, or says that there is none.
LEMMA FirstFits ==
  ASSUME NEW n, memoryBlocks \in Seq(Blocks)
  PROVE  \/ FirstFit(n) = 0 /\ \A j \in 1..Len(memoryBlocks) : ~HasRoom(memoryBlocks[j], n)
         \/ /\ FirstFit(n) \in 1..Len(memoryBlocks) /\ HasRoom(memoryBlocks[FirstFit(n)], n)
            /\ FirstFit(n) # 0
            /\ \A j \in 1..Len(memoryBlocks) : HasRoom(memoryBlocks[j], n) => FirstFit(n) <= j
<1>. DEFINE fits == {i \in DOMAIN memoryBlocks : HasRoom(memoryBlocks[i], n)}
<1>1. Len(memoryBlocks) \in Nat /\ DOMAIN memoryBlocks = 1..Len(memoryBlocks)
  OBVIOUS
<1>2. CASE fits = {}
  BY <1>1, <1>2 DEF FirstFit
<1>3. CASE fits # {}
  <2>1. fits \subseteq Nat /\ fits \subseteq 1..Len(memoryBlocks)
    BY <1>1
  <2>2. \E i \in fits : \A j \in fits : i <= j
    <3>. HIDE DEF fits
    <3>. QED
      BY <1>3, <2>1, LeastElement
  <2>3. FirstFit(n) = CHOOSE i \in fits : \A j \in fits : i <= j
    BY <1>3 DEF FirstFit
  <2>4. FirstFit(n) \in fits /\ \A j \in fits : FirstFit(n) <= j
    <3>. HIDE DEF fits
    <3>. QED
      BY <2>2, <2>3
  <2>. QED
    BY <1>1, <2>1, <2>4
<1>. QED
  BY <1>2, <1>3

\* A placed task has its block.
LEMMA AllocationKeepsLayout ==
  ASSUME LayoutInv, NEW p \in Tasks, AllocateMemoryBlock(p)
  PROVE  LayoutInv'
<1>. DEFINE n == demand[p]["ram"]
            i == FirstFit(n)
<1>1. /\ phase[p] = "checked" /\ UNCHANGED <<available, demand>>
      /\ demand \in [Tasks -> Programs \cup {NoDemand}]
      /\ demand[p] \in Programs
      /\ available \in [Resources -> Int]
      /\ \A r \in Resources : available[r] \in 0..Capacity[r]
  BY DEF AllocateMemoryBlock, LayoutInv, TypeOK, DemandsOfTasks
<1>2. n \in Nat /\ n > 0
  BY <1>1, DemandsAreNumbers DEF Resources
<1>3. TiledTo(memoryBlocks, RAM) /\ Apart(memoryBlocks) /\ OneEach(memoryBlocks)
  BY DEF LayoutInv
<1>4. CASE i = 0
  <2>1. UNCHANGED memoryBlocks /\ phase' = [phase EXCEPT ![p] = "refused"]
    BY <1>4 DEF AllocateMemoryBlock
  <2>2. demand' = [demand EXCEPT ![p] = demand[p]] /\ demand[p] # NoDemand
    BY <1>1, Demands DEF Resources
  <2>3. available' \in [Resources -> Int] /\ \A r \in Resources : available'[r] \in 0..Capacity[r]
    BY <1>1
  <2>. QED
    BY <1>1, <2>1, <2>2, <2>3, PhasesKeepLayout
<1>5. CASE i # 0
  <2>. DEFINE mine == Block(memoryBlocks[i].start, memoryBlocks[i].start + n, p)
              rest == Block(memoryBlocks[i].start + n, memoryBlocks[i].end, Free)
  <2>1. memoryBlocks' = Put(i, n, p) /\ phase' = [phase EXCEPT ![p] = "placed"]
    BY <1>5 DEF AllocateMemoryBlock
  <2>2. i \in 1..Len(memoryBlocks) /\ HasRoom(memoryBlocks[i], n)
    BY <1>3, <1>5, FirstFits DEF TiledTo
  <2>3. /\ IsPut(memoryBlocks, memoryBlocks', i, mine, rest)
        /\ mine \in Blocks /\ rest \in Blocks
    BY <1>2, <1>3, <2>1, <2>2, PutIndexed
  <2>4. mine.pid = p /\ rest.pid = Free /\ p # Free /\ memoryBlocks[i].pid = Free
    BY <2>2, ResourceAssumption DEF Block, HasRoom, IsFree
  <2>5. \A j \in 1..Len(memoryBlocks) : memoryBlocks[j].pid # p
    BY <1>1 DEF LayoutInv, BlocksOfTasks
  <2>6. SizeOf(mine) = n
    <3>1. memoryBlocks[i].start \in Nat
      BY <1>3, <2>2, BlocksWithin
    <3>. QED
      BY <1>2, <3>1 DEF SizeOf, Block
  <2>. HIDE DEF mine, rest, i
  <2>7. /\ TiledTo(memoryBlocks', RAM) /\ Apart(memoryBlocks') /\ OneEach(memoryBlocks')
        /\ \A b : TaskBlock(b, memoryBlocks') <=> TaskBlock(b, memoryBlocks) \/ b = mine
    BY <1>3, <2>2, <2>3, <2>4, <2>5, PutKeeps
  <2>8. TiledTo(memoryBlocks, RAM)' /\ Apart(memoryBlocks)' /\ OneEach(memoryBlocks)'
    BY <2>7 DEF TiledTo, Apart, OneEach
  <2>9. \A b : b.pid # p => (TaskBlock(b, memoryBlocks') <=> TaskBlock(b, memoryBlocks))
    BY <2>4, <2>7
  <2>10. \E b : TaskBlock(b, memoryBlocks') /\ b.pid = p /\ SizeOf(b) = demand[p]["ram"]
    BY <2>4, <2>6, <2>7
  <2>. QED
    BY <1>1, <2>1, <2>8, <2>9, <2>10, LayoutsKeepLayout
<1>. QED
  BY <1>4, <1>5

\* A task that has been cleaned up has no block.
LEMMA ReleaseKeepsLayout ==
  ASSUME LayoutInv, NEW p \in Tasks, ReleaseMemoryBlock(p)
  PROVE  LayoutInv'
<1>. DEFINE t == Freed(memoryBlocks, p)
<1>1. /\ phase[p] = "live" /\ UNCHANGED <<available, demand>>
      /\ phase' = [phase EXCEPT ![p] = "freed"]
      /\ memoryBlocks' = Merge(t)
  BY DEF ReleaseMemoryBlock, Freed
<1>2. /\ TiledTo(t, RAM) /\ OneEach(t)
      /\ \A b : TaskBlock(b, t) <=> TaskBlock(b, memoryBlocks) /\ b.pid # p
  BY FreedKeeps DEF LayoutInv
<1>. HIDE DEF t
<1>3. /\ TiledTo(memoryBlocks', RAM) /\ Apart(memoryBlocks') /\ OneEach(memoryBlocks')
      /\ \A b : TaskBlock(b, memoryBlocks') <=> TaskBlock(b, memoryBlocks) /\ b.pid # p
  BY <1>1, <1>2, MergeKeeps
<1>4. TiledTo(memoryBlocks, RAM)' /\ Apart(memoryBlocks)' /\ OneEach(memoryBlocks)'
  BY <1>3 DEF TiledTo, Apart, OneEach
<1>. QED
  BY <1>1, <1>3, <1>4, LayoutsKeepLayout

\* Every step keeps the layout invariant.
LEMMA LayoutStep ==
  ASSUME LayoutInv, [Next]_vars
  PROVE  LayoutInv'
<1>1. /\ phase \in [Tasks -> {"none", "checked", "refused", "placed", "live", "freed"}]
      /\ demand \in [Tasks -> Programs \cup {NoDemand}]
      /\ available \in [Resources -> Int]
      /\ \A r \in Resources : available[r] \in 0..Capacity[r]
  BY DEF LayoutInv, TypeOK
<1>2. NoDemand \notin Programs
  BY Demands DEF Resources
<1>3. \A q \in Tasks : phase[q] # "none" => demand[q] \in Programs
  BY DEF LayoutInv, DemandsOfTasks
<1>4. ASSUME NEW p \in Tasks, NEW d \in Programs, CheckResources(p, d) PROVE LayoutInv'
  <2>1. /\ UNCHANGED <<memoryBlocks, available>> /\ phase[p] = "none"
        /\ phase' = [phase EXCEPT ![p] = "checked"] /\ demand' = [demand EXCEPT ![p] = d]
    BY <1>4 DEF CheckResources
  <2>. QED
    BY <1>1, <1>2, <2>1, PhasesKeepLayout
<1>5. ASSUME NEW p \in Tasks, AllocateMemoryBlock(p) PROVE LayoutInv'
  BY <1>5, AllocationKeepsLayout
<1>6. ASSUME NEW p \in Tasks, AllocateResources(p) PROVE LayoutInv'
  <2>1. /\ UNCHANGED <<memoryBlocks, demand>> /\ phase[p] = "placed"
        /\ phase' = [phase EXCEPT ![p] = "live"]
        /\ available' = IF Fits(demand[p])
                          THEN [r \in Resources |-> available[r] - demand[p][r]]
                          ELSE available
    BY <1>6 DEF AllocateResources
  <2>2. demand' = [demand EXCEPT ![p] = demand[p]] /\ demand[p] \in Programs
    BY <1>1, <1>3, <2>1
  <2>3. \A r \in Resources : demand[p][r] \in Nat /\ available[r] \in Nat /\ Capacity[r] \in Nat
    BY DemandsAreNumbers
  <2>4. available' \in [Resources -> Int] /\ \A r \in Resources : available'[r] \in 0..Capacity[r]
    BY <1>1, <2>1, <2>3 DEF Fits
  <2>. QED
    BY <1>1, <1>2, <2>1, <2>2, <2>4, PhasesKeepLayout
<1>7. ASSUME NEW p \in Tasks, DeniedChildExits(p) PROVE LayoutInv'
  <2>1. /\ UNCHANGED <<memoryBlocks, available>> /\ phase[p] = "refused"
        /\ phase' = [phase EXCEPT ![p] = "none"] /\ demand' = [demand EXCEPT ![p] = NoDemand]
    BY <1>7 DEF DeniedChildExits
  <2>. QED
    BY <1>1, <1>2, <2>1, PhasesKeepLayout
<1>8. ASSUME NEW p \in Tasks, ReleaseMemoryBlock(p) PROVE LayoutInv'
  BY <1>8, ReleaseKeepsLayout
<1>9. ASSUME NEW p \in Tasks, ReleaseResources(p) PROVE LayoutInv'
  <2>1. /\ UNCHANGED memoryBlocks /\ phase[p] = "freed"
        /\ phase' = [phase EXCEPT ![p] = "none"] /\ demand' = [demand EXCEPT ![p] = NoDemand]
        /\ available' = [r \in Resources |->
                           IF available[r] + demand[p][r] > Capacity[r] THEN Capacity[r]
                           ELSE available[r] + demand[p][r]]
    BY <1>9 DEF ReleaseResources
  <2>2. \A r \in Resources : demand[p][r] \in Nat /\ available[r] \in Nat /\ Capacity[r] \in Nat
    BY DemandsAreNumbers
  <2>3. available' \in [Resources -> Int] /\ \A r \in Resources : available'[r] \in 0..Capacity[r]
    BY <2>1, <2>2
  <2>. QED
    BY <1>1, <1>2, <2>1, <2>3, PhasesKeepLayout
<1>10. CASE UNCHANGED vars
  <2>1. UNCHANGED <<memoryBlocks, available, phase, demand>>
    BY <1>10 DEF vars
  <2>. QED
    BY <2>1 DEF LayoutInv, TypeOK, TiledTo, Apart, OneEach, BlocksOfTasks, DemandsOfTasks
<1>. QED
  BY <1>4, <1>5, <1>6, <1>7, <1>8, <1>9, <1>10 DEF Next

\* The list of blocks is what a search may rely on: the blocks lie side by side
\* from the first address to the last, none is empty, and no two free ones are
\* neighbours (Put, Merge).
THEOREM ResourceLayoutIsSound == Spec => []LayoutIsSound
<1>1. Init => LayoutInv
  BY LayoutInit
<1>2. LayoutInv /\ [Next]_vars => LayoutInv'
  BY LayoutStep
<1>3. LayoutInv => LayoutIsSound
  <2>. SUFFICES ASSUME LayoutInv PROVE LayoutIsSound
    OBVIOUS
  <2>1. TypeOK /\ TiledTo(memoryBlocks, RAM) /\ Apart(memoryBlocks)
    BY DEF LayoutInv
  <2>2. \A i \in 1..Len(memoryBlocks) : SizeOf(memoryBlocks[i]) > 0
    BY <2>1, BlocksWithin DEF SizeOf
  <2>3. Tiled
    BY <2>1, <2>2 DEF Tiled, TiledTo, RAM
  <2>4. NoFreeNeighbours
    BY <2>1 DEF NoFreeNeighbours, Apart, IsFree
  <2>. QED
    BY <2>1, <2>3, <2>4 DEF LayoutIsSound
<1>. QED
  BY <1>1, <1>2, <1>3, PTL DEF Spec

-----------------------------------------------------------------------------
(* The layout implements the map of addresses.                             *)

Addresses == 0..(RAM - 1)

\* The owner of an address is the task of the block it is in.
LEMMA OwnerIs ==
  ASSUME NEW s, TiledTo(s, RAM), NEW i \in 1..Len(s), NEW a \in Addresses, Holds(s[i], a)
  PROVE  OwnerOf(s)[a] = s[i].pid
<1>1. /\ a \in Nat /\ s \in Seq(Blocks) /\ Len(s) \in Nat
      /\ ToSet(s) = {s[j] : j \in 1..Len(s)}
  BY RAMIsPositive DEF Addresses, TiledTo, ToSet
<1>2. \A b \in ToSet(s) : b.start <= a /\ a < b.end => b = s[i]
  BY <1>1, AddressHeldOnce DEF Holds
<1>3. s[i] \in ToSet(s) /\ s[i].start <= a /\ a < s[i].end
  BY <1>1 DEF Holds
<1>4. (CHOOSE b \in ToSet(s) : b.start <= a /\ a < b.end) = s[i]
  BY <1>2, <1>3
<1>5. OwnerOf(s)[a] = (CHOOSE b \in ToSet(s) : b.start <= a /\ a < b.end).pid
  BY DEF OwnerOf, Addresses, RAM
<1>. QED
  BY <1>4, <1>5

\* A task owns the addresses of its blocks; every other address is free.
LEMMA OwnedBy ==
  ASSUME NEW s, TiledTo(s, RAM), NEW a \in Addresses
  PROVE  /\ OwnerOf(s)[a] \in Tasks \cup {Free}
         /\ \A q \in Tasks :
              OwnerOf(s)[a] = q <=> \E b : TaskBlock(b, s) /\ b.pid = q /\ Holds(b, a)
<1>1. PICK i \in 1..Len(s) : Holds(s[i], a)
  BY AddressHeld, RAMIsPositive DEF Addresses
<1>2. OwnerOf(s)[a] = s[i].pid
  BY <1>1, OwnerIs
<1>3. s[i].pid \in Tasks \cup {Free}
  BY BlocksWithin
<1>4. ASSUME NEW q \in Tasks, NEW b, TaskBlock(b, s), b.pid = q, Holds(b, a)
      PROVE  OwnerOf(s)[a] = q
  <2>1. PICK j \in 1..Len(s) : s[j] = b
    BY <1>4 DEF TaskBlock
  <2>. QED
    BY <1>4, <2>1, OwnerIs
<1>5. ASSUME NEW q \in Tasks, OwnerOf(s)[a] = q
      PROVE  TaskBlock(s[i], s) /\ s[i].pid = q /\ Holds(s[i], a)
  BY <1>1, <1>2, <1>5, ResourceAssumption DEF TaskBlock
<1>. QED
  BY <1>2, <1>3, <1>4, <1>5

\* A run of free addresses is in one free block.
LEMMA RunNeedsRoom ==
  ASSUME NEW s, TiledTo(s, RAM), Apart(s), NEW a \in Nat, NEW n \in Nat, n > 0, a + n <= RAM,
         \A x \in a..(a + n - 1) : OwnerOf(s)[x] = Free
  PROVE  \E i \in 1..Len(s) : Holds(s[i], a) /\ HasRoom(s[i], n)
<1>1. RAM \in Nat /\ Len(s) \in Nat /\ s[Len(s)].end = RAM
      /\ \A j \in 1..(Len(s) - 1) : s[j].end = s[j + 1].start
  BY RAMIsPositive DEF TiledTo
<1>2. \A x \in a..(a + n - 1) : x \in Addresses /\ x \in Nat
  BY <1>1 DEF Addresses
<1>3. PICK i \in 1..Len(s) : Holds(s[i], a)
  BY <1>1, AddressHeld
<1>4. s[i].start \in Nat /\ s[i].end \in Nat /\ s[i].start <= a /\ a < s[i].end
  BY <1>3, BlocksWithin DEF Holds
<1>5. s[i].pid = Free
  <2>1. a \in a..(a + n - 1)
    OBVIOUS
  <2>. QED
    BY <1>2, <1>3, <2>1, OwnerIs
<1>6. s[i].end >= a + n
  <2>. SUFFICES ASSUME s[i].end < a + n PROVE FALSE
    BY <1>4
  <2>1. i \in 1..(Len(s) - 1) /\ i + 1 \in 1..Len(s)
    BY <1>1
  <2>2. s[i].end \in a..(a + n - 1)
    BY <1>4
  <2>3. Holds(s[i + 1], s[i].end)
    <3>1. s[i + 1].start < s[i + 1].end /\ s[i].end = s[i + 1].start
      BY <1>1, <2>1, BlocksWithin
    <3>2. s[i + 1].start \in Nat
      BY <2>1, BlocksWithin
    <3>. QED
      BY <1>4, <3>1, <3>2 DEF Holds
  <2>4. s[i + 1].pid = Free
    BY <1>2, <2>1, <2>2, <2>3, OwnerIs
  <2>. QED
    BY <1>5, <2>1, <2>4 DEF Apart
<1>7. HasRoom(s[i], n)
  BY <1>4, <1>5, <1>6 DEF HasRoom, IsFree, SizeOf
<1>. QED
  BY <1>3, <1>7

\* A task owns addresses as long as it has RAM.
LEMMA OwnsNothing ==
  ASSUME LayoutInv, NEW p \in Tasks, phase[p] \notin {"placed", "live"}
  PROVE  \A a \in Addresses : OwnerOf(memoryBlocks)[a] # p
<1>1. \A b : TaskBlock(b, memoryBlocks) => b.pid # p
  BY DEF LayoutInv, BlocksOfTasks, TaskBlock
<1>. QED
  BY <1>1, OwnedBy DEF LayoutInv

\* What the map of the layout is when its blocks are b's besides those of s.
LEMMA OwnersOfBlocks ==
  ASSUME NEW s, NEW t, TiledTo(s, RAM), TiledTo(t, RAM), NEW a \in Addresses,
         \A b : Holds(b, a) => (TaskBlock(b, s) <=> TaskBlock(b, t))
  PROVE  OwnerOf(s)[a] = OwnerOf(t)[a]
<1>1. \A q \in Tasks : OwnerOf(s)[a] = q <=> OwnerOf(t)[a] = q
  <2>1. \A q \in Tasks :
          /\ OwnerOf(s)[a] = q <=> \E b : TaskBlock(b, s) /\ b.pid = q /\ Holds(b, a)
          /\ OwnerOf(t)[a] = q <=> \E b : TaskBlock(b, t) /\ b.pid = q /\ Holds(b, a)
    BY OwnedBy
  <2>. QED
    BY <2>1
<1>2. OwnerOf(s)[a] \in Tasks \cup {Free} /\ OwnerOf(t)[a] \in Tasks \cup {Free}
  BY OwnedBy
<1>. QED
  BY <1>1, <1>2

\* The owners are a function on the addresses.
LEMMA OwnersListed ==
  ASSUME NEW s
  PROVE  OwnerOf(s) = [a \in Addresses |-> OwnerOf(s)[a]]
  BY DEF OwnerOf, Addresses, RAM

\* An allocation takes the lowest free run of addresses, or is refused because
\* there is none.
LEMMA AllocationIsMapped ==
  ASSUME LayoutInv, LayoutInv', NEW p \in Tasks, AllocateMemoryBlock(p)
  PROVE  Map!Allocate(p) \/ Map!Refuse(p)
<1>. DEFINE n == demand[p]["ram"]
            i == FirstFit(n)
            s == memoryBlocks
            t == memoryBlocks'
<1>1. /\ phase[p] = "checked" /\ UNCHANGED demand
      /\ phase \in [Tasks -> {"none", "checked", "refused", "placed", "live", "freed"}]
      /\ s \in Seq(Blocks) /\ TiledTo(s, RAM) /\ Apart(s) /\ OneEach(s)
      /\ RAM \in Nat /\ RAM = Capacity["ram"]
  BY RAMIsPositive DEF AllocateMemoryBlock, LayoutInv, TypeOK, TiledTo, RAM
<1>2. n \in Nat /\ n > 0 /\ Wanted[p] = n
  BY <1>1, DemandsAreNumbers DEF Resources, Wanted
<1>3. p \notin Refused /\ Wanted' = Wanted
  BY <1>1 DEF Refused, Wanted
<1>4. \A a \in Addresses : OwnerOf(s)[a] # p
  BY <1>1, OwnsNothing
<1>5. Map!Addresses = Addresses
  BY DEF Map!Addresses, Addresses, RAM
<1>6. ASSUME NEW a \in Nat, Map!Fits(a, n)
      PROVE  \E j \in 1..Len(s) : Holds(s[j], a) /\ HasRoom(s[j], n)
  <2>1. a + n <= RAM /\ \A x \in a..(a + n - 1) : OwnerOf(s)[x] = Free
    BY <1>6 DEF Map!Fits, RAM
  <2>. QED
    BY <1>1, <1>2, <2>1, RunNeedsRoom
<1>7. CASE i = 0
  <2>1. t = s /\ phase' = [phase EXCEPT ![p] = "refused"]
    BY <1>7 DEF AllocateMemoryBlock
  <2>2. \A j \in 1..Len(s) : ~HasRoom(s[j], n)
    BY <1>1, <1>7, FirstFits
  <2>3. \A a \in Addresses : ~Map!Fits(a, n)
    BY <1>1, <1>6, <2>2 DEF Addresses
  <2>4. Refused' = Refused \cup {p}
    BY <1>1, <2>1 DEF Refused
  <2>. QED
    BY <1>2, <1>3, <1>4, <1>5, <2>1, <2>3, <2>4 DEF Map!Refuse
<1>8. CASE i # 0
  <2>. DEFINE mine == Block(s[i].start, s[i].start + n, p)
              rest == Block(s[i].start + n, s[i].end, Free)
  <2>1. t = Put(i, n, p) /\ phase' = [phase EXCEPT ![p] = "placed"]
    BY <1>8 DEF AllocateMemoryBlock
  <2>2. /\ i \in 1..Len(s) /\ HasRoom(s[i], n)
        /\ \A j \in 1..Len(s) : HasRoom(s[j], n) => i <= j
    BY <1>1, <1>8, FirstFits
  <2>3. /\ IsPut(s, t, i, mine, rest) /\ mine \in Blocks /\ rest \in Blocks
    BY <1>1, <1>2, <2>1, <2>2, PutIndexed
  <2>4. /\ mine.pid = p /\ rest.pid = Free /\ p # Free /\ s[i].pid = Free
        /\ mine.start = s[i].start /\ mine.end = s[i].start + n
    BY <2>2, ResourceAssumption DEF Block, HasRoom, IsFree
  <2>5. \A j \in 1..Len(s) : s[j].pid # p
    BY <1>1 DEF LayoutInv, BlocksOfTasks
  <2>6. /\ s[i].start \in Nat /\ s[i].end \in Nat /\ s[i].end <= RAM
        /\ s[i].start + n <= s[i].end /\ s[i].start < s[i].end
    BY <1>1, <1>2, <2>2, BlocksWithin DEF HasRoom, SizeOf
  <2>. HIDE DEF mine, rest, i, n, s, t
  <2>7. /\ TiledTo(t, RAM)
        /\ \A b : TaskBlock(b, t) <=> TaskBlock(b, s) \/ b = mine
    <3>1. TiledTo(s, RAM) /\ Apart(s) /\ OneEach(s) /\ i \in 1..Len(s)
      BY <1>1, <2>2
    <3>2. mine.pid # Free /\ \A j \in 1..Len(s) : s[j].pid # mine.pid
      BY <2>4, <2>5
    <3>. QED
      BY <2>3, <2>4, <3>1, <3>2, PutKeeps
  <2>8. s[i].start \in Addresses /\ s[i].start + n <= RAM
    BY <1>1, <1>2, <2>6 DEF Addresses
  <2>9. ASSUME NEW x \in s[i].start..(s[i].start + n - 1)
        PROVE  x \in Addresses /\ OwnerOf(s)[x] = Free
    <3>1. x \in Addresses /\ Holds(s[i], x)
      BY <1>1, <1>2, <2>6 DEF Addresses, Holds
    <3>. QED
      BY <1>1, <2>2, <2>4, <3>1, OwnerIs
  <2>10. Map!Fits(s[i].start, n)
    BY <2>8, <2>9 DEF Map!Fits, RAM, s
  <2>11. ASSUME NEW a \in 0..(s[i].start - 1), Map!Fits(a, n) PROVE FALSE
    <3>1. PICK j \in 1..Len(s) : Holds(s[j], a) /\ HasRoom(s[j], n)
      BY <1>6, <2>11
    <3>2. i <= j
      BY <2>2, <3>1
    <3>3. s[j].start \in Nat /\ s[j].start < s[i].start
      BY <1>1, <2>6, <3>1, BlocksWithin DEF Holds
    <3>4. i # j
      BY <2>6, <3>3
    <3>5. i < j
      BY <1>1, <2>2, <3>2, <3>4
    <3>6. s[i].end <= s[j].start
      BY <1>1, <2>2, <3>5, BlocksInOrder
    <3>. QED
      BY <2>6, <3>3, <3>6
  <2>12. OwnerOf(t) = [a \in Addresses |-> IF a \in s[i].start..(s[i].start + n - 1) THEN p
                                           ELSE OwnerOf(s)[a]]
    <3>1. ASSUME NEW a \in Addresses
          PROVE  OwnerOf(t)[a] = IF a \in s[i].start..(s[i].start + n - 1) THEN p
                                 ELSE OwnerOf(s)[a]
      <4>1. a \in Nat
        BY <1>1 DEF Addresses
      <4>2. Holds(mine, a) <=> a \in s[i].start..(s[i].start + n - 1)
        BY <1>2, <2>4, <2>6, <4>1 DEF Holds
      <4>3. CASE Holds(mine, a)
        <5>1. TaskBlock(mine, t)
          BY <2>7
        <5>2. OwnerOf(t)[a] = p
          BY <2>4, <2>7, <4>3, <5>1, OwnedBy
        <5>. QED
          BY <4>2, <4>3, <5>2
      <4>4. CASE ~Holds(mine, a)
        <5>1. \A b : Holds(b, a) => (TaskBlock(b, s) <=> TaskBlock(b, t))
          BY <2>7, <4>4
        <5>. QED
          BY <1>1, <2>7, <4>2, <4>4, <5>1, OwnersOfBlocks
      <4>. QED
        BY <4>3, <4>4
    <3>2. OwnerOf(t) = [a \in Addresses |-> OwnerOf(t)[a]]
      BY OwnersListed
    <3>. QED
      BY <3>1, <3>2
  <2>13. Refused' = Refused
    BY <1>1, <2>1 DEF Refused
  <2>14. Map!Allocate(p)
    BY <1>2, <1>3, <1>4, <1>5, <2>8, <2>10, <2>11, <2>12, <2>13 DEF Map!Allocate, s, t
  <2>. QED
    BY <2>14
<1>. QED
  BY <1>7, <1>8

\* A clean-up frees the addresses of the task.
LEMMA ReleaseIsMapped ==
  ASSUME LayoutInv, NEW p \in Tasks, ReleaseMemoryBlock(p)
  PROVE  Map!Release(p)
<1>. DEFINE f == Freed(memoryBlocks, p)
            s == memoryBlocks
            t == memoryBlocks'
<1>1. /\ phase[p] = "live" /\ UNCHANGED demand
      /\ phase' = [phase EXCEPT ![p] = "freed"]
      /\ t = Merge(f)
  BY DEF ReleaseMemoryBlock, Freed
<1>2. /\ TiledTo(f, RAM) /\ OneEach(f)
      /\ \A b : TaskBlock(b, f) <=> TaskBlock(b, s) /\ b.pid # p
  BY FreedKeeps DEF LayoutInv
<1>. HIDE DEF f, t
<1>3. /\ TiledTo(t, RAM) /\ TiledTo(s, RAM)
      /\ \A b : TaskBlock(b, t) <=> TaskBlock(b, s) /\ b.pid # p
  BY <1>1, <1>2, MergeKeeps DEF LayoutInv
<1>. HIDE DEF s
<1>4. Wanted' = Wanted /\ Refused' = Refused
  BY <1>1 DEF Wanted, Refused, LayoutInv, TypeOK
<1>5. ASSUME NEW a \in Addresses
      PROVE  OwnerOf(t)[a] = IF OwnerOf(s)[a] = p THEN Free ELSE OwnerOf(s)[a]
  <2>1. /\ OwnerOf(s)[a] \in Tasks \cup {Free} /\ OwnerOf(t)[a] \in Tasks \cup {Free}
        /\ \A q \in Tasks :
             /\ OwnerOf(s)[a] = q <=> \E b : TaskBlock(b, s) /\ b.pid = q /\ Holds(b, a)
             /\ OwnerOf(t)[a] = q <=> \E b : TaskBlock(b, t) /\ b.pid = q /\ Holds(b, a)
    BY <1>3, OwnedBy
  <2>2. OwnerOf(t)[a] # p
    BY <1>3, <2>1
  <2>3. \A q \in Tasks : q # p => (OwnerOf(t)[a] = q <=> OwnerOf(s)[a] = q)
    BY <1>3, <2>1
  <2>. QED
    BY <2>1, <2>2, <2>3, ResourceAssumption
<1>6. OwnerOf(t) = [a \in Addresses |-> IF OwnerOf(s)[a] = p THEN Free ELSE OwnerOf(s)[a]]
  <2>1. OwnerOf(t) = [a \in Addresses |-> OwnerOf(t)[a]]
    BY OwnersListed
  <2>. QED
    BY <1>5, <2>1
<1>. QED
  BY <1>4, <1>6 DEF Map!Release, Map!Addresses, Addresses, RAM, s, t

\* Every step of the resource manager is a step of the map or leaves it.
LEMMA StepIsMapped ==
  ASSUME LayoutInv, LayoutInv', [Next]_vars
  PROVE  [Map!Next]_(Map!vars)
<1>1. /\ phase \in [Tasks -> {"none", "checked", "refused", "placed", "live", "freed"}]
      /\ demand \in [Tasks -> Programs \cup {NoDemand}]
      /\ NoDemand["ram"] = 0 /\ "ram" \in Resources
  BY DEF LayoutInv, TypeOK, NoDemand, Resources
<1>2. ASSUME NEW p \in Tasks, NEW d \in Programs, CheckResources(p, d) PROVE Map!Ask(p)
  <2>1. /\ UNCHANGED memoryBlocks /\ phase[p] = "none"
        /\ phase' = [phase EXCEPT ![p] = "checked"] /\ demand' = [demand EXCEPT ![p] = d]
        /\ d["ram"] > 0 /\ d["ram"] <= available["ram"]
    BY <1>1, <1>2 DEF CheckResources, Fits
  <2>2. d["ram"] \in Nat /\ d["ram"] \in 1..Capacity["ram"]
    <3>1. d["ram"] \in Nat
      BY <1>1, Demands
    <3>2. available["ram"] \in Nat /\ available["ram"] <= Capacity["ram"] /\ Capacity["ram"] \in Nat
      BY <1>1, DemandsAreNumbers
    <3>. QED
      BY <2>1, <3>1, <3>2
  <2>3. Wanted[p] = 0
    BY <1>1, <2>1 DEF Wanted, LayoutInv, DemandsOfTasks
  <2>4. Wanted' = [Wanted EXCEPT ![p] = d["ram"]]
    BY <1>1, <2>1 DEF Wanted
  <2>5. Refused' = Refused
    BY <1>1, <2>1 DEF Refused
  <2>. QED
    BY <2>1, <2>2, <2>3, <2>4, <2>5 DEF Map!Ask
<1>3. ASSUME NEW p \in Tasks, AllocateMemoryBlock(p) PROVE Map!Allocate(p) \/ Map!Refuse(p)
  BY <1>3, AllocationIsMapped
<1>4. ASSUME NEW p \in Tasks, AllocateResources(p) PROVE UNCHANGED Map!vars
  <2>1. /\ UNCHANGED <<memoryBlocks, demand>> /\ phase[p] = "placed"
        /\ phase' = [phase EXCEPT ![p] = "live"]
    BY <1>4 DEF AllocateResources
  <2>2. Wanted' = Wanted /\ Refused' = Refused
    BY <1>1, <2>1 DEF Wanted, Refused
  <2>. QED
    BY <2>1, <2>2 DEF Map!vars
<1>5. ASSUME NEW p \in Tasks, DeniedChildExits(p) \/ ReleaseResources(p) PROVE Map!Leave(p)
  <2>1. /\ UNCHANGED memoryBlocks /\ phase[p] \in {"refused", "freed"}
        /\ phase' = [phase EXCEPT ![p] = "none"] /\ demand' = [demand EXCEPT ![p] = NoDemand]
    BY <1>5 DEF DeniedChildExits, ReleaseResources
  <2>2. Wanted' = [Wanted EXCEPT ![p] = 0]
    BY <1>1, <2>1 DEF Wanted
  <2>3. Refused' = Refused \ {p}
    BY <1>1, <2>1 DEF Refused
  <2>4. \A a \in Map!Addresses : OwnerOf(memoryBlocks)[a] # p
    BY <2>1, OwnsNothing DEF Map!Addresses, Addresses, RAM
  <2>. QED
    BY <2>1, <2>2, <2>3, <2>4 DEF Map!Leave
<1>6. ASSUME NEW p \in Tasks, ReleaseMemoryBlock(p) PROVE Map!Release(p)
  BY <1>6, ReleaseIsMapped
<1>7. CASE UNCHANGED vars
  BY <1>7 DEF vars, Map!vars, Wanted, Refused
<1>. QED
  BY <1>2, <1>3, <1>4, <1>5, <1>6, <1>7 DEF Next, Map!Next

\* The layout implements a map of addresses to owners: every allocation takes
\* the lowest free run that is long enough, and a refusal means that there is
\* none (AllocateMemoryBlock, ReleaseMemoryBlock).
THEOREM ResourceImplementsMemoryMap == Spec => ImplementsMemoryMap
<1>1. Init => LayoutInv
  BY LayoutInit
<1>2. LayoutInv /\ [Next]_vars => LayoutInv'
  BY LayoutStep
<1>3. Init => Map!Init
  <2>. SUFFICES ASSUME Init PROVE Map!Init
    OBVIOUS
  <2>1. Wanted = [p \in Tasks |-> 0] /\ Refused = {}
    BY DEF Init, Wanted, Refused, NoDemand, Resources
  <2>2. \A a \in Addresses : OwnerOf(memoryBlocks)[a] = [x \in Addresses |-> Free][a]
    <3>1. LayoutInv /\ \A p \in Tasks : phase[p] = "none"
      BY LayoutInit DEF Init
    <3>2. \A a \in Addresses, p \in Tasks : OwnerOf(memoryBlocks)[a] # p
      BY <3>1, OwnsNothing
    <3>. QED
      BY <3>1, <3>2, OwnedBy DEF LayoutInv
  <2>3. OwnerOf(memoryBlocks) = [x \in Addresses |-> Free]
    BY <2>2, OwnersListed
  <2>. QED
    BY <2>1, <2>3 DEF Map!Init, Map!Addresses, Addresses, RAM
<1>4. LayoutInv /\ LayoutInv' /\ [Next]_vars => [Map!Next]_(Map!vars)
  BY StepIsMapped
<1>. QED
  BY <1>1, <1>2, <1>3, <1>4, PTL DEF Spec, ImplementsMemoryMap, Map!Spec

-----------------------------------------------------------------------------
(* The ledger.                                                             *)

\* What TotalOf returns is the sum of the demands.
LEMMA TotalIsSum ==
  ASSUME NEW d, NEW r, NEW S, IsFiniteSet(S), \A p \in S : d[p][r] \in Nat
  PROVE  \E g : SumsUp(S, [p \in S |-> d[p][r]], g) /\ TotalOf(d, r, S) = g[S]
<1>. DEFINE w == [p \in S |-> d[p][r]]
            P(g) == g = [s \in SUBSET S |->
                           IF s = {} THEN 0
                           ELSE d[CHOOSE x \in s : TRUE][r] + g[s \ {CHOOSE x \in s : TRUE}]]
            iter == CHOOSE g : P(g)
<1>1. \E g : P(g)
  <2>1. \A p \in S : w[p] \in Nat
    OBVIOUS
  <2>2. HasSums(S, w)
    <3>. HIDE DEF w
    <3>. QED
      BY <2>1, SumsExist
  <2>3. PICK g \in [SUBSET S -> Nat] : SumsUp(S, w, g)
    BY <2>2 DEF HasSums
  <2>4. \A s \in SUBSET S : s # {} =>
          g[s] = d[CHOOSE x \in s : TRUE][r] + g[s \ {CHOOSE x \in s : TRUE}]
    BY <2>3 DEF SumsUp
  <2>5. P(g)
    BY <2>3, <2>4 DEF SumsUp
  <2>. HIDE DEF P
  <2>. QED
    BY <2>5
<1>2. P(iter)
  <2>. HIDE DEF P
  <2>. QED
    BY <1>1
<1>3. TotalOf(d, r, S) = iter[S]
  BY DEF TotalOf, SumOf, FoldSet, MapThenFoldSet
<1>4. SumsUp(S, w, iter)
  <2>. HIDE DEF iter
  <2>. QED
    BY <1>2 DEF SumsUp
<1>. QED
  <2>. HIDE DEF iter
  <2>. QED
    BY <1>3, <1>4

\* What SizeIn returns is the sum of the sizes of the task's blocks.
LEMMA SizeIsSum ==
  ASSUME NEW bs, IsFiniteSet(DOMAIN bs), \A i \in DOMAIN bs : SizeOf(bs[i]) \in Nat, NEW p
  PROVE  \E g : /\ SumsUp(DOMAIN bs,
                          [i \in DOMAIN bs |-> IF bs[i].pid = p THEN SizeOf(bs[i]) ELSE 0], g)
                /\ SizeIn(bs, p) = g[DOMAIN bs]
<1>. DEFINE S == DOMAIN bs
            v(i) == IF bs[i].pid = p THEN SizeOf(bs[i]) ELSE 0
            w == [i \in S |-> v(i)]
            P(g) == g = [s \in SUBSET S |->
                           IF s = {} THEN 0
                           ELSE v(CHOOSE x \in s : TRUE) + g[s \ {CHOOSE x \in s : TRUE}]]
            iter == CHOOSE g : P(g)
<1>1. \E g : P(g)
  <2>1. \A i \in S : w[i] \in Nat
    OBVIOUS
  <2>2. HasSums(S, w)
    <3>. HIDE DEF w, S
    <3>. QED
      BY <2>1, SumsExist DEF S
  <2>3. PICK g \in [SUBSET S -> Nat] : SumsUp(S, w, g)
    BY <2>2 DEF HasSums
  <2>4. \A s \in SUBSET S : s # {} =>
          g[s] = v(CHOOSE x \in s : TRUE) + g[s \ {CHOOSE x \in s : TRUE}]
    <3>. HIDE DEF v
    <3>. QED
      BY <2>3 DEF SumsUp
  <2>5. P(g)
    <3>. HIDE DEF v
    <3>. QED
      BY <2>3, <2>4 DEF SumsUp
  <2>. HIDE DEF P
  <2>. QED
    BY <2>5
<1>2. P(iter)
  <2>. HIDE DEF P
  <2>. QED
    BY <1>1
<1>3. SizeIn(bs, p) = iter[S]
  BY DEF SizeIn, SumOf, FoldSet, MapThenFoldSet
<1>4. SumsUp(S, w, iter)
  <2>. HIDE DEF iter, v
  <2>. QED
    BY <1>2 DEF SumsUp
<1>. QED
  <2>. HIDE DEF iter
  <2>. QED
    BY <1>3, <1>4

\* A task has the RAM of its one block.
LEMMA SizeInLayout ==
  ASSUME NEW s, TiledTo(s, RAM), OneEach(s), NEW p \in Tasks
  PROVE  /\ (\A i \in 1..Len(s) : s[i].pid # p) => SizeIn(s, p) = 0
         /\ \A i \in 1..Len(s) : s[i].pid = p => SizeIn(s, p) = SizeOf(s[i])
<1>. DEFINE D == DOMAIN s
            w == [i \in D |-> IF s[i].pid = p THEN SizeOf(s[i]) ELSE 0]
<1>1. D = 1..Len(s) /\ Len(s) \in Nat
  BY DEF TiledTo
<1>2. IsFiniteSet(D)
  BY <1>1, FS_Interval
<1>3. \A i \in D : SizeOf(s[i]) \in Nat
  <2>1. ASSUME NEW i \in 1..Len(s) PROVE SizeOf(s[i]) \in Nat
    BY BlocksWithin DEF SizeOf
  <2>. QED
    BY <1>1, <2>1
<1>4. PICK g : SumsUp(D, w, g) /\ SizeIn(s, p) = g[D]
  BY <1>2, <1>3, SizeIsSum
<1>5. \A i \in D : w[i] \in Nat
  BY <1>3
<1>6. CASE \A i \in 1..Len(s) : s[i].pid # p
  <2>1. \A i \in D : w[i] = 0
    BY <1>1, <1>6
  <2>. HIDE DEF w, D
  <2>2. g[D] = 0
    BY <1>2, <1>4, <2>1, SumOfZeros
  <2>. QED
    BY <1>4, <1>6, <2>2
<1>7. ASSUME NEW i \in 1..Len(s), s[i].pid = p PROVE SizeIn(s, p) = SizeOf(s[i])
  <2>1. p # Free
    BY ResourceAssumption
  <2>2. i \in D /\ w[i] = SizeOf(s[i]) /\ \A j \in D \ {i} : w[j] = 0
    BY <1>1, <1>7, <2>1 DEF OneEach
  <2>. HIDE DEF w, D
  <2>3. g[D] = w[i] + g[D \ {i}]
    <3>1. Numbers(D, w)
      BY <1>5 DEF Numbers
    <3>2. AddsUp(D, w, g)
      BY <1>2, <1>4, <3>1, SumOfAny
    <3>. QED
      BY <2>2, <3>2 DEF AddsUp
  <2>4. g[D \ {i}] = 0
    <3>1. PICK U : U = D \ {i}
      OBVIOUS
    <3>2. IsFiniteSet(U) /\ U \subseteq D /\ \A j \in U : w[j] = 0
      BY <1>2, <2>2, <3>1, FS_Subset
    <3>3. g[U] = 0
      BY <1>4, <3>2, SumOfZeros
    <3>. QED
      BY <3>1, <3>3
  <2>5. w[i] \in Nat
    BY <1>5, <2>2
  <2>. QED
    BY <1>4, <2>2, <2>3, <2>4, <2>5
<1>. QED
  BY <1>6, <1>7

SameDemands(d, e, r, S) == \A p \in S : d[p][r] \in Nat /\ d[p][r] = e[p][r]

\* The total of the same demands is the same.
LEMMA TotalUnchanged ==
  ASSUME NEW d, NEW e, NEW r, NEW S, IsFiniteSet(S), SameDemands(d, e, r, S)
  PROVE  TotalOf(d, r, S) = TotalOf(e, r, S)
<1>. USE DEF SameDemands
<1>. DEFINE w == [p \in S |-> d[p][r]]
            v == [p \in S |-> e[p][r]]
<1>1. PICK g : SumsUp(S, w, g) /\ TotalOf(d, r, S) = g[S]
  BY TotalIsSum
<1>2. PICK h : SumsUp(S, v, h) /\ TotalOf(e, r, S) = h[S]
  BY TotalIsSum
<1>3. \A p \in S : w[p] = v[p]
  OBVIOUS
<1>. HIDE DEF w, v
<1>. QED
  BY <1>1, <1>2, <1>3, SumsAgree

\* One task's demand is a part of the total.
LEMMA TotalWithout ==
  ASSUME NEW d, NEW r, NEW S, IsFiniteSet(S), \A p \in S : d[p][r] \in Nat, NEW p \in S
  PROVE  /\ TotalOf(d, r, S) = d[p][r] + TotalOf(d, r, S \ {p})
         /\ TotalOf(d, r, S \ {p}) \in Nat
<1>. DEFINE R == S \ {p}
            w == [q \in S |-> d[q][r]]
            v == [q \in R |-> d[q][r]]
<1>1. IsFiniteSet(R) /\ R \subseteq S
  BY FS_Subset
<1>2. PICK g : SumsUp(S, w, g) /\ TotalOf(d, r, S) = g[S]
  BY TotalIsSum
<1>3. PICK h : SumsUp(R, v, h) /\ TotalOf(d, r, R) = h[R]
  BY <1>1, TotalIsSum
<1>4. /\ \A q \in R : v[q] = w[q] /\ v[q] \in Nat
      /\ \A q \in S : w[q] \in Nat
      /\ w[p] = d[p][r]
  OBVIOUS
<1>. HIDE DEF w, v
<1>5. g[S] = w[p] + g[R]
  <2>1. Numbers(S, w)
    BY <1>4 DEF Numbers
  <2>2. AddsUp(S, w, g)
    BY <1>2, <2>1, SumOfAny
  <2>. QED
    BY <2>2 DEF AddsUp
<1>. HIDE DEF R
<1>6. h[R] = g[R]
  BY <1>1, <1>2, <1>3, <1>4, SumsAgree
<1>7. h[R] \in Nat
  <2>1. Numbers(R, v)
    BY <1>4 DEF Numbers
  <2>2. AddsUp(R, v, h)
    BY <1>1, <1>3, <2>1, SumOfAny
  <2>. QED
    BY <2>2 DEF AddsUp
<1>. QED
  BY <1>2, <1>3, <1>4, <1>5, <1>6, <1>7 DEF R

Charged == InPhase({"live", "freed"})

\* One task at a time is between its check and its charge, and what it asks for
\* is still there; the counters stand for the tasks that were charged.
LedgerInv ==
  /\ \A p, q \in Tasks : phase[p] \in {"checked", "placed"} /\ phase[q] \in {"checked", "placed"}
                         => p = q
  /\ \A p \in Tasks : phase[p] \in {"checked", "placed"} => Fits(demand[p])
  /\ \A r \in Resources : available[r] = Capacity[r] - TotalOf(demand, r, Charged)

\* Nobody is charged when the machine boots.
LEMMA LedgerInit == Init => LedgerInv
<1>. SUFFICES ASSUME Init PROVE LedgerInv
  OBVIOUS
<1>1. Charged = {} /\ \A p \in Tasks : phase[p] = "none"
  BY DEF Init, Charged, InPhase
<1>2. ASSUME NEW r \in Resources PROVE TotalOf(demand, r, {}) = 0
  <2>1. PICK g : SumsUp({}, [p \in {} |-> demand[p][r]], g) /\ TotalOf(demand, r, {}) = g[{}]
    BY FS_EmptySet, TotalIsSum
  <2>. QED
    BY <2>1 DEF SumsUp
<1>3. ASSUME NEW r \in Resources PROVE available[r] = Capacity[r] - TotalOf(demand, r, Charged)
  <2>1. available[r] = Capacity[r] /\ Capacity[r] \in Nat
    BY ResourceAssumption DEF Init
  <2>. QED
    BY <1>1, <1>2, <2>1
<1>. QED
  BY <1>1, <1>3 DEF LedgerInv

\* A step that neither charges nor refunds anybody.
LEMMA PhasesKeepLedger ==
  ASSUME LayoutInv, LedgerInv, NEW p \in Tasks, UNCHANGED available,
         NEW f \in {"none", "checked", "refused", "placed", "live", "freed"},
         phase' = [phase EXCEPT ![p] = f], NEW d, demand' = [demand EXCEPT ![p] = d],
         phase[p] \in {"live", "freed"} <=> f \in {"live", "freed"},
         phase[p] \in {"live", "freed"} => d = demand[p],
         f \in {"checked", "placed"} =>
           /\ Fits(d)
           /\ \A q \in Tasks \ {p} : phase[q] \notin {"checked", "placed"}
  PROVE  LedgerInv'
<1>1. \A q \in Tasks : /\ phase'[q] = IF q = p THEN f ELSE phase[q]
                       /\ demand'[q] = IF q = p THEN d ELSE demand[q]
  BY DEF LayoutInv, TypeOK
<1>2. Charged' = Charged /\ Charged \subseteq Tasks
  BY <1>1 DEF Charged, InPhase
<1>3. IsFiniteSet(Charged)
  BY <1>2, ResourceAssumption, FS_Subset
<1>4. \A q \in Charged : demand'[q] = demand[q]
  BY <1>1, <1>2 DEF Charged, InPhase
<1>5. ASSUME NEW r \in Resources
      PROVE  TotalOf(demand', r, Charged) = TotalOf(demand, r, Charged)
  <2>1. PICK e, c : e = demand' /\ c = Charged
    OBVIOUS
  <2>2. SameDemands(demand, e, r, c)
    BY <1>2, <1>4, <2>1, DemandsAreNumbers DEF SameDemands
  <2>3. TotalOf(demand, r, c) = TotalOf(e, r, c)
    BY <1>3, <2>1, <2>2, TotalUnchanged
  <2>. QED
    BY <2>1, <2>3
<1>6. \A r \in Resources : available'[r] = Capacity[r] - TotalOf(demand', r, Charged')
  BY <1>2, <1>5 DEF LedgerInv
<1>7. ASSUME NEW q \in Tasks, phase'[q] \in {"checked", "placed"} PROVE Fits(demand[q])'
  BY <1>1, <1>7 DEF LedgerInv, Fits
<1>8. ASSUME NEW q \in Tasks, NEW x \in Tasks, phase'[q] \in {"checked", "placed"},
             phase'[x] \in {"checked", "placed"}
      PROVE  q = x
  BY <1>1, <1>8 DEF LedgerInv
<1>. QED
  BY <1>6, <1>7, <1>8 DEF LedgerInv

\* A charge takes what the task asked for from the counters.
LEMMA ChargeKeepsLedger ==
  ASSUME LayoutInv, LedgerInv, NEW p \in Tasks, AllocateResources(p)
  PROVE  LedgerInv'
<1>1. /\ UNCHANGED <<memoryBlocks, demand>> /\ phase[p] = "placed"
      /\ phase' = [phase EXCEPT ![p] = "live"]
      /\ available' = IF Fits(demand[p])
                        THEN [r \in Resources |-> available[r] - demand[p][r]]
                        ELSE available
  BY DEF AllocateResources
<1>2. \A q \in Tasks : phase'[q] = IF q = p THEN "live" ELSE phase[q]
  BY <1>1 DEF LayoutInv, TypeOK
<1>3. Fits(demand[p]) /\ \A q \in Tasks \ {p} : phase[q] \notin {"checked", "placed"}
  BY <1>1 DEF LedgerInv
<1>4. /\ p \in Charged' /\ Charged' \ {p} = Charged /\ Charged' \subseteq Tasks
  BY <1>1, <1>2 DEF Charged, InPhase
<1>5. IsFiniteSet(Charged')
  BY <1>4, ResourceAssumption, FS_Subset
<1>6. ASSUME NEW r \in Resources
      PROVE  available'[r] = Capacity[r] - TotalOf(demand', r, Charged')
  <2>1. /\ demand[p][r] \in Nat /\ available[r] \in Nat /\ Capacity[r] \in Nat
        /\ \A q \in Charged' : demand[q][r] \in Nat
    BY <1>4, DemandsAreNumbers
  <2>2. available'[r] = available[r] - demand[p][r]
    BY <1>1, <1>3
  <2>3. PICK c : c = Charged'
    OBVIOUS
  <2>4. /\ TotalOf(demand, r, c) = demand[p][r] + TotalOf(demand, r, c \ {p})
        /\ TotalOf(demand, r, c \ {p}) \in Nat
    BY <1>4, <1>5, <2>1, <2>3, TotalWithout
  <2>5. available[r] = Capacity[r] - TotalOf(demand, r, c \ {p})
    BY <1>4, <2>3 DEF LedgerInv
  <2>6. demand' = demand
    BY <1>1
  <2>. QED
    BY <2>1, <2>2, <2>3, <2>4, <2>5, <2>6
<1>7. ASSUME NEW q \in Tasks PROVE phase'[q] \notin {"checked", "placed"}
  BY <1>2, <1>3
<1>. QED
  BY <1>6, <1>7 DEF LedgerInv

\* A refund gives back what was charged, and never more than the machine has.
LEMMA RefundKeepsLedger ==
  ASSUME LayoutInv, LedgerInv, NEW p \in Tasks, ReleaseResources(p)
  PROVE  LedgerInv'
<1>1. /\ phase[p] = "freed"
      /\ phase' = [phase EXCEPT ![p] = "none"] /\ demand' = [demand EXCEPT ![p] = NoDemand]
      /\ available' = [r \in Resources |->
                         IF available[r] + demand[p][r] > Capacity[r] THEN Capacity[r]
                         ELSE available[r] + demand[p][r]]
  BY DEF ReleaseResources
<1>2. \A q \in Tasks : /\ phase'[q] = IF q = p THEN "none" ELSE phase[q]
                       /\ q # p => demand'[q] = demand[q]
  BY <1>1 DEF LayoutInv, TypeOK
<1>3. p \in Charged /\ Charged' = Charged \ {p} /\ Charged \subseteq Tasks
  BY <1>1, <1>2 DEF Charged, InPhase
<1>4. IsFiniteSet(Charged) /\ IsFiniteSet(Charged')
  BY <1>3, ResourceAssumption, FS_Subset
<1>5. ASSUME NEW r \in Resources
      PROVE  /\ available'[r] = Capacity[r] - TotalOf(demand', r, Charged')
             /\ available'[r] = available[r] + demand[p][r]
  <2>1. /\ demand[p][r] \in Nat /\ available[r] \in Nat /\ Capacity[r] \in Nat
        /\ \A q \in Charged : demand[q][r] \in Nat
    BY <1>3, DemandsAreNumbers
  <2>2. PICK c, e : c = Charged \ {p} /\ e = demand'
    OBVIOUS
  <2>3. /\ TotalOf(demand, r, Charged) = demand[p][r] + TotalOf(demand, r, c)
        /\ TotalOf(demand, r, c) \in Nat
    <3>1. PICK s : s = Charged
      OBVIOUS
    <3>2. IsFiniteSet(s) /\ p \in s /\ \A q \in s : demand[q][r] \in Nat
      BY <1>3, <1>4, <2>1, <3>1
    <3>3. /\ TotalOf(demand, r, s) = demand[p][r] + TotalOf(demand, r, s \ {p})
          /\ TotalOf(demand, r, s \ {p}) \in Nat
      BY <3>2, TotalWithout
    <3>. QED
      BY <2>2, <3>1, <3>3
  <2>4. available[r] = Capacity[r] - TotalOf(demand, r, Charged)
    BY DEF LedgerInv
  <2>5. available'[r] = IF available[r] + demand[p][r] > Capacity[r] THEN Capacity[r]
                        ELSE available[r] + demand[p][r]
    BY <1>1
  <2>6. /\ available'[r] = Capacity[r] - TotalOf(demand, r, c)
        /\ available'[r] = available[r] + demand[p][r]
    BY <2>1, <2>3, <2>4, <2>5
  <2>7. SameDemands(demand, e, r, c)
    BY <1>2, <1>3, <2>1, <2>2 DEF SameDemands
  <2>8. TotalOf(demand, r, c) = TotalOf(e, r, c)
    BY <1>3, <1>4, <2>2, <2>7, TotalUnchanged
  <2>. QED
    BY <1>3, <2>2, <2>6, <2>8
<1>6. ASSUME NEW q \in Tasks, phase'[q] \in {"checked", "placed"}
      PROVE  q # p /\ phase[q] \in {"checked", "placed"} /\ Fits(demand[q])'
  <2>1. q # p /\ phase[q] \in {"checked", "placed"} /\ demand'[q] = demand[q] /\ Fits(demand[q])
    BY <1>2, <1>6 DEF LedgerInv
  <2>2. \A r \in Resources : available'[r] >= available[r]
    BY <1>5, DemandsAreNumbers
  <2>3. \A r \in Resources : /\ available[r] \in Nat /\ available'[r] \in Int
                             /\ demand[q][r] \in Nat
    BY <1>5, DemandsAreNumbers
  <2>. QED
    BY <2>1, <2>2, <2>3 DEF Fits
<1>. QED
  BY <1>5, <1>6 DEF LedgerInv

\* Every step keeps the ledger right.
LEMMA LedgerStep ==
  ASSUME LayoutInv, LedgerInv, [Next]_vars
  PROVE  LedgerInv'
<1>1. /\ phase \in [Tasks -> {"none", "checked", "refused", "placed", "live", "freed"}]
      /\ demand \in [Tasks -> Programs \cup {NoDemand}]
  BY DEF LayoutInv, TypeOK
<1>2. ASSUME NEW p \in Tasks, NEW d \in Programs, CheckResources(p, d) PROVE LedgerInv'
  <2>1. /\ UNCHANGED available /\ phase[p] = "none"
        /\ phase' = [phase EXCEPT ![p] = "checked"] /\ demand' = [demand EXCEPT ![p] = d]
        /\ Fits(d) /\ \A q \in Tasks : phase[q] \notin {"checked", "placed"}
    BY <1>2 DEF CheckResources
  <2>. QED
    BY <2>1, PhasesKeepLedger
<1>3. ASSUME NEW p \in Tasks, AllocateMemoryBlock(p) PROVE LedgerInv'
  <2>1. /\ UNCHANGED <<available, demand>> /\ phase[p] = "checked"
        /\ \E f \in {"refused", "placed"} : phase' = [phase EXCEPT ![p] = f]
    BY <1>3 DEF AllocateMemoryBlock
  <2>2. PICK f \in {"refused", "placed"} : phase' = [phase EXCEPT ![p] = f]
    BY <2>1
  <2>3. demand' = [demand EXCEPT ![p] = demand[p]]
    BY <1>1, <2>1
  <2>4. Fits(demand[p]) /\ \A q \in Tasks \ {p} : phase[q] \notin {"checked", "placed"}
    BY <2>1 DEF LedgerInv
  <2>. QED
    BY <2>1, <2>2, <2>3, <2>4, PhasesKeepLedger
<1>4. ASSUME NEW p \in Tasks, AllocateResources(p) PROVE LedgerInv'
  BY <1>4, ChargeKeepsLedger
<1>5. ASSUME NEW p \in Tasks, DeniedChildExits(p) PROVE LedgerInv'
  <2>1. /\ UNCHANGED available /\ phase[p] = "refused"
        /\ phase' = [phase EXCEPT ![p] = "none"] /\ demand' = [demand EXCEPT ![p] = NoDemand]
    BY <1>5 DEF DeniedChildExits
  <2>. QED
    BY <2>1, PhasesKeepLedger
<1>6. ASSUME NEW p \in Tasks, ReleaseMemoryBlock(p) PROVE LedgerInv'
  <2>1. /\ UNCHANGED <<available, demand>> /\ phase[p] = "live"
        /\ phase' = [phase EXCEPT ![p] = "freed"]
    BY <1>6 DEF ReleaseMemoryBlock
  <2>2. demand' = [demand EXCEPT ![p] = demand[p]]
    BY <1>1, <2>1
  <2>. QED
    BY <2>1, <2>2, PhasesKeepLedger
<1>7. ASSUME NEW p \in Tasks, ReleaseResources(p) PROVE LedgerInv'
  BY <1>7, RefundKeepsLedger
<1>8. CASE UNCHANGED vars
  BY <1>8 DEF vars, LedgerInv, Fits, Charged, InPhase
<1>. QED
  BY <1>2, <1>3, <1>4, <1>5, <1>6, <1>7, <1>8 DEF Next

\* The counters stand for exactly the tasks that were charged and not refunded,
\* and the layout for those that have a block (allocateResources,
\* releaseResources, and the calls around them).
THEOREM ResourceLedgerMatchesLayout == Spec => []LedgerMatchesLayout
<1>1. Init => LayoutInv /\ LedgerInv
  BY LayoutInit, LedgerInit
<1>2. LayoutInv /\ LedgerInv /\ [Next]_vars => LayoutInv' /\ LedgerInv'
  BY LayoutStep, LedgerStep
<1>3. LayoutInv /\ LedgerInv => LedgerMatchesLayout
  <2>. SUFFICES ASSUME LayoutInv, LedgerInv PROVE LedgerMatchesLayout
    OBVIOUS
  <2>1. TiledTo(memoryBlocks, RAM) /\ OneEach(memoryBlocks) /\ BlocksOfTasks
    BY DEF LayoutInv
  <2>2. ASSUME NEW p \in Tasks
        PROVE  SizeIn(memoryBlocks, p) = IF phase[p] \in {"placed", "live"} THEN demand[p]["ram"]
                                         ELSE 0
    BY <2>1, SizeInLayout DEF BlocksOfTasks
  <2>3. \A r \in Resources :
          available[r] = Capacity[r] - TotalOf(demand, r, InPhase({"live", "freed"}))
    BY DEF LedgerInv, Charged
  <2>. QED
    BY <2>2, <2>3 DEF LedgerMatchesLayout
<1>. QED
  BY <1>1, <1>2, <1>3, PTL DEF Spec

-----------------------------------------------------------------------------
(* detectDeadlock.                                                          *)

\* The graph that detectDeadlock builds is the waiting of the records.
LEMMA GraphIsWaiting ==
  \A p, q : q \in WaitForGraph(p) <=> WaitsFor(p, q)
BY DEF WaitForGraph, WaitsFor, Known

\* A node that waits only for nodes of a closed set without circles does not
\* bring a circle into it.
LEMMA NoCircleThrough ==
  ASSUME NEW B, NEW p,
         WaitForGraph(p) \subseteq B,
         \A b \in B : WaitForGraph(b) \subseteq B,
         \A S \in SUBSET B : ~CircularWait(S)
  PROVE  \A S \in SUBSET (B \cup {p}) : ~CircularWait(S)
<1>1. SUFFICES ASSUME NEW S \in SUBSET (B \cup {p}), CircularWait(S), p \notin B
               PROVE  FALSE
  OBVIOUS
<1> DEFINE T == S \cap B
<1>2. ASSUME NEW s \in S
      PROVE  \E t \in T : WaitsFor(s, t)
  <2>1. PICK t \in S : WaitsFor(s, t)
    BY <1>1 DEF CircularWait
  <2>2. t \in WaitForGraph(s)
    BY <2>1, GraphIsWaiting
  <2>3. t \in B
    BY <2>2
  <2> QED BY <2>1, <2>3
<1>3. S # {}
  BY <1>1 DEF CircularWait
<1>4. T # {}
  BY <1>2, <1>3
<1>5. CircularWait(T)
  BY <1>2, <1>4 DEF CircularWait
<1> QED BY <1>5

LEMMA DetectorStarts == DetectorInit => DetectorInv
<1> SUFFICES ASSUME DetectorInit PROVE DetectorInv
  OBVIOUS
<1>1. DetectorTypeOK
  BY DEF DetectorInit, DetectorTypeOK
<1> QED BY <1>1 DEF DetectorInit, DetectorInv, SearchInv, NoFalseAlarm, NoMissedDeadlock, VictimTakesPart

\* The frames that the search builds are frames.
LEMMA FramesKept ==
  ASSUME DetectorTypeOK
  PROVE  /\ \A p : WaitForGraph(p) \subseteq Pids
         /\ \A p \in Pids, s \in Seq(Frames) :
              Append(s, [pid |-> p, left |-> WaitForGraph(p)]) \in Seq(Frames)
         /\ stack # <<>> => /\ Top \in Frames
                            /\ Len(stack) \in Nat \ {0}
                            /\ \A n : Looking(n) \in Seq(Frames)
                            /\ SubSeq(stack, 1, Len(stack) - 1) \in Seq(Frames)
<1>1. \A p : WaitForGraph(p) \subseteq Pids
  BY DEF WaitForGraph, Known, DetectorTypeOK, Records
<1>2. \A p \in Pids, s \in Seq(Frames) :
        Append(s, [pid |-> p, left |-> WaitForGraph(p)]) \in Seq(Frames)
  BY <1>1 DEF Frames
<1>3. ASSUME stack # <<>>
      PROVE  /\ Top \in Frames
             /\ Len(stack) \in Nat \ {0}
             /\ \A n : Looking(n) \in Seq(Frames)
             /\ SubSeq(stack, 1, Len(stack) - 1) \in Seq(Frames)
  <2>1. stack \in Seq(Frames) /\ Len(stack) \in Nat \ {0} /\ Top \in Frames
    BY <1>3 DEF DetectorTypeOK, Top
  <2>2. ASSUME NEW n
        PROVE  Looking(n) \in Seq(Frames)
    <3>1. [pid |-> Top.pid, left |-> Top.left \ {n}] \in Frames
      BY <2>1 DEF Frames
    <3> QED BY <2>1, <3>1 DEF Looking
  <2>3. SubSeq(stack, 1, Len(stack) - 1) \in Seq(Frames)
    BY <2>1
  <2> QED BY <2>1, <2>2, <2>3
<1> QED BY <1>1, <1>2, <1>3

LEMMA TypesKept ==
  ASSUME DetectorTypeOK, [DetectorNext]_detectorVars
  PROVE  DetectorTypeOK'
<1> USE PidsAssumption
<1>1. CASE AddRecord \/ ClearRecords
  BY <1>1 DEF DetectorTypeOK, AddRecord, ClearRecords, search
<1>9. CASE DetectDeadlock \/ Answer
  <2>1. /\ pc' \in {"search", "idle"} /\ records' = records /\ victim' = 0
        /\ globalVisited' = {} /\ activeStack' = {} /\ stack' = <<>>
    BY <1>9 DEF DetectDeadlock, Answer
  <2> QED BY <2>1 DEF DetectorTypeOK
<1>2. ASSUME NEW p \in Pids, StartFrom(p)
      PROVE  DetectorTypeOK'
  BY <1>2, FramesKept DEF DetectorTypeOK, StartFrom, Call
<1>3. ASSUME NEW n \in Pids, FindCycle(n)
      PROVE  DetectorTypeOK'
  <2>1. Larger(Top.pid, n) \in Pids
    BY <1>3, FramesKept DEF Larger, FindCycle, Frames
  <2> QED BY <1>3, <2>1 DEF DetectorTypeOK, FindCycle, search
<1>4. ASSUME NEW n \in Pids, Descend(n)
      PROVE  DetectorTypeOK'
  BY <1>4, FramesKept DEF DetectorTypeOK, Descend, Call
<1>5. ASSUME NEW n \in Pids, PassOver(n)
      PROVE  DetectorTypeOK'
  BY <1>5, FramesKept DEF DetectorTypeOK, PassOver
<1>6. CASE Return
  BY <1>6, FramesKept DEF DetectorTypeOK, Return
<1>7. CASE NothingFound
  BY <1>7 DEF DetectorTypeOK, NothingFound, search
<1>8. CASE UNCHANGED detectorVars
  BY <1>8 DEF DetectorTypeOK, detectorVars, search
<1> QED BY <1>1, <1>2, <1>3, <1>4, <1>5, <1>6, <1>7, <1>8, <1>9 DEF DetectorNext, Search

-----------------------------------------------------------------------------
(* The search keeps its invariant.                                         *)

\* What the records determine does not change during a search.
LEMMA GraphKept ==
  ASSUME records' = records
  PROVE  /\ Known' = Known
         /\ \A p : WaitForGraph(p)' = WaitForGraph(p)
         /\ \A p, q : WaitsFor(p, q)' = WaitsFor(p, q)
         /\ \A S : CircularWait(S)' = CircularWait(S)
         /\ \A T : Closed(T)' = Closed(T)
BY DEF Known, WaitForGraph, WaitsFor, CircularWait, Closed

LEMMA StartKeeps ==
  ASSUME DetectorInv, NEW p \in Pids, StartFrom(p)
  PROVE  SearchInv'
<1> USE DEF StartFrom, Call
<1>1. /\ records' = records /\ pc = "search" /\ stack = <<>>
      /\ p \in Known /\ p \notin globalVisited
      /\ globalVisited' = globalVisited \cup {p}
      /\ activeStack' = activeStack \cup {p}
  OBVIOUS
<1>2. /\ Len(stack') = 1 /\ stack'[1].pid = p /\ stack'[1].left = WaitForGraph(p)
  OBVIOUS
<1>3. activeStack = {} /\ globalVisited \subseteq Known
  BY <1>1 DEF DetectorInv, SearchInv, StackIsPath
<1>4. Returned' = Returned
  BY <1>1, <1>3 DEF Returned
<1>5. StackIsPath'
  BY <1>1, <1>2, <1>3, GraphKept DEF StackIsPath
<1>6. CallsFollow'
  BY <1>2 DEF CallsFollow
<1>7. LookedAt'
  BY <1>1, <1>2, GraphKept DEF LookedAt
<1>8. ReturnedClosed' /\ ReturnedFree'
  BY <1>1, <1>4, GraphKept DEF DetectorInv, SearchInv, ReturnedClosed, ReturnedFree
<1> QED BY <1>1, <1>3, <1>5, <1>6, <1>7, <1>8, GraphKept DEF SearchInv

\* What Looking and SubSeq leave of the stack.
LEMMA StackBelow ==
  ASSUME DetectorTypeOK, stack # <<>>, NEW n
  PROVE  /\ Len(Looking(n)) = Len(stack)
         /\ \A i \in 1..Len(stack) :
              /\ Looking(n)[i].pid = stack[i].pid
              /\ i < Len(stack) => Looking(n)[i].left = stack[i].left
         /\ Looking(n)[Len(stack)].left = Top.left \ {n}
         /\ Len(SubSeq(stack, 1, Len(stack) - 1)) = Len(stack) - 1
         /\ \A i \in 1..(Len(stack) - 1) : SubSeq(stack, 1, Len(stack) - 1)[i] = stack[i]
<1>1. stack \in Seq(Frames) /\ Len(stack) \in Nat \ {0}
  BY FramesKept DEF DetectorTypeOK
<1>2. Len(Looking(n)) = Len(stack)
  BY <1>1 DEF Looking
<1>3. \A i \in 1..Len(stack) :
        /\ Looking(n)[i].pid = stack[i].pid
        /\ i < Len(stack) => Looking(n)[i].left = stack[i].left
  BY <1>1 DEF Looking, Top
<1>4. Looking(n)[Len(stack)].left = Top.left \ {n}
  BY <1>1 DEF Looking, Top
<1>5. \A i \in 1..(Len(stack) - 1) : stack[i] \in Frames
  BY <1>1
<1> DEFINE k == Len(stack) - 1
<1>6. /\ Len(SubSeq(stack, 1, k)) = IF 1 <= k THEN k - 1 + 1 ELSE 0
      /\ \A i \in 1..(k - 1 + 1) : SubSeq(stack, 1, k)[i] = stack[1 + i - 1]
  <2>1. 1 \in Int /\ k \in Int
    BY <1>1
  <2> HIDE DEF k
  <2> QED BY <2>1, <1>5, SubSeqProperties DEF k
<1>7. Len(SubSeq(stack, 1, Len(stack) - 1)) = Len(stack) - 1
  <2>1. k \in Nat
    BY <1>1
  <2>2. Len(SubSeq(stack, 1, k)) = k
    <3> HIDE DEF k
    <3> QED BY <2>1, <1>6
  <2> QED BY <2>2
<1>8. \A i \in 1..(Len(stack) - 1) : SubSeq(stack, 1, Len(stack) - 1)[i] = stack[i]
  BY <1>1, <1>6
<1> QED BY <1>2, <1>3, <1>4, <1>7, <1>8

LEMMA DescendKeeps ==
  ASSUME DetectorInv, NEW n \in Pids, Descend(n)
  PROVE  SearchInv'
<1> DEFINE k == Len(stack)
<1>1. /\ records' = records /\ pc = "search" /\ stack # <<>>
      /\ n \in Top.left /\ n \notin activeStack /\ n \notin globalVisited
      /\ globalVisited' = globalVisited \cup {n}
      /\ activeStack' = activeStack \cup {n}
      /\ stack' = Append(Looking(n), [pid |-> n, left |-> WaitForGraph(n)])
  BY DEF Descend, Call
<1>2. DetectorTypeOK /\ k \in Nat \ {0} /\ Looking(n) \in Seq(Frames)
  BY <1>1, FramesKept DEF DetectorInv
<1>3. /\ Len(stack') = k + 1
      /\ \A i \in 1..k : /\ stack'[i].pid = stack[i].pid
                         /\ i < k => stack'[i].left = stack[i].left
      /\ stack'[k].left = Top.left \ {n}
      /\ stack'[k + 1].pid = n /\ stack'[k + 1].left = WaitForGraph(n)
  BY <1>1, <1>2, StackBelow
<1>4. /\ StackIsPath /\ CallsFollow /\ LookedAt /\ ReturnedClosed /\ ReturnedFree
      /\ activeStack \subseteq globalVisited /\ globalVisited \subseteq Known
  BY <1>1 DEF DetectorInv, SearchInv
<1>5. n \in WaitForGraph(stack[k].pid) /\ Top.left \subseteq WaitForGraph(stack[k].pid)
  BY <1>1, <1>2, <1>4 DEF StackIsPath, Top
<1>6. n \in Known
  BY <1>5 DEF WaitForGraph
<1>7. Returned' = Returned
  BY <1>1 DEF Returned
<1>8. StackIsPath'
  <2>1. activeStack' = {stack'[i].pid : i \in 1..Len(stack')}
    <3>1. {stack'[i].pid : i \in 1..(k + 1)} = {stack[i].pid : i \in 1..k} \cup {n}
      BY <1>2, <1>3
    <3> QED BY <3>1, <1>1, <1>3, <1>4 DEF StackIsPath
  <2>2. \A i, j \in 1..Len(stack') : stack'[i].pid = stack'[j].pid => i = j
    <3>1. \A i \in 1..k : stack[i].pid # n
      BY <1>1, <1>4 DEF StackIsPath
    <3>2. \A i, j \in 1..k : stack[i].pid = stack[j].pid => i = j
      BY <1>4 DEF StackIsPath
    <3> QED BY <3>1, <3>2, <1>2, <1>3
  <2>3. \A i \in 1..(Len(stack') - 1) :
          stack'[i + 1].pid \in WaitForGraph(stack'[i].pid)
    <3>1. \A i \in 1..(k - 1) : stack[i + 1].pid \in WaitForGraph(stack[i].pid)
      BY <1>4 DEF StackIsPath
    <3> QED BY <3>1, <1>2, <1>3, <1>5
  <2>4. \A i \in 1..Len(stack') : stack'[i].left \subseteq WaitForGraph(stack'[i].pid)
    <3>1. \A i \in 1..k : stack[i].left \subseteq WaitForGraph(stack[i].pid)
      BY <1>4 DEF StackIsPath
    <3> QED BY <3>1, <1>2, <1>3, <1>5
  <2> QED BY <2>1, <2>2, <2>3, <2>4, <1>1, GraphKept DEF StackIsPath
<1>9. CallsFollow'
  <2>1. SUFFICES ASSUME NEW T \in SUBSET Known, Closed(T),
                        NEW i \in 1..(k + 1), NEW j \in 1..(k + 1),
                        i < j, stack'[i].pid \in T
                 PROVE  stack'[j].pid \in T
    BY <1>1, <1>3, GraphKept DEF CallsFollow
  <2>2. i \in 1..k /\ stack[i].pid \in T
    BY <2>1, <1>2, <1>3
  <2>3. CASE j \in 1..k
    BY <2>1, <2>2, <2>3, <1>3, <1>4 DEF CallsFollow
  <2>4. CASE j = k + 1
    <3>1. stack[k].pid \in T
      BY <2>1, <2>2, <1>2, <1>4 DEF CallsFollow
    <3> QED BY <3>1, <2>1, <2>4, <1>3, <1>5 DEF Closed
  <2> QED BY <2>3, <2>4, <1>2
<1>10. LookedAt'
  <2>1. SUFFICES ASSUME NEW i \in 1..(k + 1),
                        NEW q \in WaitForGraph(stack'[i].pid) \ stack'[i].left
                 PROVE  q \in Returned \/ (i < k + 1 /\ q = stack'[i + 1].pid)
    BY <1>1, <1>3, <1>7, GraphKept DEF LookedAt
  <2>2. CASE i = k + 1
    BY <2>1, <2>2, <1>3
  <2>3. CASE i = k
    BY <2>1, <2>3, <1>2, <1>3, <1>4 DEF LookedAt, Top
  <2>4. CASE i < k
    BY <2>1, <2>4, <1>2, <1>3, <1>4 DEF LookedAt
  <2> QED BY <2>2, <2>3, <2>4, <1>2
<1>11. ReturnedClosed' /\ ReturnedFree'
  BY <1>1, <1>4, <1>7, GraphKept DEF ReturnedClosed, ReturnedFree
<1>12. activeStack' \subseteq globalVisited' /\ globalVisited' \subseteq Known'
  BY <1>1, <1>4, <1>6, GraphKept
<1> QED BY <1>1, <1>8, <1>9, <1>10, <1>11, <1>12 DEF SearchInv

LEMMA PassOverKeeps ==
  ASSUME DetectorInv, NEW n \in Pids, PassOver(n)
  PROVE  SearchInv'
<1> DEFINE k == Len(stack)
<1>1. /\ records' = records /\ pc = "search" /\ stack # <<>>
      /\ n \in Top.left /\ n \notin activeStack /\ n \in globalVisited
      /\ globalVisited' = globalVisited /\ activeStack' = activeStack
      /\ stack' = Looking(n)
  BY DEF PassOver
<1>2. DetectorTypeOK /\ k \in Nat \ {0}
  BY <1>1, FramesKept DEF DetectorInv
<1>3. /\ Len(stack') = k
      /\ \A i \in 1..k : /\ stack'[i].pid = stack[i].pid
                         /\ i < k => stack'[i].left = stack[i].left
      /\ stack'[k].left = Top.left \ {n}
  BY <1>1, <1>2, StackBelow
<1>4. /\ StackIsPath /\ CallsFollow /\ LookedAt /\ ReturnedClosed /\ ReturnedFree
      /\ activeStack \subseteq globalVisited /\ globalVisited \subseteq Known
  BY <1>1 DEF DetectorInv, SearchInv
<1>5. Returned' = Returned /\ n \in Returned
  BY <1>1 DEF Returned
<1>6. StackIsPath'
  <2>1. \A i \in 1..k : stack'[i].left \subseteq stack[i].left
    BY <1>2, <1>3 DEF Top
  <2> QED BY <2>1, <1>1, <1>2, <1>3, <1>4, GraphKept DEF StackIsPath
<1>7. CallsFollow'
  BY <1>1, <1>3, <1>4, GraphKept DEF CallsFollow
<1>8. LookedAt'
  <2>1. SUFFICES ASSUME NEW i \in 1..k,
                        NEW q \in WaitForGraph(stack'[i].pid) \ stack'[i].left
                 PROVE  q \in Returned \/ (i < k /\ q = stack'[i + 1].pid)
    BY <1>1, <1>3, <1>5, GraphKept DEF LookedAt
  <2>2. CASE i = k
    BY <2>1, <2>2, <1>2, <1>3, <1>4, <1>5 DEF LookedAt, Top
  <2>3. CASE i < k
    BY <2>1, <2>3, <1>2, <1>3, <1>4 DEF LookedAt
  <2> QED BY <2>2, <2>3, <1>2
<1>9. ReturnedClosed' /\ ReturnedFree'
  BY <1>1, <1>4, <1>5, GraphKept DEF ReturnedClosed, ReturnedFree
<1> QED BY <1>1, <1>4, <1>6, <1>7, <1>8, <1>9, GraphKept DEF SearchInv

LEMMA ReturnKeeps ==
  ASSUME DetectorInv, Return
  PROVE  SearchInv'
<1> DEFINE k == Len(stack)
           t == stack[k].pid
<1>1. /\ records' = records /\ pc = "search" /\ stack # <<>> /\ Top.left = {}
      /\ globalVisited' = globalVisited /\ activeStack' = activeStack \ {t}
      /\ stack' = SubSeq(stack, 1, k - 1)
  BY DEF Return, Top
<1>2. DetectorTypeOK /\ k \in Nat \ {0}
  BY <1>1, FramesKept DEF DetectorInv
<1>3. Len(stack') = k - 1 /\ \A i \in 1..(k - 1) : stack'[i] = stack[i]
  BY <1>1, <1>2, StackBelow
<1>4. /\ StackIsPath /\ CallsFollow /\ LookedAt /\ ReturnedClosed /\ ReturnedFree
      /\ activeStack \subseteq globalVisited /\ globalVisited \subseteq Known
  BY <1>1 DEF DetectorInv, SearchInv
<1>5. t \in activeStack /\ Returned' = Returned \cup {t}
  BY <1>1, <1>2, <1>4 DEF StackIsPath, Returned
<1>6. WaitForGraph(t) \subseteq Returned
  BY <1>1, <1>2, <1>4 DEF LookedAt, Top
<1>7. StackIsPath'
  <2>1. activeStack' = {stack'[i].pid : i \in 1..Len(stack')}
    <3>1. {stack[i].pid : i \in 1..(k - 1)} = {stack[i].pid : i \in 1..k} \ {t}
      BY <1>2, <1>4 DEF StackIsPath
    <3>2. {stack'[i].pid : i \in 1..(k - 1)} = {stack[i].pid : i \in 1..(k - 1)}
      BY <1>3
    <3> QED BY <3>1, <3>2, <1>1, <1>3, <1>4 DEF StackIsPath
  <2>2. \A i, j \in 1..(k - 1) : stack'[i].pid = stack'[j].pid => i = j
    BY <1>2, <1>3, <1>4 DEF StackIsPath
  <2>3. \A i \in 1..(k - 1 - 1) : stack'[i + 1].pid \in WaitForGraph(stack'[i].pid)
    BY <1>2, <1>3, <1>4 DEF StackIsPath
  <2>4. \A i \in 1..(k - 1) : stack'[i].left \subseteq WaitForGraph(stack'[i].pid)
    BY <1>2, <1>3, <1>4 DEF StackIsPath
  <2> QED BY <2>1, <2>2, <2>3, <2>4, <1>1, <1>3, GraphKept DEF StackIsPath
<1>8. CallsFollow'
  BY <1>1, <1>2, <1>3, <1>4, GraphKept DEF CallsFollow
<1>9. LookedAt'
  <2>1. SUFFICES ASSUME NEW i \in 1..(k - 1),
                        NEW q \in WaitForGraph(stack[i].pid) \ stack[i].left
                 PROVE  q \in Returned' \/ (i < k - 1 /\ q = stack'[i + 1].pid)
    BY <1>1, <1>3, GraphKept DEF LookedAt
  <2>2. q \in Returned \/ q = stack[i + 1].pid
    BY <2>1, <1>2, <1>4 DEF LookedAt
  <2>3. CASE i < k - 1
    BY <2>2, <2>3, <1>2, <1>3, <1>5
  <2>4. CASE i = k - 1
    BY <2>2, <2>4, <1>2, <1>5
  <2> QED BY <2>3, <2>4, <1>2
<1>10. ReturnedClosed'
  BY <1>1, <1>4, <1>5, <1>6, GraphKept DEF ReturnedClosed
<1>11. ReturnedFree'
  BY <1>1, <1>4, <1>5, <1>6, GraphKept, NoCircleThrough DEF ReturnedClosed, ReturnedFree
<1> QED BY <1>1, <1>4, <1>7, <1>8, <1>9, <1>10, <1>11, GraphKept DEF SearchInv

-----------------------------------------------------------------------------
(* The answers.                                                            *)

\* The calls from the one for n to the top wait for each other.
LEMMA FoundRightly ==
  ASSUME DetectorInv, NEW n \in Pids, FindCycle(n)
  PROVE  \E S \in SUBSET Known : CircularWait(S)
<1> DEFINE k == Len(stack)
<1>1. pc = "search" /\ stack # <<>> /\ n \in Top.left /\ n \in activeStack
  BY DEF FindCycle
<1>2. DetectorTypeOK /\ k \in Nat \ {0}
  BY <1>1, FramesKept DEF DetectorInv
<1>3. StackIsPath /\ activeStack \subseteq Known
  BY <1>1 DEF DetectorInv, SearchInv
<1>4. PICK m \in 1..k : stack[m].pid = n
  BY <1>1, <1>3 DEF StackIsPath
<1> DEFINE S == {stack[i].pid : i \in m..k}
<1>5. S \subseteq Known /\ n \in S
  BY <1>2, <1>3, <1>4 DEF StackIsPath
<1>6. ASSUME NEW i \in m..k
      PROVE  \E q \in S : WaitsFor(stack[i].pid, q)
  <2>1. CASE i < k
    <3>1. stack[i + 1].pid \in WaitForGraph(stack[i].pid) /\ stack[i + 1].pid \in S
      BY <2>1, <1>2, <1>3 DEF StackIsPath
    <3> QED BY <3>1, GraphIsWaiting
  <2>2. CASE i = k
    <3>1. n \in WaitForGraph(stack[k].pid)
      BY <1>1, <1>2, <1>3 DEF StackIsPath, Top
    <3> QED BY <3>1, <2>2, <1>5, GraphIsWaiting
  <2> QED BY <2>1, <2>2, <1>2
<1>7. CircularWait(S)
  BY <1>5, <1>6 DEF CircularWait
<1> QED BY <1>5, <1>7

\* Both ends of the edge that closes the cycle lie on it.
LEMMA BothEndsTakePart ==
  ASSUME DetectorInv, NEW n \in Pids, FindCycle(n)
  PROVE  ComesBackTo(Top.pid) /\ ComesBackTo(n)
<1> DEFINE k == Len(stack)
<1>1. pc = "search" /\ stack # <<>> /\ n \in Top.left /\ n \in activeStack
  BY DEF FindCycle
<1>2. DetectorTypeOK /\ k \in Nat \ {0}
  BY <1>1, FramesKept DEF DetectorInv
<1>3. StackIsPath /\ CallsFollow
  BY <1>1 DEF DetectorInv, SearchInv
<1>4. PICK m \in 1..k : stack[m].pid = n
  BY <1>1, <1>3 DEF StackIsPath
<1>5. n \in WaitForGraph(Top.pid) /\ Top.pid = stack[k].pid
  BY <1>1, <1>2, <1>3 DEF StackIsPath, Top
<1>6. n \in Known
  BY <1>5 DEF WaitForGraph
<1>7. ASSUME NEW T \in SUBSET Known, Closed(T), n \in T
      PROVE  Top.pid \in T
  BY <1>2, <1>3, <1>4, <1>5, <1>7 DEF CallsFollow
<1>8. ASSUME NEW T \in SUBSET Known,
             \A t \in T : \A q \in Known : WaitsFor(t, q) => q \in T
      PROVE  Closed(T)
  BY <1>8, GraphIsWaiting DEF Closed, WaitForGraph
<1>9. ComesBackTo(Top.pid)
  <2>1. SUFFICES ASSUME NEW T \in SUBSET Known,
                        \A q \in Known : WaitsFor(Top.pid, q) => q \in T,
                        \A t \in T : \A q \in Known : WaitsFor(t, q) => q \in T
                 PROVE  Top.pid \in T
    BY DEF ComesBackTo
  <2>2. n \in T
    BY <2>1, <1>5, <1>6, GraphIsWaiting
  <2> QED BY <2>1, <2>2, <1>7, <1>8
<1>10. ComesBackTo(n)
  <2>1. SUFFICES ASSUME NEW T \in SUBSET Known,
                        \A q \in Known : WaitsFor(n, q) => q \in T,
                        \A t \in T : \A q \in Known : WaitsFor(t, q) => q \in T
                 PROVE  n \in T
    BY DEF ComesBackTo
  <2>2. Top.pid \in T
    <3>1. CASE m = k
      BY <3>1, <2>1, <1>4, <1>5, <1>6, GraphIsWaiting
    <3>2. CASE m < k
      <4>1. stack[m + 1].pid \in WaitForGraph(n)
        BY <3>2, <1>2, <1>3, <1>4 DEF StackIsPath
      <4>2. stack[m + 1].pid \in T
        BY <4>1, <2>1, GraphIsWaiting DEF WaitForGraph
      <4>3. CASE m + 1 = k
        BY <4>2, <4>3, <1>5
      <4>4. CASE m + 1 < k
        <5>1. Closed(T)
          BY <2>1, <1>8
        <5> QED BY <4>2, <4>4, <5>1, <1>2, <1>3, <1>5 DEF CallsFollow
      <4> QED BY <4>3, <4>4, <3>2, <1>2
    <3> QED BY <3>1, <3>2, <1>2
  <2>3. n \in WaitForGraph(Top.pid)
    BY <1>5
  <2> QED BY <2>1, <2>2, <2>3, <1>6, GraphIsWaiting
<1> QED BY <1>9, <1>10

LEMMA SearchKeepsInvariant ==
  ASSUME DetectorInv, [DetectorNext]_detectorVars
  PROVE  DetectorInv'
<1>1. DetectorTypeOK'
  BY TypesKept DEF DetectorInv
<1>2. CASE AddRecord \/ ClearRecords \/ Answer
  <2>1. pc' = "idle"
    BY <1>2 DEF AddRecord, ClearRecords, Answer
  <2> QED BY <1>1, <2>1 DEF DetectorInv, SearchInv, NoFalseAlarm, NoMissedDeadlock, VictimTakesPart
<1>3. CASE DetectDeadlock
  <2>1. /\ pc' = "search" /\ stack' = <<>> /\ Len(stack') = 0
        /\ globalVisited' = {} /\ activeStack' = {}
    BY <1>3 DEF DetectDeadlock
  <2>2. SearchInv'
    <3>1. StackIsPath' /\ CallsFollow' /\ LookedAt'
      BY <2>1 DEF StackIsPath, CallsFollow, LookedAt
    <3>2. ReturnedClosed' /\ ReturnedFree'
      BY <2>1 DEF ReturnedClosed, ReturnedFree, Returned, CircularWait
    <3> QED BY <2>1, <3>1, <3>2 DEF SearchInv
  <2> QED BY <1>1, <2>1, <2>2 DEF DetectorInv, NoFalseAlarm, NoMissedDeadlock, VictimTakesPart
<1>4. ASSUME NEW p \in Pids, StartFrom(p) \/ Descend(p) \/ PassOver(p)
      PROVE  DetectorInv'
  <2>1. SearchInv'
    BY <1>4, StartKeeps, DescendKeeps, PassOverKeeps
  <2>2. pc' = "search"
    BY <1>4 DEF StartFrom, Descend, PassOver
  <2> QED BY <1>1, <2>1, <2>2 DEF DetectorInv, NoFalseAlarm, NoMissedDeadlock, VictimTakesPart
<1>5. CASE Return
  <2>1. SearchInv'
    BY <1>5, ReturnKeeps
  <2>2. pc' = "search"
    BY <1>5 DEF Return
  <2> QED BY <1>1, <2>1, <2>2 DEF DetectorInv, NoFalseAlarm, NoMissedDeadlock, VictimTakesPart
<1>6. ASSUME NEW n \in Pids, FindCycle(n)
      PROVE  DetectorInv'
  <2>1. pc' = "deadlock" /\ records' = records /\ victim' = Larger(Top.pid, n)
    BY <1>6 DEF FindCycle
  <2>2. NoFalseAlarm'
    BY <1>6, <2>1, FoundRightly, GraphKept DEF NoFalseAlarm
  <2>3. ComesBackTo(victim')
    BY <1>6, <2>1, BothEndsTakePart DEF Larger
  <2>4. VictimTakesPart'
    BY <2>1, <2>3, GraphKept DEF VictimTakesPart, ComesBackTo
  <2> QED BY <1>1, <2>1, <2>2, <2>4 DEF DetectorInv, SearchInv, NoMissedDeadlock
<1>7. CASE NothingFound
  <2>1. /\ pc = "search" /\ pc' = "clear" /\ records' = records /\ stack = <<>>
        /\ Known \subseteq globalVisited
    BY <1>7 DEF NothingFound
  <2>2. activeStack = {} /\ ReturnedFree
    BY <2>1 DEF DetectorInv, SearchInv, StackIsPath
  <2>3. \A S \in SUBSET Known : ~CircularWait(S)
    BY <2>1, <2>2 DEF ReturnedFree, Returned
  <2>4. NoMissedDeadlock'
    BY <2>1, <2>3, GraphKept DEF NoMissedDeadlock
  <2> QED BY <1>1, <2>1, <2>4 DEF DetectorInv, SearchInv, NoFalseAlarm, VictimTakesPart
<1>8. CASE UNCHANGED detectorVars
  <2>1. /\ records' = records /\ pc' = pc /\ stack' = stack /\ victim' = victim
        /\ globalVisited' = globalVisited /\ activeStack' = activeStack
    BY <1>8 DEF detectorVars, search
  <2>2. SearchInv'
    <3>1. StackIsPath' = StackIsPath /\ CallsFollow' = CallsFollow
      BY <2>1, GraphKept DEF StackIsPath, CallsFollow
    <3>2. LookedAt' = LookedAt /\ Returned' = Returned
      BY <2>1, GraphKept DEF LookedAt, Returned
    <3>3. ReturnedClosed' = ReturnedClosed /\ ReturnedFree' = ReturnedFree
      BY <2>1, <3>2, GraphKept DEF ReturnedClosed, ReturnedFree
    <3> QED BY <2>1, <3>1, <3>2, <3>3, GraphKept DEF DetectorInv, SearchInv
  <2>3. NoFalseAlarm' /\ NoMissedDeadlock'
    BY <2>1, GraphKept DEF DetectorInv, NoFalseAlarm, NoMissedDeadlock
  <2>4. VictimTakesPart'
    BY <2>1, GraphKept DEF DetectorInv, VictimTakesPart, ComesBackTo
  <2> QED BY <1>1, <2>2, <2>3, <2>4 DEF DetectorInv
<1> QED BY <1>2, <1>3, <1>4, <1>5, <1>6, <1>7, <1>8 DEF DetectorNext, Search

\* The invariant of the search.
THEOREM DetectionInvariant == DetectorSpec => []DetectorInv
<1>1. DetectorInit => DetectorInv
  BY DetectorStarts
<1>2. DetectorInv /\ [DetectorNext]_detectorVars => DetectorInv'
  BY SearchKeepsInvariant
<1> QED BY <1>1, <1>2, PTL DEF DetectorSpec

\* detectDeadlock says yes only when the records hold a circular wait.
THEOREM DetectionNoFalseAlarm == DetectorSpec => []NoFalseAlarm
<1>1. DetectorInv => NoFalseAlarm
  BY DEF DetectorInv
<1> QED BY <1>1, DetectionInvariant, PTL

\* detectDeadlock says no only when they hold none.
THEOREM DetectionNoMissedDeadlock == DetectorSpec => []NoMissedDeadlock
<1>1. DetectorInv => NoMissedDeadlock
  BY DEF DetectorInv
<1> QED BY <1>1, DetectionInvariant, PTL

\* The victim that it names takes part in a circular wait.
THEOREM DetectionVictimTakesPart == DetectorSpec => []VictimTakesPart
<1>1. DetectorInv => VictimTakesPart
  BY DEF DetectorInv
<1> QED BY <1>1, DetectionInvariant, PTL

=============================================================================
