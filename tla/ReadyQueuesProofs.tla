-------------------------- MODULE ReadyQueuesProofs --------------------------
(***************************************************************************)
(* What the ready queues owe the tasks, for any number of tasks and any    *)
(* aging threshold.  Queues and the local list of applyAging are looked at *)
(* in two ways: by which tasks have an item in them, where that is enough, *)
(* and by position only where the length of the wait is at stake.          *)
(***************************************************************************)
EXTENDS ReadyQueues, Induction

\* No task has two items in the three queues q.
Distinct(q) ==
  /\ \A k \in Queues : DistinctSeq(q[k])
  /\ \A k, l \in Queues : \A p \in Tasks : InSeq(q[k], p) /\ InSeq(q[l], p) => k = l

Drained(q) == q[1] \o q[2] \o q[3]

-----------------------------------------------------------------------------
(* Sequences of items.                                                     *)

LEMMA SeqFacts ==
  ASSUME NEW s \in Seq(Items)
  PROVE  /\ Len(s) \in Nat /\ DOMAIN s = 1..Len(s)
         /\ \A i \in 1..Len(s) : s[i] \in Items /\ s[i].pid \in Tasks /\ s[i].priority \in Queues
         /\ \A p : InSeq(s, p) => p \in Tasks
<1>1. Len(s) \in Nat /\ DOMAIN s = 1..Len(s) /\ \A i \in 1..Len(s) : s[i] \in Items
  OBVIOUS
<1>2. \A i \in 1..Len(s) : s[i].pid \in Tasks /\ s[i].priority \in Queues
  BY <1>1 DEF Items
<1>. QED
  BY <1>1, <1>2 DEF InSeq

\* A list without two items of one task is no longer than there are tasks.
LEMMA SeqFew ==
  ASSUME NEW s \in Seq(Items), DistinctSeq(s)
  PROVE  Len(s) <= Cardinality(Tasks)
<1>. DEFINE D == 1..Len(s)
            f == [i \in D |-> s[i].pid]
<1>1. Len(s) \in Nat /\ f \in [D -> Tasks] /\ \A i, j \in D : f[i] = f[j] => i = j
  BY SeqFacts DEF DistinctSeq
<1>2. IsFiniteSet(D) /\ Cardinality(D) = Len(s)
  BY <1>1, FS_Interval
<1>3. f \in Injection(D, Tasks)
  <2>. HIDE DEF D, f
  <2>. QED
    BY <1>1 DEF Injection, IsInjective
<1>4. Cardinality(D) <= Cardinality(Tasks)
  <2>. HIDE DEF D, f
  <2>. QED
    BY <1>3, FS_Injection, ReadyQueuesAssumption
<1>. QED
  BY <1>2, <1>4

-----------------------------------------------------------------------------
(* The three queues.                                                       *)

\* Every item stands in the queue that its own priority and the PCB name.
Sorted(q, pr) ==
  \A k \in Queues : \A i \in 1..Len(q[k]) : q[k][i].priority = k /\ pr[q[k][i].pid] = k

Total(q) == Len(q[1]) + Len(q[2]) + Len(q[3])

LEMMA HeldFacts ==
  ASSUME NEW q \in [Queues -> Seq(Items)]
  PROVE  /\ \A k \in Queues : q[k] \in Seq(Items) /\ Len(q[k]) \in Nat
         /\ \A p : Held(q, p) <=> \E k \in Queues : InSeq(q[k], p)
         /\ \A p : Held(q, p) => p \in Tasks
         /\ Total(q) \in Nat
<1>1. \A k \in Queues : q[k] \in Seq(Items) /\ Len(q[k]) \in Nat /\ DOMAIN q[k] = 1..Len(q[k])
  BY SeqFacts
<1>2. \A p : Held(q, p) <=> \E k \in Queues : InSeq(q[k], p)
  BY <1>1 DEF Held, InSeq
<1>3. \A p : Held(q, p) => p \in Tasks
  BY <1>1, <1>2, SeqFacts
<1>4. Total(q) \in Nat
  BY <1>1 DEF Total, Queues
<1>. QED
  BY <1>1, <1>2, <1>3, <1>4

LEMMA EmptyQueues ==
  LET q == [k \in Queues |-> <<>>]
  IN /\ q \in [Queues -> Seq(Items)] /\ Distinct(q)
     /\ \A p : ~Held(q, p)
     /\ \A pr : Sorted(q, pr)
     /\ \A k \in Queues : q[k] = <<>> /\ Len(q[k]) = 0
<1>. DEFINE q == [k \in Queues |-> <<>>]
<1>1. q \in [Queues -> Seq(Items)] /\ \A k \in Queues : q[k] = <<>>
  BY EmptyFacts
<1>2. \A k \in Queues : Len(q[k]) = 0 /\ DistinctSeq(q[k]) /\ \A p : ~InSeq(q[k], p)
  BY <1>1, EmptyFacts
<1>. HIDE DEF q
<1>3. Distinct(q) /\ \A p : ~Held(q, p)
  BY <1>1, <1>2, HeldFacts DEF Distinct
<1>4. \A pr : Sorted(q, pr)
  BY <1>2 DEF Sorted
<1>. QED
  BY <1>1, <1>2, <1>3, <1>4 DEF q

LEMMA AddFacts ==
  ASSUME NEW q \in [Queues -> Seq(Items)], NEW it \in Items
  PROVE  /\ Add(q, it) \in [Queues -> Seq(Items)]
         /\ it.pid \in Tasks /\ it.priority \in Queues
         /\ \A k \in Queues \ {it.priority} : Add(q, it)[k] = q[k]
         /\ Add(q, it)[it.priority] = Append(q[it.priority], it)
         /\ \A p : Held(Add(q, it), p) <=> Held(q, p) \/ p = it.pid
         /\ Distinct(q) /\ ~Held(q, it.pid) => Distinct(Add(q, it))
         /\ \A pr : Sorted(q, pr) /\ pr[it.pid] = it.priority => Sorted(Add(q, it), pr)
<1>. DEFINE t == Add(q, it)
            l == it.priority
<1>1. it.pid \in Tasks /\ l \in Queues
  BY DEF Items
<1>2. \A k \in Queues : q[k] \in Seq(Items)
  OBVIOUS
<1>3. /\ Append(q[l], it) \in Seq(Items) /\ Len(Append(q[l], it)) = Len(q[l]) + 1
      /\ \A p : InSeq(Append(q[l], it), p) <=> InSeq(q[l], p) \/ p = it.pid
      /\ DistinctSeq(q[l]) /\ ~InSeq(q[l], it.pid) => DistinctSeq(Append(q[l], it))
  BY <1>1, <1>2, AppendFacts
<1>4. /\ t \in [Queues -> Seq(Items)] /\ t[l] = Append(q[l], it)
      /\ \A k \in Queues \ {l} : t[k] = q[k]
  BY <1>1, <1>3 DEF Add
<1>. HIDE DEF t
<1>5. \A p : Held(t, p) <=> Held(q, p) \/ p = it.pid
  BY <1>1, <1>3, <1>4, HeldFacts
<1>6. Distinct(q) /\ ~Held(q, it.pid) => Distinct(t)
  <2>1. SUFFICES ASSUME Distinct(q), ~Held(q, it.pid) PROVE Distinct(t)
    OBVIOUS
  <2>2. \A k \in Queues : ~InSeq(q[k], it.pid)
    BY <2>1, HeldFacts
  <2>3. \A k \in Queues : DistinctSeq(t[k])
    BY <1>1, <1>3, <1>4, <2>1, <2>2 DEF Distinct
  <2>4. \A k \in Queues : \A p : InSeq(t[k], p) <=> InSeq(q[k], p) \/ (k = l /\ p = it.pid)
    BY <1>1, <1>3, <1>4
  <2>. QED
    BY <2>1, <2>2, <2>3, <2>4, SMTT(20) DEF Distinct
<1>7. ASSUME NEW pr, Sorted(q, pr), pr[it.pid] = l PROVE Sorted(t, pr)
  <2>1. SUFFICES ASSUME NEW k \in Queues, NEW i \in 1..Len(t[k])
                 PROVE  t[k][i].priority = k /\ pr[t[k][i].pid] = k
    BY DEF Sorted
  <2>2. CASE k = l
    <3>1. (i \in 1..Len(q[l]) /\ t[k][i] = q[l][i]) \/ t[k][i] = it
      <4>1. \A j \in 1..Len(q[l]) : Append(q[l], it)[j] = q[l][j]
        BY <1>1, <1>2, AppendFacts
      <4>2. Append(q[l], it)[Len(q[l]) + 1] = it
        BY <1>1, <1>2, AppendFacts
      <4>3. Len(q[l]) \in Nat /\ i \in 1..(Len(q[l]) + 1)
        BY <1>1, <1>3, <1>4, <2>2, HeldFacts
      <4>4. i \in 1..Len(q[l]) \/ i = Len(q[l]) + 1
        <5>1. PICK n : n = Len(q[l])
          OBVIOUS
        <5>2. n \in Nat /\ i \in 1..(n + 1)
          BY <4>3, <5>1
        <5>3. i \in 1..n \/ i = n + 1
          BY <5>2
        <5>. QED
          BY <5>1, <5>3
      <4>5. t[k] = Append(q[l], it)
        BY <1>4, <2>2
      <4>. QED
        BY <4>1, <4>2, <4>4, <4>5
    <3>. QED
      BY <1>1, <1>7, <2>2, <3>1 DEF Sorted
  <2>3. CASE k # l
    BY <1>4, <1>7, <2>3 DEF Sorted
  <2>. QED
    BY <2>2, <2>3
<1>. QED
  BY <1>1, <1>4, <1>5, <1>6, <1>7 DEF t

\* The arithmetic of the two lemmas that follow.
LEMMA Sums ==
  ASSUME NEW a \in Nat, NEW b \in Nat, NEW c \in Nat, NEW x \in Nat, NEW y \in Nat, NEW z \in Nat
  PROVE  /\ x <= a /\ y <= b /\ z <= c => x + y + z <= a + b + c
         /\ x = a - 1 /\ y = b /\ z = c => x + y + z = (a + b + c) - 1
         /\ x = a /\ y = b - 1 /\ z = c => x + y + z = (a + b + c) - 1
         /\ x = a /\ y = b /\ z = c - 1 => x + y + z = (a + b + c) - 1
  OBVIOUS

\* The loop over a queue drops the items of p.
LEMMA RemoveIsOthers == \A s, p : removeFromQueueByPID(s, p) = Others(s, p)
  BY DEF removeFromQueueByPID, Others

LEMMA RemovePIDFacts ==
  ASSUME NEW q \in [Queues -> Seq(Items)], NEW p
  PROVE  /\ RemoveByPID(q, p) \in [Queues -> Seq(Items)]
         /\ \A k \in Queues : RemoveByPID(q, p)[k] = removeFromQueueByPID(q[k], p)
         /\ \A r : Held(RemoveByPID(q, p), r) <=> Held(q, r) /\ r # p
         /\ Distinct(q) => Distinct(RemoveByPID(q, p))
         /\ \A pr : Sorted(q, pr) => Sorted(RemoveByPID(q, p), pr)
         /\ Total(RemoveByPID(q, p)) <= Total(q)
<1>. DEFINE t == RemoveByPID(q, p)
<1>1. \A k \in Queues :
        LET u == Others(q[k], p)
        IN /\ u \in Seq(Items) /\ Len(u) <= Len(q[k])
           /\ \A i \in 1..Len(u) : \E j \in i..Len(q[k]) : u[i] = q[k][j]
           /\ \A r : InSeq(u, r) <=> InSeq(q[k], r) /\ r # p
           /\ DistinctSeq(q[k]) => DistinctSeq(u)
  BY OthersFacts
<1>2. t \in [Queues -> Seq(Items)] /\ \A k \in Queues : t[k] = Others(q[k], p)
  BY <1>1, RemoveIsOthers DEF RemoveByPID
<1>. HIDE DEF t
<1>3. \A k \in Queues :
        /\ Len(t[k]) <= Len(q[k])
        /\ \A i \in 1..Len(t[k]) : \E j \in i..Len(q[k]) : t[k][i] = q[k][j]
        /\ \A r : InSeq(t[k], r) <=> InSeq(q[k], r) /\ r # p
        /\ DistinctSeq(q[k]) => DistinctSeq(t[k])
  BY <1>1, <1>2
<1>4. \A r : Held(t, r) <=> Held(q, r) /\ r # p
  BY <1>2, <1>3, HeldFacts
<1>5. Distinct(q) => Distinct(t)
  BY <1>3 DEF Distinct
<1>6. ASSUME NEW pr, Sorted(q, pr), NEW k \in Queues, NEW i \in 1..Len(t[k])
      PROVE  t[k][i].priority = k /\ pr[t[k][i].pid] = k
  <2>1. PICK j \in i..Len(q[k]) : t[k][i] = q[k][j]
    BY <1>3
  <2>2. j \in 1..Len(q[k])
    BY <1>2, HeldFacts
  <2>. QED
    BY <1>6, <2>1, <2>2 DEF Sorted
<1>7. Total(t) <= Total(q)
  <2>1. 1 \in Queues /\ 2 \in Queues /\ 3 \in Queues
    BY DEF Queues
  <2>2. \A k \in Queues : Len(t[k]) \in Nat /\ Len(q[k]) \in Nat
    BY <1>2, HeldFacts
  <2>3. /\ Len(q[1]) \in Nat /\ Len(q[2]) \in Nat /\ Len(q[3]) \in Nat
        /\ Len(t[1]) \in Nat /\ Len(t[2]) \in Nat /\ Len(t[3]) \in Nat
        /\ Len(t[1]) <= Len(q[1]) /\ Len(t[2]) <= Len(q[2]) /\ Len(t[3]) <= Len(q[3])
    BY <1>3, <2>1, <2>2
  <2>. QED
    BY <2>3, Sums DEF Total
<1>8. \A k \in Queues : t[k] = removeFromQueueByPID(q[k], p)
  BY <1>2, RemoveIsOthers
<1>. QED
  BY <1>2, <1>4, <1>5, <1>6, <1>7, <1>8 DEF t, Sorted

LEMMA TakeFacts ==
  ASSUME NEW q \in [Queues -> Seq(Items)], NEW k \in Queues, q[k] # <<>>
  PROVE  LET t == [q EXCEPT ![k] = Tail(q[k])]
             p == Head(q[k]).pid
         IN /\ t \in [Queues -> Seq(Items)]
            /\ Head(q[k]) \in Items /\ p \in Tasks /\ Held(q, p)
            /\ \A r : r # p => (Held(t, r) <=> Held(q, r))
            /\ Distinct(q) => Distinct(t) /\ ~Held(t, p)
            /\ \A pr : Sorted(q, pr) => Sorted(t, pr) /\ pr[p] = k /\ Head(q[k]).priority = k
            /\ Total(t) = Total(q) - 1
<1>. DEFINE t == [q EXCEPT ![k] = Tail(q[k])]
            p == Head(q[k]).pid
<1>1. /\ q[k] \in Seq(Items)
      /\ Head(q[k]) \in Items /\ Head(q[k]) = q[k][1] /\ p \in Tasks /\ InSeq(q[k], p)
      /\ Tail(q[k]) \in Seq(Items) /\ Len(Tail(q[k])) = Len(q[k]) - 1 /\ Len(q[k]) >= 1
      /\ \A i \in 1..Len(Tail(q[k])) : Tail(q[k])[i] = q[k][i + 1]
      /\ \A r : InSeq(q[k], r) => InSeq(Tail(q[k]), r) \/ r = p
      /\ \A r : InSeq(Tail(q[k]), r) => InSeq(q[k], r)
      /\ DistinctSeq(q[k]) => DistinctSeq(Tail(q[k])) /\ ~InSeq(Tail(q[k]), p)
  <2>1. q[k] \in Seq(Items)
    OBVIOUS
  <2>2. InSeq(q[k], Head(q[k]).pid) => Head(q[k]).pid \in Tasks
    BY <2>1, SeqFacts
  <2>. QED
    BY <2>1, <2>2, TailFacts
<1>2. /\ t \in [Queues -> Seq(Items)] /\ t[k] = Tail(q[k])
      /\ \A l \in Queues \ {k} : t[l] = q[l]
  BY <1>1
<1>. HIDE DEF t, p
<1>3. Held(q, p)
  BY <1>1, HeldFacts
<1>4. \A r : r # p => (Held(t, r) <=> Held(q, r))
  BY <1>1, <1>2, HeldFacts, ZenonT(40)
<1>5. Distinct(q) => Distinct(t) /\ ~Held(t, p)
  <2>1. SUFFICES ASSUME Distinct(q) PROVE Distinct(t) /\ ~Held(t, p)
    OBVIOUS
  <2>2. \A l \in Queues : DistinctSeq(t[l]) /\ \A r : InSeq(t[l], r) => InSeq(q[l], r)
    BY <1>1, <1>2, <2>1 DEF Distinct
  <2>3. \A l \in Queues : ~InSeq(t[l], p)
    BY <1>1, <1>2, <2>1 DEF Distinct
  <2>. QED
    BY <1>2, <2>1, <2>2, <2>3, HeldFacts DEF Distinct
<1>6. ASSUME NEW pr, Sorted(q, pr)
      PROVE  Sorted(t, pr) /\ pr[p] = k /\ Head(q[k]).priority = k
  <2>1. Len(q[k]) \in Nat /\ 1 \in 1..Len(q[k])
    BY <1>1, HeldFacts
  <2>2. pr[p] = k /\ Head(q[k]).priority = k
    BY <1>1, <1>6, <2>1 DEF Sorted, p
  <2>3. \A i \in 1..Len(Tail(q[k])) : i + 1 \in 1..Len(q[k])
    BY <1>1, <2>1
  <2>4. ASSUME NEW l \in Queues, NEW i \in 1..Len(t[l])
        PROVE  t[l][i].priority = l /\ pr[t[l][i].pid] = l
    <3>1. CASE l = k
      <4>1. t[l][i] = q[k][i + 1] /\ i + 1 \in 1..Len(q[k])
        BY <1>1, <1>2, <2>3, <2>4, <3>1
      <4>. QED
        BY <1>6, <3>1, <4>1 DEF Sorted
    <3>2. CASE l # k
      <4>1. t[l] = q[l]
        BY <1>2, <3>2
      <4>. QED
        BY <1>6, <2>4, <4>1 DEF Sorted
    <3>. QED
      BY <3>1, <3>2
  <2>. QED
    BY <2>2, <2>4 DEF Sorted
<1>7. Total(t) = Total(q) - 1
  <2>1. \A l \in Queues : Len(q[l]) \in Nat /\ Len(t[l]) = IF l = k THEN Len(q[l]) - 1 ELSE Len(q[l])
    BY <1>1, <1>2, HeldFacts
  <2>2. 1 \in Queues /\ 2 \in Queues /\ 3 \in Queues /\ k \in {1, 2, 3}
    BY DEF Queues
  <2>3. /\ Len(q[1]) \in Nat /\ Len(q[2]) \in Nat /\ Len(q[3]) \in Nat
        /\ Len(t[1]) \in Nat /\ Len(t[2]) \in Nat /\ Len(t[3]) \in Nat
        /\ Len(t[1]) = IF k = 1 THEN Len(q[1]) - 1 ELSE Len(q[1])
        /\ Len(t[2]) = IF k = 2 THEN Len(q[2]) - 1 ELSE Len(q[2])
        /\ Len(t[3]) = IF k = 3 THEN Len(q[3]) - 1 ELSE Len(q[3])
    BY <1>2, <2>1, <2>2, HeldFacts
  <2>4. CASE k = 1
    BY <2>3, <2>4, Sums DEF Total
  <2>5. CASE k = 2
    BY <2>3, <2>5, Sums DEF Total
  <2>6. CASE k = 3
    BY <2>3, <2>6, Sums DEF Total
  <2>. QED
    BY <2>2, <2>4, <2>5, <2>6
<1>. QED
  BY <1>1, <1>2, <1>3, <1>4, <1>5, <1>6, <1>7 DEF t, p

\* The local list of applyAging takes over the items of all queues.
LEMMA DrainFacts ==
  ASSUME NEW q \in [Queues -> Seq(Items)]
  PROVE  /\ Drained(q) \in Seq(Items) /\ Len(Drained(q)) = Total(q)
         /\ \A i \in 1..Len(q[1]) : Drained(q)[i] = q[1][i]
         /\ \A p : InSeq(Drained(q), p) <=> Held(q, p)
         /\ Distinct(q) => DistinctSeq(Drained(q))
<1>. DEFINE s == q[1] \o q[2]
<1>1. 1 \in Queues /\ 2 \in Queues /\ 3 \in Queues /\ \A k \in Queues : k \in {1, 2, 3}
  BY DEF Queues
<1>2. \A k \in Queues : q[k] \in Seq(Items) /\ Len(q[k]) \in Nat
  BY HeldFacts
<1>3. /\ s \in Seq(Items) /\ Len(s) = Len(q[1]) + Len(q[2])
      /\ \A i \in 1..Len(q[1]) : s[i] = q[1][i]
      /\ \A p : InSeq(s, p) <=> InSeq(q[1], p) \/ InSeq(q[2], p)
      /\ Distinct(q) => DistinctSeq(s)
  <2>1. q[1] \in Seq(Items) /\ q[2] \in Seq(Items)
    BY <1>1, <1>2
  <2>2. Distinct(q) => DistinctSeq(q[1]) /\ DistinctSeq(q[2]) /\ Separate(q[1], q[2])
    BY <1>1, <2>1, SeqFacts DEF Distinct, Separate
  <2>3. PICK v, w : v = q[1] /\ w = q[2]
    OBVIOUS
  <2>6. /\ v \o w \in Seq(Items) /\ Len(v \o w) = Len(v) + Len(w)
        /\ \A i \in 1..Len(v) : (v \o w)[i] = v[i]
    <3>1. v \in Seq(Items) /\ w \in Seq(Items)
      BY <2>1, <2>3
    <3>. QED
      BY <3>1, ConcatFacts
  <2>4. \A p : InSeq(s, p) <=> InSeq(q[1], p) \/ InSeq(q[2], p)
    BY <2>1, ConcatFacts
  <2>5. Distinct(q) => DistinctSeq(s)
    BY <2>1, <2>2, ConcatFacts
  <2>. QED
    BY <2>3, <2>4, <2>5, <2>6
<1>. HIDE DEF s
<1>4. /\ s \o q[3] \in Seq(Items) /\ Len(s \o q[3]) = Len(s) + Len(q[3])
      /\ \A i \in 1..Len(s) : (s \o q[3])[i] = s[i]
      /\ \A p : InSeq(s \o q[3], p) <=> InSeq(s, p) \/ InSeq(q[3], p)
      /\ Distinct(q) => DistinctSeq(s \o q[3])
  <2>1. q[3] \in Seq(Items)
    BY <1>1, <1>2
  <2>2. Distinct(q) => DistinctSeq(s) /\ DistinctSeq(q[3]) /\ Separate(s, q[3])
    BY <1>1, <1>3, <2>1, SeqFacts DEF Distinct, Separate
  <2>3. s \in Seq(Items)
    BY <1>3
  <2>4. /\ s \o q[3] \in Seq(Items) /\ Len(s \o q[3]) = Len(s) + Len(q[3])
        /\ \A i \in 1..Len(s) : (s \o q[3])[i] = s[i]
    BY <2>1, <2>3, ConcatFacts
  <2>5. \A p : InSeq(s \o q[3], p) <=> InSeq(s, p) \/ InSeq(q[3], p)
    BY <2>1, <2>3, ConcatFacts
  <2>6. Distinct(q) => DistinctSeq(s \o q[3])
    BY <2>1, <2>2, <2>3, ConcatFacts
  <2>. QED
    BY <2>4, <2>5, <2>6
<1>5. Drained(q) = s \o q[3]
  BY DEF Drained, s
<1>6. \A i \in 1..Len(q[1]) : i \in 1..Len(s)
  BY <1>1, <1>2, <1>3
<1>7. \A p : InSeq(Drained(q), p) <=> Held(q, p)
  BY <1>1, <1>3, <1>4, <1>5, HeldFacts
<1>8. Len(Drained(q)) = Total(q)
  BY <1>1, <1>2, <1>3, <1>4, <1>5 DEF Total
<1>. QED
  BY <1>3, <1>4, <1>5, <1>6, <1>7, <1>8

-----------------------------------------------------------------------------
(* The invariant behind QueuesMatchTable.                                  *)

OnCPU(p) == item # NoItem /\ item.pid = p

HasItem(p) == Held(queue, p) \/ InSeq(batch, p) \/ OnCPU(p)

\* A task has at most one item, wherever it is.
OneItem ==
  /\ Distinct(queue) /\ DistinctSeq(batch)
  /\ \A p \in Tasks : ~(Held(queue, p) /\ InSeq(batch, p))
  /\ \A p \in Tasks : ~(OnCPU(p) /\ (Held(queue, p) \/ InSeq(batch, p)))

\* Items and PCBs name the same priority.  That holds of tasks that are gone too,
\* and of the item that is about to be requeued.
RightPlace ==
  /\ Sorted(queue, priority)
  /\ item # NoItem => priority[item.pid] = item.priority

\* A task that was never launched, or is paused, has no item: it can be given one.
OnlyTheLaunched == \A p \in Tasks : HasItem(p) => status[p] \notin {"new", "paused"}

ReadyHasItem == \A p \in Tasks : status[p] = "ready" /\ mon[p] = "waiting" => HasItem(p)

\* The local list lives as long as applyAging, selectedItem as long as runProcess.
Control ==
  /\ pc # "aging" => batch = <<>>
  /\ item # NoItem <=> pc \in {"run", "running"}

QInv == TypeOK /\ OneItem /\ RightPlace /\ OnlyTheLaunched /\ ReadyHasItem /\ Control

Statuses == {"new", "ready", "running", "paused", "gone"}

LEMMA Idle ==
  ASSUME QInv, pc \notin {"aging", "run", "running"}
  PROVE  item = NoItem /\ batch = <<>> /\ \A p : ~InSeq(batch, p) /\ ~OnCPU(p)
  BY EmptyFacts DEF QInv, Control, OnCPU

LEMMA InitQInv == Init => QInv
<1>. SUFFICES ASSUME Init PROVE QInv
  OBVIOUS
<1>. USE ReadyQueuesAssumption
<1>1. /\ queue \in [Queues -> Seq(Items)] /\ Distinct(queue)
      /\ \A p : ~Held(queue, p)
      /\ Sorted(queue, priority)
  BY EmptyQueues DEF Init
<1>2. batch \in Seq(Items) /\ DistinctSeq(batch) /\ \A p : ~InSeq(batch, p)
  BY EmptyFacts DEF Init
<1>3. item = NoItem /\ pc = "idle" /\ batch = <<>>
  BY DEF Init
<1>4. TypeOK
  BY <1>1, <1>2 DEF Init, TypeOK
<1>5. OneItem /\ RightPlace /\ Control
  BY <1>1, <1>2, <1>3 DEF OneItem, RightPlace, Control, OnCPU
<1>6. OnlyTheLaunched /\ ReadyHasItem
  BY <1>1, <1>2, <1>3 DEF OnlyTheLaunched, ReadyHasItem, HasItem, OnCPU, Init
<1>. QED
  BY <1>4, <1>5, <1>6 DEF QInv

\* LaunchTask and ResumeTask.
LEMMA EnterQInv ==
  ASSUME QInv, NEW p \in Tasks, LaunchTask(p) \/ ResumeTask(p) PROVE QInv'
<1>1. /\ pc = "idle" /\ status[p] \in {"new", "paused"}
      /\ status' = [status EXCEPT ![p] = "ready"]
      /\ queue' = Add(queue, ItemFor(p))
      /\ UNCHANGED <<batch, priority, waiting, mon, pc, item, passed>>
  BY DEF LaunchTask, ResumeTask
<1>2. item = NoItem /\ batch = <<>> /\ \A r : ~InSeq(batch, r) /\ ~OnCPU(r)
  BY <1>1, Idle
<1>3. /\ queue \in [Queues -> Seq(Items)] /\ ItemFor(p) \in Items
      /\ ItemFor(p).pid = p /\ ItemFor(p).priority = priority[p]
  BY DEF QInv, TypeOK, ItemFor, Items
<1>4. ~Held(queue, p)
  BY <1>1 DEF QInv, OnlyTheLaunched, HasItem
<1>5. /\ queue' \in [Queues -> Seq(Items)] /\ Distinct(queue') /\ Sorted(queue', priority)
      /\ \A r : Held(queue', r) <=> Held(queue, r) \/ r = p
  BY <1>1, <1>3, <1>4, AddFacts DEF QInv, OneItem, RightPlace
<1>6. /\ status' \in [Tasks -> Statuses] /\ status'[p] = "ready"
      /\ \A r \in Tasks \ {p} : status'[r] = status[r]
  BY <1>1 DEF QInv, TypeOK, Statuses
<1>7. TypeOK'
  BY <1>1, <1>5, <1>6 DEF QInv, TypeOK, Statuses
<1>8. OneItem' /\ RightPlace' /\ Control'
  <2>1. \A r : InSeq(batch, r)' = InSeq(batch, r) /\ OnCPU(r)' = OnCPU(r)
    BY <1>1 DEF InSeq, OnCPU
  <2>2. OneItem'
    BY <1>1, <1>2, <1>5, <2>1 DEF QInv, OneItem
  <2>. QED
    BY <1>1, <1>2, <1>5, <2>2 DEF QInv, RightPlace, Control
<1>9. OnlyTheLaunched' /\ ReadyHasItem'
  <2>1. \A r : HasItem(r)' <=> HasItem(r) \/ r = p
    BY <1>1, <1>2, <1>5 DEF HasItem, InSeq, OnCPU
  <2>. QED
    BY <1>1, <1>6, <2>1 DEF QInv, OnlyTheLaunched, ReadyHasItem
<1>. QED
  BY <1>7, <1>8, <1>9 DEF QInv

\* PauseTask and KillTask.
LEMMA LeaveQInv ==
  ASSUME QInv, NEW p \in Tasks, PauseTask(p) \/ KillTask(p) PROVE QInv'
<1>1. PICK st \in {"paused", "gone"} :
        /\ pc = "idle"
        /\ status' = [status EXCEPT ![p] = st]
        /\ queue' = RemoveByPID(queue, p)
        /\ passed' = [passed EXCEPT ![p] = 0]
        /\ UNCHANGED <<batch, priority, waiting, mon, pc, item>>
  BY DEF PauseTask, KillTask
<1>2. item = NoItem /\ batch = <<>> /\ \A r : ~InSeq(batch, r) /\ ~OnCPU(r)
  BY <1>1, Idle
<1>3. queue \in [Queues -> Seq(Items)]
  BY DEF QInv, TypeOK
<1>5. /\ queue' \in [Queues -> Seq(Items)] /\ Distinct(queue') /\ Sorted(queue', priority)
      /\ \A r : Held(queue', r) <=> Held(queue, r) /\ r # p
  BY <1>1, <1>3, RemovePIDFacts DEF QInv, OneItem, RightPlace
<1>6. /\ status' \in [Tasks -> Statuses] /\ status'[p] = st
      /\ \A r \in Tasks \ {p} : status'[r] = status[r]
  BY <1>1 DEF QInv, TypeOK, Statuses
<1>7. TypeOK'
  BY <1>1, <1>5, <1>6 DEF QInv, TypeOK, Statuses
<1>8. OneItem' /\ RightPlace' /\ Control'
  <2>1. \A r : InSeq(batch, r)' = InSeq(batch, r) /\ OnCPU(r)' = OnCPU(r)
    BY <1>1 DEF InSeq, OnCPU
  <2>2. OneItem'
    BY <1>1, <1>2, <1>5, <2>1 DEF QInv, OneItem
  <2>. QED
    BY <1>1, <1>2, <1>5, <2>2 DEF QInv, RightPlace, Control
<1>9. OnlyTheLaunched' /\ ReadyHasItem'
  <2>1. \A r : HasItem(r)' <=> HasItem(r) /\ r # p
    BY <1>1, <1>2, <1>5 DEF HasItem, InSeq, OnCPU
  <2>. QED
    BY <1>1, <1>6, <2>1 DEF QInv, OnlyTheLaunched, ReadyHasItem
<1>. QED
  BY <1>7, <1>8, <1>9 DEF QInv

\* The scheduler moves on and nothing else changes.
LEMMA MoveQInv ==
  ASSUME QInv, UNCHANGED <<queue, batch, status, priority, waiting, mon, item>>,
         passed' \in [Tasks -> Nat],
         pc' \in {"idle", "loop", "select", "parallel", "halted"},
         pc \notin {"run", "running"}, pc = "aging" => batch = <<>>
  PROVE  QInv'
<1>1. TypeOK'
  BY DEF QInv, TypeOK
<1>2. \A p : /\ Held(queue, p)' = Held(queue, p) /\ InSeq(batch, p)' = InSeq(batch, p)
             /\ OnCPU(p)' = OnCPU(p) /\ HasItem(p)' = HasItem(p)
  BY DEF Held, InSeq, OnCPU, HasItem
<1>3. OneItem' /\ RightPlace' /\ Control'
  BY <1>2 DEF QInv, OneItem, RightPlace, Control
<1>4. OnlyTheLaunched' /\ ReadyHasItem'
  BY <1>2 DEF QInv, OnlyTheLaunched, ReadyHasItem
<1>. QED
  BY <1>1, <1>3, <1>4 DEF QInv

LEMMA UnchangedQInv ==
  ASSUME QInv, UNCHANGED vars PROVE QInv'
<1>1. UNCHANGED <<queue, batch, status, priority, waiting, mon, pc, item, passed>>
  BY DEF vars, pcbs
<1>2. TypeOK'
  BY <1>1 DEF QInv, TypeOK
<1>3. \A p : /\ Held(queue, p)' = Held(queue, p) /\ InSeq(batch, p)' = InSeq(batch, p)
             /\ OnCPU(p)' = OnCPU(p) /\ HasItem(p)' = HasItem(p)
  BY <1>1 DEF Held, InSeq, OnCPU, HasItem
<1>4. OneItem' /\ RightPlace' /\ Control'
  BY <1>1, <1>3 DEF QInv, OneItem, RightPlace, Control
<1>5. OnlyTheLaunched' /\ ReadyHasItem'
  BY <1>1, <1>3 DEF QInv, OnlyTheLaunched, ReadyHasItem
<1>. QED
  BY <1>2, <1>4, <1>5 DEF QInv

LEMMA ClearQInv ==
  ASSUME QInv, ClearAllQueues PROVE QInv'
<1>1. /\ pc = "idle" /\ pc' = "halted"
      /\ queue' = [k \in Queues |-> <<>>]
      /\ passed' = [p \in Tasks |-> 0]
      /\ \A p \in Tasks : status[p] \in {"new", "gone"}
      /\ UNCHANGED <<batch, status, priority, waiting, mon, item>>
  BY DEF ClearAllQueues, Alive, pcbs
<1>2. item = NoItem /\ batch = <<>> /\ \A r : ~InSeq(batch, r) /\ ~OnCPU(r)
  BY <1>1, Idle
<1>3. /\ queue' \in [Queues -> Seq(Items)] /\ Distinct(queue') /\ Sorted(queue', priority)
      /\ \A r : ~Held(queue', r)
  BY <1>1, EmptyQueues
<1>4. TypeOK'
  BY <1>1, <1>3 DEF QInv, TypeOK
<1>5. \A r : InSeq(batch, r)' = InSeq(batch, r) /\ OnCPU(r)' = OnCPU(r)
  BY <1>1 DEF InSeq, OnCPU
<1>6. OneItem' /\ RightPlace' /\ Control'
  BY <1>1, <1>2, <1>3, <1>5 DEF QInv, OneItem, RightPlace, Control
<1>7. OnlyTheLaunched' /\ ReadyHasItem'
  BY <1>1, <1>2, <1>3, <1>5 DEF OnlyTheLaunched, ReadyHasItem, HasItem
<1>. QED
  BY <1>4, <1>6, <1>7 DEF QInv

\* The monitor thread of p may find the item in a queue, in the local list or on
\* the CPU; it removes it only from the queues.
LEMMA DequeueQInv ==
  ASSUME QInv, NEW p \in Tasks, MonitorDequeues(p) PROVE QInv'
<1>1. /\ queue' = RemoveByPID(queue, p)
      /\ mon' = [mon EXCEPT ![p] = "forget"]
      /\ passed' = IF Held(queue, p) THEN [passed EXCEPT ![p] = 0] ELSE passed
      /\ UNCHANGED <<batch, status, priority, waiting, pc, item>>
  BY DEF MonitorDequeues, pcbs
<1>2. queue \in [Queues -> Seq(Items)]
  BY DEF QInv, TypeOK
<1>3. /\ queue' \in [Queues -> Seq(Items)] /\ Distinct(queue') /\ Sorted(queue', priority)
      /\ \A r : Held(queue', r) <=> Held(queue, r) /\ r # p
  BY <1>1, <1>2, RemovePIDFacts DEF QInv, OneItem, RightPlace
<1>4. TypeOK'
  <2>1. passed' \in [Tasks -> Nat] /\ mon' \in [Tasks -> {"waiting", "forget", "done"}]
    BY <1>1 DEF QInv, TypeOK
  <2>. QED
    BY <1>1, <1>3, <2>1 DEF QInv, TypeOK
<1>5. \A r : InSeq(batch, r)' = InSeq(batch, r) /\ OnCPU(r)' = OnCPU(r)
  BY <1>1 DEF InSeq, OnCPU
<1>6. OneItem' /\ RightPlace' /\ Control'
  <2>1. OneItem'
    BY <1>1, <1>3, <1>5 DEF QInv, OneItem
  <2>. QED
    BY <1>1, <1>3, <2>1 DEF QInv, RightPlace, Control
<1>7. OnlyTheLaunched' /\ ReadyHasItem'
  <2>1. \A r : r # p => (HasItem(r)' <=> HasItem(r))
    BY <1>3, <1>5 DEF HasItem
  <2>2. \A r : HasItem(r)' => HasItem(r)
    BY <1>3, <1>5 DEF HasItem
  <2>3. mon'[p] = "forget" /\ \A r \in Tasks \ {p} : mon'[r] = mon[r]
    BY <1>1 DEF QInv, TypeOK
  <2>. QED
    BY <1>1, <2>1, <2>2, <2>3 DEF QInv, OnlyTheLaunched, ReadyHasItem
<1>. QED
  BY <1>4, <1>6, <1>7 DEF QInv

LEMMA ForgetQInv ==
  ASSUME QInv, NEW p \in Tasks, MonitorForgets(p) PROVE QInv'
<1>1. /\ mon' = [mon EXCEPT ![p] = "done"]
      /\ status' = [status EXCEPT ![p] = "gone"]
      /\ UNCHANGED <<queue, batch, priority, waiting, pc, item, passed>>
  BY DEF MonitorForgets
<1>2. /\ status' \in [Tasks -> Statuses] /\ status'[p] = "gone"
      /\ mon' \in [Tasks -> {"waiting", "forget", "done"}] /\ mon'[p] = "done"
      /\ \A r \in Tasks \ {p} : status'[r] = status[r] /\ mon'[r] = mon[r]
  BY <1>1 DEF QInv, TypeOK, Statuses
<1>3. TypeOK'
  BY <1>1, <1>2 DEF QInv, TypeOK, Statuses
<1>4. \A r : /\ Held(queue, r)' = Held(queue, r) /\ InSeq(batch, r)' = InSeq(batch, r)
             /\ OnCPU(r)' = OnCPU(r) /\ HasItem(r)' = HasItem(r)
  BY <1>1 DEF Held, InSeq, OnCPU, HasItem
<1>5. OneItem' /\ RightPlace' /\ Control'
  BY <1>1, <1>4 DEF QInv, OneItem, RightPlace, Control
<1>6. OnlyTheLaunched' /\ ReadyHasItem'
  BY <1>2, <1>4 DEF QInv, OnlyTheLaunched, ReadyHasItem
<1>. QED
  BY <1>3, <1>5, <1>6 DEF QInv

LEMMA DrainQInv ==
  ASSUME QInv, DrainQueues PROVE QInv'
<1>1. /\ pc = "loop" /\ pc' = "aging"
      /\ batch' = Drained(queue)
      /\ queue' = [k \in Queues |-> <<>>]
      /\ UNCHANGED <<status, priority, waiting, mon, item, passed>>
  BY DEF DrainQueues, Drained, pcbs
<1>2. item = NoItem /\ \A r : ~InSeq(batch, r) /\ ~OnCPU(r)
  BY <1>1, Idle
<1>3. /\ queue' \in [Queues -> Seq(Items)] /\ Distinct(queue') /\ Sorted(queue', priority)
      /\ \A r : ~Held(queue', r)
  BY <1>1, EmptyQueues
<1>4. /\ batch' \in Seq(Items) /\ DistinctSeq(batch')
      /\ \A r : InSeq(batch', r) <=> Held(queue, r)
  BY <1>1, DrainFacts DEF QInv, TypeOK, OneItem
<1>5. TypeOK'
  BY <1>1, <1>3, <1>4 DEF QInv, TypeOK
<1>6. \A r : OnCPU(r)' = OnCPU(r)
  BY <1>1 DEF OnCPU
<1>7. OneItem' /\ RightPlace' /\ Control'
  BY <1>1, <1>2, <1>3, <1>4, <1>6 DEF OneItem, RightPlace, Control
<1>8. OnlyTheLaunched' /\ ReadyHasItem'
  <2>1. \A r : HasItem(r)' <=> HasItem(r)
    BY <1>2, <1>3, <1>4, <1>6 DEF HasItem
  <2>. QED
    BY <1>1, <2>1 DEF QInv, OnlyTheLaunched, ReadyHasItem
<1>. QED
  BY <1>5, <1>7, <1>8 DEF QInv

\* What a turn of the second loop of applyAging takes from the list.
LEMMA HeadFacts ==
  ASSUME QInv, pc = "aging", batch # <<>>
  PROVE  /\ item = NoItem /\ Head(batch).pid \in Tasks
         /\ InSeq(batch, Head(batch).pid) /\ ~Held(queue, Head(batch).pid)
         /\ Tail(batch) \in Seq(Items) /\ DistinctSeq(Tail(batch))
         /\ \A r : InSeq(Tail(batch), r) <=> InSeq(batch, r) /\ r # Head(batch).pid
<1>1. batch \in Seq(Items) /\ DistinctSeq(batch) /\ item = NoItem
  BY DEF QInv, TypeOK, OneItem, Control
<1>2. /\ Head(batch).pid \in Tasks /\ InSeq(batch, Head(batch).pid)
      /\ Tail(batch) \in Seq(Items) /\ DistinctSeq(Tail(batch))
      /\ \A r : InSeq(Tail(batch), r) <=> InSeq(batch, r) /\ r # Head(batch).pid
  BY <1>1, TailFacts, SeqFacts
<1>. QED
  BY <1>1, <1>2 DEF QInv, OneItem

\* What AgeItem does, in terms of the task p and its new level.
Ages(p, level) ==
  LET due == waiting[p] + 1 >= AgingThreshold /\ priority[p] > 1
  IN /\ level = IF due THEN priority[p] - 1 ELSE priority[p]
     /\ waiting' = [waiting EXCEPT ![p] = IF level = 1 \/ due THEN 0 ELSE waiting[p] + 1]
     /\ priority' = [priority EXCEPT ![p] = level]
     /\ queue' = Add(queue, [pid |-> p, priority |-> level])

LEMMA AgesFacts ==
  ASSUME QInv, NEW p \in Tasks, NEW level, Ages(p, level)
  PROVE  /\ level \in Queues /\ [pid |-> p, priority |-> level] \in Items
         /\ waiting' \in [Tasks -> Nat] /\ priority' \in [Tasks -> Queues]
         /\ priority'[p] = level /\ \A r \in Tasks \ {p} : priority'[r] = priority[r]
         /\ \A r \in Tasks \ {p} : waiting'[r] = waiting[r]
<1>1. /\ waiting \in [Tasks -> Nat] /\ priority \in [Tasks -> Queues]
      /\ AgingThreshold \in Nat
  BY ReadyQueuesAssumption DEF QInv, TypeOK
<1>2. level \in Queues
  <2>1. priority[p] \in 1..3 /\ waiting[p] \in Nat
    BY <1>1 DEF Queues
  <2>. QED
    BY <1>1, <2>1 DEF Ages, Queues
<1>3. [pid |-> p, priority |-> level] \in Items
  BY <1>2 DEF Items
<1>4. PICK w \in Nat : waiting' = [waiting EXCEPT ![p] = w]
  <2>1. waiting[p] + 1 \in Nat /\ 0 \in Nat
    BY <1>1
  <2>2. (IF level = 1 \/ (waiting[p] + 1 >= AgingThreshold /\ priority[p] > 1)
           THEN 0 ELSE waiting[p] + 1) \in Nat
    BY <2>1
  <2>. QED
    BY <2>2 DEF Ages
<1>5. priority' = [priority EXCEPT ![p] = level]
  BY DEF Ages
<1>. QED
  BY <1>1, <1>2, <1>3, <1>4, <1>5

LEMMA AgeQInv ==
  ASSUME QInv, AgeItem PROVE QInv'
<1>1. PICK p, level :
        /\ p = Head(batch).pid /\ Ages(p, level)
        /\ pc = "aging" /\ batch # <<>> /\ batch' = Tail(batch)
        /\ UNCHANGED <<status, mon, pc, item, passed>>
  BY DEF AgeItem, Ages
<1>2. /\ item = NoItem /\ p \in Tasks /\ InSeq(batch, p) /\ ~Held(queue, p)
      /\ batch' \in Seq(Items) /\ DistinctSeq(batch')
      /\ \A r : InSeq(batch', r) <=> InSeq(batch, r) /\ r # p
  BY <1>1, HeadFacts
<1>. DEFINE it == [pid |-> p, priority |-> level]
<1>3. /\ level \in Queues /\ it \in Items /\ it.pid = p /\ it.priority = level
      /\ waiting' \in [Tasks -> Nat] /\ priority' \in [Tasks -> Queues]
      /\ priority'[p] = level /\ \A r \in Tasks \ {p} : priority'[r] = priority[r]
  BY <1>1, <1>2, AgesFacts
<1>4. queue' = Add(queue, it)
  BY <1>1 DEF Ages
<1>. HIDE DEF it
<1>5. queue \in [Queues -> Seq(Items)] /\ Distinct(queue) /\ Sorted(queue, priority)
  BY DEF QInv, TypeOK, OneItem, RightPlace
<1>6. PICK pr : pr = priority'
  OBVIOUS
<1>7. Sorted(queue, pr)
  <2>1. ASSUME NEW k \in Queues, NEW i \in 1..Len(queue[k])
        PROVE  queue[k][i].priority = k /\ pr[queue[k][i].pid] = k
    <3>1. queue[k][i].pid \in Tasks
      BY <1>5, SeqFacts
    <3>2. InSeq(queue[k], queue[k][i].pid)
      BY DEF InSeq
    <3>3. queue[k][i].pid # p
      BY <1>2, <1>5, <3>2, HeldFacts
    <3>. QED
      BY <1>3, <1>5, <1>6, <3>1, <3>3 DEF Sorted
  <2>. QED
    BY <2>1 DEF Sorted
<1>8. /\ queue' \in [Queues -> Seq(Items)] /\ Distinct(queue') /\ Sorted(queue', pr)
      /\ \A r : Held(queue', r) <=> Held(queue, r) \/ r = p
  BY <1>2, <1>3, <1>4, <1>5, <1>6, <1>7, AddFacts
<1>9. TypeOK'
  BY <1>1, <1>2, <1>3, <1>8 DEF QInv, TypeOK
<1>10. \A r : OnCPU(r)' = OnCPU(r)
  BY <1>1 DEF OnCPU
<1>11. OneItem' /\ RightPlace' /\ Control'
  <2>1. OneItem'
    BY <1>2, <1>8, <1>10 DEF QInv, OneItem, OnCPU
  <2>2. RightPlace'
    BY <1>1, <1>2, <1>6, <1>8 DEF RightPlace
  <2>3. Control'
    BY <1>1 DEF QInv, Control
  <2>. QED
    BY <2>1, <2>2, <2>3
<1>12. OnlyTheLaunched' /\ ReadyHasItem'
  <2>1. \A r : HasItem(r)' <=> HasItem(r)
    BY <1>2, <1>8, <1>10 DEF HasItem
  <2>. QED
    BY <1>1, <2>1 DEF QInv, OnlyTheLaunched, ReadyHasItem
<1>. QED
  BY <1>9, <1>11, <1>12 DEF QInv

LEMMA DropQInv ==
  ASSUME QInv, DropItem PROVE QInv'
<1>1. PICK p :
        /\ p = Head(batch).pid /\ status[p] \in {"new", "gone"}
        /\ pc = "aging" /\ batch # <<>> /\ batch' = Tail(batch)
        /\ passed' = [passed EXCEPT ![p] = 0]
        /\ UNCHANGED <<queue, status, priority, waiting, mon, pc, item>>
  BY DEF DropItem, Alive, pcbs
<1>2. /\ item = NoItem /\ p \in Tasks /\ InSeq(batch, p) /\ ~Held(queue, p)
      /\ batch' \in Seq(Items) /\ DistinctSeq(batch')
      /\ \A r : InSeq(batch', r) <=> InSeq(batch, r) /\ r # p
  BY <1>1, HeadFacts
<1>3. TypeOK'
  BY <1>1, <1>2 DEF QInv, TypeOK
<1>4. \A r : OnCPU(r)' = OnCPU(r) /\ Held(queue, r)' = Held(queue, r)
  BY <1>1 DEF OnCPU, Held
<1>5. OneItem' /\ RightPlace' /\ Control'
  BY <1>1, <1>2, <1>4 DEF QInv, OneItem, RightPlace, Control
<1>6. OnlyTheLaunched' /\ ReadyHasItem'
  <2>1. \A r : HasItem(r)' => HasItem(r)
    BY <1>2, <1>4 DEF HasItem
  <2>2. \A r : r # p => (HasItem(r)' <=> HasItem(r))
    BY <1>2, <1>4 DEF HasItem
  <2>. QED
    BY <1>1, <2>1, <2>2 DEF QInv, OnlyTheLaunched, ReadyHasItem
<1>. QED
  BY <1>3, <1>5, <1>6 DEF QInv

\* The selected item leaves its queue.
LEMMA TakenFacts ==
  ASSUME QInv, NEW k \in Queues, TakeFrom(k)
  PROVE  LET p == Head(queue[k]).pid
         IN /\ queue' = [queue EXCEPT ![k] = Tail(queue[k])]
            /\ queue[k] # <<>> /\ Head(queue[k]) \in Items /\ p \in Tasks
            /\ queue' \in [Queues -> Seq(Items)] /\ Distinct(queue') /\ Sorted(queue', priority)
            /\ Held(queue, p) /\ \A r : Held(queue', r) <=> Held(queue, r) /\ r # p
            /\ priority[p] = k /\ Head(queue[k]).priority = k
            /\ passed' \in [Tasks -> Nat]
<1>1. /\ queue' = [queue EXCEPT ![k] = Tail(queue[k])] /\ queue[k] # <<>>
      /\ \A j \in 1..(k - 1) : queue[j] = <<>>
      /\ passed' = [q \in Tasks |-> IF q # Head(queue[k]).pid /\ Held(queue, q)
                                      THEN IF passed[q] > BypassBound THEN passed[q]
                                           ELSE passed[q] + 1
                                      ELSE 0]
  BY DEF TakeFrom
<1>2. queue \in [Queues -> Seq(Items)] /\ Distinct(queue) /\ Sorted(queue, priority)
  BY DEF QInv, TypeOK, OneItem, RightPlace
<1>3. passed' \in [Tasks -> Nat]
  <2>1. \A q \in Tasks : passed[q] \in Nat /\ passed[q] + 1 \in Nat
    BY DEF QInv, TypeOK
  <2>. QED
    BY <1>1, <2>1
<1>4. /\ queue' \in [Queues -> Seq(Items)] /\ Distinct(queue')
      /\ Head(queue[k]) \in Items /\ Head(queue[k]).pid \in Tasks
      /\ Held(queue, Head(queue[k]).pid) /\ ~Held(queue', Head(queue[k]).pid)
      /\ \A r : r # Head(queue[k]).pid => (Held(queue', r) <=> Held(queue, r))
  BY <1>1, <1>2, TakeFacts
<1>5. /\ Sorted(queue', priority) /\ priority[Head(queue[k]).pid] = k
      /\ Head(queue[k]).priority = k
  BY <1>1, <1>2, TakeFacts
<1>. QED
  BY <1>1, <1>3, <1>4, <1>5

LEMMA ResetFacts ==
  ASSUME QInv, NEW p \in Tasks, ResetWaitingTime(p)
  PROVE  /\ waiting' \in [Tasks -> Nat] /\ \A r \in Tasks : waiting'[r] <= waiting[r]
         /\ \A r \in Tasks \ {p} : waiting'[r] = waiting[r]
<1>1. waiting \in [Tasks -> Nat]
  BY DEF QInv, TypeOK
<1>2. waiting' = [waiting EXCEPT ![p] = IF Alive(p) THEN 0 ELSE waiting[p]]
  BY DEF ResetWaitingTime
<1>. QED
  BY <1>1, <1>2

LEMMA SelectQInv ==
  ASSUME QInv, SelectNextProcess PROVE QInv'
<1>1. PICK k \in Queues : /\ TakeFrom(k) /\ item' = Head(queue[k])
                          /\ ResetWaitingTime(Head(queue[k]).pid)
  BY DEF SelectNextProcess
<1>2. pc = "select" /\ pc' = "run" /\ UNCHANGED <<batch, status, priority, mon>>
  BY DEF SelectNextProcess
<1>3. item = NoItem /\ batch = <<>> /\ \A r : ~InSeq(batch, r) /\ ~OnCPU(r)
  BY <1>2, Idle
<1>. DEFINE p == Head(queue[k]).pid
<1>4. /\ item' \in Items /\ item'.pid = p /\ p \in Tasks
      /\ queue' \in [Queues -> Seq(Items)] /\ Distinct(queue') /\ Sorted(queue', priority)
      /\ Held(queue, p) /\ \A r : Held(queue', r) <=> Held(queue, r) /\ r # p
      /\ priority[p] = k /\ item'.priority = k
      /\ passed' \in [Tasks -> Nat]
  BY <1>1, TakenFacts
<1>5. waiting' \in [Tasks -> Nat]
  BY <1>1, <1>4, ResetFacts
<1>. HIDE DEF p
<1>6. item' # NoItem
  BY <1>4, ReadyQueuesAssumption DEF Items
<1>7. TypeOK'
  BY <1>2, <1>4, <1>5 DEF QInv, TypeOK
<1>8. \A r : InSeq(batch', r) <=> InSeq(batch, r)
  BY <1>2
<1>9. \A r : OnCPU(r)' <=> r = p
  BY <1>4, <1>6 DEF OnCPU
<1>10. OneItem' /\ RightPlace' /\ Control'
  <2>1. OneItem'
    BY <1>2, <1>3, <1>4, <1>8, <1>9 DEF QInv, OneItem
  <2>. QED
    BY <1>2, <1>3, <1>4, <1>6, <2>1 DEF RightPlace, Control
<1>11. OnlyTheLaunched' /\ ReadyHasItem'
  <2>1. \A r : HasItem(r)' <=> HasItem(r)
    BY <1>3, <1>4, <1>8, <1>9 DEF HasItem
  <2>. QED
    BY <1>2, <2>1 DEF QInv, OnlyTheLaunched, ReadyHasItem
<1>. QED
  BY <1>7, <1>10, <1>11 DEF QInv

LEMMA DispatchQInv ==
  ASSUME QInv, DispatchParallel PROVE QInv'
<1>1. pc = "parallel" /\ UNCHANGED <<batch, priority, mon, pc, item>>
  BY DEF DispatchParallel
<1>2. PICK k, p :
        /\ k \in Queues
        /\ p = Head(queue[k]).pid /\ TakeFrom(k) /\ ResetWaitingTime(p)
        /\ status' = IF Alive(p) THEN [status EXCEPT ![p] = "running"] ELSE status
  BY DEF DispatchParallel
<1>3. item = NoItem /\ batch = <<>> /\ \A r : ~InSeq(batch, r) /\ ~OnCPU(r)
  BY <1>1, Idle
<1>4. /\ p \in Tasks
      /\ queue' \in [Queues -> Seq(Items)] /\ Distinct(queue') /\ Sorted(queue', priority)
      /\ Held(queue, p) /\ \A r : Held(queue', r) <=> Held(queue, r) /\ r # p
      /\ passed' \in [Tasks -> Nat]
  BY <1>2, TakenFacts
<1>5. waiting' \in [Tasks -> Nat]
  BY <1>2, <1>4, ResetFacts
<1>6. /\ status' \in [Tasks -> Statuses] /\ status'[p] # "ready"
      /\ \A r \in Tasks \ {p} : status'[r] = status[r]
  BY <1>2, <1>4 DEF QInv, TypeOK, Statuses, Alive
<1>7. TypeOK'
  BY <1>1, <1>4, <1>5, <1>6 DEF QInv, TypeOK, Statuses
<1>8. \A r : (InSeq(batch', r) <=> InSeq(batch, r)) /\ OnCPU(r)' = OnCPU(r)
  BY <1>1 DEF OnCPU
<1>9. OneItem' /\ RightPlace' /\ Control'
  <2>1. OneItem'
    BY <1>1, <1>3, <1>4, <1>8 DEF QInv, OneItem
  <2>. QED
    BY <1>1, <1>3, <1>4, <2>1 DEF QInv, RightPlace, Control
<1>10. OnlyTheLaunched' /\ ReadyHasItem'
  <2>1. \A r : HasItem(r)' <=> HasItem(r) /\ r # p
    BY <1>3, <1>4, <1>8 DEF HasItem
  <2>. QED
    BY <1>1, <1>6, <2>1 DEF QInv, OnlyTheLaunched, ReadyHasItem
<1>. QED
  BY <1>7, <1>9, <1>10 DEF QInv

\* The CPU is given to the selected task, or taken from it for good.
LEMMA TurnQInv ==
  ASSUME QInv, SkipProcess \/ StartProcess \/ CompleteProcess \/ HideProcess PROVE QInv'
<1>1. /\ pc \in {"run", "running"} /\ UNCHANGED <<queue, batch, priority, waiting, mon, passed>>
      /\ pc' \in {"idle", "loop", "running"}
      /\ item' = (IF pc' = "running" THEN item ELSE NoItem)
  BY DEF SkipProcess, StartProcess, CompleteProcess, HideProcess, pcbs
<1>2. item # NoItem /\ item \in Items /\ item.pid \in Tasks /\ batch = <<>>
  BY <1>1, SeqFacts DEF QInv, TypeOK, Control, Items
<1>0. PICK p : p = item.pid
  OBVIOUS
<1>3. /\ \A r \in Tasks : status'[r] \in Statuses
      /\ status' \in [Tasks -> Statuses]
      /\ \A r \in Tasks \ {p} : status'[r] = status[r]
      /\ status'[p] # "ready"
      /\ pc' = "running" => status'[p] = "running"
  <2>1. status \in [Tasks -> Statuses]
    BY DEF QInv, TypeOK, Statuses
  <2>2. CASE SkipProcess
    BY <1>2, <1>0, <2>1, <2>2 DEF SkipProcess, Statuses, Alive, pcbs
  <2>3. CASE StartProcess
    BY <1>2, <1>0, <2>1, <2>3 DEF StartProcess, Statuses
  <2>4. CASE CompleteProcess
    BY <1>2, <1>0, <2>1, <2>4 DEF CompleteProcess, Statuses
  <2>5. CASE HideProcess
    BY <1>2, <1>0, <2>1, <2>5 DEF HideProcess, Statuses, Alive
  <2>. QED
    BY <2>2, <2>3, <2>4, <2>5
<1>4. \A r : Held(queue, r)' = Held(queue, r) /\ InSeq(batch, r)' = InSeq(batch, r)
  BY <1>1 DEF Held, InSeq
<1>5. \A r : /\ OnCPU(r) <=> r = p
             /\ OnCPU(r)' <=> r = p /\ pc' = "running"
  BY <1>1, <1>2, <1>0 DEF OnCPU
<1>6. TypeOK'
  BY <1>1, <1>2, <1>3, <1>0 DEF QInv, TypeOK, Statuses
<1>7. OneItem' /\ RightPlace' /\ Control'
  BY <1>1, <1>2, <1>4, <1>5 DEF QInv, OneItem, RightPlace, Control
<1>8. OnlyTheLaunched' /\ ReadyHasItem'
  <2>1. \A r : r # p => (HasItem(r)' <=> HasItem(r))
    BY <1>4, <1>5 DEF HasItem
  <2>2. p \in Tasks /\ (HasItem(p)' => pc' = "running")
    BY <1>2, <1>4, <1>5, <1>0 DEF QInv, OneItem, HasItem
  <2>. QED
    BY <1>1, <1>3, <2>1, <2>2 DEF QInv, OnlyTheLaunched, ReadyHasItem
<1>. QED
  BY <1>6, <1>7, <1>8 DEF QInv

LEMMA RequeueQInv ==
  ASSUME QInv, RequeueProcess PROVE QInv'
<1>. DEFINE p == item.pid
<1>1. /\ pc = "running" /\ pc' = "loop" /\ item' = NoItem
      /\ status' = IF Alive(p) THEN [status EXCEPT ![p] = "ready"] ELSE status
      /\ queue' = Add(queue, item)
      /\ UNCHANGED <<batch, priority, waiting, mon, passed>>
  BY DEF RequeueProcess
<1>2. item # NoItem /\ item \in Items /\ p \in Tasks /\ batch = <<>>
  BY <1>1 DEF QInv, TypeOK, Control, Items
<1>3. \A r : ~InSeq(batch, r)
  BY <1>2, EmptyFacts
<1>4. \A r : (OnCPU(r) <=> r = p) /\ ~OnCPU(r)'
  BY <1>1, <1>2 DEF OnCPU
<1>5. ~Held(queue, p)
  BY <1>2, <1>4 DEF QInv, OneItem
<1>6. /\ queue' \in [Queues -> Seq(Items)] /\ Distinct(queue') /\ Sorted(queue', priority)
      /\ \A r : Held(queue', r) <=> Held(queue, r) \/ r = p
  BY <1>1, <1>2, <1>5, AddFacts DEF QInv, TypeOK, OneItem, RightPlace
<1>7. /\ status' \in [Tasks -> Statuses]
      /\ \A r \in Tasks \ {p} : status'[r] = status[r]
      /\ status'[p] \in {"ready", "new", "gone"} /\ (status[p] # "new" => status'[p] # "new")
  BY <1>1, <1>2 DEF QInv, TypeOK, Statuses, Alive
<1>. HIDE DEF p
<1>8. TypeOK'
  BY <1>1, <1>6, <1>7 DEF QInv, TypeOK, Statuses
<1>9. OneItem' /\ RightPlace' /\ Control'
  <2>1. \A r : InSeq(batch', r) <=> InSeq(batch, r)
    BY <1>1
  <2>2. OneItem'
    BY <1>1, <1>3, <1>4, <1>6, <2>1 DEF QInv, OneItem
  <2>. QED
    BY <1>1, <1>2, <1>6, <2>2 DEF RightPlace, Control
<1>10. OnlyTheLaunched' /\ ReadyHasItem'
  <2>1. \A r : HasItem(r)' <=> HasItem(r)
    BY <1>1, <1>3, <1>4, <1>6 DEF HasItem
  <2>2. HasItem(p)
    BY <1>4 DEF HasItem
  <2>. QED
    BY <1>1, <1>2, <1>7, <2>1, <2>2 DEF QInv, OnlyTheLaunched, ReadyHasItem
<1>. QED
  BY <1>8, <1>9, <1>10 DEF QInv

LEMMA NextQInv == QInv /\ [Next]_vars => QInv'
<1>. SUFFICES ASSUME QInv, [Next]_vars PROVE QInv'
  OBVIOUS
<1>1. CASE UNCHANGED vars \/ Halted
  BY <1>1, UnchangedQInv DEF Halted
<1>2. ASSUME NEW parallel \in BOOLEAN, StartScheduler(parallel) PROVE QInv'
  BY <1>2, MoveQInv DEF StartScheduler, pcbs, QInv, TypeOK
<1>3. CASE ClearAllQueues
  BY <1>3, ClearQInv
<1>4. ASSUME NEW p \in Tasks, LaunchTask(p) \/ PauseTask(p) \/ ResumeTask(p) \/ KillTask(p) PROVE QInv'
  BY <1>4, EnterQInv, LeaveQInv
<1>5. ASSUME NEW p \in Tasks, MonitorDequeues(p) \/ MonitorForgets(p) PROVE QInv'
  BY <1>5, DequeueQInv, ForgetQInv
<1>6. CASE EndLoop \/ AgingDone \/ NothingSelected \/ ParallelDone
  BY <1>6, MoveQInv DEF EndLoop, AgingDone, NothingSelected, ParallelDone, pcbs, QInv, TypeOK
<1>7. CASE DrainQueues \/ AgeItem \/ DropItem
  BY <1>7, DrainQInv, AgeQInv, DropQInv
<1>8. CASE SelectNextProcess \/ DispatchParallel
  BY <1>8, SelectQInv, DispatchQInv
<1>9. CASE SkipProcess \/ StartProcess \/ CompleteProcess \/ HideProcess
  BY <1>9, TurnQInv
<1>10. CASE RequeueProcess
  BY <1>10, RequeueQInv
<1>. QED
  BY <1>1, <1>2, <1>3, <1>4, <1>5, <1>6, <1>7, <1>8, <1>9, <1>10
     DEF Next, Menu, Scheduling, TurnEnds

LEMMA QInvMatches == QInv => QueuesMatchTable
<1>. SUFFICES ASSUME QInv PROVE QueuesMatchTable
  OBVIOUS
<1>1. queue \in [Queues -> Seq(Items)] /\ batch \in Seq(Items)
  BY DEF QInv, TypeOK
<1>2. /\ Drained(queue) \in Seq(Items)
      /\ \A p : InSeq(Drained(queue), p) <=> Held(queue, p)
      /\ DistinctSeq(Drained(queue))
  BY <1>1, DrainFacts DEF QInv, OneItem
<1>3. /\ AllItems \in Seq(Items)
      /\ \A p : InSeq(AllItems, p) <=> Held(queue, p) \/ InSeq(batch, p)
      /\ DistinctSeq(AllItems)
  <2>1. AllItems = Drained(queue) \o batch
    BY DEF AllItems, Drained
  <2>2. Separate(Drained(queue), batch)
    BY <1>1, <1>2, HeldFacts DEF QInv, OneItem, Separate
  <2>. QED
    BY <1>1, <1>2, <2>1, <2>2, ConcatFacts DEF QInv, OneItem
<1>4. /\ DOMAIN AllItems = 1..Len(AllItems)
      /\ \A i \in 1..Len(AllItems) : AllItems[i].pid \in Tasks
  BY <1>3, SeqFacts
<1>. HIDE DEF AllItems
<1>5. QueuedOnce
  <2>1. ASSUME NEW i \in DOMAIN AllItems, NEW j \in DOMAIN AllItems
        PROVE  i # j => AllItems[i].pid # AllItems[j].pid
    BY <1>3, <1>4, <2>1 DEF DistinctSeq
  <2>2. ASSUME NEW i \in DOMAIN AllItems, item # NoItem PROVE AllItems[i].pid # item.pid
    <3>1. InSeq(AllItems, AllItems[i].pid) /\ AllItems[i].pid \in Tasks
      BY <1>4, <2>2 DEF InSeq
    <3>. QED
      BY <1>3, <2>2, <3>1 DEF QInv, OneItem, OnCPU
  <2>. QED
    BY <2>1, <2>2 DEF QueuedOnce
<1>6. InTheRightQueue
  <2>1. \A k \in Queues : DOMAIN queue[k] = 1..Len(queue[k])
    BY <1>1, SeqFacts
  <2>. QED
    BY <2>1 DEF QInv, RightPlace, Sorted, InTheRightQueue
<1>7. ReadyIsHeld
  <2>1. \A p : Waits(p) <=> InSeq(AllItems, p)
    BY <1>4 DEF Waits, InSeq
  <2>. QED
    BY <1>3, <2>1 DEF QInv, ReadyHasItem, HasItem, OnCPU, ReadyIsHeld
<1>. QED
  BY <1>5, <1>6, <1>7 DEF QInv, QueuesMatchTable

\* In every reachable state each item is in one place and each ready task has one,
\* while aging holds the items in a local list and the monitors remove them.
THEOREM ReadyQueuesInvariant == Spec => []QInv
  BY InitQInv, NextQInv, PTL DEF Spec

\* For any number of tasks: however launches, pauses, aging, requeueing and the
\* cleanup by the monitor threads interleave, no task has two items, every item
\* stands in the queue that its PCB names, and no ready task is without one.
THEOREM ReadyQueuesMatchTable == Spec => []QueuesMatchTable
  BY ReadyQueuesInvariant, QInvMatches, PTL

-----------------------------------------------------------------------------
(* The invariant behind BoundedBypass.  A task below the top priority has  *)
(* been passed over at most once for each round it has aged; a task at the *)
(* top waits for those in front of it and for nobody else.                 *)

N == Cardinality(Tasks)

\* The rounds that the task p has aged since it had the lowest priority.
Patience(p) == (IF priority[p] = 3 THEN 0 ELSE AgingThreshold) + waiting[p]

\* In the system queue every item in front costs one selection.
InOrder(q, ps) == \A i \in 1..Len(q[1]) : ps[q[1][i].pid] + i <= BypassBound + 1

\* So it will be when the list b has been put back behind n items.
Pending(b, n, pr, ps) ==
  \A j \in 1..Len(b) : pr[b[j].pid] = 1 => ps[b[j].pid] + n + j <= BypassBound + 1

WaitsLess == \A p \in Tasks : waiting[p] < AgingThreshold

OnlyWaitersArePassed == \A p \in Tasks : passed[p] # 0 => Held(queue, p) \/ InSeq(batch, p)

\* In a round that has aged the queued tasks, but has not selected one, there is
\* one passing to spare.  The parallel dispatch ages nobody, and empties the queues.
Patient ==
  /\ \A p \in Tasks : priority[p] # 1 /\ Held(queue, p) =>
       /\ pc \in {"aging", "select"} => passed[p] + 1 <= Patience(p)
       /\ pc # "parallel" => passed[p] <= Patience(p)
       /\ pc = "parallel" => passed[p] + Total(queue) <= BypassBound + 1
  /\ \A p \in Tasks : priority[p] # 1 /\ InSeq(batch, p) => passed[p] <= Patience(p)

PInv ==
  /\ WaitsLess /\ OnlyWaitersArePassed
  /\ InOrder(queue, passed) /\ Pending(batch, Len(queue[1]), priority, passed)
  /\ Patient

LEMMA Bounds ==
  /\ N \in Nat /\ AgingThreshold \in Nat /\ AgingThreshold >= 1
  /\ BypassBound + 1 = 2 * AgingThreshold - 1 + N
  /\ BypassBound \in Nat
  /\ \A p \in Tasks : N >= 1
<1>1. N \in Nat /\ AgingThreshold \in Nat /\ AgingThreshold >= 1
  BY ReadyQueuesAssumption, FS_CardinalityType DEF N
<1>2. \A p \in Tasks : N # 0
  BY ReadyQueuesAssumption, FS_EmptySet DEF N
<1>. QED
  BY <1>1, <1>2 DEF BypassBound, N

\* There are no more items than tasks.
LEMMA Room ==
  ASSUME NEW q \in [Queues -> Seq(Items)], Distinct(q)
  PROVE  /\ Total(q) \in Nat /\ Total(q) <= N
         /\ Len(q[1]) \in Nat /\ Len(q[1]) <= N
         /\ \A p : Held(q, p) => Total(q) >= 1
<1>1. Drained(q) \in Seq(Items) /\ Len(Drained(q)) = Total(q) /\ DistinctSeq(Drained(q))
      /\ \A p : InSeq(Drained(q), p) <=> Held(q, p)
  BY DrainFacts
<1>2. Total(q) \in Nat /\ Total(q) <= N
  BY <1>1, SeqFew, HeldFacts DEF N
<1>3. Len(q[1]) \in Nat /\ Len(q[2]) \in Nat /\ Len(q[3]) \in Nat
  BY HeldFacts DEF Queues
<1>4. Len(q[1]) <= N
  <2>1. PICK a, b, c : a = Len(q[1]) /\ b = Len(q[2]) /\ c = Len(q[3])
    OBVIOUS
  <2>2. a + b + c <= N /\ a \in Nat /\ b \in Nat /\ c \in Nat
    BY <1>2, <1>3, <2>1 DEF Total
  <2>3. N \in Nat
    BY Bounds
  <2>4. a <= N
    BY <2>2, <2>3
  <2>. QED
    BY <2>1, <2>4
<1>5. ASSUME NEW p, Held(q, p) PROVE Total(q) >= 1
  <2>1. PICK i \in 1..Len(Drained(q)) : TRUE
    BY <1>1, <1>5 DEF InSeq
  <2>2. PICK n : n = Len(Drained(q))
    OBVIOUS
  <2>3. n \in Nat /\ i \in 1..n
    BY <1>1, <1>2, <2>1, <2>2
  <2>4. n >= 1
    BY <2>3
  <2>. QED
    BY <1>1, <2>2, <2>4
<1>. QED
  BY <1>2, <1>3, <1>4, <1>5

LEMMA QTypes ==
  ASSUME QInv
  PROVE  /\ queue \in [Queues -> Seq(Items)] /\ Distinct(queue) /\ Sorted(queue, priority)
         /\ batch \in Seq(Items) /\ DistinctSeq(batch)
         /\ passed \in [Tasks -> Nat] /\ waiting \in [Tasks -> Nat] /\ priority \in [Tasks -> Queues]
         /\ 1 \in Queues /\ queue[1] \in Seq(Items) /\ Len(queue[1]) \in Nat /\ Len(batch) \in Nat
         /\ \A i \in 1..Len(queue[1]) : queue[1][i].pid \in Tasks
         /\ \A j \in 1..Len(batch) : batch[j].pid \in Tasks /\ InSeq(batch, batch[j].pid)
         /\ \A p \in Tasks : Patience(p) \in Nat
<1>1. /\ queue \in [Queues -> Seq(Items)] /\ Distinct(queue) /\ Sorted(queue, priority)
      /\ batch \in Seq(Items) /\ DistinctSeq(batch)
      /\ passed \in [Tasks -> Nat] /\ waiting \in [Tasks -> Nat] /\ priority \in [Tasks -> Queues]
  BY DEF QInv, TypeOK, OneItem, RightPlace
<1>2. 1 \in Queues /\ queue[1] \in Seq(Items)
  BY <1>1 DEF Queues
<1>3. \A p \in Tasks : Patience(p) \in Nat
  BY <1>1, Bounds DEF Patience
<1>4. \A j \in 1..Len(batch) : InSeq(batch, batch[j].pid)
  BY DEF InSeq
<1>. QED
  BY <1>1, <1>2, <1>3, <1>4, SeqFacts

\* Of a lower priority, and not dispatched in parallel, a task has not been passed
\* over as often as two promotions may take.
LEMMA PatienceBound ==
  ASSUME QInv, WaitsLess, NEW p \in Tasks
  PROVE  Patience(p) <= 2 * AgingThreshold - 1
<1>1. waiting[p] \in Nat /\ waiting[p] < AgingThreshold
  BY QTypes DEF WaitsLess
<1>. QED
  BY <1>1, Bounds DEF Patience

LEMMA PInvBounds ==
  ASSUME QInv, PInv PROVE BoundedBypass
<1>. SUFFICES ASSUME NEW p \in Tasks PROVE passed[p] <= BypassBound
  BY DEF BoundedBypass
<1>1. passed[p] \in Nat /\ BypassBound \in Nat /\ BypassBound + 1 = 2 * AgingThreshold - 1 + N
      /\ N >= 1 /\ N \in Nat /\ Patience(p) \in Nat /\ Patience(p) <= 2 * AgingThreshold - 1
  BY Bounds, QTypes, PatienceBound DEF PInv
<1>2. Patience(p) <= BypassBound
  BY <1>1, Bounds
<1>3. CASE passed[p] = 0
  BY <1>1, <1>3
<1>4. CASE Held(queue, p) /\ priority[p] = 1
  <2>1. InSeq(queue[1], p)
    <3>1. PICK k \in Queues : InSeq(queue[k], p)
      BY <1>4, HeldFacts, QTypes
    <3>2. k = 1
      BY <1>4, <3>1, QTypes DEF Sorted, InSeq
    <3>. QED
      BY <3>1, <3>2
  <2>2. PICK i \in 1..Len(queue[1]) : queue[1][i].pid = p
    BY <2>1 DEF InSeq
  <2>3. i \in Nat /\ i >= 1
    BY <2>2
  <2>4. passed[p] + i <= BypassBound + 1
    BY <2>2 DEF PInv, InOrder
  <2>. QED
    BY <1>1, <2>3, <2>4
<1>5. CASE Held(queue, p) /\ priority[p] # 1
  <2>1. CASE pc = "parallel"
    <3>1. passed[p] + Total(queue) <= BypassBound + 1
      BY <1>5, <2>1 DEF PInv, Patient
    <3>2. Total(queue) \in Nat /\ Total(queue) >= 1
      BY <1>5, Room, QTypes
    <3>. QED
      BY <1>1, <3>1, <3>2
  <2>2. CASE pc # "parallel"
    BY <1>1, <1>2, <1>5, <2>2 DEF PInv, Patient
  <2>. QED
    BY <2>1, <2>2
<1>6. CASE InSeq(batch, p) /\ priority[p] = 1
  <2>1. PICK j \in 1..Len(batch) : batch[j].pid = p
    BY <1>6 DEF InSeq
  <2>2. j \in Nat /\ j >= 1 /\ Len(queue[1]) \in Nat
    BY <2>1, QTypes
  <2>3. passed[p] + Len(queue[1]) + j <= BypassBound + 1
    BY <1>6, <2>1 DEF PInv, Pending
  <2>. QED
    BY <1>1, <2>2, <2>3
<1>7. CASE InSeq(batch, p) /\ priority[p] # 1
  BY <1>1, <1>2, <1>7 DEF PInv, Patient
<1>. QED
  BY <1>3, <1>4, <1>5, <1>6, <1>7 DEF PInv, OnlyWaitersArePassed

-----------------------------------------------------------------------------
(* The order in the system queue.                                          *)

\* Whoever is passed over less often keeps its place.
LEMMA LessPassed ==
  ASSUME NEW q \in [Queues -> Seq(Items)], NEW ps \in [Tasks -> Nat], NEW pt \in [Tasks -> Nat],
         InOrder(q, ps), \A p \in Tasks : pt[p] <= ps[p]
  PROVE  InOrder(q, pt)
<1>. SUFFICES ASSUME NEW i \in 1..Len(q[1]) PROVE pt[q[1][i].pid] + i <= BypassBound + 1
  BY DEF InOrder
<1>1. q[1][i].pid \in Tasks /\ i \in Nat
  BY SeqFacts DEF Queues
<1>2. ps[q[1][i].pid] + i <= BypassBound + 1
  BY DEF InOrder
<1>. QED
  BY <1>1, <1>2, Bounds

LEMMA RemoveKeepsOrder ==
  ASSUME NEW q \in [Queues -> Seq(Items)], NEW ps \in [Tasks -> Nat], InOrder(q, ps), NEW p
  PROVE  InOrder(RemoveByPID(q, p), ps) /\ Len(RemoveByPID(q, p)[1]) <= Len(q[1])
<1>. DEFINE t == Others(q[1], p)
<1>1. 1 \in Queues /\ q[1] \in Seq(Items) /\ RemoveByPID(q, p)[1] = t
  BY RemovePIDFacts, RemoveIsOthers DEF Queues
<1>2. /\ t \in Seq(Items) /\ Len(t) <= Len(q[1])
      /\ \A i \in 1..Len(t) : \E j \in i..Len(q[1]) : t[i] = q[1][j]
  BY <1>1, OthersFacts
<1>. HIDE DEF t
<1>3. ASSUME NEW i \in 1..Len(t) PROVE ps[t[i].pid] + i <= BypassBound + 1
  <2>1. PICK j \in i..Len(q[1]) : t[i] = q[1][j]
    BY <1>2
  <2>2. i \in Nat /\ j \in 1..Len(q[1]) /\ i <= j /\ q[1][j].pid \in Tasks
    BY <1>1, <2>1, SeqFacts
  <2>3. ps[q[1][j].pid] + j <= BypassBound + 1
    BY <2>2 DEF InOrder
  <2>4. ps[q[1][j].pid] \in Nat
    BY <2>2
  <2>. QED
    BY <2>1, <2>2, <2>3, <2>4, Bounds
<1>. QED
  BY <1>1, <1>2, <1>3 DEF InOrder

LEMMA AddKeepsOrder ==
  ASSUME NEW q \in [Queues -> Seq(Items)], NEW ps, InOrder(q, ps), NEW it \in Items,
         it.priority = 1 => ps[it.pid] + (Len(q[1]) + 1) <= BypassBound + 1
  PROVE  /\ InOrder(Add(q, it), ps)
         /\ Len(Add(q, it)[1]) = IF it.priority = 1 THEN Len(q[1]) + 1 ELSE Len(q[1])
<1>1. /\ it.priority \in Queues /\ 1 \in Queues /\ q[1] \in Seq(Items) /\ Len(q[1]) \in Nat
      /\ it.priority # 1 => Add(q, it)[1] = q[1]
      /\ it.priority = 1 => Add(q, it)[1] = Append(q[1], it)
  <2>1. 1 \in Queues
    BY DEF Queues
  <2>2. q[1] \in Seq(Items) /\ Len(q[1]) \in Nat
    BY <2>1, HeldFacts
  <2>3. /\ it.priority \in Queues
        /\ \A k \in Queues \ {it.priority} : Add(q, it)[k] = q[k]
        /\ Add(q, it)[it.priority] = Append(q[it.priority], it)
    BY AddFacts
  <2>. QED
    BY <2>1, <2>2, <2>3
<1>2. CASE it.priority # 1
  BY <1>1, <1>2 DEF InOrder
<1>3. CASE it.priority = 1
  <2>. DEFINE t == Append(q[1], it)
  <2>1. /\ Len(t) = Len(q[1]) + 1 /\ t[Len(q[1]) + 1] = it
        /\ \A i \in 1..Len(q[1]) : t[i] = q[1][i]
    BY <1>1, AppendFacts
  <2>. HIDE DEF t
  <2>2. ASSUME NEW i \in 1..Len(t) PROVE ps[t[i].pid] + i <= BypassBound + 1
    <3>1. i \in 1..Len(q[1]) \/ i = Len(q[1]) + 1
      BY <1>1, <2>1
    <3>2. CASE i \in 1..Len(q[1])
      BY <2>1, <3>2 DEF InOrder
    <3>3. CASE i = Len(q[1]) + 1
      BY <1>3, <2>1, <3>3
    <3>. QED
      BY <3>1, <3>2, <3>3
  <2>. QED
    BY <1>1, <1>3, <2>1, <2>2 DEF InOrder, t
<1>. QED
  BY <1>2, <1>3

\* A selection passes everybody once; but in the system queue everybody moves up.
LEMMA TakeKeepsOrder ==
  ASSUME QInv, InOrder(queue, passed), NEW k \in Queues, TakeFrom(k)
  PROVE  /\ InOrder(queue', passed')
         /\ \A r \in Tasks : passed'[r] <= passed[r] + 1
         /\ \A r \in Tasks : passed'[r] # 0 => r # Head(queue[k]).pid /\ Held(queue, r)
<1>1. /\ queue' = [queue EXCEPT ![k] = Tail(queue[k])] /\ queue[k] # <<>>
      /\ \A j \in 1..(k - 1) : queue[j] = <<>>
      /\ passed' = [q \in Tasks |-> IF q # Head(queue[k]).pid /\ Held(queue, q)
                                      THEN IF passed[q] > BypassBound THEN passed[q]
                                           ELSE passed[q] + 1
                                      ELSE 0]
  BY DEF TakeFrom
<1>2. \A q \in Tasks : passed[q] \in Nat
  BY QTypes
<1>3. \A r \in Tasks : passed'[r] \in Nat /\ passed'[r] <= passed[r] + 1
  BY <1>1, <1>2
<1>4. \A r \in Tasks : passed'[r] # 0 => r # Head(queue[k]).pid /\ Held(queue, r)
  BY <1>1
<1>5. InOrder(queue', passed')
  <2>1. CASE k = 1
    <3>1. /\ queue'[1] = Tail(queue[1]) /\ queue[1] \in Seq(Items) /\ Len(queue[1]) \in Nat
          /\ Len(Tail(queue[1])) = Len(queue[1]) - 1
          /\ \A i \in 1..Len(Tail(queue[1])) : Tail(queue[1])[i] = queue[1][i + 1]
      BY <1>1, <2>1, QTypes, TailFacts
    <3>2. ASSUME NEW i \in 1..Len(queue'[1])
          PROVE  passed'[queue'[1][i].pid] + i <= BypassBound + 1
      <4>1. i \in Nat /\ i + 1 \in 1..Len(queue[1]) /\ queue'[1][i] = queue[1][i + 1]
        BY <3>1
      <4>2. queue[1][i + 1].pid \in Tasks
        BY <4>1, QTypes
      <4>3. passed[queue[1][i + 1].pid] + (i + 1) <= BypassBound + 1
        BY <4>1 DEF InOrder
      <4>4. PICK a, b, c : /\ a = passed[queue[1][i + 1].pid]
                           /\ b = passed'[queue[1][i + 1].pid]
                           /\ c = BypassBound
        OBVIOUS
      <4>5. a \in Nat /\ b \in Nat /\ b <= a + 1 /\ c \in Nat /\ a + (i + 1) <= c + 1
        BY <1>2, <1>3, <4>2, <4>3, <4>4, Bounds
      <4>6. b + i <= c + 1
        BY <4>1, <4>5
      <4>. QED
        BY <4>1, <4>4, <4>6
    <3>. QED
      BY <3>2 DEF InOrder
  <2>2. CASE k # 1
    <3>1. 1 \in 1..(k - 1)
      BY <2>2 DEF Queues
    <3>2. queue'[1] = <<>>
      BY <1>1, <2>2, <3>1, QTypes
    <3>. QED
      BY <3>2, EmptyFacts DEF InOrder
  <2>. QED
    BY <2>1, <2>2
<1>. QED
  BY <1>3, <1>4, <1>5

-----------------------------------------------------------------------------
(* Its preservation.                                                       *)

LEMMA RoomNext ==
  ASSUME QInv'
  PROVE  /\ queue' \in [Queues -> Seq(Items)] /\ Distinct(queue') /\ Sorted(queue', priority')
         /\ passed' \in [Tasks -> Nat] /\ waiting' \in [Tasks -> Nat]
         /\ priority' \in [Tasks -> Queues]
         /\ Total(queue') \in Nat /\ Total(queue') <= N
         /\ Len(queue'[1]) \in Nat /\ Len(queue'[1]) <= N
         /\ \A p \in Tasks : Patience(p)' \in Nat
<1>1. /\ queue' \in [Queues -> Seq(Items)] /\ Distinct(queue') /\ Sorted(queue', priority')
      /\ passed' \in [Tasks -> Nat] /\ waiting' \in [Tasks -> Nat]
      /\ priority' \in [Tasks -> Queues]
  BY DEF QInv, TypeOK, OneItem, RightPlace
<1>2. \A p \in Tasks : Patience(p)' \in Nat
  BY <1>1, Bounds DEF Patience
<1>. QED
  BY <1>1, <1>2, Room

LEMMA InitPInv == Init => PInv
<1>. SUFFICES ASSUME Init PROVE PInv
  OBVIOUS
<1>1. /\ \A p : ~Held(queue, p)
      /\ \A k \in Queues : Len(queue[k]) = 0
  BY EmptyQueues DEF Init
<1>2. batch = <<>> /\ \A p : ~InSeq(batch, p)
  BY EmptyFacts DEF Init
<1>3. WaitsLess /\ OnlyWaitersArePassed
  BY Bounds DEF Init, WaitsLess, OnlyWaitersArePassed
<1>4. InOrder(queue, passed)
  BY <1>1 DEF InOrder, Queues
<1>5. Pending(batch, Len(queue[1]), priority, passed)
  BY <1>2, EmptyFacts DEF Pending
<1>6. Patient
  BY <1>1, <1>2 DEF Patient
<1>. QED
  BY <1>3, <1>4, <1>5, <1>6 DEF PInv

\* Outside applyAging the local list plays no part.
LEMMA NoBatch ==
  ASSUME QInv, pc # "aging"
  PROVE  batch = <<>> /\ (\A p : ~InSeq(batch, p)) /\ \A n, pr, ps : Pending(batch, n, pr, ps)
<1>1. batch = <<>>
  BY DEF QInv, Control
<1>. QED
  BY <1>1, EmptyFacts DEF Pending

\* An item is put at the end of the queue of its task's priority, when the task has
\* not been passed over since it had an item.
LEMMA EnterPInv ==
  ASSUME QInv, QInv', PInv, NEW it \in Items,
         queue' = Add(queue, it), passed[it.pid] = 0, ~Held(queue, it.pid),
         it.priority = priority[it.pid],
         UNCHANGED <<batch, priority, waiting, passed>>,
         pc' \in {"idle", "loop"}, pc \notin {"parallel", "aging"}
  PROVE  PInv'
<1>1. /\ queue \in [Queues -> Seq(Items)] /\ it.pid \in Tasks
      /\ Len(queue[1]) \in Nat /\ \A r : Held(queue', r) <=> Held(queue, r) \/ r = it.pid
  BY AddFacts, QTypes
<1>2. batch = <<>> /\ (\A p : ~InSeq(batch, p)) /\ \A n, pr, ps : Pending(batch, n, pr, ps)
  BY NoBatch
<1>3. InOrder(queue', passed')
  <2>1. InOrder(queue, passed)
    BY DEF PInv
  <2>2. CASE it.priority # 1
    BY <1>1, <2>1, <2>2, AddKeepsOrder
  <2>3. CASE it.priority = 1
    <3>1. queue'[1] = Append(queue[1], it) /\ Len(queue'[1]) <= N
      <4>1. Add(queue, it)[it.priority] = Append(queue[it.priority], it)
        BY <1>1, AddFacts
      <4>2. Len(queue'[1]) <= N
        BY RoomNext
      <4>. QED
        BY <2>3, <4>1, <4>2
    <3>2. Len(queue[1]) + 1 <= N
      BY <1>1, <3>1, AppendFacts, QTypes
    <3>3. passed[it.pid] + (Len(queue[1]) + 1) <= BypassBound + 1
      <4>1. PICK n : n = Len(queue[1])
        OBVIOUS
      <4>2. n \in Nat /\ n + 1 <= N /\ N \in Nat /\ AgingThreshold \in Nat /\ AgingThreshold >= 1
            /\ BypassBound + 1 = 2 * AgingThreshold - 1 + N
        BY <1>1, <3>2, <4>1, Bounds
      <4>3. 0 + (n + 1) <= BypassBound + 1
        BY <4>2
      <4>. QED
        BY <4>1, <4>3
    <3>. QED
      BY <1>1, <2>1, <3>3, AddKeepsOrder
  <2>. QED
    BY <2>2, <2>3
<1>4. \A p : InSeq(batch, p)' = InSeq(batch, p)
  BY DEF InSeq
<1>5. WaitsLess' /\ OnlyWaitersArePassed'
  BY <1>1, <1>4 DEF PInv, WaitsLess, OnlyWaitersArePassed
<1>6. Patient'
  <2>1. \A p : Patience(p)' = Patience(p)
    BY DEF Patience
  <2>2. ASSUME NEW p \in Tasks, priority[p] # 1, Held(queue', p) PROVE passed[p] <= Patience(p)
    <3>1. CASE p = it.pid
      BY <2>2, <3>1, QTypes
    <3>2. CASE p # it.pid
      BY <1>1, <2>2, <3>2 DEF PInv, Patient
    <3>. QED
      BY <3>1, <3>2
  <2>. QED
    BY <1>2, <1>4, <2>1, <2>2 DEF Patient
<1>7. Pending(batch, Len(queue[1]), priority, passed)'
  BY <1>2 DEF Pending
<1>. QED
  BY <1>3, <1>5, <1>6, <1>7 DEF PInv

\* The items of p are taken out of the queues, and with them its history.
LEMMA LeavePInv ==
  ASSUME QInv, QInv', PInv, NEW p \in Tasks,
         queue' = RemoveByPID(queue, p),
         passed' = [passed EXCEPT ![p] = 0] \/ (passed' = passed /\ ~Held(queue, p)),
         UNCHANGED <<batch, priority, waiting, pc>>
  PROVE  PInv'
<1>1. /\ queue \in [Queues -> Seq(Items)] /\ passed \in [Tasks -> Nat] /\ passed' \in [Tasks -> Nat]
      /\ \A r : Held(queue', r) <=> Held(queue, r) /\ r # p
      /\ Total(queue') <= Total(queue) /\ Total(queue) \in Nat /\ Total(queue') \in Nat
      /\ Len(queue'[1]) \in Nat /\ Len(queue[1]) \in Nat
  BY RemovePIDFacts, QTypes, RoomNext, Room
<1>2. \A r \in Tasks : passed'[r] \in Nat /\ passed[r] \in Nat /\ passed'[r] <= passed[r]
  BY <1>1, SMTT(20)
<1>3. InOrder(queue', passed') /\ Len(queue'[1]) <= Len(queue[1])
  <2>1. InOrder(queue', passed) /\ Len(queue'[1]) <= Len(queue[1])
    BY <1>1, RemoveKeepsOrder DEF PInv
  <2>. QED
    BY <1>1, <1>2, <2>1, LessPassed, RoomNext
<1>4. Pending(batch', Len(queue'[1]), priority', passed')
  <2>1. SUFFICES ASSUME NEW j \in 1..Len(batch), priority[batch[j].pid] = 1
                 PROVE  passed'[batch[j].pid] + Len(queue'[1]) + j <= BypassBound + 1
    BY DEF Pending
  <2>2. batch[j].pid \in Tasks /\ j \in Nat
    BY QTypes
  <2>3. passed[batch[j].pid] + Len(queue[1]) + j <= BypassBound + 1
    BY <2>1 DEF PInv, Pending
  <2>4. PICK a, b, c, m, n :
          /\ a = passed[batch[j].pid] /\ b = passed'[batch[j].pid] /\ c = BypassBound
          /\ m = Len(queue[1]) /\ n = Len(queue'[1])
    OBVIOUS
  <2>5. a \in Nat /\ b \in Nat /\ b <= a /\ c \in Nat /\ m \in Nat /\ n \in Nat /\ n <= m
        /\ a + m + j <= c + 1
    BY <1>1, <1>2, <1>3, <2>2, <2>3, <2>4, Bounds
  <2>6. b + n + j <= c + 1
    BY <2>2, <2>5
  <2>. QED
    BY <2>4, <2>6
<1>5. \A r : InSeq(batch, r)' = InSeq(batch, r)
  BY DEF InSeq
<1>6. WaitsLess' /\ OnlyWaitersArePassed'
  <2>1. \A r \in Tasks : passed'[r] # 0 => passed[r] # 0
    BY <1>2
  <2>2. passed'[p] # 0 => ~Held(queue, p)
    BY <1>1
  <2>3. \A r \in Tasks : passed'[r] # 0 => Held(queue', r) \/ InSeq(batch, r)
    BY <1>1, <2>1, <2>2 DEF PInv, OnlyWaitersArePassed
  <2>. QED
    BY <1>5, <2>3 DEF PInv, WaitsLess, OnlyWaitersArePassed
<1>7. Patient'
  <2>1. \A r : Patience(r)' = Patience(r)
    BY DEF Patience
  <2>2. \A r \in Tasks : Patience(r) \in Nat
    BY QTypes
  <2>3. ASSUME NEW r \in Tasks, priority[r] # 1, Held(queue', r)
        PROVE  /\ pc \in {"aging", "select"} => passed'[r] + 1 <= Patience(r)
               /\ pc # "parallel" => passed'[r] <= Patience(r)
               /\ pc = "parallel" => passed'[r] + Total(queue') <= BypassBound + 1
    <3>1. /\ pc \in {"aging", "select"} => passed[r] + 1 <= Patience(r)
          /\ pc # "parallel" => passed[r] <= Patience(r)
          /\ pc = "parallel" => passed[r] + Total(queue) <= BypassBound + 1
      BY <1>1, <2>3 DEF PInv, Patient
    <3>2. pc = "parallel" => passed'[r] + Total(queue') <= BypassBound + 1
      BY <1>1, <1>2, <3>1, Bounds
    <3>3. /\ pc \in {"aging", "select"} => passed'[r] + 1 <= Patience(r)
          /\ pc # "parallel" => passed'[r] <= Patience(r)
      BY <1>2, <2>2, <3>1
    <3>. QED
      BY <3>2, <3>3
  <2>4. ASSUME NEW r \in Tasks, priority[r] # 1, InSeq(batch, r) PROVE passed'[r] <= Patience(r)
    <3>1. passed[r] <= Patience(r)
      BY <2>4 DEF PInv, Patient
    <3>. QED
      BY <1>2, <2>2, <3>1
  <2>. QED
    BY <1>5, <2>1, <2>3, <2>4 DEF Patient
<1>. QED
  BY <1>3, <1>4, <1>6, <1>7 DEF PInv

\* Nothing moves in the queues, and nobody is aged.
LEMMA StayPInv ==
  ASSUME QInv, PInv, UNCHANGED <<queue, batch, priority, waiting, passed>>,
         pc' \in {"aging", "select"} => pc \in {"aging", "select"},
         pc = "parallel" => pc' = "parallel" \/ ~HasReadyProcess,
         pc' = "parallel" => pc = "parallel" \/ pc = "idle"
  PROVE  PInv'
<1>1. /\ \A r : Held(queue, r)' = Held(queue, r) /\ InSeq(batch, r)' = InSeq(batch, r)
      /\ \A r : Patience(r)' = Patience(r)
  BY DEF Held, InSeq, Patience
<1>2. WaitsLess' /\ OnlyWaitersArePassed' /\ InOrder(queue, passed)'
      /\ Pending(batch, Len(queue[1]), priority, passed)'
  BY <1>1 DEF PInv, WaitsLess, OnlyWaitersArePassed, InOrder, Pending
<1>3. ASSUME NEW r \in Tasks, priority[r] # 1, Held(queue, r)
      PROVE  /\ pc' \in {"aging", "select"} => passed[r] + 1 <= Patience(r)
             /\ pc' # "parallel" => passed[r] <= Patience(r)
             /\ pc' = "parallel" => passed[r] + Total(queue) <= BypassBound + 1
  <2>1. HasReadyProcess
    BY <1>3, QTypes, HeldFacts, EmptyFacts DEF HasReadyProcess
  <2>2. /\ pc \in {"aging", "select"} => passed[r] + 1 <= Patience(r)
        /\ pc # "parallel" => passed[r] <= Patience(r)
        /\ pc = "parallel" => passed[r] + Total(queue) <= BypassBound + 1
    BY <1>3 DEF PInv, Patient
  <2>3. CASE pc' = "parallel" /\ pc = "idle"
    <3>1. passed[r] <= Patience(r) /\ Patience(r) <= 2 * AgingThreshold - 1
      BY <1>3, <2>2, <2>3, PatienceBound DEF PInv
    <3>2. Total(queue) \in Nat /\ Total(queue) <= N
      BY Room, QTypes
    <3>3. passed[r] + Total(queue) <= BypassBound + 1
      BY <1>3, <3>1, <3>2, Bounds, QTypes
    <3>. QED
      BY <2>3, <3>3
  <2>4. CASE ~(pc' = "parallel" /\ pc = "idle")
    BY <2>1, <2>2, <2>4
  <2>. QED
    BY <2>3, <2>4
<1>4. Patient'
  BY <1>1, <1>3 DEF PInv, Patient
<1>. QED
  BY <1>2, <1>4 DEF PInv

LEMMA ClearPInv ==
  ASSUME QInv, PInv, ClearAllQueues PROVE PInv'
<1>1. /\ pc = "idle" /\ pc' = "halted"
      /\ queue' = [k \in Queues |-> <<>>]
      /\ passed' = [p \in Tasks |-> 0]
      /\ UNCHANGED <<batch, status, priority, waiting, mon, item>>
  BY DEF ClearAllQueues, pcbs
<1>2. batch = <<>> /\ (\A p : ~InSeq(batch, p)) /\ \A n, pr, ps : Pending(batch, n, pr, ps)
  BY <1>1, NoBatch
<1>3. (\A r : ~Held(queue', r)) /\ Len(queue'[1]) = 0
  BY <1>1, EmptyQueues DEF Queues
<1>4. WaitsLess' /\ OnlyWaitersArePassed' /\ InOrder(queue', passed')
  BY <1>1, <1>3 DEF PInv, WaitsLess, OnlyWaitersArePassed, InOrder
<1>5. Patient'
  <2>1. \A r : ~InSeq(batch', r)
    BY <1>1, <1>2
  <2>. QED
    BY <1>3, <2>1 DEF Patient
<1>6. Pending(batch', Len(queue'[1]), priority', passed')
  BY <1>1, <1>2
<1>. QED
  BY <1>4, <1>5, <1>6 DEF PInv

LEMMA DrainPInv ==
  ASSUME QInv, PInv, DrainQueues PROVE PInv'
<1>1. /\ pc = "loop" /\ pc' = "aging"
      /\ batch' = Drained(queue)
      /\ queue' = [k \in Queues |-> <<>>]
      /\ UNCHANGED <<status, priority, waiting, mon, item, passed>>
  BY DEF DrainQueues, Drained, pcbs
<1>2. \A p : ~InSeq(batch, p)
  BY <1>1, NoBatch
<1>3. (\A r : ~Held(queue', r)) /\ Len(queue'[1]) = 0
  BY <1>1, EmptyQueues DEF Queues
<1>4. /\ batch' \in Seq(Items) /\ Len(batch') = Total(queue)
      /\ \A i \in 1..Len(queue[1]) : batch'[i] = queue[1][i]
      /\ \A r : InSeq(batch', r) <=> Held(queue, r)
      /\ DistinctSeq(batch')
  BY <1>1, DrainFacts, QTypes
<1>5. WaitsLess' /\ OnlyWaitersArePassed' /\ InOrder(queue', passed')
  BY <1>1, <1>2, <1>3, <1>4 DEF PInv, WaitsLess, OnlyWaitersArePassed, InOrder
<1>6. ASSUME NEW j \in 1..Len(batch'), priority[batch'[j].pid] = 1
      PROVE  passed[batch'[j].pid] + 0 + j <= BypassBound + 1
  <2>. DEFINE p == batch'[j].pid
  <2>1. p \in Tasks /\ InSeq(batch', p) /\ j \in Nat
    BY <1>4, SeqFacts DEF InSeq
  <2>2. InSeq(queue[1], p)
    <3>1. PICK k \in Queues : InSeq(queue[k], p)
      BY <1>4, <2>1, HeldFacts, QTypes
    <3>2. k = 1
      BY <1>6, <3>1, QTypes DEF Sorted, InSeq
    <3>. QED
      BY <3>1, <3>2
  <2>3. PICK i \in 1..Len(queue[1]) : queue[1][i].pid = p
    BY <2>2 DEF InSeq
  <2>4. i \in 1..Len(batch') /\ batch'[i].pid = batch'[j].pid
    <3>1. Len(queue[1]) <= Total(queue)
      <4>1. Len(queue[1]) \in Nat /\ Len(queue[2]) \in Nat /\ Len(queue[3]) \in Nat
        <5>1. 1 \in Queues /\ 2 \in Queues /\ 3 \in Queues
          BY DEF Queues
        <5>2. \A k \in Queues : queue[k] \in Seq(Items)
          BY QTypes
        <5>3. \A k \in Queues : Len(queue[k]) \in Nat
          BY <5>2
        <5>. QED
          BY <5>1, <5>3
      <4>2. PICK a, b, c : a = Len(queue[1]) /\ b = Len(queue[2]) /\ c = Len(queue[3])
        OBVIOUS
      <4>3. a <= a + b + c
        <5>1. a \in Nat /\ b \in Nat /\ c \in Nat
          BY ONLY <4>1, <4>2, Zenon
        <5>. QED
          BY ONLY <5>1
      <4>. QED
        BY <4>2, <4>3 DEF Total
    <3>2. Total(queue) \in Nat /\ Len(queue[1]) \in Nat
      BY Room, QTypes
    <3>3. i \in 1..Len(batch')
      BY <1>4, <2>3, <3>1, <3>2
    <3>. QED
      BY <1>4, <2>3, <3>3
  <2>5. i = j
    BY <1>4, <2>4 DEF DistinctSeq
  <2>6. passed[p] + i <= BypassBound + 1
    BY <2>3 DEF PInv, InOrder
  <2>7. passed[p] \in Nat
    BY <2>1, QTypes
  <2>. QED
    BY <2>1, <2>5, <2>6, <2>7
<1>7. Pending(batch', Len(queue'[1]), priority', passed')
  BY <1>1, <1>3, <1>6 DEF Pending
<1>8. Patient'
  <2>1. \A r : Patience(r)' = Patience(r)
    BY <1>1 DEF Patience
  <2>. QED
    BY <1>1, <1>3, <1>4, <2>1 DEF PInv, Patient
<1>. QED
  BY <1>5, <1>7, <1>8 DEF PInv

\* What is left of the local list moves up by one, and the system queue grows by
\* no more than that.
LEMMA PendingTail ==
  ASSUME NEW b \in Seq(Items), b # <<>>, NEW n \in Nat, NEW m \in Nat, m <= n + 1,
         NEW pr, NEW pt, NEW ps \in [Tasks -> Nat], NEW pn \in [Tasks -> Nat],
         Pending(b, n, pr, ps), DistinctSeq(b),
         \A r \in Tasks : r # Head(b).pid => pt[r] = pr[r] /\ pn[r] = ps[r]
  PROVE  Pending(Tail(b), m, pt, pn)
<1>1. /\ Tail(b) \in Seq(Items) /\ Len(Tail(b)) = Len(b) - 1 /\ Len(b) \in Nat
      /\ \A i \in 1..Len(Tail(b)) : Tail(b)[i] = b[i + 1]
      /\ ~InSeq(Tail(b), Head(b).pid)
  BY TailFacts, SeqFacts
<1>2. SUFFICES ASSUME NEW j \in 1..Len(Tail(b)), pt[Tail(b)[j].pid] = 1
               PROVE  pn[Tail(b)[j].pid] + m + j <= BypassBound + 1
  BY DEF Pending
<1>3. /\ j \in Nat /\ j + 1 \in 1..Len(b) /\ Tail(b)[j] = b[j + 1]
      /\ b[j + 1].pid \in Tasks /\ b[j + 1].pid # Head(b).pid
  BY <1>1, SeqFacts DEF InSeq
<1>4. PICK a : a = ps[b[j + 1].pid] /\ a = pn[b[j + 1].pid]
  BY <1>3
<1>5. a + n + (j + 1) <= BypassBound + 1
  BY <1>2, <1>3, <1>4 DEF Pending
<1>6. a \in Nat
  BY <1>3, <1>4
<1>7. a + m + j <= BypassBound + 1
  BY <1>3, <1>5, <1>6, Bounds
<1>. QED
  BY <1>3, <1>4, <1>7

LEMMA DropPInv ==
  ASSUME QInv, QInv', PInv, DropItem PROVE PInv'
<1>1. PICK p :
        /\ p = Head(batch).pid
        /\ pc = "aging" /\ batch # <<>> /\ batch' = Tail(batch)
        /\ passed' = [passed EXCEPT ![p] = 0]
        /\ UNCHANGED <<queue, status, priority, waiting, mon, pc, item>>
  BY DEF DropItem, pcbs
<1>2. /\ p \in Tasks /\ ~Held(queue, p)
      /\ \A r : InSeq(batch', r) <=> InSeq(batch, r) /\ r # p
  BY <1>1, HeadFacts
<1>3. /\ passed \in [Tasks -> Nat] /\ passed' \in [Tasks -> Nat] /\ passed'[p] = 0
      /\ \A r \in Tasks : r # p => passed'[r] = passed[r]
  BY <1>1, QTypes
<1>4. InOrder(queue', passed')
  <2>1. \A r \in Tasks : passed'[r] <= passed[r]
    BY <1>2, <1>3
  <2>. QED
    BY <1>1, <1>3, <2>1, LessPassed, QTypes DEF PInv
<1>5. Pending(batch', Len(queue'[1]), priority', passed')
  <2>1. Len(queue[1]) \in Nat /\ Len(queue[1]) <= Len(queue[1]) + 1
    BY QTypes
  <2>. QED
    BY <1>1, <1>3, <2>1, PendingTail, QTypes DEF PInv
<1>6. WaitsLess' /\ OnlyWaitersArePassed'
  <2>1. \A r : Held(queue', r) <=> Held(queue, r)
    BY <1>1
  <2>. QED
    BY <1>1, <1>2, <1>3, <2>1 DEF PInv, WaitsLess, OnlyWaitersArePassed
<1>7. Patient'
  <2>1. \A r : Patience(r)' = Patience(r) /\ Held(queue, r)' = Held(queue, r)
    BY <1>1 DEF Patience, Held
  <2>2. \A r \in Tasks : priority[r] # 1 /\ Held(queue, r) =>
          passed'[r] + 1 <= Patience(r) /\ passed'[r] <= Patience(r)
    BY <1>1, <1>2, <1>3 DEF PInv, Patient
  <2>3. \A r \in Tasks : priority[r] # 1 /\ InSeq(batch', r) => passed'[r] <= Patience(r)
    BY <1>2, <1>3 DEF PInv, Patient
  <2>. QED
    BY <1>1, <2>1, <2>2, <2>3 DEF Patient
<1>. QED
  BY <1>4, <1>5, <1>6, <1>7 DEF PInv

LEMMA AgePInv ==
  ASSUME QInv, QInv', PInv, AgeItem PROVE PInv'
<1>1. PICK p, level :
        /\ p = Head(batch).pid /\ Ages(p, level)
        /\ pc = "aging" /\ batch # <<>> /\ batch' = Tail(batch)
        /\ UNCHANGED <<status, mon, pc, item, passed>>
  BY DEF AgeItem, Ages
<1>2. /\ p \in Tasks /\ InSeq(batch, p) /\ ~Held(queue, p)
      /\ batch' \in Seq(Items) /\ DistinctSeq(batch')
      /\ \A r : InSeq(batch', r) <=> InSeq(batch, r) /\ r # p
  BY <1>1, HeadFacts
<1>. DEFINE it == [pid |-> p, priority |-> level]
<1>3. /\ level \in Queues /\ it \in Items /\ it.pid = p /\ it.priority = level
      /\ waiting' \in [Tasks -> Nat] /\ priority' \in [Tasks -> Queues]
      /\ priority'[p] = level /\ \A r \in Tasks \ {p} : priority'[r] = priority[r]
      /\ \A r \in Tasks \ {p} : waiting'[r] = waiting[r]
  BY <1>1, <1>2, AgesFacts
<1>4. queue' = Add(queue, it)
  BY <1>1 DEF Ages
<1>. HIDE DEF it
<1>5. /\ queue \in [Queues -> Seq(Items)] /\ passed \in [Tasks -> Nat] /\ Len(queue[1]) \in Nat
      /\ passed[p] \in Nat
      /\ \A r : Held(queue', r) <=> Held(queue, r) \/ r = p
      /\ Len(queue'[1]) \in Nat /\ Len(queue'[1]) <= N
  BY <1>2, <1>3, <1>4, AddFacts, QTypes, RoomNext, ZenonT(40)
<1>6. PICK w, v, t, o :
        w = waiting[p] /\ v = waiting'[p] /\ t = AgingThreshold /\ o = priority[p]
  OBVIOUS
<1>7. /\ w \in Nat /\ w < t /\ t \in Nat /\ t >= 1 /\ o \in 1..3 /\ level \in 1..3 /\ v \in Nat
      /\ LET due == w + 1 >= t /\ o > 1
         IN /\ level = IF due THEN o - 1 ELSE o
            /\ v = IF level = 1 \/ due THEN 0 ELSE w + 1
  <2>1. w \in Nat /\ w < t /\ t \in Nat /\ t >= 1 /\ o \in 1..3 /\ level \in 1..3 /\ v \in Nat
    BY <1>2, <1>3, <1>6, Bounds, QTypes DEF PInv, WaitsLess, Queues
  <2>2. waiting \in [Tasks -> Nat]
    BY QTypes
  <2>. QED
    BY <1>1, <1>2, <1>6, <2>1, <2>2 DEF Ages
<1>8. WaitsLess'
  <2>1. v < t
    BY <1>7
  <2>. QED
    BY <1>3, <1>6, <2>1 DEF PInv, WaitsLess
<1>9. OnlyWaitersArePassed'
  BY <1>1, <1>2, <1>5 DEF PInv, OnlyWaitersArePassed
<1>10. o # 1 => passed[p] <= (IF o = 3 THEN 0 ELSE t) + w
  BY <1>2, <1>6 DEF PInv, Patient, Patience
<1>11. level = 1 => passed[p] + (Len(queue[1]) + 1) <= BypassBound + 1
  <2>1. CASE level = 1 /\ o = 1
    <3>1. 1 \in 1..Len(batch) /\ batch[1].pid = p
      BY <1>1, QTypes, TailFacts
    <3>2. passed[p] + Len(queue[1]) + 1 <= BypassBound + 1
      BY <1>6, <2>1, <3>1 DEF PInv, Pending
    <3>. QED
      BY <1>5, <3>2, Bounds
  <2>2. CASE level = 1 /\ o # 1
    <3>1. o = 2 /\ passed[p] <= t + w
      BY <1>7, <1>10, <2>2
    <3>2. Len(queue[1]) + 1 <= N
      <4>1. queue'[1] = Append(queue[1], it) /\ queue[1] \in Seq(Items)
        <5>1. Add(queue, it)[it.priority] = Append(queue[it.priority], it)
          BY <1>3, <1>5, AddFacts
        <5>. QED
          BY <1>3, <1>4, <2>2, <5>1, QTypes
      <4>. QED
        BY <1>3, <1>5, <4>1, AppendFacts
    <3>3. PICK a, n, b : a = passed[p] /\ n = Len(queue[1]) /\ b = BypassBound
      OBVIOUS
    <3>4. /\ a \in Nat /\ n \in Nat /\ n + 1 <= N /\ N \in Nat /\ a <= t + w /\ w < t
          /\ b \in Nat /\ b + 1 = 2 * t - 1 + N /\ t \in Nat /\ w \in Nat
      BY <1>5, <1>6, <1>7, <3>1, <3>2, <3>3, Bounds
    <3>5. a + (n + 1) <= b + 1
      BY <3>4
    <3>. QED
      BY <3>3, <3>5
  <2>. QED
    BY <2>1, <2>2
<1>12. /\ InOrder(queue', passed')
       /\ Len(queue'[1]) = IF level = 1 THEN Len(queue[1]) + 1 ELSE Len(queue[1])
  BY <1>1, <1>3, <1>4, <1>5, <1>11, AddKeepsOrder DEF PInv
<1>13. Pending(batch', Len(queue'[1]), priority', passed')
  <2>1. Len(queue'[1]) <= Len(queue[1]) + 1
    BY <1>5, <1>12
  <2>2. PICK m, n, pt, pn :
          m = Len(queue'[1]) /\ n = Len(queue[1]) /\ pt = priority' /\ pn = passed'
    OBVIOUS
  <2>3. m \in Nat /\ n \in Nat /\ m <= n + 1 /\ pn = passed
    BY <1>1, <1>5, <2>1, <2>2
  <2>4. batch \in Seq(Items) /\ batch # <<>> /\ DistinctSeq(batch)
    BY <1>1, QTypes
  <2>5. Pending(batch, n, priority, passed)
    BY <2>2 DEF PInv
  <2>6. \A r \in Tasks : r # Head(batch).pid => pt[r] = priority[r] /\ pn[r] = passed[r]
    BY <1>1, <1>3, <2>2, <2>3
  <2>7. Pending(Tail(batch), m, pt, pn)
    BY <1>5, <2>3, <2>4, <2>5, <2>6, PendingTail
  <2>. QED
    BY <1>1, <2>2, <2>7
<1>14. Patient'
  <2>1. \A r \in Tasks : r # p => Patience(r)' = Patience(r)
    BY <1>3 DEF Patience
  <2>2. level # 1 => passed[p] + 1 <= Patience(p)' /\ passed[p] <= Patience(p)'
    <3>1. Patience(p)' = (IF level = 3 THEN 0 ELSE t) + v
      BY <1>3, <1>6 DEF Patience
    <3>2. ASSUME level # 1
          PROVE  passed[p] + 1 <= (IF level = 3 THEN 0 ELSE t) + v
      <4>1. PICK a : a = passed[p]
        OBVIOUS
      <4>2. o # 1 /\ a \in Nat /\ a <= (IF o = 3 THEN 0 ELSE t) + w
        BY <1>5, <1>7, <1>10, <3>2, <4>1
      <4>3. a + 1 <= (IF level = 3 THEN 0 ELSE t) + v
        BY <1>7, <3>2, <4>2
      <4>. QED
        BY <4>1, <4>3
    <3>3. \A x \in Nat : passed[p] + 1 <= x => passed[p] <= x
      BY <1>5
    <3>4. Patience(p)' \in Nat
      BY <1>2, RoomNext
    <3>. QED
      BY <3>1, <3>2, <3>3, <3>4
  <2>3. \A r \in Tasks : priority'[r] # 1 /\ Held(queue', r) =>
          passed[r] + 1 <= Patience(r)' /\ passed[r] <= Patience(r)'
    BY <1>1, <1>3, <1>5, <2>1, <2>2 DEF PInv, Patient
  <2>4. \A r \in Tasks : priority'[r] # 1 /\ InSeq(batch', r) => passed[r] <= Patience(r)'
    BY <1>2, <1>3, <2>1 DEF PInv, Patient
  <2>. QED
    BY <1>1, <2>3, <2>4 DEF Patient
<1>. QED
  BY <1>8, <1>9, <1>12, <1>13, <1>14 DEF PInv

\* One item is selected: everybody else has been passed over once more.
LEMMA SelectPInv ==
  ASSUME QInv, QInv', PInv, SelectNextProcess \/ DispatchParallel PROVE PInv'
<1>1. PICK k, p :
        /\ k \in Queues
        /\ p = Head(queue[k]).pid /\ TakeFrom(k) /\ ResetWaitingTime(p)
  BY DEF SelectNextProcess, DispatchParallel
<1>2. /\ UNCHANGED <<batch, priority>> /\ pc \in {"select", "parallel"}
      /\ pc = "select" => pc' = "run"
      /\ pc = "parallel" => pc' = "parallel"
  BY DEF SelectNextProcess, DispatchParallel
<1>3. batch = <<>> /\ (\A r : ~InSeq(batch, r)) /\ \A n, pr, ps : Pending(batch, n, pr, ps)
  BY <1>2, NoBatch
<1>4. /\ queue' = [queue EXCEPT ![k] = Tail(queue[k])] /\ queue[k] # <<>> /\ p \in Tasks
      /\ queue \in [Queues -> Seq(Items)]
      /\ \A r : Held(queue', r) <=> Held(queue, r) /\ r # p
  BY <1>1, TakenFacts, QTypes
<1>5. /\ InOrder(queue', passed')
      /\ \A r \in Tasks : passed'[r] <= passed[r] + 1
      /\ \A r \in Tasks : passed'[r] # 0 => r # p /\ Held(queue, r)
  BY <1>1, TakeKeepsOrder DEF PInv
<1>6. /\ \A r \in Tasks : waiting'[r] <= waiting[r] /\ waiting'[r] \in Nat /\ waiting[r] \in Nat
      /\ \A r \in Tasks \ {p} : waiting'[r] = waiting[r]
  BY <1>1, <1>4, ResetFacts, QTypes
<1>7. WaitsLess' /\ OnlyWaitersArePassed'
  <2>1. \A r \in Tasks : waiting'[r] < AgingThreshold
    BY <1>6, Bounds DEF PInv, WaitsLess
  <2>. QED
    BY <1>4, <1>5, <2>1 DEF WaitsLess, OnlyWaitersArePassed
<1>8. Pending(batch, Len(queue[1]), priority, passed)'
  BY <1>2, <1>3 DEF Pending
<1>9. Patient'
  <2>1. \A r : ~InSeq(batch', r)
    BY <1>2, <1>3
  <2>2. ASSUME NEW r \in Tasks, priority'[r] # 1, Held(queue', r)
        PROVE  /\ pc' # "parallel" => passed'[r] <= Patience(r)'
               /\ pc' = "parallel" => passed'[r] + Total(queue') <= BypassBound + 1
    <3>1. r # p /\ Held(queue, r) /\ priority[r] # 1 /\ Patience(r)' = Patience(r)
      BY <1>2, <1>4, <1>6, <2>2 DEF Patience
    <3>2. /\ pc = "select" => passed[r] + 1 <= Patience(r)
          /\ pc = "parallel" => passed[r] + Total(queue) <= BypassBound + 1
      BY <3>1 DEF PInv, Patient
    <3>3. passed[r] \in Nat /\ passed'[r] \in Nat /\ passed'[r] <= passed[r] + 1
          /\ Patience(r) \in Nat
      BY <1>5, QTypes, RoomNext
    <3>4. Total(queue') = Total(queue) - 1 /\ Total(queue) \in Nat
      BY <1>1, <1>4, TakeFacts, Room, QTypes
    <3>5. pc = "select" => passed'[r] <= Patience(r)'
      BY <3>1, <3>2, <3>3
    <3>6. pc = "parallel" => passed'[r] + Total(queue') <= BypassBound + 1
      <4>1. PICK a, b, c, d, e : a = passed[r] /\ b = passed'[r] /\ c = Total(queue)
                                 /\ d = Total(queue') /\ e = BypassBound
        OBVIOUS
      <4>2. a \in Nat /\ b \in Nat /\ b <= a + 1 /\ c \in Nat /\ d = c - 1 /\ e \in Nat
        BY <3>3, <3>4, <4>1, Bounds
      <4>3. a + c <= e + 1 => b + d <= e + 1
        BY <4>2
      <4>. QED
        BY <3>2, <4>1, <4>3
    <3>. QED
      BY <1>2, <3>5, <3>6
  <2>3. pc' \notin {"aging", "select"}
    BY <1>2
  <2>. QED
    BY <2>1, <2>2, <2>3 DEF Patient
<1>. QED
  BY <1>5, <1>7, <1>8, <1>9 DEF PInv

LEMMA NextPInv == QInv /\ QInv' /\ PInv /\ [Next]_vars => PInv'
<1>. SUFFICES ASSUME QInv, QInv', PInv, [Next]_vars PROVE PInv'
  OBVIOUS
<1>1. CASE UNCHANGED vars \/ Halted
  BY <1>1, StayPInv DEF Halted, vars, pcbs
<1>2. ASSUME NEW parallel \in BOOLEAN, StartScheduler(parallel) PROVE PInv'
  BY <1>2, StayPInv DEF StartScheduler, pcbs
<1>3. CASE ClearAllQueues
  BY <1>3, ClearPInv
<1>4. ASSUME NEW p \in Tasks, LaunchTask(p) \/ ResumeTask(p) PROVE PInv'
  <2>1. /\ pc = "idle" /\ pc' = "idle" /\ status[p] \in {"new", "paused"}
        /\ queue' = Add(queue, ItemFor(p))
        /\ UNCHANGED <<batch, priority, waiting, passed>>
    BY <1>4 DEF LaunchTask, ResumeTask
  <2>2. /\ ItemFor(p) \in Items /\ ItemFor(p).pid = p /\ ItemFor(p).priority = priority[p]
    BY DEF QInv, TypeOK, ItemFor, Items
  <2>3. ~Held(queue, p) /\ ~InSeq(batch, p)
    BY <2>1 DEF QInv, OnlyTheLaunched, HasItem
  <2>4. passed[p] = 0
    BY <2>3 DEF PInv, OnlyWaitersArePassed
  <2>. QED
    BY <2>1, <2>2, <2>3, <2>4, EnterPInv
<1>5. ASSUME NEW p \in Tasks, PauseTask(p) \/ KillTask(p) PROVE PInv'
  BY <1>5, LeavePInv DEF PauseTask, KillTask
<1>6. ASSUME NEW p \in Tasks, MonitorDequeues(p) PROVE PInv'
  BY <1>6, LeavePInv DEF MonitorDequeues, pcbs
<1>7. ASSUME NEW p \in Tasks, MonitorForgets(p) PROVE PInv'
  BY <1>7, StayPInv DEF MonitorForgets
<1>8. CASE EndLoop \/ AgingDone \/ NothingSelected \/ ParallelDone
  BY <1>8, StayPInv DEF EndLoop, AgingDone, NothingSelected, ParallelDone, pcbs
<1>9. CASE DrainQueues \/ AgeItem \/ DropItem
  BY <1>9, DrainPInv, AgePInv, DropPInv
<1>10. CASE SelectNextProcess \/ DispatchParallel
  BY <1>10, SelectPInv
<1>11. CASE SkipProcess \/ StartProcess \/ CompleteProcess \/ HideProcess
  BY <1>11, StayPInv DEF SkipProcess, StartProcess, CompleteProcess, HideProcess, pcbs
<1>12. CASE RequeueProcess
  <2>1. /\ pc = "running" /\ pc' = "loop" /\ queue' = Add(queue, item)
        /\ UNCHANGED <<batch, priority, waiting, passed>>
    BY <1>12 DEF RequeueProcess
  <2>2. item # NoItem /\ item \in Items /\ item.pid \in Tasks
    BY <2>1 DEF QInv, TypeOK, Control, Items
  <2>3. /\ ~Held(queue, item.pid) /\ ~InSeq(batch, item.pid)
        /\ item.priority = priority[item.pid]
    BY <2>2 DEF QInv, OneItem, RightPlace, OnCPU
  <2>4. passed[item.pid] = 0
    BY <2>2, <2>3 DEF PInv, OnlyWaitersArePassed
  <2>. QED
    BY <2>1, <2>2, <2>3, <2>4, EnterPInv
<1>. QED
  BY <1>1, <1>2, <1>3, <1>4, <1>5, <1>6, <1>7, <1>8, <1>9, <1>10, <1>11, <1>12
     DEF Next, Menu, Scheduling, TurnEnds

\* For any number of tasks and any aging threshold, a waiting task is passed over at
\* most as often as two promotions take, and then once for every other task.
THEOREM ReadyQueuesBoundedBypass == Spec => []BoundedBypass
<1>1. Init => QInv /\ PInv
  BY InitQInv, InitPInv
<1>2. QInv /\ PInv /\ [Next]_vars => QInv' /\ PInv'
  BY NextQInv, NextPInv
<1>3. QInv /\ PInv => BoundedBypass
  BY PInvBounds
<1>. QED
  BY <1>1, <1>2, <1>3, PTL DEF Spec

==============================================================================
