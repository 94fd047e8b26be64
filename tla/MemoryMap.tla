------------------------------ MODULE MemoryMap ------------------------------
(***************************************************************************)
(* What the RAM layout of the resource manager promises: every address has *)
(* one owner or is free, a task is given the lowest run of free addresses  *)
(* that is long enough, and is refused only when there is none.            *)
(***************************************************************************)
EXTENDS Integers

CONSTANTS Tasks, Size, Free

VARIABLES
  owner,  \* the owner of each address
  want,   \* how many addresses each task asks for, 0 when it does not ask
  refused \* the tasks that were told that there is no room

vars == <<owner, want, refused>>

Addresses == 0..(Size - 1)

Init ==
  /\ owner = [a \in Addresses |-> Free]
  /\ want = [p \in Tasks |-> 0]
  /\ refused = {}

Fits(s, n) == s + n <= Size /\ \A a \in s..(s + n - 1) : owner[a] = Free

Ask(p) ==
  /\ want[p] = 0
  /\ \E n \in 1..Size : want' = [want EXCEPT ![p] = n]
  /\ UNCHANGED <<owner, refused>>

Allocate(p) ==
  /\ want[p] > 0 /\ p \notin refused
  /\ \A a \in Addresses : owner[a] # p
  /\ \E s \in Addresses :
       /\ Fits(s, want[p]) /\ \A t \in 0..(s - 1) : ~Fits(t, want[p])
       /\ owner' = [a \in Addresses |-> IF a \in s..(s + want[p] - 1) THEN p ELSE owner[a]]
  /\ UNCHANGED <<want, refused>>

Refuse(p) ==
  /\ want[p] > 0 /\ p \notin refused
  /\ \A a \in Addresses : owner[a] # p
  /\ \A s \in Addresses : ~Fits(s, want[p])
  /\ refused' = refused \cup {p}
  /\ UNCHANGED <<owner, want>>

Release(p) ==
  /\ owner' = [a \in Addresses |-> IF owner[a] = p THEN Free ELSE owner[a]]
  /\ UNCHANGED <<want, refused>>

Leave(p) ==
  /\ \A a \in Addresses : owner[a] # p
  /\ want' = [want EXCEPT ![p] = 0]
  /\ refused' = refused \ {p}
  /\ UNCHANGED owner

Next == \E p \in Tasks : Ask(p) \/ Allocate(p) \/ Refuse(p) \/ Release(p) \/ Leave(p)

Spec == Init /\ [][Next]_vars

=============================================================================
