---------------------------- MODULE TaskLifecycle ---------------------------
(***************************************************************************)
(* What the kernel promises about a task's RAM, whoever cleans up after    *)
(* it: the block is reserved while there is room, the task is registered,  *)
(* the block is given back exactly once, and only then is the task         *)
(* forgotten, for good.                                                    *)
(***************************************************************************)
EXTENDS Integers

CONSTANTS
  Tasks,
  Need,      \* Need[p]: what task p asks for
  Load(_),   \* what a set of tasks asks for together
  Total      \* the size of the RAM

VARIABLE stage  \* absent, reserved, registered, closing or gone

Holding(s) == {p \in Tasks : s[p] \in {"reserved", "registered"}}

Init == stage = [p \in Tasks |-> "absent"]

Moves(p, from, to) == stage[p] = from /\ stage' = [stage EXCEPT ![p] = to]

Reserve(p) ==
  /\ Load(Holding(stage)) + Need[p] <= Total
  /\ Moves(p, "absent", "reserved")

Refuse(p) == Moves(p, "absent", "gone")
Register(p) == Moves(p, "reserved", "registered")
GiveBack(p) == Moves(p, "registered", "closing")
Forget(p) == Moves(p, "closing", "gone")

Next == \E p \in Tasks :
  Reserve(p) \/ Refuse(p) \/ Register(p) \/ GiveBack(p) \/ Forget(p)

Spec == Init /\ [][Next]_stage

=============================================================================
