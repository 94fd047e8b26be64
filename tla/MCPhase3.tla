------------------------------ MODULE MCPhase3 ------------------------------
EXTENDS Phase3Kernel, TLC

\* Two of the tasks leave too little for the third, and their ends bring three free
\* blocks together; two are timed, so that one ages while the other runs.
ThreeTasks == 1..3
Catalog == [p \in 1..3 |->
  CASE p = 1 -> [type |-> "timed", priority |-> 3, ram |-> 1]
    [] p = 2 -> [type |-> "timed", priority |-> 2, ram |-> 1]
    [] OTHER -> [type |-> "system", priority |-> 1, ram |-> 2]]

FirstIsClock == {1}
SecondIsClicked == {2}
ThirdInWindow == {3}
=============================================================================
