------------------------------ MODULE MCKernel ------------------------------
EXTENDS KernelProperties, TLC

CONSTANTS p1, p2, p3

TwoTasks == {p1, p2}
ThreeTasks == {p1, p2, p3}
OneEach == [p \in Tasks |-> 1]
OneOneTwo == [p \in Tasks |-> IF p = p3 THEN 2 ELSE 1]
First == {p1}
None == {}
=============================================================================
