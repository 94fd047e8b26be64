------------------------- MODULE MCDeadlockManager --------------------------
(* Up to MaxRecords records over three processes, so that circles of every  *)
(* length, several holders of a resource and processes that wait for        *)
(* themselves or for nobody occur.                                          *)
EXTENDS DeadlockManager, TLC

=============================================================================
