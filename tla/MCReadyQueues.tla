---------------------------- MODULE MCReadyQueues ----------------------------
(* Three tasks, one of each priority; the interactive and the background   *)
(* one return to their queues when their quantum expires.                  *)
EXTENDS ReadyQueues

CONSTANTS t1, t2, t3

OneEach == (t1 :> 1) @@ (t2 :> 2) @@ (t3 :> 3)

=============================================================================
