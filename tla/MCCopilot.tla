----------------------------- MODULE MCCopilot -----------------------------
(* Three questions, with the three rounds of the code for each.             *)
EXTENDS Copilot

=============================================================================
