------------------------- MODULE MCCanaryExecution -------------------------
(***************************************************************************)
(* The snapshot of a single caller with a budget of two transitions.       *)
(***************************************************************************)
EXTENDS CanaryExecution

TwoOfEach == [o \in Operations |-> 2]
=============================================================================
