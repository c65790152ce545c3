-------------------------- MODULE MCMutationBroker --------------------------
(***************************************************************************)
(* Two intents that share an idempotency key, for every kind of operation. *)
(***************************************************************************)
EXTENDS MutationBroker, TLC

CONSTANTS i1, i2, k1

SharedKey == (i1 :> k1) @@ (i2 :> k1)

(* Intents are only compared. *)
AnyIntent == Permutations(Intents)
=============================================================================
