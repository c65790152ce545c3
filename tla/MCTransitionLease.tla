-------------------------- MODULE MCTransitionLease --------------------------
(***************************************************************************)
(* Three processes, two of which present the same owner token.             *)
(***************************************************************************)
EXTENDS TransitionLease, TLC

CONSTANTS p1, p2, p3, ann, bob, r1, r2

MCOwnerOf == (p1 :> ann) @@ (p2 :> ann) @@ (p3 :> bob)

(* p1 and p2 present the same token, and repository names are only compared. *)
Interchangeable == Permutations({p1, p2}) \cup Permutations({r1, r2})
==============================================================================
