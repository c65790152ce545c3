------------------------------ MODULE MCReview ------------------------------
(***************************************************************************)
(* Planning, candidate review and the owner's control.  Candidate review   *)
(* comes in three slices of its state space: an implementation and reviews *)
(* of it while the worktree and the verification move; an implementation,  *)
(* its review and its repair on one commit, with one turn in doubt at a    *)
(* time; and two implementations that were begun at once, up to their      *)
(* candidates.  The modules keep separate tables; a behaviour follows one  *)
(* of them while the others stay in their initial state.                   *)
(***************************************************************************)
EXTENDS Planning, CandidateReview, OwnerControl, TLC

CONSTANTS c1, c2, i1, i2, r1, r2, v1, t1, t2, b1, n1, k1, k2
CONSTANTS w1, w2, clear, blocked, owner, f1, u1

(* Plans are implementations and plan reviews are reviews to TLC, of which one
   kind moves at a time; all of them are only compared. *)
Anonymous == Permutations(Impls) \cup Permutations(Reviews)

VARIABLE part  \* the slice or the module that moves

Begun(x) == turn[x] # "none" \/ \E c \in Callers : at[c].id = x
First(i) == impls[i] # Nothing /\ impls[i].parent = Nothing
OneCommit == head # 2 /\ \A c \in Callers : at[c].id # t2

Moves == \A i, j \in Impls : Begun(i) /\ Begun(j) => i = j
OneDoubt == \A x, y \in Turns : turn[x] = "ambiguous" /\ turn[y] = "ambiguous" => x = y
Repairs == OneCommit /\ OneDoubt /\ \A i, j \in Impls : First(i) /\ First(j) => i = j
Rivals == OneCommit /\ \A r \in Reviews : ~Begun(r)

Init ==
    /\ part \in {"planning", "moves", "repairs", "rivals", "owner"}
    /\ PlanningInit /\ ReviewInit /\ OwnerInit

ReviewSlice(slice) == ReviewNext /\ slice' /\ UNCHANGED <<part, planningVars, ownerVars>>

Next ==
    \/ part = "planning" /\ PlanningNext /\ UNCHANGED <<part, reviewVars, ownerVars>>
    \/ part = "moves" /\ ReviewSlice(Moves)
    \/ part = "repairs" /\ ReviewSlice(Repairs)
    \/ part = "rivals" /\ ReviewSlice(Rivals)
    \/ part = "owner" /\ OwnerNext /\ UNCHANGED <<part, planningVars, reviewVars>>

Spec == Init /\ [][Next]_<<part, planningVars, reviewVars, ownerVars>>
=============================================================================
