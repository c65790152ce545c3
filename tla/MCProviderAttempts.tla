------------------------- MODULE MCProviderAttempts -------------------------
(***************************************************************************)
(* One attempt followed through every race, beside others of the same task *)
(* that are prepared and open their sessions.                              *)
(***************************************************************************)
EXTENDS ProviderAttempts, TLC

CONSTANTS a1, a2, a3, s1, t1, e1

SmallCoordinates == [epoch : {0, 1}, round : {1}, profile : {1, 2}, format : {0, 1}]

Others == AttemptIds \ {a1}

(* The others are alike. *)
Anonymous == Permutations(Others)

Companion(a) ==
    \/ \E role \in Roles, coordinate \in Coordinates \cup {None} :
          PrepareAttempt(a, role, MaxTime, MaxTime, coordinate)
    \/ \E session \in Sessions : RecordSession(a, session)

MCNext ==
    \/ Surroundings
    \/ TurnStep(a1) \/ SettleStep(a1) \/ RecoverStep(a1)
    \/ \E a \in Others : Companion(a)

MCSpec == AttemptInit /\ [][MCNext]_attemptVars
=============================================================================
