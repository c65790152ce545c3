--------------------------- MODULE MCReviewRunner ---------------------------
(***************************************************************************)
(* One sequence with each kind of entry, executed by a lone runner that    *)
(* may be ended twice, or by two runners of which one may be ended once.   *)
(***************************************************************************)
EXTENDS ReviewRunner, TLC

CONSTANTS p1, p2

CorrectThenFallBack == <<"initial", "format", "fallback">>

VARIABLE crew  \* the runners that are started

crewVars == <<vars, crew>>

Lone == crew = {p1}

(* Two runners meet each of the events that are bounded at most once. *)
Bounded == Lone \/ {crashes', stops', releases'} \subseteq {0, 1}

Crewed(A) == A /\ Bounded /\ UNCHANGED crew

CrewInit == Init /\ crew \in {{p1}, {p1, p2}}

CrewNext ==
    \/ \E p \in crew :
          \/ Crewed(Start(p)) \/ Crewed(Step(p)) \/ Crewed(AcquireLease(p))
          \/ Crewed(Crash(p)) \/ Crewed(CrashInRefund(p))
    \/ Crewed(ReleaseLease) \/ Crewed(StopScope) \/ Crewed(ClearScope)

(* The lone runner is started again after it ended, and gets the lease. *)
CrewSpec ==
    /\ CrewInit /\ [][CrewNext]_crewVars
    /\ WF_crewVars(Crewed(Step(p1))) /\ WF_crewVars(Crewed(Start(p1)))
    /\ WF_crewVars(Crewed(AcquireLease(p1)))

(* A lone runner loses no budget: whatever ends it between the two databases, every debit is *)
(* owned by its attempt, its intent or its fence.                                            *)
LoneDebitsAreOwned == Lone => DebitsAreOwned

(* A lone runner finds what it prepared resumable after every end (_execute_selection). *)
LonePreparedIsResumable == Lone => PreparedIsResumable

(* A lone runner that is restarted ends the sequence, unless its scope stays stopped. *)
LoneRestartsFinish == Lone => RestartsFinish
=============================================================================
