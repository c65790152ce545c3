-------------------------- MODULE ProviderAttempts --------------------------
(***************************************************************************)
(* The provider attempts of one task (provider_recovery.py): preparing a   *)
(* Worker or Supervisor turn, the checkpoints around the external call,    *)
(* its output, its failures, and recovery after a crash or a timeout.      *)
(*                                                                         *)
(* Every operation is one transaction that passed the transition lease and *)
(* named the task (TransitionLease, TaskLifecycle); one that raises is no  *)
(* step, and neither is an idempotent replay.  The provider works outside  *)
(* the database, so the callbacks that record its session, turn and output *)
(* may come at any time, late, or never, and recovery may run before them. *)
(*                                                                         *)
(* A caller presents the recovery context the attempt was prepared with;   *)
(* only recover_attempt accepts another one, as identity drift.  A replay  *)
(* of prepare_attempt repeats its arguments.  Left out: the digests of     *)
(* inputs and outputs and the seals over checkpoints, which only detect    *)
(* edits of the database from outside; attempts without a candidate, which *)
(* have no failure admission.                                              *)
(***************************************************************************)
EXTENDS Naturals, FiniteSets

CONSTANTS AttemptIds,     \* attempt identities callers present
          Roles,          \* provider roles in use
          Sessions, Turns, Evidence,   \* provider identities and fingerprints
          Expiries,       \* expiry instants of process leases and health receipts
          Coordinates,    \* [epoch, round, profile, format] callers present
          RetryLimits,    \* max_attempts values callers pass
          MaxTime,        \* bound: the clock stops here
          None            \* SQL NULL, or no row

AttemptStates == {"prepared", "dispatched", "completed", "accepted", "ambiguous", "blocked",
                  "invalidated"}

Pointers == {"output", "diff-review"}

ASSUME AttemptAssumption ==
    /\ IsFiniteSet(AttemptIds)
    /\ Roles \subseteq {"planning", "worker", "supervisor", "aggregation"}
    /\ Expiries \subseteq Nat
    /\ RetryLimits \subseteq Nat \ {0}
    /\ MaxTime \in Nat
    /\ Coordinates \subseteq [epoch : Nat, round : Nat \ {0}, profile : Nat \ {0}, format : 0..2]
    /\ None \notin Sessions /\ None \notin Turns /\ None \notin Evidence
    /\ None \notin Coordinates /\ None \notin Pointers

VARIABLES attempts,       \* provider_attempts: attempt -> row, or None
          outcome,        \* provider_recovery_outcomes: the blocker, or None
          abandoned,      \* Worker attempts recovery gave up for good
          stopped,        \* roles whose failure scope is stopped
          finalized,      \* a review-limit finalization exists
          now             \* int(time.time())

attemptVars == <<attempts, outcome, abandoned, stopped, finalized, now>>

Row == [role : Roles, number : Nat \ {0}, leaseUntil : Nat, healthUntil : Nat,
        coordinate : Coordinates \cup {None}, state : AttemptStates, claimed : BOOLEAN,
        session : Sessions \cup {None}, turn : Turns \cup {None},
        pointer : Pointers \cup {None}, evidence : Evidence \cup {None}]

(* Blockers name the recovery action too, except where they share one. *)
Blockers == {"identity-drift", "retry-limit-reached", "stale-process-lease",
             "external-turn-ambiguous", "completion-evidence-unverified", "session-without-turn",
             "scope-stopped", "accounting", "partial-supervisor-review", "terminal-failure",
             "supervisor-session-invalidated", "candidate-review-revalidation-required"}

ASSUME NullAssumption == None \notin Row /\ None \notin Blockers

AttemptInit ==
    /\ attempts = [a \in AttemptIds |-> None]
    /\ outcome = [a \in AttemptIds |-> None]
    /\ abandoned = {}
    /\ stopped = {}
    /\ finalized = FALSE
    /\ now = 0

-----------------------------------------------------------------------------
(***************************************************************************)
(* prepare_attempt and the Supervisor coordinate ledger.                   *)
(***************************************************************************)
Prepared == {a \in AttemptIds : attempts[a] # None}
OfRole(role) == {a \in Prepared : attempts[a].role = role}
Located == {a \in Prepared : attempts[a].coordinate # None}

(* The coordinate with the highest attempt number, or None. *)
LastCoordinate ==
    IF Located = {} THEN None
    ELSE attempts[CHOOSE a \in Located :
                     \A b \in Located : attempts[b].number <= attempts[a].number].coordinate

(* Mutant: a new profile may start at any format. *)
CoordinateSkips(last, next) ==
    IF last = None THEN next.profile = 1 /\ next.format = 0
    ELSE /\ next.epoch = last.epoch /\ next.round = last.round
         /\ \/ next.profile = last.profile /\ next.format = last.format + 1
            \/ next.profile = last.profile + 1

(* _coordinate_transition_is_valid. *)
CoordinateFollows(last, next) ==
    LET first == next.profile = 1 /\ next.format = 0 IN
    IF last = None THEN first
    ELSE \/ /\ next.epoch = last.epoch /\ next.round = last.round
            /\ \/ next.profile = last.profile /\ next.format = last.format + 1
               \/ next.profile = last.profile + 1 /\ next.format = 0
         \/ next.epoch = last.epoch /\ next.round = last.round + 1 /\ first
         \/ next.epoch = last.epoch + 1 /\ next.round \in {last.round, 1} /\ first

PrepareAttempt(a, role, leaseUntil, healthUntil, coordinate) ==
    /\ attempts[a] = None
    /\ leaseUntil > now /\ healthUntil > now
    /\ role \notin stopped
    /\ role = "supervisor" => ~finalized
    /\ coordinate # None => role = "supervisor" /\ CoordinateFollows(LastCoordinate, coordinate)
    /\ attempts' = [attempts EXCEPT ![a] =
          [role |-> role, number |-> Cardinality(OfRole(role)) + 1, leaseUntil |-> leaseUntil,
           healthUntil |-> healthUntil, coordinate |-> coordinate, state |-> "prepared",
           claimed |-> FALSE, session |-> None, turn |-> None, pointer |-> None,
           evidence |-> None]]
    /\ UNCHANGED <<outcome, abandoned, stopped, finalized, now>>

-----------------------------------------------------------------------------
(***************************************************************************)
(* The turn.  All of these need the sealed health authorization unexpired. *)
(***************************************************************************)
Authorized(a) == attempts[a] # None /\ attempts[a].healthUntil > now
InState(a, states) == Authorized(a) /\ attempts[a].state \in states
IsSupervisor(a) == attempts[a].role = "supervisor"

OnlyAttempts == UNCHANGED <<outcome, abandoned, stopped, finalized, now>>

(* claim_supervisor_dispatch, claim_worker_dispatch: once, before any session. *)
ClaimDispatch(a) ==
    /\ InState(a, {"prepared"})
    /\ attempts[a].role \in {"worker", "supervisor"} \ stopped
    /\ attempts[a].session = None
    /\ ~attempts[a].claimed
    /\ attempts' = [attempts EXCEPT ![a].claimed = TRUE]
    /\ OnlyAttempts

(* _require_session_reuse_allowed: only planning and Worker turns share. *)
SessionIsAllowed(a, session) ==
    \A b \in Prepared \ {a} : attempts[b].session = session =>
        {attempts[a].role, attempts[b].role} \subseteq {"planning", "worker"}

RecordSession(a, session) ==
    /\ InState(a, {"prepared"})
    /\ attempts[a].session = None
    /\ SessionIsAllowed(a, session)
    /\ attempts' = [attempts EXCEPT ![a].session = session]
    /\ OnlyAttempts

(* record_external_turn; the turn is UNIQUE per role. *)
RecordTurn(a, turn) ==
    /\ InState(a, {"prepared"})
    /\ attempts[a].session # None
    /\ \A b \in OfRole(attempts[a].role) : attempts[b].turn # turn
    /\ attempts' = [attempts EXCEPT ![a] = [@ EXCEPT !.turn = turn, !.state = "dispatched"]]
    /\ OnlyAttempts

(* Mutant: a late output completes an ambiguous turn. *)
RecordLateOutput(a, pointer, evidence) ==
    /\ InState(a, {"dispatched", "ambiguous"})
    /\ attempts' = [attempts EXCEPT ![a] = [@ EXCEPT !.pointer = pointer, !.evidence = evidence,
                                                     !.state = "completed"]]
    /\ OnlyAttempts

RecordOutput(a, pointer, evidence) ==
    /\ InState(a, {"dispatched"})
    /\ attempts' = [attempts EXCEPT ![a] = [@ EXCEPT !.pointer = pointer, !.evidence = evidence,
                                                     !.state = "completed"]]
    /\ OnlyAttempts

(* record_invalid_output: the turn fails closed. *)
RecordInvalidOutput(a, pointer) ==
    /\ InState(a, {"dispatched"})
    /\ attempts' = [attempts EXCEPT ![a] = [@ EXCEPT !.pointer = pointer, !.state = "ambiguous"]]
    /\ OnlyAttempts

(* accept_supervisor_review; a candidate's review is accepted by           *)
(* candidate_review.py, which also asks for the claim and an open scope.   *)
AcceptReview(a) ==
    /\ InState(a, {"completed"})
    /\ IsSupervisor(a)
    /\ attempts[a].pointer = "diff-review" => attempts[a].claimed /\ "supervisor" \notin stopped
    /\ attempts' = [attempts EXCEPT ![a].state = "accepted"]
    /\ OnlyAttempts

(* candidate_review.py withdraws an accepted review of a stale candidate. *)
StaleReview(a) ==
    /\ attempts[a] # None
    /\ attempts[a].state = "accepted" /\ attempts[a].pointer = "diff-review"
    /\ attempts' = [attempts EXCEPT ![a].state = "invalidated"]
    /\ OnlyAttempts

(***************************************************************************)
(* Settling.  _persist_recovery_outcome writes a blocker once: a different *)
(* one raises and rolls the whole operation back.                          *)
(***************************************************************************)
Latch(a, blocker) ==
    /\ outcome[a] \in {None, blocker}
    /\ outcome' = [outcome EXCEPT ![a] = blocker]

Settle(a, state, blocker) ==
    /\ Latch(a, blocker)
    /\ attempts' = [attempts EXCEPT ![a].state = state]

(* invalidate_supervisor_attempt leaves an accepted review alone. *)
InvalidateSupervisor(a) ==
    /\ InState(a, AttemptStates \ {"accepted"})
    /\ IsSupervisor(a)
    /\ Settle(a, "invalidated", "partial-supervisor-review")
    /\ UNCHANGED <<abandoned, stopped, finalized, now>>

(* record_supervisor_terminal_failure: a failed SDK turn, which            *)
(* failure_recovery.py may classify as a stop of the scope.                *)
TerminalFailure(a, stops) ==
    /\ InState(a, {"prepared", "dispatched"})
    /\ IsSupervisor(a) /\ attempts[a].claimed
    /\ Settle(a, "invalidated", "terminal-failure")
    /\ stopped' = IF stops THEN stopped \cup {"supervisor"} ELSE stopped
    /\ UNCHANGED <<abandoned, finalized, now>>

(* record_supervisor_scope_denial. *)
ScopeDenial(a) ==
    /\ InState(a, {"prepared", "dispatched"})
    /\ IsSupervisor(a) /\ attempts[a].claimed
    /\ Settle(a, "blocked", "scope-stopped")
    /\ stopped' = stopped \cup {"supervisor"}
    /\ UNCHANGED <<abandoned, finalized, now>>

(* record_supervisor_accounting_blocker. *)
AccountingBlocker(a) ==
    /\ InState(a, {"dispatched"})
    /\ IsSupervisor(a)
    /\ Settle(a, "blocked", "accounting")
    /\ UNCHANGED <<abandoned, stopped, finalized, now>>

BlockSessionWithoutTurn(a) ==
    /\ InState(a, {"prepared"})
    /\ IsSupervisor(a) /\ attempts[a].session # None
    /\ Settle(a, "blocked", "session-without-turn")
    /\ UNCHANGED <<abandoned, stopped, finalized, now>>

-----------------------------------------------------------------------------
(***************************************************************************)
(* recover_attempt, one action per answer that changes the database.  The  *)
(* objective of a Worker is cancelled in the same transaction unless its   *)
(* output only waits for verification.                                     *)
(***************************************************************************)
Recover(a, state, blocker) ==
    /\ Settle(a, state, blocker)
    /\ abandoned' = IF attempts[a].role = "worker" /\ blocker # "completion-evidence-unverified"
                    THEN abandoned \cup {a} ELSE abandoned
    /\ UNCHANGED <<stopped, finalized, now>>

(* _abandonment_state: the state the table's CHECKs allow. *)
AbandonmentState(a) == IF attempts[a].turn # None THEN "ambiguous" ELSE "blocked"

(* Another context: no health check.  An accepted review other than a      *)
(* candidate's would violate a CHECK, and the transaction rolls back.      *)
RecoverDrifted(a) ==
    /\ attempts[a] # None
    /\ attempts[a].state = "accepted" => attempts[a].pointer = "diff-review"
    /\ Recover(a, AbandonmentState(a), "identity-drift")

RecoverAccepted(a) ==
    /\ InState(a, {"accepted"})
    /\ attempts[a].pointer = "diff-review"
    /\ Recover(a, "invalidated", "candidate-review-revalidation-required")

(* Completed output counts only with independently verified evidence. *)
RecoverUnverified(a) ==
    /\ InState(a, {"completed", "ambiguous"})
    /\ attempts[a].evidence # None
    /\ Recover(a, "ambiguous", "completion-evidence-unverified")

ConsumeVerified(a, verified) ==
    /\ InState(a, {"completed", "ambiguous"})
    /\ attempts[a].evidence # None
    /\ verified = attempts[a].evidence
    /\ attempts' = [attempts EXCEPT ![a].state = "completed"]
    /\ OnlyAttempts

(* A settled attempt without a blocker gets one; otherwise it is repeated. *)
RecoverSettled(a) ==
    /\ outcome[a] = None
    /\ \/ /\ InState(a, {"ambiguous"}) /\ attempts[a].evidence = None
          /\ Recover(a, "ambiguous", "external-turn-ambiguous")
       \/ /\ InState(a, {"invalidated"})
          /\ Recover(a, "invalidated", "supervisor-session-invalidated")

Stale(a) ==
    /\ attempts[a].role \in {"worker", "supervisor"}
    /\ attempts[a].leaseUntil <= now

RecoverStale(a) ==
    /\ InState(a, {"prepared", "dispatched"})
    /\ attempts[a].session # None
    /\ Stale(a)
    /\ Recover(a, IF attempts[a].role = "worker" THEN "blocked" ELSE "invalidated",
               "stale-process-lease")

RecoverDispatched(a) ==
    /\ InState(a, {"dispatched"})
    /\ ~Stale(a)
    /\ Recover(a, "ambiguous", "external-turn-ambiguous")

(* No session yet: retried until the role's attempts are used up. *)
RecoverExhausted(a, limit) ==
    /\ InState(a, {"prepared"})
    /\ attempts[a].session = None
    /\ Cardinality(OfRole(attempts[a].role)) >= limit
    /\ Recover(a, "blocked", "retry-limit-reached")

-----------------------------------------------------------------------------
(* failure_recovery.py stops and clears scopes, candidate_review.py        *)
(* finalizes at the review limit, and time passes.                         *)
Surroundings ==
    /\ \/ \E role \in Roles : stopped' \in {stopped \cup {role}, stopped \ {role}}
                              /\ UNCHANGED <<finalized, now>>
       \/ finalized' = TRUE /\ UNCHANGED <<stopped, now>>
       \/ now < MaxTime /\ now' = now + 1 /\ UNCHANGED <<stopped, finalized>>
    /\ UNCHANGED <<attempts, outcome, abandoned>>

TurnStep(a) ==
    \/ \E role \in Roles, leaseUntil, healthUntil \in Expiries,
          coordinate \in Coordinates \cup {None} :
          PrepareAttempt(a, role, leaseUntil, healthUntil, coordinate)
    \/ ClaimDispatch(a)
    \/ \E session \in Sessions : RecordSession(a, session)
    \/ \E turn \in Turns : RecordTurn(a, turn)
    \/ \E pointer \in Pointers, evidence \in Evidence : RecordOutput(a, pointer, evidence)
    \/ \E pointer \in Pointers : RecordInvalidOutput(a, pointer)
    \/ AcceptReview(a)
    \/ StaleReview(a)

SettleStep(a) ==
    \/ InvalidateSupervisor(a)
    \/ \E stops \in BOOLEAN : TerminalFailure(a, stops)
    \/ ScopeDenial(a)
    \/ AccountingBlocker(a)
    \/ BlockSessionWithoutTurn(a)

RecoverStep(a) ==
    \/ RecoverDrifted(a)
    \/ RecoverAccepted(a)
    \/ RecoverUnverified(a)
    \/ \E verified \in Evidence : ConsumeVerified(a, verified)
    \/ RecoverSettled(a)
    \/ RecoverStale(a)
    \/ RecoverDispatched(a)
    \/ \E limit \in RetryLimits : RecoverExhausted(a, limit)

AttemptNext ==
    \/ Surroundings
    \/ \E a \in AttemptIds : TurnStep(a) \/ SettleStep(a) \/ RecoverStep(a)

AttemptSpec == AttemptInit /\ [][AttemptNext]_attemptVars

-----------------------------------------------------------------------------
(***************************************************************************)
(* Properties.                                                             *)
(***************************************************************************)

AttemptTypeOK ==
    /\ attempts \in [AttemptIds -> Row \cup {None}]
    /\ outcome \in [AttemptIds -> Blockers \cup {None}]
    /\ abandoned \subseteq AttemptIds
    /\ stopped \subseteq Roles
    /\ finalized \in BOOLEAN
    /\ now \in Nat

(* No operation asks the table for a row its CHECKs refuse: an attempt     *)
(* without a turn is prepared, blocked or invalidated, one with a turn is  *)
(* not prepared, and finished output has a pointer and evidence.           *)
RowsPassChecks ==
    \A a \in Prepared :
       LET row == attempts[a] IN
       /\ row.turn = None => row.state \in {"prepared", "blocked", "invalidated"}
       /\ row.turn # None => row.state # "prepared" /\ row.session # None
       /\ row.state \in {"completed", "accepted"} => row.pointer # None /\ row.evidence # None

(* The write-once blocker never stands in the way of a live attempt: an    *)
(* attempt still prepared or dispatched has none, so every way of settling *)
(* it is open, and a blocked attempt always says why.                      *)
BlockerMeansSettled ==
    \A a \in AttemptIds :
       /\ outcome[a] # None => attempts[a] # None /\ attempts[a].state \notin {"prepared",
                                                                               "dispatched"}
       /\ attempts[a] # None /\ attempts[a].state = "blocked" => outcome[a] # None

(* Settled is final: whatever callbacks arrive late and whatever context   *)
(* recovery is called with, a blocked attempt never changes again, nor     *)
(* does an invalidated one with a recorded blocker.  (Identity drift is    *)
(* the exception: it does not invalidate, and a withdrawn candidate review *)
(* that met it before meets it again.)                                     *)
SettledIsFinal ==
    [][\A a \in Prepared :
          \/ attempts[a].state = "blocked"
          \/ attempts[a].state = "invalidated" /\ outcome[a] \notin {None, "identity-drift"}
          => attempts'[a] = attempts[a]]_attemptVars

(* An output that arrives after its turn was given up is refused: an       *)
(* ambiguous turn without evidence is never completed.                     *)
AmbiguousTurnIsNotCompleted ==
    [][\A a \in Prepared :
          attempts[a].state = "ambiguous" /\ attempts[a].evidence = None =>
             /\ attempts'[a].evidence = None
             /\ attempts'[a].state \in {"ambiguous", "invalidated"}]_attemptVars

(* The ledger of reviews has no gap: within a round every profile was      *)
(* tried after the previous one and every format retry after the one       *)
(* before it, and no coordinate is used twice.                             *)
CoordinatesAreGapless ==
    \A a \in Located :
       LET at == attempts[a].coordinate
           Tried(coordinate) == \E b \in Located : attempts[b].coordinate = coordinate
       IN /\ \A b \in Located \ {a} : attempts[b].coordinate # at
          /\ at.profile > 1 => Tried([at EXCEPT !.profile = @ - 1, !.format = 0])
          /\ at.format > 0 => Tried([at EXCEPT !.format = @ - 1])
=============================================================================
