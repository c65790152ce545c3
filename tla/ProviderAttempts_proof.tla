----------------------- MODULE ProviderAttempts_proof -----------------------
(***************************************************************************)
(* For any number of attempts, sessions, turns and clock readings: rows    *)
(* pass the table's CHECKs, a blocker settles its attempt, settled is      *)
(* final and late output is refused.                                       *)
(*                                                                         *)
(* None of these is inductive by itself.  RowOK joins them and adds why an *)
(* attempt can be blocked: never for a partial review (so invalidating it  *)
(* again conflicts with the recorded blocker), and for identity drift only *)
(* without a turn (so drifting again changes nothing).                     *)
(*                                                                         *)
(* Every operation writes one row and at most its blocker.  The lemmas     *)
(* show for each that the row it writes is a lawful successor (Lawful) of  *)
(* the row it read; the theorems follow from that alone.                   *)
(*                                                                         *)
(* That coordinates have no gap needs one fact more, that an attempt's     *)
(* identity and coordinate never change once it has them, and that numbers *)
(* and coordinates order the attempts alike: the next coordinate is derived*)
(* from the one of the highest number (NumbersInv, GaplessForm).           *)
(***************************************************************************)
EXTENDS ProviderAttempts, Integers, TLAPS, FiniteSetTheorems

StoppingBlockers == {"identity-drift", "retry-limit-reached", "stale-process-lease",
                     "session-without-turn", "scope-stopped", "accounting"}

RowOK(row, blocker) ==
    /\ row.turn = None => row.state \in {"prepared", "blocked", "invalidated"}
    /\ row.turn # None => row.state # "prepared" /\ row.session # None
    /\ row.state \in {"completed", "accepted"} => row.evidence # None
    /\ row.evidence # None => row.pointer # None
    /\ blocker # None => row.state \notin {"prepared", "dispatched"}
    /\ row.state = "blocked" => /\ blocker \in StoppingBlockers
                                /\ blocker = "identity-drift" => row.turn = None

AttemptInv ==
    /\ AttemptTypeOK
    /\ \A a \in AttemptIds : IF attempts[a] = None THEN outcome[a] = None
                                                   ELSE RowOK(attempts[a], outcome[a])

Settled(row, blocker) ==
    \/ row.state = "blocked"
    \/ row.state = "invalidated" /\ blocker \notin {None, "identity-drift"}

(* A row and blocker that may follow the given ones. *)
Lawful(old, blocker, row, newBlocker) ==
    /\ RowOK(row, newBlocker)
    /\ old # None /\ Settled(old, blocker) => row = old
    /\ old # None /\ old.state = "ambiguous" /\ old.evidence = None =>
          row.evidence = None /\ row.state \in {"ambiguous", "invalidated"}

(* One operation on the attempt a. *)
Writes(a, row, blocker) ==
    /\ attempts' = [attempts EXCEPT ![a] = row]
    /\ outcome' = [outcome EXCEPT ![a] = blocker]
    /\ Lawful(attempts[a], outcome[a], row, blocker)

LawfulStep(a) == \E row \in Row, blocker \in Blockers \cup {None} : Writes(a, row, blocker)

(* The variables that are not part of an attempt keep their types. *)
RestTyped ==
    /\ abandoned' \subseteq AttemptIds
    /\ stopped' \subseteq Roles
    /\ finalized' \in BOOLEAN
    /\ now' \in Nat

(* A row with another state. *)
LEMMA WithState ==
  ASSUME NEW row \in Row, NEW s \in AttemptStates
  PROVE  LET new == [row EXCEPT !.state = s] IN
         /\ new \in Row /\ new.state = s /\ new.turn = row.turn /\ new.session = row.session
         /\ new.pointer = row.pointer /\ new.evidence = row.evidence
         /\ row.state = s => new = row
  BY DEF Row

(* The attempt an operation read is a typed row that satisfies RowOK. *)
LEMMA ReadRow ==
  ASSUME AttemptInv, NEW a \in AttemptIds, attempts[a] # None
  PROVE  /\ attempts[a] \in Row /\ RowOK(attempts[a], outcome[a])
         /\ outcome[a] \in Blockers \cup {None}
  BY DEF AttemptInv, AttemptTypeOK

(* Operations that set the state and leave the blocker alone. *)
LEMMA StateStep ==
  ASSUME AttemptInv, NEW a \in AttemptIds, attempts[a] # None, NEW s \in AttemptStates,
         attempts' = [attempts EXCEPT ![a].state = s], outcome' = outcome,
         Lawful(attempts[a], outcome[a], [attempts[a] EXCEPT !.state = s], outcome[a])
  PROVE  LawfulStep(a)
  <1> DEFINE row == [attempts[a] EXCEPT !.state = s]
  <1>1. row \in Row /\ outcome[a] \in Blockers \cup {None}
    BY ReadRow, WithState
  <1>2. outcome' = [outcome EXCEPT ![a] = outcome[a]]
    BY DEF AttemptInv, AttemptTypeOK
  <1>3. attempts' = [attempts EXCEPT ![a] = row]
    OBVIOUS
  <1> QED
    BY <1>1, <1>2, <1>3 DEF LawfulStep, Writes

(* Operations that set the state and the blocker. *)
LEMMA SettleStepLawful ==
  ASSUME AttemptInv, NEW a \in AttemptIds, attempts[a] # None, NEW s \in AttemptStates,
         NEW b \in Blockers, Settle(a, s, b),
         Lawful(attempts[a], outcome[a], [attempts[a] EXCEPT !.state = s], b)
  PROVE  LawfulStep(a)
  <1> DEFINE row == [attempts[a] EXCEPT !.state = s]
  <1>1. row \in Row
    BY ReadRow, WithState
  <1>2. outcome' = [outcome EXCEPT ![a] = b]
    BY DEF Settle, Latch
  <1>3. attempts' = [attempts EXCEPT ![a] = row]
    BY DEF Settle
  <1> QED
    BY <1>1, <1>2, <1>3 DEF LawfulStep, Writes

-----------------------------------------------------------------------------
(* Preparing an attempt. *)
LEMMA PrepareLawful ==
  ASSUME AttemptInv, NEW a \in AttemptIds, NEW role \in Roles, NEW leaseUntil \in Expiries,
         NEW healthUntil \in Expiries, NEW coordinate \in Coordinates \cup {None},
         PrepareAttempt(a, role, leaseUntil, healthUntil, coordinate)
  PROVE  LawfulStep(a)
  <1> DEFINE row == [role |-> role, number |-> Cardinality(OfRole(role)) + 1,
                     leaseUntil |-> leaseUntil, healthUntil |-> healthUntil,
                     coordinate |-> coordinate, state |-> "prepared", claimed |-> FALSE,
                     session |-> None, turn |-> None, pointer |-> None, evidence |-> None]
  <1>1. Cardinality(OfRole(role)) \in Nat
    <2>1. OfRole(role) \subseteq AttemptIds
      BY DEF OfRole, Prepared
    <2>2. IsFiniteSet(OfRole(role))
      BY <2>1, AttemptAssumption, FS_Subset
    <2> QED
      BY <2>2, FS_CardinalityType
  <1>2. row \in Row
    BY <1>1, AttemptAssumption DEF Row, AttemptStates
  <1>3. attempts[a] = None /\ outcome[a] = None
    BY DEF AttemptInv, PrepareAttempt
  <1>4. RowOK(row, None)
    BY DEF RowOK
  <1>5. outcome' = [outcome EXCEPT ![a] = None]
    BY <1>3 DEF PrepareAttempt, AttemptInv, AttemptTypeOK
  <1>6. attempts' = [attempts EXCEPT ![a] = row]
    BY DEF PrepareAttempt
  <1>7. Lawful(attempts[a], outcome[a], row, None)
    BY <1>3, <1>4 DEF Lawful
  <1> HIDE DEF row
  <1> QED
    BY <1>2, <1>5, <1>6, <1>7 DEF LawfulStep, Writes

(* Callbacks of the provider. *)
LEMMA CallbackLawful ==
  ASSUME AttemptInv, NEW a \in AttemptIds,
         \/ ClaimDispatch(a)
         \/ \E session \in Sessions : RecordSession(a, session)
         \/ \E turn \in Turns : RecordTurn(a, turn)
         \/ \E pointer \in Pointers, evidence \in Evidence : RecordOutput(a, pointer, evidence)
         \/ \E pointer \in Pointers : RecordInvalidOutput(a, pointer)
  PROVE  LawfulStep(a)
  <1>0. /\ attempts[a] # None /\ attempts[a].state \in {"prepared", "dispatched"}
        /\ outcome' = outcome
    BY DEF ClaimDispatch, RecordSession, RecordTurn, RecordOutput, RecordInvalidOutput,
           InState, Authorized, OnlyAttempts
  <1>1. /\ attempts[a] \in Row /\ RowOK(attempts[a], outcome[a])
        /\ outcome[a] = None
    BY <1>0, ReadRow DEF RowOK
  <1>2. outcome' = [outcome EXCEPT ![a] = outcome[a]]
    BY <1>0 DEF AttemptInv, AttemptTypeOK
  <1>3. ASSUME NEW row \in Row, attempts' = [attempts EXCEPT ![a] = row], RowOK(row, None)
        PROVE  LawfulStep(a)
    <2>1. Lawful(attempts[a], outcome[a], row, outcome[a])
      BY <1>0, <1>1, <1>3 DEF Lawful, Settled
    <2> QED
      BY <1>1, <1>2, <1>3, <2>1 DEF LawfulStep, Writes
  <1>4. CASE ClaimDispatch(a)
    <2> DEFINE row == [attempts[a] EXCEPT !.claimed = TRUE]
    <2>1. row \in Row /\ RowOK(row, None)
      BY <1>1 DEF Row, RowOK
    <2>2. attempts' = [attempts EXCEPT ![a] = row]
      BY <1>4 DEF ClaimDispatch
    <2> QED
      BY <1>3, <2>1, <2>2
  <1>5. ASSUME NEW session \in Sessions, RecordSession(a, session) PROVE LawfulStep(a)
    <2> DEFINE row == [attempts[a] EXCEPT !.session = session]
    <2>1. row \in Row /\ RowOK(row, None)
      BY <1>1, AttemptAssumption DEF Row, RowOK
    <2>2. attempts' = [attempts EXCEPT ![a] = row]
      BY <1>5 DEF RecordSession
    <2> QED
      BY <1>3, <2>1, <2>2
  <1>6. ASSUME NEW turn \in Turns, RecordTurn(a, turn) PROVE LawfulStep(a)
    <2> DEFINE row == [attempts[a] EXCEPT !.turn = turn, !.state = "dispatched"]
    <2>1. attempts[a].session # None /\ attempts[a].state = "prepared"
      BY <1>6 DEF RecordTurn, InState
    <2>2. row \in Row /\ RowOK(row, None)
      BY <1>1, <2>1, AttemptAssumption DEF Row, RowOK, AttemptStates
    <2>3. attempts' = [attempts EXCEPT ![a] = row]
      BY <1>6 DEF RecordTurn
    <2> QED
      BY <1>3, <2>2, <2>3
  <1>7. ASSUME NEW pointer \in Pointers, NEW evidence \in Evidence,
               RecordOutput(a, pointer, evidence)
        PROVE  LawfulStep(a)
    <2> DEFINE row == [attempts[a] EXCEPT !.pointer = pointer, !.evidence = evidence,
                                          !.state = "completed"]
    <2>1. attempts[a].state = "dispatched"
      BY <1>7 DEF RecordOutput, InState
    <2>2. row \in Row /\ RowOK(row, None)
      BY <1>1, <2>1, AttemptAssumption DEF Row, RowOK, AttemptStates
    <2>3. attempts' = [attempts EXCEPT ![a] = row]
      BY <1>7 DEF RecordOutput
    <2> QED
      BY <1>3, <2>2, <2>3
  <1>8. ASSUME NEW pointer \in Pointers, RecordInvalidOutput(a, pointer) PROVE LawfulStep(a)
    <2> DEFINE row == [attempts[a] EXCEPT !.pointer = pointer, !.state = "ambiguous"]
    <2>1. attempts[a].state = "dispatched"
      BY <1>8 DEF RecordInvalidOutput, InState
    <2>2. row \in Row /\ RowOK(row, None)
      BY <1>1, <2>1, AttemptAssumption DEF Row, RowOK, AttemptStates
    <2>3. attempts' = [attempts EXCEPT ![a] = row]
      BY <1>8 DEF RecordInvalidOutput
    <2> QED
      BY <1>3, <2>2, <2>3
  <1> QED
    BY <1>4, <1>5, <1>6, <1>7, <1>8

(* Reviews that are accepted, withdrawn or consumed. *)
LEMMA ReviewLawful ==
  ASSUME AttemptInv, NEW a \in AttemptIds,
         \/ AcceptReview(a)
         \/ StaleReview(a)
         \/ \E verified \in Evidence : ConsumeVerified(a, verified)
  PROVE  LawfulStep(a)
  <1>0. attempts[a] # None /\ outcome' = outcome
    BY DEF AcceptReview, StaleReview, ConsumeVerified, InState, Authorized, OnlyAttempts
  <1>1. attempts[a] \in Row /\ RowOK(attempts[a], outcome[a])
    BY <1>0, ReadRow
  <1>2. PICK s \in {"accepted", "invalidated", "completed"} :
           /\ attempts' = [attempts EXCEPT ![a].state = s]
           /\ s \in {"accepted", "completed"} => attempts[a].evidence # None
           /\ attempts[a].state \in {"completed", "accepted", "ambiguous"}
           /\ attempts[a].state = "ambiguous" => attempts[a].evidence # None
    BY <1>1 DEF AcceptReview, StaleReview, ConsumeVerified, InState, RowOK
  <1> DEFINE row == [attempts[a] EXCEPT !.state = s]
  <1>3. s \in AttemptStates
    BY DEF AttemptStates
  <1>4. /\ row \in Row /\ row.state = s /\ row.turn = attempts[a].turn
        /\ row.session = attempts[a].session /\ row.pointer = attempts[a].pointer
        /\ row.evidence = attempts[a].evidence
    BY <1>1, <1>3, WithState
  <1> HIDE DEF row
  <1>5. Lawful(attempts[a], outcome[a], row, outcome[a])
    BY <1>1, <1>2, <1>4 DEF Lawful, RowOK, Settled
  <1> QED
    BY <1>0, <1>2, <1>3, <1>5, StateStep DEF row

-----------------------------------------------------------------------------
(* A blocker for a running attempt: the state it gets must be one its turn *)
(* allows and, if it is blocked, the blocker must be one that stops.       *)
LEMMA RunningLawful ==
  ASSUME AttemptInv, NEW a \in AttemptIds, attempts[a] # None,
         attempts[a].state \in {"prepared", "dispatched"},
         NEW s \in {"blocked", "invalidated", "ambiguous"}, NEW b \in Blockers, Settle(a, s, b),
         s = "blocked" => b \in StoppingBlockers \ {"identity-drift"},
         s = "ambiguous" => attempts[a].turn # None
  PROVE  LawfulStep(a)
  <1>1. attempts[a] \in Row /\ RowOK(attempts[a], outcome[a])
    BY ReadRow
  <1> DEFINE row == [attempts[a] EXCEPT !.state = s]
  <1>2. s \in AttemptStates
    BY DEF AttemptStates
  <1>3. /\ row \in Row /\ row.state = s /\ row.turn = attempts[a].turn
        /\ row.session = attempts[a].session /\ row.pointer = attempts[a].pointer
        /\ row.evidence = attempts[a].evidence
    BY <1>1, <1>2, WithState
  <1> HIDE DEF row
  <1>4. Lawful(attempts[a], outcome[a], row, b)
    BY <1>1, <1>3 DEF Lawful, RowOK, Settled
  <1> QED
    BY <1>2, <1>4, SettleStepLawful DEF row

(* A blocker for an attempt that is not running. *)
LEMMA StandingLawful ==
  ASSUME AttemptInv, NEW a \in AttemptIds, attempts[a] # None,
         attempts[a].state \notin {"prepared", "dispatched"},
         NEW s \in {"invalidated", "ambiguous"}, NEW b \in Blockers \ StoppingBlockers,
         Settle(a, s, b),
         attempts[a].state = "invalidated" => s = "invalidated",
         s = "ambiguous" => attempts[a].turn # None
  PROVE  LawfulStep(a)
  <1>1. attempts[a] \in Row /\ RowOK(attempts[a], outcome[a])
    BY ReadRow
  <1> DEFINE row == [attempts[a] EXCEPT !.state = s]
  <1>2. s \in AttemptStates /\ b \in Blockers
    BY DEF AttemptStates
  <1>3. /\ row \in Row /\ row.state = s /\ row.turn = attempts[a].turn
        /\ row.session = attempts[a].session /\ row.pointer = attempts[a].pointer
        /\ row.evidence = attempts[a].evidence /\ (attempts[a].state = s => row = attempts[a])
    BY <1>1, <1>2, WithState
  <1> HIDE DEF row
  <1>4. outcome[a] \in {None, b}
    BY DEF Settle, Latch
  <1>5. attempts[a].state # "blocked"
    BY <1>1, <1>4, NullAssumption DEF RowOK, StoppingBlockers, Blockers
  <1>6. Lawful(attempts[a], outcome[a], row, b)
    BY <1>1, <1>3, <1>5 DEF Lawful, RowOK, Settled
  <1> QED
    BY <1>2, <1>6, SettleStepLawful DEF row

(* Identity drift, the one blocker any attempt can get. *)
LEMMA DriftLawful ==
  ASSUME AttemptInv, NEW a \in AttemptIds, RecoverDrifted(a)
  PROVE  LawfulStep(a)
  <1>0. attempts[a] # None
    BY DEF RecoverDrifted
  <1>1. attempts[a] \in Row /\ RowOK(attempts[a], outcome[a])
    BY <1>0, ReadRow
  <1>2. PICK s \in {"ambiguous", "blocked"} :
           /\ s = AbandonmentState(a)
           /\ s = "ambiguous" <=> attempts[a].turn # None
    BY DEF AbandonmentState
  <1> DEFINE row == [attempts[a] EXCEPT !.state = s]
  <1>3. s \in AttemptStates /\ "identity-drift" \in Blockers
    BY DEF AttemptStates, Blockers
  <1>4. /\ row \in Row /\ row.state = s /\ row.turn = attempts[a].turn
        /\ row.session = attempts[a].session /\ row.pointer = attempts[a].pointer
        /\ row.evidence = attempts[a].evidence /\ (attempts[a].state = s => row = attempts[a])
    BY <1>1, <1>3, WithState
  <1> HIDE DEF row
  <1>5. Settle(a, s, "identity-drift")
    BY <1>2 DEF RecoverDrifted, Recover
  <1>6. outcome[a] \in {None, "identity-drift"}
    BY <1>5 DEF Settle, Latch
  <1>7. attempts[a].state = "blocked" => s = "blocked"
    BY <1>1, <1>2, <1>6, NullAssumption DEF RowOK, StoppingBlockers, Blockers
  <1>8. attempts[a].state = "ambiguous" => s = "ambiguous"
    BY <1>1, <1>2 DEF RowOK
  <1>9. Lawful(attempts[a], outcome[a], row, "identity-drift")
    BY <1>1, <1>2, <1>4, <1>6, <1>7, <1>8 DEF Lawful, RowOK, Settled, StoppingBlockers
  <1> QED
    BY <1>0, <1>3, <1>5, <1>9, SettleStepLawful DEF row

(* The operations that settle a Supervisor's attempt. *)
LEMMA SettlingLawful ==
  ASSUME AttemptInv, NEW a \in AttemptIds, SettleStep(a)
  PROVE  LawfulStep(a)
  <1> USE DEF InState, Authorized
  <1>1. CASE InvalidateSupervisor(a)
    <2>1. /\ attempts[a] # None /\ "partial-supervisor-review" \in Blockers \ StoppingBlockers
          /\ Settle(a, "invalidated", "partial-supervisor-review")
      BY <1>1 DEF InvalidateSupervisor, Blockers, StoppingBlockers
    <2> QED
      BY <2>1, RunningLawful, StandingLawful
  <1>2. ASSUME NEW stops \in BOOLEAN, TerminalFailure(a, stops) PROVE LawfulStep(a)
    BY <1>2, RunningLawful DEF TerminalFailure, Blockers
  <1>3. CASE ScopeDenial(a)
    BY <1>3, RunningLawful DEF ScopeDenial, Blockers, StoppingBlockers
  <1>4. CASE AccountingBlocker(a)
    BY <1>4, RunningLawful DEF AccountingBlocker, Blockers, StoppingBlockers
  <1>5. CASE BlockSessionWithoutTurn(a)
    BY <1>5, RunningLawful DEF BlockSessionWithoutTurn, Blockers, StoppingBlockers
  <1> QED
    BY <1>1, <1>2, <1>3, <1>4, <1>5 DEF SettleStep

(* recover_attempt. *)
LEMMA RecoveryLawful ==
  ASSUME AttemptInv, NEW a \in AttemptIds, RecoverStep(a)
  PROVE  LawfulStep(a)
  <1> USE DEF InState, Authorized
  <1>0. attempts[a] # None => RowOK(attempts[a], outcome[a])
    BY ReadRow
  <1>1. CASE RecoverDrifted(a)
    BY <1>1, DriftLawful
  <1>2. CASE RecoverAccepted(a)
    BY <1>2, StandingLawful DEF RecoverAccepted, Recover, Blockers, StoppingBlockers
  <1>3. CASE RecoverUnverified(a)
    <2>1. attempts[a] # None /\ attempts[a].turn # None
      BY <1>0, <1>3 DEF RecoverUnverified, RowOK
    <2> QED
      BY <1>3, <2>1, StandingLawful DEF RecoverUnverified, Recover, Blockers, StoppingBlockers
  <1>4. ASSUME NEW verified \in Evidence, ConsumeVerified(a, verified) PROVE LawfulStep(a)
    BY <1>4, ReviewLawful
  <1>5. CASE RecoverSettled(a)
    <2>1. CASE InState(a, {"ambiguous"}) /\ Recover(a, "ambiguous", "external-turn-ambiguous")
      <3>1. attempts[a] # None /\ attempts[a].turn # None /\ attempts[a].state = "ambiguous"
        BY <1>0, <2>1 DEF RowOK
      <3> QED
        BY <2>1, <3>1, StandingLawful DEF Recover, Blockers, StoppingBlockers
    <2>2. CASE /\ InState(a, {"invalidated"})
               /\ Recover(a, "invalidated", "supervisor-session-invalidated")
      BY <2>2, StandingLawful DEF Recover, Blockers, StoppingBlockers
    <2> QED
      BY <1>5, <2>1, <2>2 DEF RecoverSettled
  <1>6. CASE RecoverStale(a)
    <2>1. PICK s \in {"blocked", "invalidated"} : Recover(a, s, "stale-process-lease")
      BY <1>6 DEF RecoverStale
    <2> QED
      BY <1>6, <2>1, RunningLawful DEF RecoverStale, Recover, Blockers, StoppingBlockers
  <1>7. CASE RecoverDispatched(a)
    <2>1. attempts[a] # None /\ attempts[a].turn # None /\ attempts[a].state = "dispatched"
      BY <1>0, <1>7 DEF RecoverDispatched, RowOK
    <2> QED
      BY <1>7, <2>1, RunningLawful DEF RecoverDispatched, Recover, Blockers
  <1>8. ASSUME NEW limit \in RetryLimits, RecoverExhausted(a, limit) PROVE LawfulStep(a)
    BY <1>8, RunningLawful DEF RecoverExhausted, Recover, Blockers, StoppingBlockers
  <1> QED
    BY <1>1, <1>2, <1>3, <1>4, <1>5, <1>6, <1>7, <1>8 DEF RecoverStep

-----------------------------------------------------------------------------
(* Every step writes one lawful row, or none. *)
LEMMA StepsAreLawful ==
  ASSUME AttemptInv, [AttemptNext]_attemptVars
  PROVE  UNCHANGED <<attempts, outcome>> \/ \E a \in AttemptIds : LawfulStep(a)
  <1>1. CASE UNCHANGED attemptVars
    BY <1>1 DEF attemptVars
  <1>2. CASE Surroundings
    BY <1>2 DEF Surroundings
  <1>3. ASSUME NEW a \in AttemptIds, TurnStep(a) PROVE LawfulStep(a)
    BY <1>3, PrepareLawful, CallbackLawful, ReviewLawful DEF TurnStep
  <1> QED
    BY <1>1, <1>2, <1>3, SettlingLawful, RecoveryLawful DEF AttemptNext

\* Every operation writes rows of the types of the tables.
LEMMA StepsAreTyped ==
  ASSUME AttemptInv, [AttemptNext]_attemptVars
  PROVE  RestTyped
  <1>0. AttemptTypeOK
    BY DEF AttemptInv
  <1>1. CASE UNCHANGED attemptVars
    BY <1>0, <1>1 DEF attemptVars, RestTyped, AttemptTypeOK
  <1>2. CASE Surroundings
    <2>1. abandoned' \subseteq AttemptIds
      BY <1>0, <1>2 DEF Surroundings, AttemptTypeOK
    <2>2. ASSUME NEW role \in Roles, stopped' \in {stopped \cup {role}, stopped \ {role}}
          PROVE  stopped' \subseteq Roles
      BY <1>0, <2>2 DEF AttemptTypeOK
    <2>3. stopped' \subseteq Roles
      BY <1>0, <1>2, <2>2 DEF Surroundings, AttemptTypeOK
    <2>4. finalized' \in BOOLEAN
      BY <1>0, <1>2 DEF Surroundings, AttemptTypeOK
    <2>5. now' \in Nat
      BY <1>0, <1>2 DEF Surroundings, AttemptTypeOK
    <2> QED
      BY <2>1, <2>3, <2>4, <2>5 DEF RestTyped
  <1>3. ASSUME NEW a \in AttemptIds, TurnStep(a) PROVE RestTyped
    BY <1>0, <1>3 DEF TurnStep, PrepareAttempt, ClaimDispatch, RecordSession, RecordTurn,
       RecordOutput, RecordInvalidOutput, AcceptReview, StaleReview, OnlyAttempts, RestTyped,
       AttemptTypeOK
  <1>4. ASSUME NEW a \in AttemptIds, SettleStep(a) PROVE RestTyped
    <2>1. attempts[a] # None /\ IsSupervisor(a)
      BY <1>4 DEF SettleStep, InvalidateSupervisor, TerminalFailure, ScopeDenial,
         AccountingBlocker, BlockSessionWithoutTurn, InState, Authorized
    <2>2. "supervisor" \in Roles
      BY <2>1, ReadRow DEF IsSupervisor, Row
    <2> QED
      BY <1>0, <1>4, <2>2 DEF SettleStep, InvalidateSupervisor, TerminalFailure, ScopeDenial,
         AccountingBlocker, BlockSessionWithoutTurn, RestTyped, AttemptTypeOK
  <1>5. ASSUME NEW a \in AttemptIds, RecoverStep(a) PROVE RestTyped
    <2>1. ASSUME NEW s, NEW b, Recover(a, s, b) PROVE RestTyped
      BY <1>0, <2>1 DEF Recover, RestTyped, AttemptTypeOK
    <2>2. ASSUME NEW verified \in Evidence, ConsumeVerified(a, verified) PROVE RestTyped
      BY <1>0, <2>2 DEF ConsumeVerified, OnlyAttempts, RestTyped, AttemptTypeOK
    <2> QED
      BY <1>5, <2>1, <2>2 DEF RecoverStep, RecoverDrifted, RecoverAccepted, RecoverUnverified,
         RecoverSettled, RecoverStale, RecoverDispatched, RecoverExhausted
  <1> QED
    BY <1>1, <1>2, <1>3, <1>4, <1>5 DEF AttemptNext

(* A lawful step preserves the invariant. *)
LEMMA InvariantPreserved ==
  ASSUME AttemptInv, [AttemptNext]_attemptVars
  PROVE  AttemptInv'
  <1>1. CASE UNCHANGED <<attempts, outcome>>
    BY <1>1, StepsAreTyped DEF AttemptInv, AttemptTypeOK, RestTyped
  <1>2. ASSUME NEW a \in AttemptIds, LawfulStep(a) PROVE AttemptInv'
    <2>1. PICK row \in Row, blocker \in Blockers \cup {None} : Writes(a, row, blocker)
      BY <1>2 DEF LawfulStep
    <2>2. /\ attempts' \in [AttemptIds -> Row \cup {None}]
          /\ outcome' \in [AttemptIds -> Blockers \cup {None}]
      BY <2>1 DEF Writes, AttemptInv, AttemptTypeOK
    <2>3. AttemptTypeOK'
      BY <2>2, StepsAreTyped DEF AttemptTypeOK, RestTyped
    <2>4. /\ attempts'[a] = row /\ outcome'[a] = blocker
          /\ \A b \in AttemptIds \ {a} : attempts'[b] = attempts[b] /\ outcome'[b] = outcome[b]
      BY <2>1 DEF Writes, AttemptInv, AttemptTypeOK
    <2>5. row # None /\ RowOK(row, blocker)
      BY <2>1, NullAssumption DEF Writes, Lawful
    <2>6. \A b \in AttemptIds : IF attempts'[b] = None THEN outcome'[b] = None
                                                      ELSE RowOK(attempts'[b], outcome'[b])
      BY <2>4, <2>5 DEF AttemptInv
    <2> QED
      BY <2>3, <2>6 DEF AttemptInv
  <1> QED
    BY <1>1, <1>2, StepsAreLawful

-----------------------------------------------------------------------------
(* The inductive invariant: every row satisfies the table's CHECKs and its *)
(* blocker fits its state.                                                 *)
THEOREM AttemptInvariant == AttemptSpec => []AttemptInv
  <1>1. AttemptInit => AttemptInv
    <2> SUFFICES ASSUME AttemptInit PROVE AttemptInv
      OBVIOUS
    <2>1. AttemptTypeOK
      BY DEF AttemptInit, AttemptTypeOK
    <2>2. \A a \in AttemptIds : attempts[a] = None /\ outcome[a] = None
      BY DEF AttemptInit
    <2> QED
      BY <2>1, <2>2 DEF AttemptInv
  <1>2. AttemptInv /\ [AttemptNext]_attemptVars => AttemptInv'
    BY InvariantPreserved
  <1> QED
    BY <1>1, <1>2, PTL DEF AttemptSpec

(* Types are preserved by every operation of provider_recovery.py. *)
THEOREM AttemptTypes == AttemptSpec => []AttemptTypeOK
  BY AttemptInvariant, PTL DEF AttemptInv

(* No operation writes a row the CHECKs of provider_attempts refuse. *)
THEOREM ChecksAreMet == AttemptSpec => []RowsPassChecks
  <1>1. AttemptInv => RowsPassChecks
    BY DEF AttemptInv, RowsPassChecks, Prepared, RowOK
  <1> QED
    BY <1>1, AttemptInvariant, PTL

(* A live attempt has no blocker and a blocked one has. *)
THEOREM BlockersSettle == AttemptSpec => []BlockerMeansSettled
  <1>1. AttemptInv => BlockerMeansSettled
    BY NullAssumption DEF AttemptInv, BlockerMeansSettled, RowOK, StoppingBlockers, Blockers
  <1> QED
    BY <1>1, AttemptInvariant, PTL

(* Blocked attempts, and invalidated ones with a blocker, never change.    *)
THEOREM SettledStays == AttemptSpec => SettledIsFinal
  <1>1. AttemptInv /\ [AttemptNext]_attemptVars =>
           [\A a \in Prepared :
              \/ attempts[a].state = "blocked"
              \/ attempts[a].state = "invalidated" /\ outcome[a] \notin {None, "identity-drift"}
              => attempts'[a] = attempts[a]]_attemptVars
    <2> SUFFICES ASSUME AttemptInv, [AttemptNext]_attemptVars, NEW a \in Prepared,
                        Settled(attempts[a], outcome[a])
                 PROVE  attempts'[a] = attempts[a]
      BY DEF Settled
    <2>1. ASSUME NEW b \in AttemptIds, LawfulStep(b) PROVE attempts'[a] = attempts[a]
      BY <2>1 DEF LawfulStep, Writes, Lawful, Prepared, AttemptInv, AttemptTypeOK
    <2> QED
      BY <2>1, StepsAreLawful
  <1> QED
    BY <1>1, AttemptInvariant, PTL DEF AttemptSpec, SettledIsFinal

(* Output that arrives after its turn was given up is refused. *)
THEOREM LateOutputIsRefused == AttemptSpec => AmbiguousTurnIsNotCompleted
  <1>1. AttemptInv /\ [AttemptNext]_attemptVars =>
           [\A a \in Prepared :
              attempts[a].state = "ambiguous" /\ attempts[a].evidence = None =>
                 /\ attempts'[a].evidence = None
                 /\ attempts'[a].state \in {"ambiguous", "invalidated"}]_attemptVars
    <2> SUFFICES ASSUME AttemptInv, [AttemptNext]_attemptVars, NEW a \in Prepared,
                        attempts[a].state = "ambiguous" /\ attempts[a].evidence = None
                 PROVE  /\ attempts'[a].evidence = None
                        /\ attempts'[a].state \in {"ambiguous", "invalidated"}
      OBVIOUS
    <2>1. ASSUME NEW b \in AttemptIds, LawfulStep(b)
          PROVE  /\ attempts'[a].evidence = None
                 /\ attempts'[a].state \in {"ambiguous", "invalidated"}
      BY <2>1 DEF LawfulStep, Writes, Lawful, Prepared, AttemptInv, AttemptTypeOK
    <2> QED
      BY <2>1, StepsAreLawful
  <1> QED
    BY <1>1, AttemptInvariant, PTL DEF AttemptSpec, AmbiguousTurnIsNotCompleted

-----------------------------------------------------------------------------
(* The order of the coordinates of one task. *)
Before(x, y) ==
    \/ x.epoch < y.epoch
    \/ x.epoch = y.epoch /\ x.round < y.round
    \/ x.epoch = y.epoch /\ x.round = y.round /\ x.profile < y.profile
    \/ x.epoch = y.epoch /\ x.round = y.round /\ x.profile = y.profile /\ x.format < y.format

(* The attempt with the highest number is well defined, and the numbers    *)
(* order the coordinates.                                                  *)
NumbersInv ==
    /\ \A a \in Located : attempts[a].role = "supervisor"
    /\ \A a \in OfRole("supervisor") :
          attempts[a].number <= Cardinality(OfRole("supervisor"))
    /\ \A a, b \in Located : a # b =>
          \/ attempts[a].number < attempts[b].number
             /\ Before(attempts[a].coordinate, attempts[b].coordinate)
          \/ attempts[b].number < attempts[a].number
             /\ Before(attempts[b].coordinate, attempts[a].coordinate)
    /\ Located # {} => \E a \in Located : \A b \in Located :
                          attempts[b].number <= attempts[a].number

(* What an operation on a prepared attempt never changes of its row. *)
SameIdentity(old, new) ==
    \/ new = old
    \/ /\ old \in Row /\ new \in Row
       /\ new.role = old.role /\ new.number = old.number /\ new.coordinate = old.coordinate

(* Only prepare_attempt writes roles, numbers and coordinates. *)
LEMMA IdentityKept ==
  ASSUME AttemptInv, [AttemptNext]_attemptVars
  PROVE  \/ \A b \in AttemptIds : SameIdentity(attempts[b], attempts'[b])
         \/ \E a \in AttemptIds, role \in Roles, leaseUntil \in Expiries, healthUntil \in Expiries,
               coordinate \in Coordinates \cup {None} :
               PrepareAttempt(a, role, leaseUntil, healthUntil, coordinate)
  <1>0. attempts \in [AttemptIds -> Row \cup {None}]
    BY DEF AttemptInv, AttemptTypeOK
  <1>1. CASE UNCHANGED attempts
    BY <1>1 DEF SameIdentity
  <1>2. ASSUME NEW a \in AttemptIds, NEW row, attempts[a] \in Row, row \in Row,
               attempts' = [attempts EXCEPT ![a] = row],
               row.role = attempts[a].role, row.number = attempts[a].number,
               row.coordinate = attempts[a].coordinate
        PROVE  \A b \in AttemptIds : SameIdentity(attempts[b], attempts'[b])
    BY <1>0, <1>2 DEF SameIdentity
  <1>3. ASSUME NEW a \in AttemptIds, attempts[a] # None, NEW s \in AttemptStates,
               attempts' = [attempts EXCEPT ![a].state = s]
        PROVE  \A b \in AttemptIds : SameIdentity(attempts[b], attempts'[b])
    <2> DEFINE row == [attempts[a] EXCEPT !.state = s]
    <2>1. attempts[a] \in Row
      BY <1>0, <1>3
    <2>2. /\ row \in Row /\ row.role = attempts[a].role /\ row.number = attempts[a].number
          /\ row.coordinate = attempts[a].coordinate
      BY <2>1 DEF Row
    <2>3. attempts' = [attempts EXCEPT ![a] = row]
      BY <1>3
    <2> HIDE DEF row
    <2> QED
      BY <1>2, <2>1, <2>2, <2>3
  <1>4. ASSUME NEW a \in AttemptIds, TurnStep(a),
               ~\E role \in Roles, leaseUntil \in Expiries, healthUntil \in Expiries,
                   coordinate \in Coordinates \cup {None} :
                   PrepareAttempt(a, role, leaseUntil, healthUntil, coordinate)
        PROVE  \A b \in AttemptIds : SameIdentity(attempts[b], attempts'[b])
    <2> attempts[a] # None => attempts[a] \in Row
      BY <1>0
    <2> USE DEF InState, Authorized
    <2>1. CASE ClaimDispatch(a)
      <3> DEFINE row == [attempts[a] EXCEPT !.claimed = TRUE]
      <3>1. attempts[a] \in Row /\ attempts' = [attempts EXCEPT ![a] = row]
        BY <2>1 DEF ClaimDispatch
      <3>2. /\ row \in Row /\ row.role = attempts[a].role /\ row.number = attempts[a].number
            /\ row.coordinate = attempts[a].coordinate
        BY <3>1 DEF Row
      <3> HIDE DEF row
      <3> QED
        BY <1>2, <3>1, <3>2
    <2>2. ASSUME NEW session \in Sessions, RecordSession(a, session)
          PROVE  \A b \in AttemptIds : SameIdentity(attempts[b], attempts'[b])
      <3> DEFINE row == [attempts[a] EXCEPT !.session = session]
      <3>1. attempts[a] \in Row /\ attempts' = [attempts EXCEPT ![a] = row]
        BY <2>2 DEF RecordSession
      <3>2. /\ row \in Row /\ row.role = attempts[a].role /\ row.number = attempts[a].number
            /\ row.coordinate = attempts[a].coordinate
        BY <3>1 DEF Row
      <3> HIDE DEF row
      <3> QED
        BY <1>2, <3>1, <3>2
    <2>3. ASSUME NEW turn \in Turns, RecordTurn(a, turn)
          PROVE  \A b \in AttemptIds : SameIdentity(attempts[b], attempts'[b])
      <3> DEFINE row == [attempts[a] EXCEPT !.turn = turn, !.state = "dispatched"]
      <3>1. attempts[a] \in Row /\ attempts' = [attempts EXCEPT ![a] = row]
        BY <2>3 DEF RecordTurn
      <3>2. /\ row \in Row /\ row.role = attempts[a].role /\ row.number = attempts[a].number
            /\ row.coordinate = attempts[a].coordinate
        BY <3>1 DEF Row, AttemptStates
      <3> HIDE DEF row
      <3> QED
        BY <1>2, <3>1, <3>2
    <2>4. ASSUME NEW pointer \in Pointers, NEW evidence \in Evidence,
                 RecordOutput(a, pointer, evidence)
          PROVE  \A b \in AttemptIds : SameIdentity(attempts[b], attempts'[b])
      <3> DEFINE row == [attempts[a] EXCEPT !.pointer = pointer, !.evidence = evidence,
                                            !.state = "completed"]
      <3>1. attempts[a] \in Row /\ attempts' = [attempts EXCEPT ![a] = row]
        BY <2>4 DEF RecordOutput
      <3>2. /\ row \in Row /\ row.role = attempts[a].role /\ row.number = attempts[a].number
            /\ row.coordinate = attempts[a].coordinate
        BY <3>1 DEF Row, AttemptStates
      <3> HIDE DEF row
      <3> QED
        BY <1>2, <3>1, <3>2
    <2>5. ASSUME NEW pointer \in Pointers, RecordInvalidOutput(a, pointer)
          PROVE  \A b \in AttemptIds : SameIdentity(attempts[b], attempts'[b])
      <3> DEFINE row == [attempts[a] EXCEPT !.pointer = pointer, !.state = "ambiguous"]
      <3>1. attempts[a] \in Row /\ attempts' = [attempts EXCEPT ![a] = row]
        BY <2>5 DEF RecordInvalidOutput
      <3>2. /\ row \in Row /\ row.role = attempts[a].role /\ row.number = attempts[a].number
            /\ row.coordinate = attempts[a].coordinate
        BY <3>1 DEF Row, AttemptStates
      <3> HIDE DEF row
      <3> QED
        BY <1>2, <3>1, <3>2
    <2>6. CASE AcceptReview(a)
      BY <1>3, <2>6 DEF AcceptReview, AttemptStates
    <2>7. CASE StaleReview(a)
      BY <1>3, <2>7 DEF StaleReview, AttemptStates
    <2> QED
      BY <1>4, <2>1, <2>2, <2>3, <2>4, <2>5, <2>6, <2>7 DEF TurnStep
  <1>5. ASSUME NEW a \in AttemptIds, SettleStep(a)
        PROVE  \A b \in AttemptIds : SameIdentity(attempts[b], attempts'[b])
    <2>1. attempts[a] # None
      BY <1>5 DEF SettleStep, InvalidateSupervisor, TerminalFailure, ScopeDenial,
         AccountingBlocker, BlockSessionWithoutTurn, InState, Authorized
    <2>2. \E s \in AttemptStates : attempts' = [attempts EXCEPT ![a].state = s]
      BY <1>5 DEF SettleStep, InvalidateSupervisor, TerminalFailure, ScopeDenial,
         AccountingBlocker, BlockSessionWithoutTurn, Settle, AttemptStates
    <2> QED
      BY <1>3, <2>1, <2>2
  <1>6. ASSUME NEW a \in AttemptIds, RecoverStep(a)
        PROVE  \A b \in AttemptIds : SameIdentity(attempts[b], attempts'[b])
    <2>1. attempts[a] # None
      BY <1>6 DEF RecoverStep, RecoverDrifted, RecoverAccepted, RecoverUnverified,
         ConsumeVerified, RecoverSettled, RecoverStale, RecoverDispatched, RecoverExhausted,
         InState, Authorized
    <2>2. \E s \in AttemptStates : attempts' = [attempts EXCEPT ![a].state = s]
      BY <1>6 DEF RecoverStep, RecoverDrifted, RecoverAccepted, RecoverUnverified,
         ConsumeVerified, RecoverSettled, RecoverStale, RecoverDispatched, RecoverExhausted,
         Recover, Settle, AbandonmentState, AttemptStates
    <2> QED
      BY <1>3, <2>1, <2>2
  <1>7. UNCHANGED attemptVars \/ Surroundings => UNCHANGED attempts
    BY DEF attemptVars, Surroundings
  <1> QED
    BY <1>1, <1>4, <1>5, <1>6, <1>7 DEF AttemptNext

(* CoordinatesAreGapless with its records written out. *)
Place(epoch, round, profile, format) ==
    [epoch |-> epoch, round |-> round, profile |-> profile, format |-> format]

TriedAt(place) == \E b \in Located : attempts[b].coordinate = place

Preceded(at) ==
    /\ at.profile > 1 => TriedAt(Place(at.epoch, at.round, at.profile - 1, 0))
    /\ at.format > 0 => TriedAt(Place(at.epoch, at.round, at.profile, at.format - 1))

GaplessForm ==
    /\ \A a, b \in Located : a # b => attempts[a].coordinate # attempts[b].coordinate
    /\ \A a \in Located : Preceded(attempts[a].coordinate)

\* Where an attempt stands among those of its identity.
LEMMA PlaceOf ==
  ASSUME NEW at \in Coordinates
  PROVE  /\ at = Place(at.epoch, at.round, at.profile, at.format)
         /\ [at EXCEPT !.profile = @ - 1, !.format = 0] = Place(at.epoch, at.round, at.profile - 1, 0)
         /\ [at EXCEPT !.format = @ - 1] = Place(at.epoch, at.round, at.profile, at.format - 1)
         /\ at.epoch \in Nat /\ at.round \in Nat /\ at.profile \in Nat \ {0} /\ at.format \in 0..2
  <1> DEFINE Wide == [epoch : Nat, round : Nat, profile : Nat, format : Int]
             back == [at EXCEPT !.profile = @ - 1, !.format = 0]
             less == [at EXCEPT !.format = @ - 1]
  <1>1. at \in [epoch : Nat, round : Nat \ {0}, profile : Nat \ {0}, format : 0..2]
    BY AttemptAssumption
  <1>2. at.epoch \in Nat /\ at.round \in Nat /\ at.profile \in Nat \ {0} /\ at.format \in 0..2
    BY <1>1
  <1>3. ASSUME NEW x \in Wide PROVE x = Place(x.epoch, x.round, x.profile, x.format)
    BY DEF Place
  <1>4. at \in Wide
    BY <1>1
  <1>5. /\ back \in Wide
        /\ back.epoch = at.epoch /\ back.round = at.round
        /\ back.profile = at.profile - 1 /\ back.format = 0
    <2>1. PICK p \in Nat : p = at.profile - 1
      BY <1>2
    <2>2. back = [at EXCEPT !.profile = p, !.format = 0]
      BY <2>1, Zenon
    <2>3. PICK y \in Wide : y = [at EXCEPT !.profile = p]
      BY <1>4
    <2>4. back = [y EXCEPT !.format = 0]
      BY <2>2, <2>3, Zenon
    <2>5. y.epoch = at.epoch /\ y.round = at.round /\ y.profile = p
      BY <1>4, <2>3
    <2> HIDE DEF back
    <2> QED
      BY <2>1, <2>4, <2>5
  <1>6. /\ less \in Wide
        /\ less.epoch = at.epoch /\ less.round = at.round
        /\ less.profile = at.profile /\ less.format = at.format - 1
    BY <1>2, <1>4
  <1>7. at = Place(at.epoch, at.round, at.profile, at.format)
    BY <1>3, <1>4
  <1> HIDE DEF back, less, Wide
  <1>8. back = Place(at.epoch, at.round, at.profile - 1, 0)
    BY <1>3, <1>5
  <1>9. less = Place(at.epoch, at.round, at.profile, at.format - 1)
    BY <1>3, <1>6
  <1> QED
    BY <1>2, <1>7, <1>8, <1>9 DEF back, less

\* A located attempt has a coordinate.
LEMMA LocatedTyped ==
  ASSUME AttemptInv, NEW a \in Located
  PROVE  attempts[a].coordinate \in Coordinates
  BY DEF Located, Prepared, AttemptInv, AttemptTypeOK, Row

\* The two forms of having no gap are the same.
LEMMA GaplessMeans ==
  ASSUME AttemptInv
  PROVE  CoordinatesAreGapless <=> GaplessForm
  <1>1. ASSUME NEW a \in Located
        PROVE  LET at == attempts[a].coordinate
                   Tried(coordinate) == \E b \in Located : attempts[b].coordinate = coordinate
               IN /\ at.profile > 1 => Tried([at EXCEPT !.profile = @ - 1, !.format = 0])
                  /\ at.format > 0 => Tried([at EXCEPT !.format = @ - 1])
               <=> Preceded(attempts[a].coordinate)
    <2>1. PICK at \in Coordinates : at = attempts[a].coordinate
      BY LocatedTyped
    <2>2. PICK back \in {[at EXCEPT !.profile = @ - 1, !.format = 0]} :
             back = [at EXCEPT !.profile = @ - 1, !.format = 0]
      OBVIOUS
    <2>3. PICK less \in {[at EXCEPT !.format = @ - 1]} : less = [at EXCEPT !.format = @ - 1]
      OBVIOUS
    <2>4. /\ back = Place(at.epoch, at.round, at.profile - 1, 0)
          /\ less = Place(at.epoch, at.round, at.profile, at.format - 1)
      BY <2>2, <2>3, PlaceOf
    <2>5. Preceded(at) <=> /\ at.profile > 1 => \E b \in Located : attempts[b].coordinate = back
                           /\ at.format > 0 => \E b \in Located : attempts[b].coordinate = less
      BY <2>4 DEF Preceded, TriedAt
    <2> QED
      BY <2>1, <2>2, <2>3, <2>5
  <1> QED
    BY <1>1, Zenon DEF CoordinatesAreGapless, GaplessForm

(* The ledger has no gap while no coordinate comes or goes. *)
LEMMA GaplessKept ==
  ASSUME Located' = Located, \A a \in Located : attempts'[a].coordinate = attempts[a].coordinate
  PROVE  GaplessForm => GaplessForm'
  BY DEF GaplessForm, Preceded, TriedAt, Place

(* An operation that keeps identities keeps the ledger of coordinates. *)
LEMMA LedgerKept ==
  ASSUME AttemptInv, AttemptInv', \A b \in AttemptIds : SameIdentity(attempts[b], attempts'[b])
  PROVE  /\ NumbersInv => NumbersInv'
         /\ GaplessForm => GaplessForm'
  <1>1. /\ Prepared' = Prepared
        /\ \A a \in Prepared : /\ attempts'[a].role = attempts[a].role
                               /\ attempts'[a].number = attempts[a].number
                               /\ attempts'[a].coordinate = attempts[a].coordinate
    BY NullAssumption DEF Prepared, SameIdentity
  <1>2. Located' = Located /\ Located \subseteq Prepared
    BY <1>1 DEF Located
  <1>3. OfRole("supervisor")' = OfRole("supervisor") /\ OfRole("supervisor") \subseteq Prepared
    BY <1>1 DEF OfRole
  <1>4. NumbersInv => NumbersInv'
    BY <1>1, <1>2, <1>3 DEF NumbersInv, Before
  <1>5. GaplessForm => GaplessForm'
    BY <1>1, <1>2, GaplessKept
  <1> QED
    BY <1>4, <1>5

(* A coordinate that may follow comes after; what must have been tried     *)
(* before it, was.                                                         *)
LEMMA FollowsIsAfter ==
  ASSUME NEW last \in Coordinates, NEW next \in Coordinates, CoordinateFollows(last, next)
  PROVE  Before(last, next)
  <1>1. /\ last.epoch \in Nat /\ last.round \in Nat /\ last.profile \in Nat /\ last.format \in Nat
        /\ next.epoch \in Nat /\ next.round \in Nat /\ next.profile \in Nat /\ next.format \in Nat
    BY AttemptAssumption
  <1>2. last # None
    BY AttemptAssumption
  <1> QED
    BY <1>1, <1>2 DEF CoordinateFollows, Before

\* Being before another attempt is an order.
LEMMA BeforeIsAnOrder ==
  ASSUME NEW x \in Coordinates, NEW y \in Coordinates, NEW z \in Coordinates
  PROVE  /\ Before(x, y) /\ Before(y, z) => Before(x, z)
         /\ Before(x, y) => x # y
  <1>1. \A c \in Coordinates : /\ c.epoch \in Nat /\ c.round \in Nat
                               /\ c.profile \in Nat /\ c.format \in Nat
    BY AttemptAssumption
  <1> QED
    BY <1>1 DEF Before


(* What must have been tried before a coordinate that may follow, was. *)
LEMMA PredecessorsTried ==
  ASSUME AttemptInv, NumbersInv, GaplessForm,
         NEW next \in Coordinates, CoordinateFollows(LastCoordinate, next)
  PROVE  Preceded(next)
  <1>1. CASE Located = {}
    <2>1. next.profile = 1 /\ next.format = 0
      BY <1>1 DEF LastCoordinate, CoordinateFollows
    <2> QED
      BY <2>1 DEF Preceded
  <1>2. CASE Located # {}
    <2>1. PICK m \in Located : LastCoordinate = attempts[m].coordinate
      BY <1>2 DEF LastCoordinate, NumbersInv
    <2>2. PICK last \in Coordinates : last = attempts[m].coordinate
      BY LocatedTyped
    <2>3. CoordinateFollows(last, next) /\ last # None
      BY <2>1, <2>2, AttemptAssumption
    <2>4. /\ last.profile \in Nat \ {0} /\ last.format \in 0..2 /\ last.epoch \in Nat
          /\ last.round \in Nat /\ last = Place(last.epoch, last.round, last.profile, last.format)
          /\ next.profile \in Nat \ {0} /\ next.format \in 0..2
      BY PlaceOf
    <2> DEFINE Back(f) == Place(last.epoch, last.round, last.profile, f)
    <2>5. TriedAt(Back(last.format)) /\ Preceded(last)
      BY <2>2, <2>4 DEF TriedAt, GaplessForm
    <2>6. \A p, f : Place(last.epoch, last.round, p, f).epoch = last.epoch
             /\ Place(last.epoch, last.round, p, f).round = last.round
             /\ Place(last.epoch, last.round, p, f).profile = p
             /\ Place(last.epoch, last.round, p, f).format = f
      BY DEF Place
    <2>7. ASSUME NEW f \in {1, 2}, TriedAt(Back(f)) PROVE TriedAt(Back(f - 1))
      <3>1. Preceded(Back(f))
        BY <2>7 DEF TriedAt, GaplessForm
      <3>2. Back(f).format > 0
        BY <2>6
      <3> QED
        BY <2>6, <3>1, <3>2 DEF Preceded
    <2>8. TriedAt(Back(0))
      <3>1. TriedAt(Back(2)) => TriedAt(Back(1))
        BY <2>7
      <3>2. TriedAt(Back(1)) => TriedAt(Back(0))
        BY <2>7
      <3> QED
        BY <2>4, <2>5, <3>1, <3>2
    <2>9. CASE next.epoch = last.epoch /\ next.round = last.round /\ next.profile = last.profile
               /\ next.format = last.format + 1
      <3>1. next.format - 1 = last.format
        BY <2>4, <2>9
      <3> QED
        BY <2>4, <2>5, <2>9, <3>1 DEF Preceded
    <2>10. CASE next.epoch = last.epoch /\ next.round = last.round
                /\ next.profile = last.profile + 1 /\ next.format = 0
      <3>1. next.profile - 1 = last.profile
        BY <2>4, <2>10
      <3> QED
        BY <2>4, <2>8, <2>10, <3>1 DEF Preceded
    <2>11. CASE next.profile = 1 /\ next.format = 0
      BY <2>11 DEF Preceded
    <2> QED
      BY <2>3, <2>9, <2>10, <2>11 DEF CoordinateFollows
  <1> QED
    BY <1>1, <1>2

(* Preparing an attempt gives it the next number; a coordinate of it comes *)
(* after the coordinate with the highest number, and so after all.         *)
LEMMA LedgerExtended ==
  ASSUME AttemptInv, NumbersInv, GaplessForm,
         NEW a \in AttemptIds, NEW role \in Roles, NEW leaseUntil \in Expiries,
         NEW healthUntil \in Expiries, NEW coordinate \in Coordinates \cup {None},
         PrepareAttempt(a, role, leaseUntil, healthUntil, coordinate)
  PROVE  NumbersInv' /\ GaplessForm'
  <1> DEFINE number == Cardinality(OfRole(role)) + 1
             row == [role |-> role, number |-> number, leaseUntil |-> leaseUntil,
                     healthUntil |-> healthUntil, coordinate |-> coordinate, state |-> "prepared",
                     claimed |-> FALSE, session |-> None, turn |-> None, pointer |-> None,
                     evidence |-> None]
  <1>1. /\ attempts \in [AttemptIds -> Row \cup {None}] /\ attempts[a] = None
        /\ attempts' = [attempts EXCEPT ![a] = row]
    BY DEF AttemptInv, AttemptTypeOK, PrepareAttempt
  <1>2. \A r \in Roles : /\ IsFiniteSet(OfRole(r)) /\ Cardinality(OfRole(r)) \in Nat
                         /\ OfRole(r) \subseteq AttemptIds /\ a \notin OfRole(r)
    <2> SUFFICES ASSUME NEW r \in Roles
                 PROVE  /\ IsFiniteSet(OfRole(r)) /\ Cardinality(OfRole(r)) \in Nat
                        /\ OfRole(r) \subseteq AttemptIds /\ a \notin OfRole(r)
      OBVIOUS
    <2>1. OfRole(r) \subseteq AttemptIds /\ a \notin OfRole(r)
      BY <1>1 DEF OfRole, Prepared
    <2>2. IsFiniteSet(OfRole(r))
      BY <2>1, AttemptAssumption, FS_Subset
    <2> QED
      BY <2>1, <2>2, FS_CardinalityType
  <1>3. /\ number \in Nat \ {0}
        /\ row.role = role /\ row.number = number /\ row.coordinate = coordinate
        /\ row # None
    <2>1. number \in Nat \ {0}
      BY <1>2
    <2>2. row \in Row
      BY <2>1, AttemptAssumption DEF Row, AttemptStates
    <2> QED
      BY <2>1, <2>2, NullAssumption
  <1> HIDE DEF row, number
  <1>4. /\ Prepared' = Prepared \cup {a} /\ a \notin Prepared
        /\ attempts'[a] = row /\ \A b \in Prepared : attempts'[b] = attempts[b]
    BY <1>1, <1>3 DEF Prepared
  <1>5. /\ OfRole("supervisor")' = IF role = "supervisor" THEN OfRole("supervisor") \cup {a}
                                                          ELSE OfRole("supervisor")
        /\ Located' = IF coordinate # None THEN Located \cup {a} ELSE Located
        /\ a \notin Located /\ Located \subseteq Prepared /\ OfRole("supervisor") \subseteq Prepared
    BY <1>3, <1>4 DEF OfRole, Located
  <1>6. \A b \in Prepared : attempts[b] \in Row /\ attempts[b].number \in Nat
    BY <1>1 DEF Prepared, Row
  <1>7. \A b \in Located : attempts[b].coordinate \in Coordinates /\ b \in OfRole("supervisor")
    BY <1>6 DEF Located, Row, NumbersInv, OfRole
  <1>8. role = "supervisor" =>
           /\ Cardinality(OfRole("supervisor")') = number
           /\ \A b \in OfRole("supervisor") : attempts[b].number < number
    <2> SUFFICES ASSUME role = "supervisor"
                 PROVE  /\ Cardinality(OfRole("supervisor")') = number
                        /\ \A b \in OfRole("supervisor") : attempts[b].number < number
      OBVIOUS
    <2>1. Cardinality(OfRole("supervisor") \cup {a}) = Cardinality(OfRole("supervisor")) + 1
      BY <1>2, FS_AddElement
    <2>2. \A b \in OfRole("supervisor") : attempts[b].number <= Cardinality(OfRole("supervisor"))
      BY DEF NumbersInv
    <2> QED
      BY <1>2, <1>5, <1>6, <2>1, <2>2 DEF number
  <1>9. \A b \in OfRole("supervisor")' : attempts'[b].number <= Cardinality(OfRole("supervisor")')
    <2>1. CASE role = "supervisor"
      <3>1. ASSUME NEW b \in OfRole("supervisor") PROVE attempts'[b].number <= number
        BY <1>3, <1>4, <1>5, <1>6, <1>8, <2>1
      <3> QED
        BY <1>3, <1>4, <1>5, <1>8, <2>1, <3>1
    <2>2. CASE role # "supervisor"
      BY <1>4, <1>5, <2>2 DEF NumbersInv
    <2> QED
      BY <2>1, <2>2
  <1>10. CASE coordinate = None
    <2>1. Located' = Located /\ \A b \in Located : attempts'[b] = attempts[b]
      BY <1>4, <1>5, <1>10
    <2>2. NumbersInv'
      BY <1>9, <2>1 DEF NumbersInv
    <2>3. GaplessForm'
      BY <2>1, GaplessKept
    <2> QED
      BY <2>2, <2>3
  <1>11. CASE coordinate # None
    <2>1. /\ coordinate \in Coordinates /\ role = "supervisor"
          /\ CoordinateFollows(LastCoordinate, coordinate)
      BY <1>11 DEF PrepareAttempt
    <2>2. /\ Located' = Located \cup {a} /\ \A b \in Located : attempts'[b] = attempts[b]
          /\ attempts'[a].coordinate = coordinate /\ attempts'[a].number = number
          /\ attempts'[a].role = "supervisor"
          /\ \A b \in Located : attempts[b].number < number /\ attempts[b].number \in Nat
      BY <1>3, <1>4, <1>5, <1>6, <1>7, <1>8, <1>11, <2>1
    <2>3. \A b \in Located : Before(attempts[b].coordinate, coordinate)
      <3> SUFFICES ASSUME NEW b \in Located PROVE Before(attempts[b].coordinate, coordinate)
        OBVIOUS
      <3>1. PICK m \in Located : /\ LastCoordinate = attempts[m].coordinate
                                 /\ \A c \in Located : attempts[c].number <= attempts[m].number
        BY DEF LastCoordinate, NumbersInv
      <3>2. Before(attempts[m].coordinate, coordinate)
        BY <1>7, <2>1, <3>1, FollowsIsAfter
      <3>3. b = m \/ Before(attempts[b].coordinate, attempts[m].coordinate)
        <4>1. attempts[b].number \in Nat /\ attempts[m].number \in Nat
              /\ attempts[b].number <= attempts[m].number
          BY <2>2, <3>1
        <4> QED
          BY <4>1 DEF NumbersInv
      <3> QED
        BY <1>7, <2>1, <3>2, <3>3, BeforeIsAnOrder
    <2>4. NumbersInv'
      <3>1. \A b \in Located' : attempts'[b].role = "supervisor"
        BY <2>2 DEF NumbersInv
      <3>2. ASSUME NEW b \in Located', NEW c \in Located', b # c
            PROVE  \/ /\ attempts'[b].number < attempts'[c].number
                      /\ Before(attempts'[b].coordinate, attempts'[c].coordinate)
                   \/ /\ attempts'[c].number < attempts'[b].number
                      /\ Before(attempts'[c].coordinate, attempts'[b].coordinate)
        <4>1. CASE b = a
          BY <2>2, <2>3, <3>2, <4>1
        <4>2. CASE c = a
          BY <2>2, <2>3, <3>2, <4>2
        <4>3. CASE b # a /\ c # a
          BY <2>2, <3>2, <4>3 DEF NumbersInv
        <4> QED
          BY <4>1, <4>2, <4>3
      <3>3. \A b \in Located' : attempts'[b].number <= attempts'[a].number
        BY <1>3, <2>2
      <3> QED
        BY <1>9, <2>2, <3>1, <3>2, <3>3 DEF NumbersInv, Before
    <2>5. GaplessForm'
      <3>1. \A place : TriedAt(place) => TriedAt(place)'
        BY <2>2 DEF TriedAt
      <3>2. \A b \in Located : attempts[b].coordinate # coordinate
        BY <1>7, <2>1, <2>3, BeforeIsAnOrder
      <3>3. \A b, c \in Located' : b # c => attempts'[b].coordinate # attempts'[c].coordinate
        BY <2>2, <3>2 DEF GaplessForm
      <3>4. Preceded(coordinate)
        BY <2>1, PredecessorsTried
      <3>5. ASSUME NEW at, Preceded(at) PROVE Preceded(at)'
        BY <3>1, <3>5 DEF Preceded
      <3>6. ASSUME NEW c \in Located' PROVE Preceded(attempts[c].coordinate)'
        <4>1. PICK at : at = attempts'[c].coordinate
          OBVIOUS
        <4>2. Preceded(at)
          BY <2>2, <3>4, <4>1 DEF GaplessForm
        <4> QED
          BY <3>5, <4>1, <4>2 DEF Preceded
      <3> QED
        BY <3>3, <3>6 DEF GaplessForm
    <2> QED
      BY <2>4, <2>5
  <1> QED
    BY <1>10, <1>11

(* The ledger of review coordinates has no gap and no repetition, for any  *)
(* number of attempts, rounds, profiles and epochs: prepare_attempt        *)
(* compares a coordinate only with the one of the highest number.          *)
THEOREM CoordinatesStayGapless == AttemptSpec => []CoordinatesAreGapless
  <1>1. AttemptInit => NumbersInv /\ GaplessForm
    <2> SUFFICES ASSUME AttemptInit PROVE NumbersInv /\ GaplessForm
      OBVIOUS
    <2>1. Located = {} /\ OfRole("supervisor") = {}
      BY DEF AttemptInit, Located, OfRole, Prepared
    <2> QED
      BY <2>1 DEF NumbersInv, GaplessForm
  <1>2. /\ AttemptInv /\ AttemptInv' /\ NumbersInv /\ GaplessForm
        /\ [AttemptNext]_attemptVars
        => NumbersInv' /\ GaplessForm'
    BY IdentityKept, LedgerKept, LedgerExtended
  <1>3. AttemptInv /\ GaplessForm => CoordinatesAreGapless
    BY GaplessMeans
  <1> QED
    BY <1>1, <1>2, <1>3, AttemptInvariant, PTL DEF AttemptSpec
=============================================================================
