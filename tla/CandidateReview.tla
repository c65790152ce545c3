--------------------------- MODULE CandidateReview ---------------------------
(***************************************************************************)
(* Implementation and diff review of one task (candidate_review.py,        *)
(* review_lifecycle.py): a Worker turn ends in a sealed commit, the commit *)
(* is verified and reviewed, findings open a repair, a PASS is accepted    *)
(* and leaves follow-ups for the owner.                                    *)
(*                                                                         *)
(* Every caller runs one call at a time, a chain of transactions; at[c] is *)
(* what its call has still to do.  Callers share the transition lease.  A  *)
(* call that raises unwinds (Raise), a process may die (Crash).  turn is   *)
(* the provider attempt behind an implementation or a review, reduced to   *)
(* what these modules read of it; identities and digests that only reject  *)
(* foreign values, and the review policy beyond its rounds, are left out.  *)
(* So are the stops of the Supervisor's scope, which come and go at any    *)
(* time and only refuse calls, and the write-once blocker of an attempt,   *)
(* which only makes recovery refuse (ProviderAttempts has it).  What the   *)
(* owner does is OwnerControl.                                             *)
(***************************************************************************)
EXTENDS Naturals, FiniteSets

CONSTANTS Callers,
          Repairers,      \* the callers that only dispatch repairs
          Impls, Reviews,
          Commits,        \* numbers of the Worker's commits on top of the base, 1..n
          Tests, Builds,  \* verification identities, by kind
          Rounds,
          Points,         \* what a review may find or leave as a follow-up
          Nothing

VARIABLES task,        \* tasks.state
          head,        \* the worktree's clean commit; Nothing is the base
          seal,        \* candidate_seals
          impls,       \* implementation_attempts with the candidate: row, or Nothing
          objective,   \* worker_objective_records.state
          entered,     \* implementations whose candidate entered diff review
          verified,    \* candidate_verifications
          reviews,     \* diff_review_attempts with the artifact: row, or Nothing
          turn,        \* provider_attempts: state of the turn behind an id
          routes,      \* diff_review_routes: row, or Nothing
          items,       \* review_item_provenance
          at           \* the calls in progress

ledger == <<task, head, seal, impls, objective, entered, verified, reviews, turn, routes, items>>
reviewVars == <<ledger, at>>

Turns == Impls \cup Reviews
Checks == Tests \cup Builds

(* PASS has follow-ups and no findings, FINDINGS the reverse. *)
Outcomes == [verdict : {"pass", "findings"}, points : SUBSET Points]
WellFormed(outcome) == outcome.verdict = "findings" => outcome.points # {}

ImplRow == [parent : Reviews \cup {Nothing}, state : {"dispatched", "recorded"},
            output : Commits \cup {Nothing},      \* provider_completion_outputs
            candidate : Commits \cup {Nothing}]   \* implementation_candidates

ReviewRow == [impl : Impls, candidate : Commits, snapshot : SUBSET Checks, round : Rounds,
              number : 1..Cardinality(Reviews), state : {"dispatched", "recorded", "accepted"},
              output : Outcomes \cup {Nothing},   \* provider_completion_outputs
              outcome : Outcomes \cup {Nothing}]  \* diff_review_artifacts

RouteRow == [claim : Callers \cup {Nothing}, consumed : Impls \cup {Nothing}]

ASSUME CandidateReviewAssumption ==
    /\ Repairers \subseteq Callers /\ IsFiniteSet(Reviews)
    /\ Impls \cap Reviews = {} /\ Tests \cap Builds = {}
    /\ Commits \subseteq Nat \ {0} /\ Nothing \notin Impls \cup Reviews \cup Commits \cup Callers
    /\ Nothing \notin Outcomes /\ Nothing \notin ImplRow
    /\ Nothing \notin ReviewRow /\ Nothing \notin RouteRow

Item == [kind : {"finding", "follow-up"}, candidate : Commits, point : Points]

(* A Worker's rejected turn is ambiguous and not recovered yet. *)
TurnStates == {"none", "dispatched", "completed", "accepted", "ambiguous", "rejected", "blocked",
               "invalidated"}

Done == [op |-> "idle", id |-> Nothing, arg |-> Nothing]

ReviewInit ==
    /\ task = "implementing" /\ head = Nothing /\ seal = Nothing
    /\ impls = [i \in Impls |-> Nothing] /\ objective = [i \in Impls |-> "none"] /\ entered = {}
    /\ verified = [s \in Commits |-> {}]
    /\ reviews = [r \in Reviews |-> Nothing] /\ turn = [x \in Turns |-> "none"]
    /\ routes = [r \in Reviews |-> Nothing] /\ items = {}
    /\ at = [c \in Callers |-> Done]

In(c, op) == at[c].op = op
Enter(c, op, id, arg) ==
    In(c, "idle") /\ at' = [at EXCEPT ![c] = [op |-> op, id |-> id, arg |-> arg]]
Then(c, op) == at' = [at EXCEPT ![c].op = op]
Finish(c) == at' = [at EXCEPT ![c] = Done]

Live(s) == s # Nothing /\ seal = s /\ head = s
CandidateOf(i) == IF impls[i] = Nothing THEN Nothing ELSE impls[i].candidate
Snapshot(s) == verified[s]
Complete(snapshot) == snapshot \cap Tests # {} /\ snapshot \cap Builds # {}
AcceptedIn(round) == {r \in Reviews : /\ reviews[r] # Nothing /\ reviews[r].state = "accepted"
                                      /\ reviews[r].round = round}

(* _current_repair_route: the newest route no implementation has consumed. *)
Outstanding == {r \in Reviews : routes[r] # Nothing /\ routes[r].consumed = Nothing}
CurrentRoute ==
    IF Outstanding = {} THEN Nothing
    ELSE CHOOSE r \in Outstanding :
            \A o \in Outstanding : reviews[o].number <= reviews[r].number

(* prepare_attempt, record_session_identity and record_external_turn; their
   crash points are ProviderAttempts' subject, here a started turn may lack
   the row that dispatches it. *)
StartTurn(c) ==
    LET x == at[c].id IN
    /\ In(c, "start") /\ turn[x] \in {"none", "dispatched"}
    /\ turn' = [turn EXCEPT ![x] = "dispatched"]
    /\ Then(c, "insert")
    /\ UNCHANGED <<task, head, seal, impls, objective, entered, verified, reviews, routes,
                   items>>

(***************************************************************************)
(* Implementation.                                                         *)
(***************************************************************************)
(* An exact retry: the same dispatch consumed its route. *)
Replays(i, parent) ==
    impls[i].parent = parent /\ (parent # Nothing => routes[parent].consumed = i)

BeginImplementation(c, i, parent) ==
    /\ IF impls[i] = Nothing
       THEN CurrentRoute = parent /\ Enter(c, "claim", i, parent)
       ELSE /\ Replays(i, parent)
            /\ Enter(c, "objective", i, Nothing)
    /\ UNCHANGED ledger

ClaimRoute(c) ==
    LET parent == at[c].arg IN
    /\ In(c, "claim") /\ task = "implementing" /\ CurrentRoute = parent
    /\ parent # Nothing => routes[parent].claim = Nothing
    /\ routes' = IF parent = Nothing THEN routes ELSE [routes EXCEPT ![parent].claim = c]
    /\ Then(c, "start")
    /\ UNCHANGED <<task, head, seal, impls, objective, entered, verified, reviews, turn, items>>

Consumable(c, parent) ==
    CurrentRoute = parent /\ (parent # Nothing => routes[parent].claim = c)

(* The dispatch and the consumption of its route are one transaction. *)
InsertImplementation(c) ==
    LET i == at[c].id
        parent == at[c].arg
    IN /\ In(c, "insert") /\ i \in Impls /\ task = "implementing"
       /\ IF impls[i] = Nothing
          THEN /\ Consumable(c, parent)
               /\ impls' = [impls EXCEPT ![i] = [parent |-> parent, state |-> "dispatched",
                                                 output |-> Nothing, candidate |-> Nothing]]
               /\ routes' = IF parent = Nothing THEN routes
                            ELSE [routes EXCEPT ![parent] = [claim |-> Nothing, consumed |-> i]]
          ELSE impls[i].parent = parent /\ UNCHANGED <<impls, routes>>
       /\ Then(c, "objective")
       /\ UNCHANGED <<task, head, seal, objective, entered, verified, reviews, turn, items>>

WorkerDispatched(i) == turn[i] = "dispatched" /\ impls[i].state = "dispatched"

StartObjective(c) ==
    LET i == at[c].id IN
    /\ In(c, "objective") /\ WorkerDispatched(i)
    /\ objective' = [objective EXCEPT ![i] = IF @ = "none" THEN "active" ELSE @]
    /\ Finish(c)
    /\ UNCHANGED <<task, head, seal, impls, entered, verified, reviews, turn, routes, items>>

ReopenRoute(c) ==
    [r \in Reviews |->
        IF routes[r] # Nothing /\ at[c].op = "objective" /\ at[c].arg = r
        THEN [claim |-> Nothing, consumed |-> Nothing] ELSE routes[r]]

(* _release_repair_claim *)
ReleaseClaim(c) ==
    [r \in Reviews |->
        IF routes[r] # Nothing /\ routes[r].claim = c /\ at[c].op \in {"start", "insert"}
           /\ at[c].arg = r
        THEN [routes[r] EXCEPT !.claim = Nothing] ELSE routes[r]]

(* An error after the claim gives the claim back; a dead process does not. *)
Raise(c) ==
    /\ ~In(c, "idle")
    /\ routes' = ReleaseClaim(c)
    /\ Finish(c)
    /\ UNCHANGED <<task, head, seal, impls, objective, entered, verified, reviews, turn, items>>

Crash(c) == ~In(c, "idle") /\ Finish(c) /\ UNCHANGED ledger

(* record_implementation_candidate seals the worktree's commit, binds it to
   the Worker's output, then records it, ends the objective and enters diff
   review, each in a transaction of its own. *)
SealCandidate(c, i) ==
    /\ impls[i] # Nothing /\ head # Nothing
    /\ seal' = head
    /\ Enter(c, "complete", i, head)
    /\ UNCHANGED <<task, head, impls, objective, entered, verified, reviews, turn, routes,
                   items>>

CompleteImplementation(c) ==
    LET i == at[c].id IN
    /\ In(c, "complete") /\ i \in Impls /\ Live(at[c].arg)
    /\ turn[i] \in {"dispatched", "completed"} /\ impls[i].output \in {Nothing, at[c].arg}
    /\ turn' = [turn EXCEPT ![i] = "completed"]
    /\ impls' = [impls EXCEPT ![i].output = at[c].arg]
    /\ Then(c, "candidate")
    /\ UNCHANGED <<task, head, seal, objective, entered, verified, reviews, routes, items>>

RecordCandidate(c) ==
    LET i == at[c].id IN
    /\ In(c, "candidate") /\ task = "implementing"
    /\ impls[i].candidate \in {Nothing, at[c].arg}
    /\ impls' = [impls EXCEPT ![i].candidate = at[c].arg, ![i].state = "recorded"]
    /\ Then(c, "end-objective")
    /\ UNCHANGED <<task, head, seal, objective, entered, verified, reviews, turn, routes,
                   items>>

Delivered(i, s) == turn[i] = "completed" /\ impls[i].state = "recorded" /\ impls[i].candidate = s

CompleteObjective(c) ==
    LET i == at[c].id IN
    /\ In(c, "end-objective") /\ objective[i] \in {"active", "completed"}
    /\ seal = at[c].arg /\ Delivered(i, at[c].arg)
    /\ objective' = [objective EXCEPT ![i] = "completed"]
    /\ Then(c, "enter-review")
    /\ UNCHANGED <<task, head, seal, impls, entered, verified, reviews, turn, routes, items>>

EnterDiffReview(c) ==
    LET i == at[c].id IN
    /\ In(c, "enter-review") /\ task = "implementing" /\ i \notin entered
    /\ task' = "diff-review" /\ entered' = entered \cup {i}
    /\ Finish(c)
    /\ UNCHANGED <<head, seal, impls, objective, verified, reviews, turn, routes, items>>

(***************************************************************************)
(* What becomes of a turn outside the calls above, at any time: its output *)
(* is rejected (record_invalid_output), or recover_attempt decides on it.  *)
(* The caller of recovery may present another context (identity drift), no *)
(* evidence or foreign evidence, or the evidence of the recorded output;   *)
(* the process lease of the turn may have run out.                         *)
(***************************************************************************)
TurnBecomes(x, state) == turn' = [turn EXCEPT ![x] = state]

RejectWorkerOutput(i) ==
    /\ turn[i] = "dispatched" /\ TurnBecomes(i, "rejected")
    /\ UNCHANGED <<task, head, seal, impls, objective, entered, verified, reviews, routes,
                   items, at>>

GiveUpTurnOnly(i, state) == TurnBecomes(i, state) /\ UNCHANGED objective

(* A Worker's turn is given up and its active objective cancelled in one
   transaction; a completed objective stays. *)
GiveUp(i, state) ==
    /\ TurnBecomes(i, state)
    /\ objective' = [objective EXCEPT ![i] = IF @ = "active" THEN "cancelled" ELSE @]

HasOutput(i) == impls[i] # Nothing /\ impls[i].output # Nothing

(* A turn without output is given up, by identity drift one with output too;
   output that nobody verified waits, and verified output is consumed. *)
RecoverWorker(i) ==
    /\ \/ turn[i] \in {"dispatched", "rejected", "completed", "ambiguous"} /\ GiveUp(i, "ambiguous")
       \/ turn[i] = "dispatched" /\ GiveUp(i, "blocked")
       \/ turn[i] = "completed" /\ TurnBecomes(i, "ambiguous") /\ UNCHANGED objective
       \/ /\ turn[i] = "ambiguous" /\ HasOutput(i)
          /\ TurnBecomes(i, "completed") /\ UNCHANGED objective
    /\ UNCHANGED <<task, head, seal, impls, entered, verified, reviews, routes, items, at>>

(* cancel_objective, while the turn is open or its output may be verified. *)
CancelObjective(i) ==
    /\ objective[i] = "active"
    /\ \/ turn[i] \in {"dispatched", "completed"}
       \/ turn[i] = "ambiguous" /\ HasOutput(i)
    /\ objective' = [objective EXCEPT ![i] = "cancelled"]
    /\ UNCHANGED <<task, head, seal, impls, entered, verified, reviews, turn, routes, items,
                   at>>

(* A Supervisor's turn is doubted (rejected, unknown, drifted, unverified),
   void (its process is gone, it failed, invalidate_supervisor_attempt; so
   counts the blocked one of a denied scope) or consumed.  An accepted review
   loses both acceptances in the transaction that recovers its turn
   (_stale_unvalidated_diff_review). *)
RecoverReview(r) ==
    /\ \/ /\ turn[r] \in {"dispatched", "completed", "accepted", "invalidated"}
          /\ TurnBecomes(r, "ambiguous")
       \/ /\ turn[r] \in {"dispatched", "completed", "accepted", "ambiguous"}
          /\ TurnBecomes(r, "invalidated")
       \/ /\ turn[r] = "ambiguous" /\ reviews[r] # Nothing /\ reviews[r].output # Nothing
          /\ TurnBecomes(r, "completed")
    /\ reviews' = IF turn[r] = "accepted" THEN [reviews EXCEPT ![r].state = "recorded"]
                                          ELSE reviews
    /\ UNCHANGED <<task, head, seal, impls, objective, entered, verified, routes, items, at>>

(***************************************************************************)
(* Verification and diff review.                                           *)
(***************************************************************************)
BeginVerification(c, k) ==
    /\ Live(seal) /\ \E i \in Impls : CandidateOf(i) = seal
    /\ Enter(c, "verify", k, seal)
    /\ UNCHANGED ledger

Withdraw(stale) ==
    /\ turn' = [x \in Turns |-> IF x \in stale /\ turn[x] = "accepted" THEN "invalidated"
                                ELSE turn[x]]
    /\ reviews' = [r \in Reviews |-> IF r \in stale /\ reviews[r].state = "accepted"
                                     THEN [reviews[r] EXCEPT !.state = "recorded"] ELSE reviews[r]]

(* A result that completes or changes the snapshot withdraws, in the same
   transaction, every acceptance that rests on another one. *)
RecordVerification(c) ==
    LET s == at[c].arg
        snapshot == verified[s] \cup {at[c].id}
    IN /\ In(c, "verify") /\ task = "diff-review"
       /\ verified' = [verified EXCEPT ![s] = snapshot]
       /\ Withdraw({r \in Reviews : /\ Complete(snapshot) /\ reviews[r] # Nothing
                                    /\ reviews[r].candidate = s /\ reviews[r].snapshot # snapshot})
       /\ Finish(c)
       /\ UNCHANGED <<task, head, seal, impls, objective, entered, routes, items>>

(* preflight_diff_review_session_checkpoint *)
Reviewable(i) == Live(seal) /\ CandidateOf(i) = seal /\ Complete(Snapshot(seal))

(* What a review is asked about: _project_review_policy, of which the round is kept. *)
ReviewRequest(i, round) ==
    [impl |-> i, candidate |-> seal, snapshot |-> Snapshot(seal), round |-> round]

DispatchReview(c, r, i, round) ==
    /\ Reviewable(i)
    /\ reviews[r] = Nothing /\ AcceptedIn(round) = {}
    /\ Enter(c, "start", r, ReviewRequest(i, round))
    /\ UNCHANGED ledger

(* _read_diff_dispatch *)
PersistedRequest(r) ==
    [impl |-> reviews[r].impl, candidate |-> reviews[r].candidate,
     snapshot |-> reviews[r].snapshot, round |-> reviews[r].round]

InsertReview(c) ==
    LET r == at[c].id
        dispatch == at[c].arg
    IN /\ In(c, "insert") /\ r \in Reviews /\ task = "diff-review"
       /\ IF reviews[r] = Nothing
          THEN reviews' = [reviews EXCEPT ![r] =
                  [impl |-> dispatch.impl, candidate |-> dispatch.candidate,
                   snapshot |-> dispatch.snapshot, round |-> dispatch.round,
                   number |-> Cardinality({o \in Reviews : reviews[o] # Nothing}) + 1,
                   state |-> "dispatched", output |-> Nothing, outcome |-> Nothing]]
          ELSE dispatch = PersistedRequest(r) /\ UNCHANGED reviews
       /\ Finish(c)
       /\ UNCHANGED <<task, head, seal, impls, objective, entered, verified, turn, routes,
                      items>>

StillComplete(r) == Complete(Snapshot(reviews[r].candidate))

(* The review was dispatched on the results the candidate has now. *)
Unchanged(r) == Snapshot(reviews[r].candidate) = reviews[r].snapshot

CompleteReview(c, r, outcome) ==
    /\ reviews[r] # Nothing /\ WellFormed(outcome)
    /\ Live(reviews[r].candidate) /\ Unchanged(r)
    /\ turn[r] \in {"dispatched", "completed", "accepted"}
    /\ turn[r] # "dispatched" => reviews[r].output = outcome
    /\ turn' = [turn EXCEPT ![r] = IF @ = "dispatched" THEN "completed" ELSE @]
    /\ reviews' = [reviews EXCEPT ![r].output = outcome]
    /\ Enter(c, outcome.verdict, r, outcome.points)
    /\ UNCHANGED <<task, head, seal, impls, objective, entered, verified, routes, items>>

Recorded(r) == [reviews EXCEPT ![r].outcome = reviews[r].output,
                               ![r].state = IF reviews[r].outcome = Nothing THEN "recorded" ELSE @]

ItemsOf(r, kind, points) ==
    {<<[kind |-> kind, candidate |-> reviews[r].candidate, point |-> p], r>> : p \in points}

(* The turn behind the review is durably complete. *)
Authentic(r) == turn[r] \in {"completed", "accepted"}

(* FINDINGS: artifact, route, items and the return to implementation are
   one transaction. *)
RecordFindings(c) ==
    LET r == at[c].id IN
    /\ In(c, "findings") /\ task = "diff-review" /\ routes[r] = Nothing
    /\ Authentic(r)
    /\ reviews' = Recorded(r)
    /\ routes' = [routes EXCEPT ![r] = [claim |-> Nothing, consumed |-> Nothing]]
    /\ items' = items \cup ItemsOf(r, "finding", at[c].arg)
    /\ task' = "implementing"
    /\ Finish(c)
    /\ UNCHANGED <<head, seal, impls, objective, entered, verified, turn>>

RecordPass(c) ==
    /\ In(c, "pass") /\ task = "diff-review"
    /\ reviews' = Recorded(at[c].id)
    /\ Then(c, "accept")
    /\ UNCHANGED <<task, head, seal, impls, objective, entered, verified, turn, routes, items>>

AcceptPass(c) ==
    LET r == at[c].id IN
    /\ In(c, "accept") /\ task = "diff-review"
    /\ Unchanged(r)
    /\ AcceptedIn(reviews[r].round) \subseteq {r}
    /\ Authentic(r) /\ reviews[r].state \in {"recorded", "accepted"}
    /\ turn' = [turn EXCEPT ![r] = "accepted"]
    /\ reviews' = [reviews EXCEPT ![r].state = "accepted"]
    /\ items' = items \cup ItemsOf(r, "follow-up", at[c].arg)
    /\ Finish(c)
    /\ UNCHANGED <<task, head, seal, impls, objective, entered, verified, routes>>

(* A call whose candidate is no longer the worktree's commit drops whatever
   seal is stored and raises; one about a review then withdraws it. *)
LoseCandidate(c, s) ==
    /\ In(c, "idle") /\ s \in {seal} \cup {CandidateOf(i) : i \in Impls} /\ s \notin {Nothing, head}
    /\ seal' = Nothing
    /\ UNCHANGED <<task, head, impls, objective, entered, verified, reviews, turn, routes,
                   items, at>>

FindStale(c, r) ==
    /\ reviews[r] # Nothing /\ ~Live(reviews[r].candidate)
    /\ seal' = IF head # reviews[r].candidate THEN Nothing ELSE seal
    /\ Enter(c, "withdraw", r, Nothing)
    /\ UNCHANGED <<task, head, impls, objective, entered, verified, reviews, turn, routes,
                   items>>

WithdrawReview(c) ==
    /\ In(c, "withdraw") /\ Withdraw({at[c].id})
    /\ Finish(c)
    /\ UNCHANGED <<task, head, seal, impls, objective, entered, verified, routes, items>>

(* The Worker's commits. *)
Commit(s) ==
    /\ head # Nothing => s > head
    /\ head' = s
    /\ UNCHANGED <<task, seal, impls, objective, entered, verified, reviews, turn, routes,
                   items, at>>

Dispatch(c) ==
    \/ \E i \in Impls, parent \in Reviews \cup {Nothing} :
          (c \in Repairers => parent # Nothing) /\ BeginImplementation(c, i, parent)
    \/ ClaimRoute(c) \/ StartTurn(c) \/ InsertImplementation(c) \/ StartObjective(c)

Review(c) ==
    \/ \E i \in Impls : SealCandidate(c, i)
    \/ CompleteImplementation(c) \/ RecordCandidate(c) \/ CompleteObjective(c) \/ EnterDiffReview(c)
    \/ \E k \in Checks : BeginVerification(c, k)
    \/ RecordVerification(c)
    \/ \E r \in Reviews : \/ \E i \in Impls, round \in Rounds : DispatchReview(c, r, i, round)
                          \/ \E outcome \in Outcomes : CompleteReview(c, r, outcome)
                          \/ FindStale(c, r)
    \/ StartTurn(c) \/ InsertReview(c)
    \/ RecordFindings(c) \/ RecordPass(c) \/ AcceptPass(c) \/ WithdrawReview(c)
    \/ \E s \in Commits : LoseCandidate(c, s)

ReviewNext ==
    \/ \E c \in Callers : Dispatch(c) \/ Raise(c) \/ Crash(c)
    \/ \E c \in Callers \ Repairers : Review(c)
    \/ \E i \in Impls : RejectWorkerOutput(i) \/ RecoverWorker(i) \/ CancelObjective(i)
    \/ \E r \in Reviews : RecoverReview(r)
    \/ \E s \in Commits : Commit(s)

ReviewSpec == ReviewInit /\ [][ReviewNext]_reviewVars

(***************************************************************************)
(* Properties.                                                             *)
(***************************************************************************)
(* An accepted review is a recorded PASS of the candidate its Worker
   delivered, on exactly the verification results that candidate has, the
   only one of its round, accepted at the provider's ledger too, with all
   its follow-ups put to the owner, whatever results, other reviews and
   withdrawals came between _require_live_diff_review and _accept_diff_pass. *)
AcceptanceIsCurrent ==
    /\ \A r \in Reviews :
          turn[r] = "accepted" <=> reviews[r] # Nothing /\ reviews[r].state = "accepted"
    /\ \A r \in Reviews : turn[r] = "accepted" =>
          /\ reviews[r].outcome # Nothing /\ reviews[r].outcome.verdict = "pass"
          /\ reviews[r].snapshot = verified[reviews[r].candidate] /\ Complete(reviews[r].snapshot)
          /\ CandidateOf(reviews[r].impl) = reviews[r].candidate
          /\ AcceptedIn(reviews[r].round) = {r}
          /\ ItemsOf(r, "follow-up", reviews[r].outcome.points) \subseteq items

(* FINDINGS are never half there, and a repair answers one route: artifact,
   route and items of a review exist together, a route is consumed exactly
   by the implementation that names it as its parent, and only a route
   nobody consumed can be claimed (record_diff_review, _claim_repair_parent
   and _consume_repair_parent under concurrent callers and crashes). *)
FindingsAreWhole ==
    /\ \A r \in Reviews : routes[r] # Nothing <=>
          /\ reviews[r] # Nothing /\ reviews[r].outcome # Nothing
          /\ reviews[r].outcome.verdict = "findings"
    /\ \A r \in Reviews : routes[r] # Nothing =>
          /\ ItemsOf(r, "finding", reviews[r].outcome.points) \subseteq items
          /\ routes[r].consumed # Nothing =>
                impls[routes[r].consumed].parent = r /\ routes[r].claim = Nothing
    /\ \A i \in Impls : impls[i] # Nothing /\ impls[i].parent # Nothing =>
          routes[impls[i].parent] # Nothing /\ routes[impls[i].parent].consumed = i

(* The objective, the turn and the task move together whatever recovery does
   between them: an objective is completed only with a recorded candidate
   that is the output of its turn, and recovery may doubt that output but
   not void it; a candidate enters review only behind its completed
   objective; and an active objective is about a turn whose end is open: it
   runs, its rejected output awaits recovery, or its output is consumed or
   awaits verification, while a turn given up without output leaves none
   (record_implementation_candidate, recover_attempt and
   _cancel_objective_for_recovery_connection). *)
ObjectivesAgree ==
    /\ \A i \in Impls : objective[i] = "completed" =>
          /\ impls[i].candidate # Nothing /\ impls[i].output = impls[i].candidate
          /\ turn[i] \in {"completed", "ambiguous"}
    /\ \A i \in entered : objective[i] = "completed"
    /\ \A i \in Impls : objective[i] = "active" =>
          \/ turn[i] \in {"dispatched", "rejected"}
          \/ turn[i] \in {"completed", "ambiguous"} /\ HasOutput(i)
    /\ task = "diff-review" => entered # {}
=============================================================================
