---------------------------- MODULE ReviewRunner ----------------------------
(***************************************************************************)
(* Runner processes that execute one bounded diff-review sequence          *)
(* (DurableDiffReviewRunner in provider_attempt_runtime.py).  The entries  *)
(* of the sequence are tried in order: the initial attempt, corrections of *)
(* malformed output by the same profile, and fallbacks to the next profile *)
(* after a transient failure.  An entry's provider effect is paid for in a *)
(* budget ledger that is a database of its own, so that a crash can fall   *)
(* between the two: a fallback is fenced by its recovery route and a       *)
(* correction by a reservation intent, both in the product ledger.         *)
(*                                                                         *)
(* A transaction is one action.  What a runner remembers between its       *)
(* transactions is in run[p] and dies with it.  An operation that raises   *)
(* and undoes nothing takes the runner back to "idle"; so does a crash.    *)
(***************************************************************************)
EXTENDS Naturals, Sequences, FiniteSets

CONSTANTS
    Runners,      \* processes that may execute the sequence
    Kinds,        \* the kinds of its entries, "initial" first
    MaxCrashes,   \* bounds: crashes,
    MaxStops,     \* decisions that stop the Supervisor scope,
    MaxReleases   \* releases of the transition lease

ASSUME RunnerAssumption ==
    /\ Kinds \in Seq({"initial", "format", "fallback"})
    /\ Len(Kinds) > 0
    /\ \A e \in 1..Len(Kinds) : Kinds[e] = "initial" <=> e = 1
    /\ {MaxCrashes, MaxStops, MaxReleases} \subseteq Nat

Entries == 1..Len(Kinds)

VARIABLES
    attempts,   \* provider_attempts with provider_dispatch_claims, per entry
    route,      \* recovery_route_authorizations of the entry
    intent,     \* provider_effect_reservation_intents of the entry
    debit,      \* role_budget_usage of the entry (the other database)
    stopped,    \* whether a stop of the Supervisor scope is uncleared
    current,    \* the runners whose transition lease is the stored one
    run,        \* where each runner is, and what it remembers
    effects,    \* (history) native provider effects per entry
    crashes, stops, releases    \* (history) for the bounds

ledgers == <<attempts, route, intent, debit>>
counts == <<crashes, stops, releases>>
vars == <<ledgers, stopped, current, run, effects, counts>>

Steps == {"idle", "authorize", "enter", "begin", "reconcile", "abandon", "rebegin",
          "reserve", "prepare", "unwind", "release", "commit", "claim", "dispatch",
          "observe"}

\* What the rows of an attempt say together: _require_exact_persisted_attempt refuses any
\* other combination of its state, claim, session, turn and evidence.
AttemptStates == {"absent", "prepared", "claimed", "accepted", "failed", "malformed",
                  "blocked"}

\* The locals of _execute_selection: existing_prepared, route_reserved,
\* reservation_intent_created, and whether it holds an effect reservation to refund.
Locals(step, pos) ==
    [step |-> step, pos |-> pos, existing |-> FALSE, acquired |-> FALSE,
     created |-> FALSE, refund |-> FALSE]

Idle == Locals("idle", 1)

Init ==
    /\ attempts = [e \in Entries |-> "absent"]
    /\ route = [e \in Entries |-> "none"]
    /\ intent = [e \in Entries |-> FALSE]
    /\ debit = [e \in Entries |-> FALSE]
    /\ stopped = FALSE
    /\ current = {}
    /\ run = [p \in Runners |-> Idle]
    /\ effects = [e \in Entries |-> 0]
    /\ crashes = 0 /\ stops = 0 /\ releases = 0

At(p, step) == run[p].step = step
Pos(p) == run[p].pos
Kind(p) == Kinds[Pos(p)]

GoTo(p, step) == run' = [run EXCEPT ![p].step = step]
Raise(p) == run' = [run EXCEPT ![p] = Idle]

\* Whether the next entry may follow this terminal state (execute, at the end of its
\* loop and at the start of the next iteration).
Follows(e, state) ==
    /\ e + 1 \in Entries
    /\ state = IF Kinds[e + 1] = "format" THEN "malformed" ELSE "failed"

Advance(p, state) ==
    IF Follows(Pos(p), state)
    THEN run' = [run EXCEPT ![p] = Locals("authorize", Pos(p) + 1)]
    ELSE Raise(p)

-----------------------------------------------------------------------------
\* execute: preflight and materialize_prepared_snapshot.
Start(p) ==
    /\ At(p, "idle")
    /\ p \in current
    /\ \/ /\ attempts[1] \in {"absent", "prepared"}
          /\ ~stopped
          /\ attempts' = [attempts EXCEPT ![1] = "prepared"]
       \/ /\ attempts[1] \notin {"absent", "prepared", "claimed"}
          /\ UNCHANGED attempts
    /\ run' = [run EXCEPT ![p] = Locals("enter", 1)]
    /\ UNCHANGED <<route, intent, debit, stopped, current, effects, counts>>

\* _require_format_correction_predecessor and _authorize_terminal_successor: the
\* predecessor has the right terminal state and still its debit.
Authorized(e) ==
    /\ attempts[e - 1] = IF Kinds[e] = "format" THEN "malformed" ELSE "failed"
    /\ debit[e - 1]

\* The authorization of a successor; a fallback's route is issued, once.
Authorize(p) ==
    /\ At(p, "authorize")
    /\ IF Authorized(Pos(p)) THEN GoTo(p, "enter") ELSE Raise(p)
    /\ route' = IF /\ Authorized(Pos(p))
                   /\ Kind(p) = "fallback"
                   /\ route[Pos(p)] = "none"
                THEN [route EXCEPT ![Pos(p)] = "issued"]
                ELSE route
    /\ UNCHANGED <<attempts, intent, debit, stopped, current, effects, counts>>

\* _classify_prepared_attempt: what a prepared entry must have to be resumed.
Resumable(e) ==
    CASE Kinds[e] = "initial" -> TRUE
      [] Kinds[e] = "format" -> Authorized(e) /\ debit[e]
      [] Kinds[e] = "fallback" ->
            Authorized(e) /\ route[e] \in {"reserving", "consumed"} /\ debit[e]

\* _execute_selection up to its first write.
Enter(p) ==
    LET e == Pos(p)
    IN /\ At(p, "enter")
       /\ \/ (stopped \/ p \notin current) /\ Raise(p)
          \/ /\ ~stopped /\ p \in current
             /\ \/ attempts[e] = "absent" /\ GoTo(p, "begin")
                \/ /\ attempts[e] = "prepared" /\ Resumable(e)
                   /\ run' = [run EXCEPT ![p].existing = TRUE,
                                         ![p].step = IF debit[e] THEN "prepare" ELSE "reserve"]
                \/ attempts[e] = "prepared" /\ ~Resumable(e) /\ Raise(p)
                \/ attempts[e] \in {"failed", "malformed"} /\ Advance(p, attempts[e])
                \/ attempts[e] \in {"accepted", "claimed", "blocked"} /\ Raise(p)
       /\ UNCHANGED <<ledgers, stopped, current, effects, counts>>

\* begin_provider_effect_reservation_intent.
BeginIntent(p) ==
    LET e == Pos(p)
    IN /\ At(p, "begin") /\ Kind(p) # "fallback"
       /\ IF stopped \/ attempts[e] \notin {"absent", "prepared"}
          THEN Raise(p) /\ UNCHANGED intent
          ELSE /\ run' = [run EXCEPT ![p].created = ~intent[e], ![p].step = "reserve"]
               /\ intent' = [intent EXCEPT ![e] = TRUE]
       /\ UNCHANGED <<attempts, route, debit, stopped, current, effects, counts>>

\* Mutant: an interrupted fence counts as admitted instead of being reconciled.
BeginIssuedRoute(p) ==
    LET e == Pos(p)
    IN /\ (At(p, "begin") /\ Kind(p) = "fallback") \/ At(p, "rebegin")
       /\ IF ~stopped /\ route[e] = "issued"
          THEN /\ route' = [route EXCEPT ![e] = "reserving"]
               /\ run' = [run EXCEPT ![p].acquired = TRUE, ![p].step = "reserve"]
          ELSE Raise(p) /\ UNCHANGED route
       /\ UNCHANGED <<attempts, intent, debit, stopped, current, effects, counts>>

\* begin_durable_recovery_route_reservation: the first call of an entry reconciles a
\* fence it finds, the call after the reconciliation accepts it.
BeginRoute(p) ==
    LET e == Pos(p)
    IN /\ (At(p, "begin") /\ Kind(p) = "fallback") \/ At(p, "rebegin")
       /\ \/ /\ ~stopped /\ route[e] = "issued"
             /\ route' = [route EXCEPT ![e] = "reserving"]
             /\ run' = [run EXCEPT ![p].acquired = TRUE, ![p].step = "reserve"]
          \/ /\ ~stopped /\ route[e] = "reserving"
             /\ GoTo(p, IF At(p, "begin") THEN "reconcile" ELSE "reserve")
             /\ UNCHANGED route
          \/ /\ stopped \/ route[e] = "consumed"
             /\ Raise(p)
             /\ UNCHANGED route
       /\ UNCHANGED <<attempts, intent, debit, stopped, current, effects, counts>>

\* recover_role_effect_reservation of a fence that was found: is there a debit?
Reconcile(p) ==
    /\ At(p, "reconcile")
    /\ run' = [run EXCEPT ![p].refund = debit[Pos(p)], ![p].step = "abandon"]
    /\ UNCHANGED <<ledgers, stopped, current, effects, counts>>

\* What abandon_durable_recovery_route_reservation requires before it refunds:
\* the fence is still there and no successor was admitted.
MayAbandon(e) == route[e] = "reserving" /\ attempts[e] = "absent"

\* Its commit, with the refund of the reservation it was given.
Reissue(p) ==
    /\ route' = [route EXCEPT ![Pos(p)] = "issued"]
    /\ debit' = IF run[p].refund THEN [debit EXCEPT ![Pos(p)] = FALSE] ELSE debit

\* abandon_durable_recovery_route_reservation from the reconciliation.  When the refund
\* is refused the caller abandons again, without a refund.
Abandon(p) ==
    LET e == Pos(p)
    IN /\ At(p, "abandon")
       /\ \/ /\ MayAbandon(e) /\ (run[p].refund => debit[e])
             /\ Reissue(p)
             /\ GoTo(p, "rebegin")
          \/ /\ MayAbandon(e) /\ run[p].refund /\ ~debit[e]
             /\ run' = [run EXCEPT ![p].refund = FALSE]
             /\ UNCHANGED <<route, debit>>
          \/ /\ ~MayAbandon(e)
             /\ Raise(p)
             /\ UNCHANGED <<route, debit>>
       /\ UNCHANGED <<attempts, intent, stopped, current, effects, counts>>

\* Mutant: an intent that was found counts as its debit.
ReserveFound(p) ==
    LET e == Pos(p)
    IN /\ At(p, "reserve")
       /\ IF stopped \/ (debit[e] /\ Kind(p) = "fallback")
          THEN Raise(p) /\ UNCHANGED debit
          ELSE /\ debit' = [debit EXCEPT ![e] = @ \/ run[p].created \/ Kind(p) # "format"]
               /\ run' = [run EXCEPT ![p].refund = TRUE, ![p].step = "prepare"]
       /\ UNCHANGED <<attempts, route, intent, stopped, current, effects, counts>>

\* admit_scope_effect_reservation with reserve_exact_effect.  The debit is the whole
\* budget of its execution binding: a second one exceeds it, and only a caller that found
\* the intent, or the prepared attempt, may take the first one for its own.
Reserve(p) ==
    LET e == Pos(p)
        recovers == Kind(p) # "fallback" /\ ~run[p].created
    IN /\ At(p, "reserve")
       /\ \/ /\ ~stopped /\ (debit[e] => recovers)
             /\ debit' = [debit EXCEPT ![e] = TRUE]
             /\ run' = [run EXCEPT ![p].refund = TRUE, ![p].step = "prepare"]
          \/ /\ ~stopped /\ debit[e] /\ ~recovers
             /\ IF run[p].acquired
                THEN run' = [run EXCEPT ![p].refund = FALSE, ![p].step = "unwind"]
                ELSE Raise(p)
             /\ UNCHANGED debit
          \/ stopped /\ Raise(p) /\ UNCHANGED debit
       /\ UNCHANGED <<attempts, route, intent, stopped, current, effects, counts>>

\* prepare_attempt, and where its failure leads.
Prepare(p) ==
    LET e == Pos(p)
    IN /\ At(p, "prepare")
       /\ \/ /\ p \in current /\ ~stopped /\ attempts[e] \in {"absent", "prepared"}
             /\ attempts' = [attempts EXCEPT ![e] = "prepared"]
             /\ GoTo(p, "commit")
          \/ /\ p \notin current \/ stopped \/ attempts[e] \notin {"absent", "prepared"}
             /\ IF run[p].acquired THEN GoTo(p, "unwind")
                ELSE IF ~run[p].existing THEN GoTo(p, "release")
                ELSE Raise(p)
             /\ UNCHANGED attempts
       /\ UNCHANGED <<route, intent, debit, stopped, current, effects, counts>>

\* abandon_durable_recovery_route_reservation after a failure; what it raises is dropped.
Unwind(p) ==
    /\ At(p, "unwind")
    /\ IF MayAbandon(Pos(p)) /\ (run[p].refund => debit[Pos(p)])
       THEN Reissue(p)
       ELSE UNCHANGED <<route, debit>>
    /\ Raise(p)
    /\ UNCHANGED <<attempts, intent, stopped, current, effects, counts>>

\* What release_unused_provider_effect_reservation requires: the intent, the debit and
\* no durable successor.
MayRelease(e) == intent[e] /\ debit[e] /\ attempts[e] = "absent"

\* Mutant: the intent is deleted without the refund.
ReleaseIntent(p) ==
    LET e == Pos(p)
    IN /\ At(p, "release")
       /\ intent' = IF MayRelease(e) THEN [intent EXCEPT ![e] = FALSE] ELSE intent
       /\ Raise(p)
       /\ UNCHANGED <<attempts, route, debit, stopped, current, effects, counts>>

\* release_unused_provider_effect_reservation, after a preparation that failed.
Release(p) ==
    LET e == Pos(p)
    IN /\ At(p, "release")
       /\ IF MayRelease(e)
          THEN /\ intent' = [intent EXCEPT ![e] = FALSE]
               /\ debit' = [debit EXCEPT ![e] = FALSE]
          ELSE UNCHANGED <<intent, debit>>
       /\ Raise(p)
       /\ UNCHANGED <<attempts, route, stopped, current, effects, counts>>

\* commit_provider_effect_reservation_intent or commit_durable_recovery_route_reservation,
\* with the accounting snapshot beside it: the attempt is prepared and unclaimed.
Commit(p) ==
    LET e == Pos(p)
    IN /\ At(p, "commit")
       /\ IF attempts[e] # "prepared" \/ (Kind(p) = "fallback" /\ route[e] = "issued")
          THEN Raise(p) /\ UNCHANGED <<intent, route>>
          ELSE /\ GoTo(p, "claim")
               /\ IF Kind(p) = "fallback"
                  THEN route' = [route EXCEPT ![e] = "consumed"] /\ UNCHANGED intent
                  ELSE intent' = [intent EXCEPT ![e] = FALSE] /\ UNCHANGED route
       /\ UNCHANGED <<attempts, debit, stopped, current, effects, counts>>

\* claim_supervisor_dispatch.
Claim(p) ==
    LET e == Pos(p)
    IN /\ At(p, "claim")
       /\ IF p \in current /\ ~stopped /\ attempts[e] = "prepared"
          THEN attempts' = [attempts EXCEPT ![e] = "claimed"] /\ GoTo(p, "dispatch")
          ELSE Raise(p) /\ UNCHANGED attempts
       /\ UNCHANGED <<route, intent, debit, stopped, current, effects, counts>>

\* Mutant: the debit is not read again before the effect.
DispatchUnpaid(p) ==
    LET e == Pos(p)
    IN /\ At(p, "dispatch")
       /\ IF stopped
          THEN Raise(p) /\ UNCHANGED effects
          ELSE effects' = [effects EXCEPT ![e] = @ + 1] /\ GoTo(p, "observe")
       /\ UNCHANGED <<ledgers, stopped, current, counts>>

\* CodexSupervisorAdapter.dispatch up to the native session: the debit is read again, then
\* the scope.  A stopped scope is recorded against the attempt.
Dispatch(p) ==
    LET e == Pos(p)
    IN /\ At(p, "dispatch")
       /\ \/ /\ debit[e] /\ ~stopped
             /\ effects' = [effects EXCEPT ![e] = @ + 1]
             /\ GoTo(p, "observe")
             /\ UNCHANGED attempts
          \/ /\ debit[e] /\ stopped /\ p \in current
             /\ attempts' = [attempts EXCEPT ![e] = "blocked"]
             /\ Raise(p)
             /\ UNCHANGED effects
          \/ /\ ~debit[e] \/ (stopped /\ p \notin current)
             /\ Raise(p)
             /\ UNCHANGED <<attempts, effects>>
       /\ UNCHANGED <<route, intent, debit, stopped, current, counts>>

\* The rest of the dispatch: the observed outcome is recorded under the lease.  "blocked"
\* is every state a restart refuses: ambiguous, blocked, or recorded only in part.
Observe(p, result) ==
    /\ At(p, "observe")
    /\ p \in current
    /\ attempts' = [attempts EXCEPT ![Pos(p)] = result]
    /\ Advance(p, result)
    /\ UNCHANGED <<route, intent, debit, stopped, current, effects, counts>>

\* A native security denial also stops the scope.
ObserveDenial(p) ==
    /\ At(p, "observe")
    /\ p \in current
    /\ stops < MaxStops
    /\ attempts' = [attempts EXCEPT ![Pos(p)] = "blocked"]
    /\ stopped' = TRUE
    /\ stops' = stops + 1
    /\ Raise(p)
    /\ UNCHANGED <<route, intent, debit, current, effects, crashes, releases>>

\* A checkpoint or an outcome that cannot be recorded.
ObserveNothing(p) ==
    /\ At(p, "observe")
    /\ Raise(p)
    /\ UNCHANGED <<ledgers, stopped, current, effects, counts>>

-----------------------------------------------------------------------------
\* A process dies; what it remembered is lost.
Crash(p) ==
    /\ ~At(p, "idle")
    /\ crashes < MaxCrashes
    /\ crashes' = crashes + 1
    /\ Raise(p)
    /\ UNCHANGED <<ledgers, stopped, current, effects, stops, releases>>

\* A process dies inside an abandonment or a release: the refund has committed in the
\* budget database, the product transaction around it has not.
CrashInRefund(p) ==
    LET e == Pos(p)
    IN /\ \/ At(p, "abandon") /\ MayAbandon(e) /\ run[p].refund
          \/ At(p, "unwind") /\ MayAbandon(e) /\ run[p].refund
          \/ At(p, "release") /\ MayRelease(e)
       /\ debit[e]
       /\ crashes < MaxCrashes
       /\ crashes' = crashes + 1
       /\ debit' = [debit EXCEPT ![e] = FALSE]
       /\ Raise(p)
       /\ UNCHANGED <<attempts, route, intent, stopped, current, effects, stops, releases>>

\* The surroundings: the lease (FencedLease has its protocol; a holder of the same owner
\* token shares it) and decisions about the scope.
AcquireLease(p) ==
    /\ p \notin current
    /\ current' = current \cup {p}
    /\ UNCHANGED <<ledgers, stopped, run, effects, counts>>

ReleaseLease ==
    /\ current # {}
    /\ releases < MaxReleases
    /\ current' = {}
    /\ releases' = releases + 1
    /\ UNCHANGED <<ledgers, stopped, run, effects, crashes, stops>>

StopScope ==
    /\ ~stopped
    /\ stops < MaxStops
    /\ stopped' = TRUE
    /\ stops' = stops + 1
    /\ UNCHANGED <<ledgers, current, run, effects, crashes, releases>>

ClearScope ==
    /\ stopped
    /\ stopped' = FALSE
    /\ UNCHANGED <<ledgers, current, run, effects, counts>>

Step(p) ==
    \/ Authorize(p) \/ Enter(p)
    \/ BeginIntent(p) \/ BeginRoute(p)
    \/ Reconcile(p) \/ Abandon(p)
    \/ Reserve(p) \/ Prepare(p) \/ Unwind(p) \/ Release(p)
    \/ Commit(p) \/ Claim(p) \/ Dispatch(p)
    \/ \E result \in {"accepted", "failed", "malformed", "blocked"} : Observe(p, result)
    \/ ObserveDenial(p) \/ ObserveNothing(p)

Next ==
    \/ \E p \in Runners :
          Start(p) \/ Step(p) \/ Crash(p) \/ CrashInRefund(p) \/ AcquireLease(p)
    \/ ReleaseLease \/ StopScope \/ ClearScope

Spec == Init /\ [][Next]_vars

-----------------------------------------------------------------------------
\* The types of the variables.
RunnerTypeOK ==
    /\ attempts \in [Entries -> AttemptStates]
    /\ route \in [Entries -> {"none", "issued", "reserving", "consumed"}]
    /\ intent \in [Entries -> BOOLEAN]
    /\ debit \in [Entries -> BOOLEAN]
    /\ stopped \in BOOLEAN
    /\ current \subseteq Runners
    /\ run \in [Runners -> [step : Steps, pos : Entries, existing : BOOLEAN,
                            acquired : BOOLEAN, created : BOOLEAN, refund : BOOLEAN]]
    /\ effects \in [Entries -> Nat]
    /\ {crashes, stops, releases} \subseteq Nat

\* An attempt has at most one native effect, whatever runners, restarts and lost outcomes
\* there are: the dispatch claim makes a prepared attempt one-shot.
OneEffectPerAttempt == \A e \in Entries : effects[e] <= 1

\* The debit of an attempt whose effect happened is never refunded, by no runner that
\* still believes it holds an unused reservation.
EffectsArePaid == \A e \in Entries : effects[e] > 0 => debit[e]

\* A successor exists only after all its predecessors have a durable outcome that allows
\* one, and that outcome is not reopened: at most one entry is open to the provider, also
\* when another runner is already ahead.
SuccessorsWait ==
    \A d, e \in Entries :
       d < e /\ attempts[e] # "absent" => attempts[d] \in {"failed", "malformed"}

\* Once a successor exists its route is not made spendable again by any reconciliation.
SpentRouteStaysSpent ==
    [][\A e \in Entries :
          attempts[e] # "absent" /\ route[e] \in {"reserving", "consumed"}
             => route'[e] # "issued"]_vars

\* With one runner: a debit always has an owner in the product ledger (the attempt, the
\* intent or the fence), so that no crash between the two databases loses budget.
DebitsAreOwned ==
    \A e \in Entries :
       debit[e] => attempts[e] # "absent" \/ intent[e] \/ route[e] = "reserving"

\* With one runner: a prepared correction or fallback is resumable after every crash; it
\* has its debit, and a fallback its fence.
PreparedIsResumable ==
    \A e \in Entries :
       attempts[e] = "prepared" /\ Kinds[e] # "initial" => Resumable(e)

\* The sequence has come to an end: accepted, or an attempt that may not be repeated, or
\* no entry may follow.
Ended ==
    \E e \in Entries :
       \/ attempts[e] \in {"accepted", "blocked", "claimed"}
       \/ attempts[e] \in {"failed", "malformed"} /\ ~Follows(e, attempts[e])

\* With one runner that is restarted: unless the scope stays stopped, no crash and no
\* failure before the claim leaves a fence, an intent or a debit behind that keeps the
\* sequence from ending.
RestartsFinish == <>[]~stopped => <>[]Ended
=============================================================================
