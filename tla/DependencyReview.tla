-------------------------- MODULE DependencyReview --------------------------
(***************************************************************************)
(* Dependency review and the dependency graph (dependency_review.py,       *)
(* codex_dependency_review.py, dependency_graph.py).  A host reviews the   *)
(* affected members of one task in one native session: it debits the role, *)
(* prepares an attempt row, claims the dispatch, opens the session, starts *)
(* the turn and records its outcome, each in a transaction of its own.  An *)
(* accepted proposal is activated into the one current graph, which is     *)
(* verified again, version by version, whenever it is read.                *)
(***************************************************************************)
EXTENDS Naturals, FiniteSets

CONSTANTS DepHosts,       \* processes that run DependencyReviewService
          DepTasks, DepAttempts,
          DepCandidates,  \* sealed candidates, with the configuration they bind
          MembersOf,      \* the affected members of a task's subset
          Proposals,      \* proposal contents: pairs, disposition, trusted
          MaxMoves,       \* bound: re-seals, and stops of a scope
          Nil

Terminal == {"accepted", "invalid", "blocked"}
Kinds == {"proposal", "malformed-response", "uncertain-provider-turn", "provider-blocked",
          "transient", "failed"}

(* dependency_review_attempts and its outcome; dependency_review_dispatch_claims *)
AttemptRows ==
    [task : DepTasks, candidate : DepCandidates, after : DepAttempts \cup {Nil},
     state : Terminal \cup {"prepared"},
     reason : Kinds \cup {"scope-stopped", "proposal-rejected", Nil},
     proposal : Proposals \cup {Nil}]
ClaimRows == [state : {"pre-dispatch", "session", "turn"}, session : DepHosts \cup {Nil}]

(* A pair has two members; Nil is no attempt, no row and no state. *)
ASSUME DepAssumption ==
    /\ \A p \in Proposals : \A q \in p.pairs : q = <<q[1], q[2]>>
    /\ Nil \notin DepAttempts \cup Terminal \cup {"prepared"}
    /\ Nil \notin AttemptRows /\ Nil \notin ClaimRows

VARIABLES seal,      \* candidate_seals and runtime_configuration_bindings
          halted,    \* tasks whose dependency-review scope is stopped
          moves,
          attempt,   \* dependency_review_attempts with outcome and successor claim
          claim,     \* dependency_review_dispatch_claims and its admission row
          debited,   \* attempts whose role budget is debited
          opened,    \* native sessions opened for an attempt
          host,      \* the run of a process: attempt, step, what it saw and holds
          decision,  \* dependency_graph_decisions
          version,   \* dependency_graph_versions with their members and edges
          current    \* dependency_graph_current

depVars == <<seal, halted, moves, attempt, claim, debited, opened, host, decision, version,
             current>>
graphRows == <<decision, version, current>>
outside == <<seal, halted, moves>>

DepInit ==
    /\ \E c \in DepCandidates : seal = [t \in DepTasks |-> c]
    /\ halted = {} /\ moves = 0
    /\ attempt = [a \in DepAttempts |-> Nil]
    /\ claim = [a \in DepAttempts |-> Nil]
    /\ debited = {}
    /\ opened = [a \in DepAttempts |-> 0]
    /\ host = [h \in DepHosts |-> Nil]
    /\ decision = [a \in DepAttempts |-> Nil]
    /\ version = [a \in DepAttempts |-> Nil]
    /\ current = Nil

(***************************************************************************)
(* What the rows say.                                                      *)
(***************************************************************************)
Rows(t) == {a \in DepAttempts : attempt[a] # Nil /\ attempt[a].task = t}
Successors(a) == {b \in DepAttempts : attempt[b] # Nil /\ attempt[b].after = a}
State(a) == IF attempt[a] = Nil THEN Nil ELSE attempt[a].state

(* AffectedSubset *)
AffectedSubset(t) == MembersOf[t]

(* _require_current_authority *)
AuthorityCurrent(a) == attempt[a].candidate = seal[attempt[a].task]
ScopeOpen(t) == t \notin halted

(* _bind_accepted_result_dispatch, _require_accepted_result_dispatch: a result is that of
   the turn the claim names. *)
TurnClaimed(a) == claim[a] # Nil /\ claim[a].state = "turn"

(* _require_authenticated_dispatch with require_turn *)
Authenticated(a) == AuthorityCurrent(a) /\ TurnClaimed(a)

Outcome(a, state, reason) == [attempt EXCEPT ![a].state = state, ![a].reason = reason]

(***************************************************************************)
(* The task around the review: its seal moves, its scope stops and opens.  *)
(***************************************************************************)
Reseal(t) ==
    /\ moves < MaxMoves
    /\ moves' = moves + 1
    /\ \E c \in DepCandidates \ {seal[t]} : seal' = [seal EXCEPT ![t] = c]
    /\ UNCHANGED <<halted, attempt, claim, debited, opened, host, graphRows>>

StopScope(t) ==
    /\ moves < MaxMoves
    /\ moves' = moves + 1
    /\ halted' = halted \cup {t}
    /\ UNCHANGED <<seal, attempt, claim, debited, opened, host, graphRows>>

OpenScope(t) ==
    /\ halted' = halted \ {t}
    /\ t \in halted
    /\ UNCHANGED <<seal, moves, attempt, claim, debited, opened, host, graphRows>>

(***************************************************************************)
(* DependencyReviewService.run up to the prepared attempt.                 *)
(***************************************************************************)
(* _successor_recovery_route: only a turn the SDK failed (sdk-turn-failed) with a failure
   recorded as transient is retried; an unknown turn, a stop, an accepted and an invalid
   review are not. *)
RecoveryEligible(p, t) ==
    /\ State(p) = "blocked" /\ attempt[p].task = t
    /\ attempt[p].reason = "transient"
    /\ AuthorityCurrent(p)

SameIdentity(a, t, p) ==
    /\ attempt[a].task = t /\ attempt[a].candidate = seal[t] /\ attempt[a].after = p

(* recover_dispatch_claim *)
InFlight(a) == State(a) = "prepared" /\ claim[a] # Nil

(* reserve_exact_effect: a prepared attempt must find its debit; any other run debits, or
   finds what a run that stopped here left. *)
Reservable(a) == State(a) = "prepared" => a \in debited

(* DependencyReviewHostInputs, and what run keeps of them *)
HostInputs(a, t, p) ==
    [attempt |-> a, task |-> t, after |-> p, candidate |-> seal[t], at |-> "reserved",
     prepared |-> State(a) = "prepared", result |-> Nil]

(* The checks of run and the reservation under the scope's admission.  A refusal at any of these steps leaves nothing more than a process that stops there. *)
Begin(h, t, a, p) ==
    /\ host[h] = Nil
    /\ ScopeOpen(t)
    /\ a # p
    /\ attempt[a] # Nil => SameIdentity(a, t, p)
    /\ ~InFlight(a)
    /\ p # Nil => RecoveryEligible(p, t)
    /\ Reservable(a)
    /\ debited' = debited \cup {a}
    /\ host' = [host EXCEPT ![h] = HostInputs(a, t, p)]
    /\ UNCHANGED <<outside, attempt, claim, opened, graphRows>>

(* A restarted run ends an attempt that was claimed and never finished. *)
RecoverInFlight(h, a) ==
    /\ host[h] = Nil
    /\ InFlight(a)
    /\ ScopeOpen(attempt[a].task) /\ AuthorityCurrent(a)
    /\ attempt' = Outcome(a, "blocked", "uncertain-provider-turn")
    /\ UNCHANGED <<outside, claim, debited, opened, host, graphRows>>

At(h, step) == host[h] # Nil /\ host[h].at = step
Goto(h, step) == host' = [host EXCEPT ![h].at = step]
Leave(h) == host' = [host EXCEPT ![h] = Nil]

(* start_attempt, on a ledger whose lineage of the task is one chain *)
MayStart(h) ==
    LET a == host[h].attempt  t == host[h].task  p == host[h].after IN
    /\ ScopeOpen(t)
    /\ \A b \in Rows(t) \ {a} : State(b) # "prepared"
    /\ IF attempt[a] # Nil
          THEN /\ attempt[a].task = t /\ attempt[a].candidate = host[h].candidate
               /\ attempt[a].after = p /\ State(a) = "prepared"
          ELSE IF p = Nil THEN Rows(t) = {}
                          ELSE State(p) \in Terminal /\ Successors(p) \subseteq {a}

(* DependencyReviewAttempt *)
PreparedAttempt(h) ==
    [task |-> host[h].task, candidate |-> host[h].candidate, after |-> host[h].after,
     state |-> "prepared", reason |-> Nil, proposal |-> Nil]

StartAttempt(h) ==
    /\ At(h, "reserved")
    /\ MayStart(h)
    /\ attempt' = [attempt EXCEPT ![host[h].attempt] = PreparedAttempt(h)]
    /\ Goto(h, "prepared")
    /\ UNCHANGED <<outside, claim, debited, opened, graphRows>>

(* A refused start returns the debit unless some attempt owns it. *)
StartRefused(h) ==
    /\ At(h, "reserved")
    /\ ~MayStart(h)
    /\ debited' = IF host[h].prepared \/ attempt[host[h].attempt] # Nil
                     THEN debited ELSE debited \ {host[h].attempt}
    /\ Leave(h)
    /\ UNCHANGED <<outside, attempt, claim, opened, graphRows>>

\* Mutant: the claim overwrites one that exists.
MayClaimAgain(a) == State(a) = "prepared" /\ ScopeOpen(attempt[a].task)

(* claim_pre_dispatch *)
MayClaim(a) == State(a) = "prepared" /\ ScopeOpen(attempt[a].task) /\ claim[a] = Nil

DispatchClaim(state, session) == [state |-> state, session |-> session]

(* recover_dispatch_claim again, on the prepared attempt another process may have claimed
   meanwhile; then the one-shot claim before the native session. *)
ClaimPreDispatch(h) ==
    LET a == host[h].attempt IN
    /\ At(h, "prepared")
    /\ AuthorityCurrent(a)
    /\ IF MayClaim(a)
          THEN /\ claim' = [claim EXCEPT ![a] = DispatchClaim("pre-dispatch", Nil)]
               /\ Goto(h, "claimed")
               /\ UNCHANGED attempt
          ELSE /\ Leave(h)
               /\ attempt' = IF InFlight(a) THEN Outcome(a, "blocked", "uncertain-provider-turn")
                                            ELSE attempt
               /\ UNCHANGED claim
    /\ UNCHANGED <<outside, debited, opened, graphRows>>

(* Every admit() of the dispatch reads the debit and the scope. *)
Admitted(h) == host[h].attempt \in debited /\ ScopeOpen(host[h].task)

OpenSession(h) ==
    /\ At(h, "claimed") /\ Admitted(h)
    /\ opened' = [opened EXCEPT ![host[h].attempt] = @ + 1]
    /\ Goto(h, "open")
    /\ UNCHANGED <<outside, attempt, claim, debited, graphRows>>

ClaimSession(h) ==
    LET a == host[h].attempt IN
    /\ At(h, "open") /\ Admitted(h)
    /\ State(a) = "prepared" /\ AuthorityCurrent(a)
    /\ claim[a].state = "pre-dispatch"
    /\ claim' = [claim EXCEPT ![a] = DispatchClaim("session", h)]
    /\ Goto(h, "session")
    /\ UNCHANGED <<outside, attempt, debited, opened, graphRows>>

(* start_turn at the provider, then claim_turn *)
ClaimTurn(h) ==
    LET a == host[h].attempt IN
    /\ At(h, "session") /\ Admitted(h)
    /\ State(a) = "prepared"
    /\ claim[a] = DispatchClaim("session", h)
    /\ claim' = [claim EXCEPT ![a] = DispatchClaim("turn", h)]
    /\ Goto(h, "turn")
    /\ UNCHANGED <<outside, attempt, debited, opened, graphRows>>

(* DependencyReviewDispatchResult *)
Answer(kind, proposal) == [kind |-> kind, proposal |-> proposal]

(* read_response: a proposal, or an answer that is none *)
ReadResponse(h) ==
    /\ At(h, "turn") /\ Admitted(h)
    /\ \E r \in {Answer("proposal", p) : p \in Proposals}
                \cup {Answer(k, Nil) : k \in {"malformed-response", "uncertain-provider-turn",
                                             "provider-blocked"}} :
          host' = [host EXCEPT ![h].at = "answer", ![h].result = r]
    /\ UNCHANGED <<outside, attempt, claim, debited, opened, graphRows>>

(* A CodexAdapterError is a typed failure, of the service or another; any other exception,
   a claim that is refused among them, leaves the turn uncertain. *)
DispatchFails(h) ==
    /\ host[h] # Nil /\ host[h].at \in {"claimed", "open", "session", "turn"}
    /\ \E k \in {"transient", "failed", "uncertain-provider-turn"} :
          host' = [host EXCEPT ![h].at = "answer", ![h].result = Answer(k, Nil)]
    /\ UNCHANGED <<outside, attempt, claim, debited, opened, graphRows>>

Named(p) == UNION {{q[1], q[2]} : q \in p.pairs}

Acceptable(a, p) ==
    State(a) = "prepared" /\ Authenticated(a) /\ Named(p) \subseteq AffectedSubset(attempt[a].task)

(* What run records of the answer: accept_proposal, record_blocked, record_invalid, and
   record_scope_denied when the scope stopped meanwhile.  An attempt that ended, or whose
   candidate moved, takes none of them. *)
Recorded(a, r) ==
    IF ~ScopeOpen(attempt[a].task)
       THEN IF State(a) = "prepared" THEN Outcome(a, "blocked", "scope-stopped") ELSE attempt
    ELSE IF r.kind = "proposal"
       THEN IF Acceptable(a, r.proposal)
               THEN [attempt EXCEPT ![a].state = "accepted", ![a].proposal = r.proposal]
               ELSE IF State(a) = "prepared" THEN Outcome(a, "invalid", "proposal-rejected")
                                             ELSE attempt
    ELSE IF State(a) # "prepared" THEN attempt
    ELSE Outcome(a, IF r.kind = "malformed-response" THEN "invalid" ELSE "blocked", r.kind)

RecordResult(h) ==
    LET a == host[h].attempt IN
    /\ At(h, "answer")
    /\ attempt' = IF AuthorityCurrent(a) THEN Recorded(a, host[h].result) ELSE attempt
    /\ Leave(h)
    /\ UNCHANGED <<outside, claim, debited, opened, graphRows>>

(* A crash, an admission that sees a stop and raises, a refusal: the rows stay. *)
HostStops(h) ==
    /\ host[h] # Nil
    /\ Leave(h)
    /\ UNCHANGED <<outside, attempt, claim, debited, opened, graphRows>>

(***************************************************************************)
(* The graph.                                                              *)
(***************************************************************************)
EmptyGraph == [binding |-> Nil, chain |-> {}, members |-> {}, edges |-> {}]
GraphMember(t, m) == [task |-> t, id |-> m]
GraphEdge(pair, a) == [subject |-> pair[1], object |-> pair[2], by |-> a]
Pairs(edges) == {<<e.subject, e.object>> : e \in edges}

(* _has_cycle: some set of nodes in which every node has a successor *)
HasCycle(pairs) ==
    LET nodes == {p[1] : p \in pairs} IN
    \E s \in SUBSET nodes : s # {} /\ \A n \in s : \E m \in s : <<n, m>> \in pairs

\* Mutant: only the newest version is authenticated.
NewestReads == current # Nil => Authenticated(current)

(* _read_current: every version of the chain is authenticated again *)
CurrentReads == current # Nil => \A a \in version[current].chain : Authenticated(a)

Active == IF current = Nil THEN EmptyGraph ELSE version[current]

(* _replacement_baseline: another candidate starts empty, a task's own members go *)
Baseline(t, binding) ==
    IF Active.binding # binding THEN EmptyGraph
    ELSE LET gone == {m.id : m \in {n \in Active.members : n.task = t}} IN
         [Active EXCEPT !.members = {m \in @ : m.id \notin gone},
                        !.edges = {e \in @ : e.subject \notin gone /\ e.object \notin gone}]

(* TrustedEdgeProvenance: each edge has a relation that the source or the pinned policy
   gave, written before the model was asked *)
Trusted(p) == p.trusted

(* DependencyGraphValidator.validate *)
Validation(a) ==
    LET p == attempt[a].proposal
        prior == Baseline(attempt[a].task, attempt[a].candidate) IN
    CASE Named(p) # AffectedSubset(attempt[a].task) -> "rejected"
      [] p.pairs \cap Pairs(prior.edges) # {} -> "rejected"
      [] HasCycle(p.pairs \cup Pairs(prior.edges)) -> "rejected"
      [] p.disposition = "reject" -> "rejected"
      [] p.disposition = "owner" -> "pending-owner"
      [] OTHER -> IF Trusted(p) THEN "accepted" ELSE "rejected"

NextSnapshot(a) ==
    LET t == attempt[a].task  prior == Baseline(t, attempt[a].candidate) IN
    [binding |-> attempt[a].candidate,
     chain |-> {a} \cup (IF Active.binding = attempt[a].candidate THEN Active.chain ELSE {}),
     members |-> prior.members \cup {GraphMember(t, m) : m \in AffectedSubset(t)},
     edges |-> prior.edges \cup
               {GraphEdge(q, a) : q \in attempt[a].proposal.pairs}]

(* the primary key of dependency_graph_members *)
OneRowPerMember(g) == \A m, n \in g.members : m.id = n.id => m = n

(* What activate checks before it reads the current graph. *)
Activatable(a) ==
    /\ State(a) = "accepted" /\ Authenticated(a)
    /\ Successors(a) = {}
    /\ decision[a] = Nil
    /\ ScopeOpen(attempt[a].task)

Activate(a) ==
    /\ Activatable(a)
    /\ CurrentReads
    /\ LET v == Validation(a) IN
       /\ decision' = [decision EXCEPT ![a] = v]
       /\ IF v = "accepted"
             THEN /\ OneRowPerMember(NextSnapshot(a))
                  /\ version' = [version EXCEPT ![a] = NextSnapshot(a)]
                  /\ current' = a
             ELSE UNCHANGED <<version, current>>
    /\ UNCHANGED <<outside, attempt, claim, debited, opened, host>>

HostNext(h) ==
    \/ \E t \in DepTasks, a \in DepAttempts, p \in DepAttempts \cup {Nil} : Begin(h, t, a, p)
    \/ \E a \in DepAttempts : RecoverInFlight(h, a)
    \/ StartAttempt(h) \/ StartRefused(h) \/ ClaimPreDispatch(h) \/ OpenSession(h)
    \/ ClaimSession(h) \/ ClaimTurn(h) \/ ReadResponse(h) \/ DispatchFails(h)
    \/ RecordResult(h) \/ HostStops(h)

DepNext ==
    \/ \E h \in DepHosts : HostNext(h)
    \/ \E t \in DepTasks : Reseal(t) \/ StopScope(t) \/ OpenScope(t)
    \/ \E a \in DepAttempts : Activate(a)

DepSpec == DepInit /\ [][DepNext]_depVars

(***************************************************************************)
(* Properties.                                                             *)
(***************************************************************************)
Transient(a) == State(a) = "blocked" /\ attempt[a].reason = "transient"

(* However processes restart, overlap or crash between the claims, an attempt opens at
   most one native session, and a task has at most one session whose turn did not end in
   a failure the provider reported as transient: an unknown turn is never run again. *)
TurnsAreNotRepeated ==
    /\ \A a \in DepAttempts : opened[a] <= 1
    /\ \A t \in DepTasks :
          Cardinality({a \in Rows(t) : opened[a] > 0 /\ ~Transient(a)}) <= 1

(* Whatever seals moved since each version was written, the graph a reader is served
   holds only edges of accepted reviews of candidates that are still sealed, one review
   per task, without a cycle. *)
ServedGraphIsReviewed ==
    (current # Nil /\ CurrentReads) =>
       LET g == version[current] IN
       /\ ~HasCycle(Pairs(g.edges))
       /\ \A e \in g.edges : /\ State(e.by) = "accepted"
                             /\ attempt[e.by].candidate = g.binding
                             /\ g.binding = seal[attempt[e.by].task]
       /\ \A e, f \in g.edges : attempt[e.by].task = attempt[f.by].task => e.by = f.by
=============================================================================
