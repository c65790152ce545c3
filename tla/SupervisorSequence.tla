------------------------- MODULE SupervisorSequence -------------------------
(***************************************************************************)
(* Qualification of one Supervisor sequence (qualify_supervisor_sequence   *)
(* in supervisor_shadow.py, with the dispatcher and the adapter of         *)
(* codex_supervisor.py).  Every request of the sequence is a format        *)
(* correction of the one before it.  Three stores change independently:    *)
(* the product ledger, the budget ledger, and a directory of files that    *)
(* are written once (FileSupervisorLifecycle).  A process may end between  *)
(* any two writes, and another may qualify the same sequence beside it.    *)
(***************************************************************************)
EXTENDS Naturals, FiniteSets

CONSTANTS Qualifiers,        \* processes that qualify the sequence
          Requests,          \* how many requests it has; one profile allows three
          MaxEnds            \* bound: processes that end in the middle

ASSUME SequenceAssumption == Requests \in 1..3 /\ MaxEnds \in Nat

Ordinals == 1..Requests
Results == {"accepted", "format", "invalid", "incomplete", "blocked", "ambiguous"}

VARIABLES files,       \* the record directory: the names in it
          results,     \* what event-N says, per request
          rows,        \* provider_attempts.state per request
          claims,      \* provider_dispatch_claims
          intents,     \* provider_effect_reservation_intents
          budget,      \* role_budget_usage (the other database)
          routes,      \* recovery_route_authorizations by target
          admissions,  \* recovery_route_successor_admissions by target
          decisions,   \* failure_recovery_records of malformed answers
          scopeOpen, sealHolds,  \* the Supervisor scope; the seal is the candidate
          at,          \* where each process is and what it remembers
          sessions,    \* (history) native sessions opened per request
          qualified,   \* the recorder holds the sealed case
          ends         \* (history) for the bound

fileVars == <<files, results>>
ledgerVars == <<rows, claims, intents, routes, admissions, decisions>>
sequenceVars == <<fileVars, ledgerVars, budget, scopeOpen, sealHolds, at, sessions, qualified, ends>>

Waiting == [step |-> "idle", n |-> 1, recover |-> FALSE, result |-> "none"]

SequenceInit ==
    /\ files = {} /\ results = [n \in Ordinals |-> "none"]
    /\ rows = [n \in Ordinals |-> "prepared"]
    /\ claims = {} /\ intents = {} /\ budget = {} /\ admissions = {} /\ decisions = {}
    /\ routes = [n \in Ordinals |-> "none"]
    /\ scopeOpen = TRUE /\ sealHolds = TRUE
    /\ at = [p \in Qualifiers |-> Waiting]
    /\ sessions = [n \in Ordinals |-> 0] /\ qualified = FALSE /\ ends = 0

Stands(p, step) == at[p].step = step
Request(p) == at[p].n
Move(p, step) == at' = [at EXCEPT ![p].step = step]
Refuse(p) == at' = [at EXCEPT ![p] = Waiting]

(***************************************************************************)
(* The record directory.                                                   *)
(***************************************************************************)
Doc(name) == <<name, 0>>
Event(n) == <<"event", n>>
Receipt(n) == <<"event-receipt", n>>
Events == {n \in Ordinals : Event(n) \in files}

(* _chain: only known names, every document with its receipt, events
   without a gap, none after an accepted one. *)
Readable ==
    /\ {Doc("plan"), Doc("plan-receipt")} \subseteq files /\ Doc("unfinished") \notin files
    /\ Events = 1..Cardinality(Events)
    /\ \A n \in Ordinals : Event(n) \in files <=> Receipt(n) \in files
    /\ \A n \in Events : n < Cardinality(Events) => results[n] # "accepted"
    /\ Doc("terminal") \in files <=> Doc("terminal-receipt") \in files

(* _publish: a temporary file that takes the name, once. *)
Publish(name) == name \notin files /\ files' = files \cup {name}

(* prepare: the directory, the plan and its receipt; what exists is read. *)
Prepare(p) ==
    /\ Stands(p, "idle")
    /\ IF Doc("directory") \in files THEN Readable /\ UNCHANGED files
                                ELSE Publish(Doc("directory"))
    /\ Move(p, IF Doc("directory") \in files THEN "resume" ELSE "plan")
    /\ UNCHANGED <<results, ledgerVars, budget, scopeOpen, sealHolds, sessions, qualified, ends>>
PublishPlan(p) ==
    /\ \/ Stands(p, "plan") /\ Publish(Doc("plan")) /\ Move(p, "plan-receipt")
       \/ Stands(p, "plan-receipt") /\ Publish(Doc("plan-receipt")) /\ Move(p, "resume")
    /\ UNCHANGED <<results, ledgerVars, budget, scopeOpen, sealHolds, sessions, qualified, ends>>

(***************************************************************************)
(* Resuming.                                                               *)
(***************************************************************************)
(* _require_durable_sequence_admission: the attempts with an event were
   dispatched, the others are as they were prepared. *)
RowsMatch(done) ==
    \A n \in Ordinals : rows[n] = IF n <= done THEN "dispatched" ELSE "prepared"

(* The reconstruction of the completed turns: malformed answers, with
   their decisions and their debits. *)
Reconstructs(done) == \A n \in 1..done : results[n] = "format" /\ n \in decisions /\ n \in budget

(* read_progress: an unfinished record of this plan, and a current task. *)
Resumes(done) ==
    /\ Readable /\ Doc("terminal") \notin files /\ done < Requests
    /\ scopeOpen /\ sealHolds /\ RowsMatch(done) /\ Reconstructs(done)

Resume(p) ==
    LET done == Cardinality(Events)
    IN /\ Stands(p, "resume")
       /\ IF Resumes(done)
          THEN at' = [at EXCEPT ![p] = [@ EXCEPT !.n = done + 1,
                          !.step = IF done = 0 THEN "intent" ELSE "authorize"]]
          ELSE Refuse(p)
       /\ UNCHANGED <<fileVars, ledgerVars, budget, scopeOpen, sealHolds, sessions, qualified, ends>>

(***************************************************************************)
(* Paying for a turn.                                                      *)
(***************************************************************************)
(* SupervisorFallbackAuthorization.prepare and prepare_initial_reservation
   say whether the debit that follows is an earlier process's. *)
Reserving(p, recover) ==
    at' = [at EXCEPT ![p] = [@ EXCEPT !.recover = recover, !.step = "reserve"]]

(* prepare_initial_reservation: the intent of the first debit, or the one
   an earlier process left. *)
BeginFirst(p) ==
    /\ Stands(p, "intent")
    /\ \/ /\ scopeOpen /\ rows[1] = "prepared" /\ 1 \notin claims
          /\ intents' = intents \cup {1}
          /\ Reserving(p, 1 \in intents)
       \/ /\ ~scopeOpen \/ rows[1] # "prepared" \/ 1 \in claims
          /\ Refuse(p) /\ UNCHANGED intents
    /\ UNCHANGED <<fileVars, rows, claims, routes, admissions, decisions, budget,
                   scopeOpen, sealHolds, sessions, qualified, ends>>

(* authorize_fallback: the route from the malformed answer, issued once. *)
AuthorizeFallback(p) ==
    /\ Stands(p, "authorize")
    /\ \/ /\ Request(p) - 1 \in decisions
          /\ routes' = [routes EXCEPT ![Request(p)] = IF @ = "none" THEN "issued" ELSE @]
          /\ Move(p, "fence")
       \/ Request(p) - 1 \notin decisions /\ Refuse(p) /\ UNCHANGED routes
    /\ UNCHANGED <<fileVars, rows, claims, intents, admissions, decisions, budget,
                   scopeOpen, sealHolds, sessions, qualified, ends>>

(* Its prepare: an admission that exists and is unclaimed is continued, an
   issued route is fenced, a fence that is found is continued with its
   debit or without.  Between the two transactions a route may have been
   consumed: that is refused. *)
FenceFallback(p) ==
    LET n == Request(p)
    IN /\ Stands(p, "fence")
       /\ \/ /\ n \in admissions /\ n \notin claims
             /\ Reserving(p, TRUE)
             /\ UNCHANGED routes
          \/ /\ n \notin admissions /\ scopeOpen /\ routes[n] = "issued"
             /\ routes' = [routes EXCEPT ![n] = "reserving"]
             /\ Reserving(p, FALSE)
          \/ /\ n \notin admissions /\ scopeOpen /\ routes[n] = "reserving"
             /\ Reserving(p, n \in budget)
             /\ UNCHANGED routes
          \/ /\ ~scopeOpen \/ routes[n] = "consumed"
             /\ Refuse(p) /\ UNCHANGED routes
       /\ UNCHANGED <<fileVars, rows, claims, intents, admissions, decisions, budget,
                      scopeOpen, sealHolds, sessions, qualified, ends>>

(* reserve_with_scope: only an open scope takes a new debit. *)
NewDebit(p) ==
    Request(p) \notin budget /\ scopeOpen /\ (at[p].recover => Request(p) = 1)

(* recover_role_effect_reservation, or a new debit under the scope: the
   debit of one execution exhausts it.  A refused fallback is abandoned;
   the prepared row of its target makes that a refusal too. *)
ReserveTurn(p) ==
    LET n == Request(p)
        recovered == at[p].recover /\ n \in budget
    IN /\ Stands(p, "reserve")
       /\ \/ recovered /\ UNCHANGED budget
             /\ Move(p, IF n = 1 THEN "claim" ELSE "consume")
          \/ NewDebit(p) /\ budget' = budget \cup {n}
             /\ Move(p, IF n = 1 THEN "claim" ELSE "consume")
          \/ ~recovered /\ ~NewDebit(p) /\ Refuse(p) /\ UNCHANGED budget
       /\ UNCHANGED <<fileVars, ledgerVars, scopeOpen, sealHolds, sessions, qualified, ends>>

(* commit_durable_recovery_route_successor_admission: one transaction, and
   again what it was. *)
AdmitSuccessor(n) ==
    /\ routes[n] \in {"reserving", "consumed"}
    /\ routes' = [routes EXCEPT ![n] = "consumed"]
    /\ admissions' = admissions \cup {n}

ConsumeFallback(p) ==
    LET n == Request(p)
    IN /\ Stands(p, "consume")
       /\ \/ AdmitSuccessor(n) /\ Move(p, "claim")
          \/ routes[n] = "issued" /\ Refuse(p) /\ UNCHANGED <<routes, admissions>>
       /\ UNCHANGED <<fileVars, rows, claims, intents, decisions, budget,
                      scopeOpen, sealHolds, sessions, qualified, ends>>

Claimable(n) ==
    /\ rows[n] = "prepared" /\ n \notin claims /\ scopeOpen /\ sealHolds
    /\ n = 1 => n \in intents

(* checkpoint_dispatch: one transaction; the intent ends with the claim. *)
ClaimTurn(p) ==
    LET n == Request(p)
    IN /\ Stands(p, "claim")
       /\ IF Claimable(n)
          THEN /\ claims' = claims \cup {n} /\ intents' = intents \ {n} /\ Move(p, "open")
          ELSE /\ Refuse(p) /\ UNCHANGED <<claims, intents>>
       /\ UNCHANGED <<fileVars, rows, routes, admissions, decisions, budget,
                      scopeOpen, sealHolds, sessions, qualified, ends>>

(***************************************************************************)
(* The turn.                                                               *)
(***************************************************************************)
(* What follows a result: a blocked one is recorded before its event. *)
Answer(p, result) ==
    at' = [at EXCEPT ![p] = [@ EXCEPT !.result = result,
                                      !.step = IF result = "blocked" THEN "record" ELSE "append"]]

(* A native step that raises: a typed failure of the SDK blocks the turn,
   any other exception leaves it ambiguous, and both are results like any
   other; an identity that is none, a checkpoint that fails and a scope that
   cannot be read end the sequence without a result. *)
NativeFails(p) == Answer(p, "blocked") \/ Answer(p, "ambiguous") \/ Refuse(p)

(* admit: the debit and the scope are read before every native step; the
   scope denied makes the turn a blocked one.  A session whose opening
   failed may be there all the same. *)
OpenSession(p) ==
    LET n == Request(p)
        Opens(count) == sessions' = [sessions EXCEPT ![n] = @ + count]
    IN /\ Stands(p, "open")
       /\ \/ n \in budget /\ scopeOpen /\ Opens(1) /\ Move(p, "turn")
          \/ n \in budget /\ scopeOpen /\ NativeFails(p) /\ \E count \in {0, 1} : Opens(count)
          \/ n \in budget /\ ~scopeOpen /\ Answer(p, "blocked") /\ UNCHANGED sessions
          \/ n \notin budget /\ Refuse(p) /\ UNCHANGED sessions
       /\ UNCHANGED <<fileVars, ledgerVars, budget, scopeOpen, sealHolds, qualified, ends>>

(* checkpoint_session, which the caller provides, and start_turn. *)
BeginTurn(p) ==
    /\ Stands(p, "turn")
    /\ \/ scopeOpen /\ (Move(p, "checkpoint") \/ NativeFails(p))
       \/ ~scopeOpen /\ Answer(p, "blocked")
    /\ UNCHANGED <<fileVars, ledgerVars, budget, scopeOpen, sealHolds, sessions, qualified, ends>>

(* checkpoint_turn, which the caller provides. *)
CheckpointTurn(p) ==
    /\ Stands(p, "checkpoint")
    /\ \/ /\ scopeOpen /\ rows[Request(p)] = "prepared"
          /\ rows' = [rows EXCEPT ![Request(p)] = "dispatched"] /\ Move(p, "read")
       \/ ~scopeOpen /\ Answer(p, "blocked") /\ UNCHANGED rows
       \/ Refuse(p) /\ UNCHANGED rows
    /\ UNCHANGED <<fileVars, claims, intents, routes, admissions, decisions, budget,
                   scopeOpen, sealHolds, sessions, qualified, ends>>

(* The response, parsed and bound to its request (_output). *)
ReadResponse(p, result) ==
    /\ Stands(p, "read")
    /\ \/ (~scopeOpen => result = "blocked") /\ Answer(p, result)
       \/ Refuse(p)
    /\ UNCHANGED <<fileVars, ledgerVars, budget, scopeOpen, sealHolds, sessions, qualified, ends>>

(* A blocked turn is classified and recorded; a denial stops the scope. *)
RecordBlocked(p, stops) ==
    /\ Stands(p, "record")
    /\ scopeOpen' = (scopeOpen /\ ~stops)
    /\ Move(p, "append")
    /\ UNCHANGED <<fileVars, ledgerVars, budget, sealHolds, sessions, qualified, ends>>

\* Mutant: only the binding of the accepted answer is checked again.
AcceptableBinding(n) == sealHolds /\ rows[n] = "dispatched"

(* Under the ledger's lock: the scope, the binding and the seal. *)
Acceptable(n) == scopeOpen /\ sealHolds /\ rows[n] = "dispatched"

(* append: the event, then its receipt. *)
AppendEvent(p) ==
    LET n == Request(p)
    IN /\ Stands(p, "append")
       /\ \/ /\ Readable /\ Doc("terminal") \notin files /\ n = Cardinality(Events) + 1
             /\ at[p].result = "accepted" => Acceptable(n)
             /\ Publish(Event(n)) /\ results' = [results EXCEPT ![n] = at[p].result]
             /\ Move(p, "receipt")
          \/ /\ \/ ~Readable \/ Doc("terminal") \in files \/ n # Cardinality(Events) + 1
                \/ at[p].result = "accepted" /\ ~Acceptable(n)
             /\ Refuse(p) /\ UNCHANGED fileVars
       /\ UNCHANGED <<ledgerVars, budget, scopeOpen, sealHolds, sessions, qualified, ends>>
AppendReceipt(p) ==
    /\ Stands(p, "receipt") /\ Publish(Receipt(Request(p)))
    /\ Move(p, IF at[p].result = "format" THEN "decide" ELSE "terminal")
    /\ UNCHANGED <<results, ledgerVars, budget, scopeOpen, sealHolds, sessions, qualified, ends>>

\* Mutant: the correction goes on before the decision is durable.
GoOnUndecided(p) ==
    /\ Stands(p, "decide")
    /\ IF Request(p) = Requests
       THEN Move(p, "terminal")
       ELSE at' = [at EXCEPT ![p] = [@ EXCEPT !.n = Request(p) + 1, !.step = "fence"]]
    /\ routes' = [n \in Ordinals |-> IF n = Request(p) + 1 THEN "issued" ELSE routes[n]]
    /\ UNCHANGED <<fileVars, rows, claims, intents, admissions, decisions, budget,
                   scopeOpen, sealHolds, sessions, qualified, ends>>

(* A malformed answer is recorded as one; the next request corrects it. *)
DecideFormat(p) ==
    /\ Stands(p, "decide")
    /\ decisions' = decisions \cup {Request(p)}
    /\ IF Request(p) = Requests
       THEN Move(p, "terminal")
       ELSE at' = [at EXCEPT ![p] = [@ EXCEPT !.n = Request(p) + 1, !.step = "authorize"]]
    /\ UNCHANGED <<fileVars, rows, claims, intents, routes, admissions, budget,
                   scopeOpen, sealHolds, sessions, qualified, ends>>

(* finalize, and the receipt. *)
Finalize(p) ==
    /\ Stands(p, "terminal") /\ Readable /\ Publish(Doc("terminal"))
    /\ Move(p, "terminal-receipt")
    /\ UNCHANGED <<results, ledgerVars, budget, scopeOpen, sealHolds, sessions, qualified, ends>>
FinalizeReceipt(p) ==
    /\ Stands(p, "terminal-receipt") /\ Publish(Doc("terminal-receipt"))
    /\ IF at[p].result = "accepted" THEN Move(p, "seal") ELSE Refuse(p)
    /\ UNCHANGED <<results, ledgerVars, budget, scopeOpen, sealHolds, sessions, qualified, ends>>

(* What the process observed, and what the record says. *)
Exported(p) == [n \in 1..Request(p) |-> IF n = Request(p) THEN at[p].result ELSE "format"]
Durable == [n \in Events |-> results[n]]

(* SupervisorSequenceEnvelope: one accepted answer, the last. *)
EnvelopeAgrees(p) == Readable /\ Durable = Exported(p)

(* Only an accepted sequence whose record agrees is sealed. *)
SealCase(p) ==
    /\ Stands(p, "seal")
    /\ qualified' = (qualified \/ EnvelopeAgrees(p))
    /\ Refuse(p)
    /\ UNCHANGED <<fileVars, ledgerVars, budget, scopeOpen, sealHolds, sessions, ends>>

(***************************************************************************)
(* What happens around the processes.                                      *)
(***************************************************************************)
Writes == {"plan", "plan-receipt", "append", "receipt", "terminal", "terminal-receipt"}
EndProcess(p) ==
    /\ ~Stands(p, "idle") /\ ends < MaxEnds /\ ends' = ends + 1
    /\ \/ UNCHANGED files
       \/ at[p].step \in Writes /\ files' = files \cup {Doc("unfinished")}
    /\ Refuse(p)
    /\ UNCHANGED <<results, ledgerVars, budget, scopeOpen, sealHolds, sessions, qualified>>
StopScope ==
    /\ scopeOpen /\ scopeOpen' = FALSE
    /\ UNCHANGED <<fileVars, ledgerVars, budget, sealHolds, at, sessions, qualified, ends>>
SealDrifts ==
    /\ sealHolds /\ sealHolds' = FALSE
    /\ UNCHANGED <<fileVars, ledgerVars, budget, scopeOpen, at, sessions, qualified, ends>>

Qualify(p) ==
    \/ Prepare(p) \/ PublishPlan(p) \/ Resume(p)
    \/ BeginFirst(p) \/ AuthorizeFallback(p) \/ FenceFallback(p) \/ ReserveTurn(p)
    \/ ConsumeFallback(p) \/ ClaimTurn(p) \/ OpenSession(p) \/ BeginTurn(p)
    \/ CheckpointTurn(p)
    \/ \E result \in Results : ReadResponse(p, result)
    \/ \E stops \in BOOLEAN : RecordBlocked(p, stops)
    \/ AppendEvent(p) \/ AppendReceipt(p) \/ DecideFormat(p)
    \/ Finalize(p) \/ FinalizeReceipt(p) \/ SealCase(p)

SequenceNext ==
    \/ \E p \in Qualifiers : Qualify(p) \/ EndProcess(p)
    \/ StopScope \/ SealDrifts

SequenceSpec == SequenceInit /\ [][SequenceNext]_sequenceVars

-----------------------------------------------------------------------------
(* One session at most is ever opened for a request, by whichever process
   and after whatever end of one, and what it rests on is durable: its
   claim, its debit and, for a correction, the consumed route from a
   malformed answer that was published and decided
   (checkpoint_dispatch, recover_role_effect_reservation,
   authorize_fallback).  The record never runs ahead of it: an event has its
   claim, only a blocked or an ambiguous one may lack a session and a
   dispatched row (the adapter's results of a failed native step), and a
   sealed case has its accepted answer in a finished record. *)
TurnsAreBacked ==
    /\ \A n \in Ordinals : sessions[n] > 0 =>
          /\ sessions[n] = 1 /\ n \in claims /\ n \in budget
          /\ n > 1 => /\ routes[n] = "consumed" /\ n \in admissions
                      /\ results[n - 1] = "format" /\ n - 1 \in decisions
    /\ \A n \in Events :
          /\ n \in claims
          /\ results[n] \notin {"blocked", "ambiguous"} => sessions[n] = 1 /\ rows[n] = "dispatched"
    /\ qualified => /\ Readable /\ Doc("terminal") \in files
                    /\ \E n \in Events : results[n] = "accepted"

(* A stop of the scope, or a candidate that moves, while the response is
   being read wins: no accepted answer enters the record after it
   (checkpoint_result holds the ledger's lock around the append). *)
StopsWinOverAcceptance ==
    [][\A n \in Ordinals : results'[n] = "accepted" /\ results[n] = "none" =>
          scopeOpen /\ sealHolds]_sequenceVars
=============================================================================
