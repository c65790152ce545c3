---------------------------- MODULE CodingWorker ----------------------------
(***************************************************************************)
(* The coding Worker: ProductionCodingWorkerRuntime and its lifecycle       *)
(* (worker_toolbox.py), the adapter's dispatch (codex_worker.py), the       *)
(* store of tool events (coding_worker_state.py) and the bounded local      *)
(* tools (coding_tools.py), for one prepared attempt.  Processes that were  *)
(* started for that attempt share its row, the claims and submissions of    *)
(* the store, and the worktree.  A process may die between any two steps,   *)
(* and another attempt's denial may stop the scope at any time.             *)
(***************************************************************************)
EXTENDS Naturals, FiniteSets

CONSTANTS Workers,     \* processes that run the attempt
          MaxSteps,    \* _MAX_TOOL_STEPS
          SdkTurns,    \* how the SDK names the turn of a result: "fresh", "same"
          MaxDeaths,   \* bound on crashes
          MaxDenials   \* bound on stops of the scope

ASSUME WorkerAssumption == MaxSteps \in Nat \ {0} /\ SdkTurns \subseteq {"fresh", "same"}

VARIABLES attempt,     \* the attempt row: state and external turn (0: none)
          session,     \* the worker whose session the row names
          claimed,     \* its provider_dispatch_claims row exists
          reserved,    \* its budget reservation exists
          stopped,     \* the scope worker:<task> is stopped
          effectClaims,     \* coding_effect_claims: the sequences
          events,      \* coding_tool_events: turn and sequence
          submission,  \* coding_tool_submissions, by sequence
          worker,      \* a process: step, permit, turn handle, sequence, acknowledged
          opened,      \* history: native sessions opened
          performed,   \* history: local effects, by sequence
          delivered,   \* history: results the provider took, by sequence
          late,        \* history: effects of a process since the scope was stopped
          deaths,
          denials

attemptRows == <<attempt, session, claimed, reserved>>
store == <<effectClaims, events, submission>>
done == <<opened, performed, delivered>>
bounds == <<deaths, denials>>
workerVars == <<attemptRows, store, done, bounds, stopped, worker, late>>

ToolSteps == 1..MaxSteps
Unset == "unset"
Away == [step |-> "away", permit |-> FALSE, handle |-> 0, sequence |-> 1, acknowledged |-> {}]

CodingInit ==
    /\ attempt = [state |-> "prepared", turn |-> 0]
    /\ session = Unset
    /\ claimed = FALSE
    /\ reserved = FALSE
    /\ stopped \in BOOLEAN
    /\ effectClaims = {}
    /\ events = {}
    /\ submission = [n \in ToolSteps |-> Unset]
    /\ worker = [w \in Workers |-> Away]
    /\ opened = 0
    /\ performed = [n \in ToolSteps |-> 0]
    /\ delivered = [n \in ToolSteps |-> 0]
    /\ late = [w \in Workers |-> 0]
    /\ deaths = 0
    /\ denials = 0

(***************************************************************************)
(* A process.  It ends a dispatch whatever the result is: an exception, an  *)
(* ambiguous result or an answer leaves the rows as they are for recovery.  *)
(***************************************************************************)
Is(w, step) == worker[w].step = step
Moves(w, step) == worker' = [worker EXCEPT ![w].step = step, ![w].permit = FALSE]
Ends(w) == worker' = [worker EXCEPT ![w] = Away]

(* an effect that takes place while the scope is stopped *)
Acts(w) == late' = [late EXCEPT ![w] = IF stopped THEN @ + 1 ELSE 0]

(***************************************************************************)
(* The event store.                                                        *)
(***************************************************************************)
Unresolved == \E n \in ToolSteps : submission[n] \in {"intent", "uncertain"}

RequiresReconciliation(acknowledged) ==
    Unresolved \/ ~(effectClaims \subseteq acknowledged)

(* record_submission: intent first, and only an intent changes *)
Submission(n, state) ==
    /\ submission[n] = IF state = "intent" THEN Unset ELSE "intent"
    /\ submission' = [submission EXCEPT ![n] = state]

(***************************************************************************)
(* Dispatch: the attempt must be untouched, then the budget is reserved (or *)
(* the unused reservation recovered) under the ledger's lock.               *)
(***************************************************************************)
Untouched == attempt.state = "prepared" /\ attempt.turn = 0 /\ session = Unset

StartDispatch(w) ==
    /\ Is(w, "away")
    /\ ~stopped
    /\ Untouched
    /\ ~claimed
    /\ Moves(w, "reserve")
    /\ UNCHANGED <<attemptRows, store, done, bounds, stopped, late>>

ReserveBudget(w) ==
    /\ Is(w, "reserve")
    /\ IF (reserved \/ ~stopped) /\ ~RequiresReconciliation({})
       THEN reserved' = TRUE /\ Moves(w, "claim")
       ELSE reserved' = (reserved \/ ~stopped) /\ Ends(w)
    /\ UNCHANGED <<attempt, session, claimed, store, done, bounds, stopped, late>>

\* Mutant: the claim is written whether or not one is there already.
DispatchClaimableAgain == ~stopped /\ Untouched

DispatchClaimable == ~stopped /\ Untouched /\ ~claimed

(* claim_worker_dispatch, one transaction *)
ClaimDispatch(w) ==
    /\ Is(w, "claim")
    /\ IF DispatchClaimable
       THEN claimed' = TRUE /\ Moves(w, "open")
       ELSE Ends(w) /\ UNCHANGED claimed
    /\ UNCHANGED <<attempt, session, reserved, store, done, bounds, stopped, late>>

(***************************************************************************)
(* Admission.  The scope is read anew, in a transaction of its own, before  *)
(* every effect and every checkpoint.                                       *)
(***************************************************************************)
Admissions == {"record_session", "start_turn", "record_turn", "read", "execute",
               "intent", "submit", "next_turn", "submitted", "doubt", "broken"}

\* Mutant: one admission serves the whole dispatch.
AdmittedOnce(w) == ~stopped \/ attempt.turn # 0

Admitted(w) == ~stopped

(* while a result is handed over a refusal is first recorded as a doubt *)
Refused(w) ==
    IF worker[w].step \in {"submit", "next_turn"} THEN Moves(w, "doubt") ELSE Ends(w)

AdmitEffect(w) ==
    /\ worker[w].step \in Admissions
    /\ ~worker[w].permit
    /\ IF Admitted(w) THEN worker' = [worker EXCEPT ![w].permit = TRUE] ELSE Refused(w)
    /\ UNCHANGED <<attemptRows, store, done, bounds, stopped, late>>

May(w, step) == Is(w, step) /\ worker[w].permit

(* a checkpoint the ledger refuses: the lease or the health authorization   *)
(* is gone, or the database is not available                                *)
CheckpointFails(w) ==
    /\ worker[w].step \in {"record_session", "record_turn", "next_turn", "intent"}
    /\ worker[w].permit
    /\ Refused(w)
    /\ UNCHANGED <<attemptRows, store, done, bounds, stopped, late>>

(***************************************************************************)
(* Session and first turn.                                                 *)
(***************************************************************************)
(* record_terminal_failure: the typed failure is stored, a denial stops the *)
(* scope, and recover_attempt settles the attempt                           *)
RecordTerminalFailure(w) ==
    /\ Is(w, "failed")
    /\ attempt' = [attempt EXCEPT !.state = IF @ \notin {"prepared", "dispatched"} THEN @
                                            ELSE IF attempt.turn = 0 THEN "blocked"
                                            ELSE "ambiguous"]
    /\ \E denied \in BOOLEAN : stopped' = (stopped \/ denied)
    /\ Ends(w)
    /\ UNCHANGED <<session, claimed, reserved, store, done, bounds, late>>

OpenWorkerSession(w) ==
    /\ Is(w, "open")
    /\ Acts(w)
    /\ opened' = opened + 1
    /\ Moves(w, "record_session")
    /\ UNCHANGED <<attemptRows, store, performed, delivered, bounds, stopped>>

RecordSession(w) ==
    /\ May(w, "record_session")
    /\ IF Untouched
       THEN session' = w /\ Moves(w, "start_turn")
       ELSE Ends(w) /\ UNCHANGED session
    /\ UNCHANGED <<attempt, claimed, reserved, store, done, bounds, stopped, late>>

StartTurn(w) ==
    /\ May(w, "start_turn")
    /\ Acts(w)
    /\ worker' = [worker EXCEPT ![w].step = "record_turn", ![w].permit = FALSE, ![w].handle = 1]
    /\ UNCHANGED <<attemptRows, store, done, bounds, stopped>>

(* the SDK fails typed, before it has a session or a turn, or in the turn   *)
SdkFails(w) ==
    /\ \/ Is(w, "open")
       \/ May(w, "start_turn")
       \/ May(w, "read")
    /\ Acts(w)
    /\ Moves(w, "failed")
    /\ UNCHANGED <<attemptRows, store, done, bounds, stopped>>

(* record_external_turn: the turn of a prepared attempt, or the same again *)
Recordable(w) ==
    /\ session = w
    /\ \/ attempt.state = "prepared"
       \/ attempt.state = "dispatched" /\ attempt.turn = worker[w].handle

RecordTurn(w) ==
    /\ May(w, "record_turn")
    /\ IF Recordable(w)
       THEN attempt' = [state |-> "dispatched", turn |-> worker[w].handle] /\ Moves(w, "read")
       ELSE Ends(w) /\ UNCHANGED attempt
    /\ UNCHANGED <<session, claimed, reserved, store, done, bounds, stopped, late>>

(***************************************************************************)
(* The steps of a turn.                                                    *)
(***************************************************************************)
(* an answer, an ambiguous stream or a request out of sequence ends it *)
ReadStep(w) ==
    /\ May(w, "read")
    /\ Acts(w)
    /\ \/ Moves(w, "execute")
       \/ Ends(w)
    /\ UNCHANGED <<attemptRows, store, done, bounds, stopped>>

(* a tool the admission receipt does not grant is answered "denied" *)
DenyTool(w) ==
    /\ May(w, "execute")
    /\ Moves(w, "intent")
    /\ UNCHANGED <<attemptRows, store, done, bounds, stopped, late>>

(* claim_effect: the first claim of a sequence is the only one *)
EffectClaimed(n) == n \in effectClaims

(* _execute_request: a claim that is there already makes the result "ambiguous", *)
(* which is stored and submitted without an effect                           *)
ClaimEffect(w) ==
    LET n == worker[w].sequence IN
    /\ May(w, "execute")
    /\ IF RequiresReconciliation(worker[w].acknowledged) THEN Ends(w) /\ UNCHANGED effectClaims
       ELSE IF EffectClaimed(n)
       THEN worker' = [worker EXCEPT ![w].step = "append"] /\ UNCHANGED effectClaims
       ELSE effectClaims' = effectClaims \cup {n} /\ Moves(w, "perform")
    /\ UNCHANGED <<attemptRows, events, submission, done, bounds, stopped, late>>

(* the receipt no longer names the candidate or the toolchain *)
ReceiptDrifts(w) ==
    /\ May(w, "execute")
    /\ Ends(w)
    /\ UNCHANGED <<attemptRows, store, done, bounds, stopped, late>>

(***************************************************************************)
(* The local tools.  A path or a command outside the capability and its     *)
(* role scope is refused before anything is touched; a write or a           *)
(* validation that fails later (a full disk, a time-out, too much output)   *)
(* has had its effect all the same.  Either way an event is written.        *)
(***************************************************************************)
ToolRefuses(w) ==
    /\ Is(w, "perform")
    /\ Moves(w, "append")
    /\ UNCHANGED <<attemptRows, store, done, bounds, stopped, late>>

ReadFile(w) ==
    /\ Is(w, "perform")
    /\ Acts(w)
    /\ Moves(w, "append")
    /\ UNCHANGED <<attemptRows, store, done, bounds, stopped>>

Performs(w) ==
    /\ Is(w, "perform")
    /\ Acts(w)
    /\ performed' = [performed EXCEPT ![worker[w].sequence] = @ + 1]
    /\ UNCHANGED <<attemptRows, store, opened, delivered, bounds, stopped>>

WriteFile(w) == Performs(w) /\ Moves(w, "append")

(* the reviewed sandbox starts the command *)
Validate(w) == Performs(w) /\ Moves(w, "validate")

(* A result, an exception of any kind, a time-out or output that is not      *)
(* valid: the event is written, and nobody asks whether the command ended.   *)
(* An error of the sandbox whose lifecycle is not one ends the dispatch.     *)
SandboxAnswers(w) ==
    /\ Is(w, "validate")
    /\ Moves(w, "append") \/ Ends(w)
    /\ UNCHANGED <<attemptRows, store, done, bounds, stopped, late>>

(* _persist_tool_event *)
ToolEvent(w) == <<worker[w].handle, worker[w].sequence>>

AppendToolEvent(w) ==
    /\ Is(w, "append")
    /\ events' = events \cup {ToolEvent(w)}
    /\ Moves(w, "intent")
    /\ UNCHANGED <<attemptRows, effectClaims, submission, done, bounds, stopped, late>>

SubmissionIntent(w) ==
    /\ May(w, "intent")
    /\ Submission(worker[w].sequence, "intent")
    /\ Moves(w, "submit")
    /\ UNCHANGED <<attemptRows, effectClaims, events, done, bounds, stopped, late>>

(* submit_tool_result: a turn of its own on the same thread *)
SubmitToolResult(w) ==
    LET n == worker[w].sequence IN
    /\ May(w, "submit")
    /\ Acts(w)
    /\ delivered' = [delivered EXCEPT ![n] = @ + 1]
    /\ \E naming \in SdkTurns :
         worker' = [worker EXCEPT ![w].step = "next_turn", ![w].permit = FALSE,
                                  ![w].handle = IF naming = "fresh" THEN @ + 1 ELSE @]
    /\ UNCHANGED <<attemptRows, store, opened, performed, bounds, stopped>>

(* the provider refuses, or its answer is lost after it took the result *)
SubmitFails(w) ==
    LET n == worker[w].sequence IN
    /\ May(w, "submit")
    /\ Acts(w)
    /\ \E took \in {0, 1} : delivered' = [delivered EXCEPT ![n] = @ + took]
    /\ Moves(w, "broken")
    /\ UNCHANGED <<attemptRows, store, opened, performed, bounds, stopped>>

CheckpointNextTurn(w) ==
    /\ May(w, "next_turn")
    /\ Moves(w, IF Recordable(w) THEN "submitted" ELSE "doubt")
    /\ UNCHANGED <<attemptRows, store, done, bounds, stopped, late>>

\* Mutant: a result whose hand-over broke is taken to have arrived.
SubmissionPresumed(w) ==
    /\ \/ May(w, "doubt") /\ Ends(w)
       \/ May(w, "broken") /\ Moves(w, "failed")
    /\ Submission(worker[w].sequence, "submitted")
    /\ UNCHANGED <<attemptRows, effectClaims, events, done, bounds, stopped, late>>

(* the error is raised again: only the SDK's own is a typed failure *)
SubmissionUncertain(w) ==
    /\ \/ May(w, "doubt") /\ Ends(w)
       \/ May(w, "broken") /\ Moves(w, "failed")
    /\ Submission(worker[w].sequence, "uncertain")
    /\ UNCHANGED <<attemptRows, effectClaims, events, done, bounds, stopped, late>>

Submitted(w) ==
    LET n == worker[w].sequence IN
    /\ May(w, "submitted")
    /\ Submission(n, "submitted")
    /\ IF n = MaxSteps
       THEN Ends(w)
       ELSE worker' = [worker EXCEPT ![w].step = "read", ![w].permit = FALSE,
                                     ![w].sequence = n + 1, ![w].acknowledged = @ \cup {n}]
    /\ UNCHANGED <<attemptRows, effectClaims, events, done, bounds, stopped, late>>

(***************************************************************************)
(* The environment.                                                        *)
(***************************************************************************)
Dies(w) ==
    /\ ~Is(w, "away")
    /\ deaths < MaxDeaths
    /\ deaths' = deaths + 1
    /\ Ends(w)
    /\ UNCHANGED <<attemptRows, store, done, denials, stopped, late>>

(* another attempt of the task records a denial; the owner clears it *)
StopWorkerScope ==
    /\ ~stopped
    /\ denials < MaxDenials
    /\ denials' = denials + 1
    /\ stopped' = TRUE
    /\ late' = [w \in Workers |-> 0]
    /\ UNCHANGED <<attemptRows, store, done, deaths, worker>>

ClearScope ==
    /\ stopped
    /\ stopped' = FALSE
    /\ late' = [w \in Workers |-> 0]
    /\ UNCHANGED <<attemptRows, store, done, bounds, worker>>

Step(w) ==
    \/ StartDispatch(w) \/ ReserveBudget(w) \/ ClaimDispatch(w) \/ AdmitEffect(w) \/ CheckpointFails(w)
    \/ OpenWorkerSession(w) \/ RecordSession(w) \/ StartTurn(w) \/ SdkFails(w) \/ RecordTurn(w)
    \/ ReadStep(w) \/ DenyTool(w) \/ ClaimEffect(w) \/ ReceiptDrifts(w)
    \/ ToolRefuses(w) \/ ReadFile(w) \/ WriteFile(w) \/ Validate(w) \/ SandboxAnswers(w)
    \/ AppendToolEvent(w)
    \/ SubmissionIntent(w) \/ SubmitToolResult(w) \/ SubmitFails(w) \/ CheckpointNextTurn(w)
    \/ SubmissionUncertain(w) \/ Submitted(w) \/ RecordTerminalFailure(w) \/ Dies(w)

CodingNext == (\E w \in Workers : Step(w)) \/ StopWorkerScope \/ ClearScope

CodingSpec == CodingInit /\ [][CodingNext]_workerVars

(***************************************************************************)
(* Properties.                                                             *)
(***************************************************************************)
(* An attempt has one native session, and its local effects take place and  *)
(* its results are handed over once, however often processes die and are    *)
(* started again (claim_worker_dispatch, claim_effect): a replay would      *)
(* write to the worktree or talk to the provider a second time.             *)
EffectsHappenOnce ==
    /\ opened <= 1
    /\ \A n \in ToolSteps : performed[n] <= 1 /\ delivered[n] <= 1

(* A stop takes hold at the next boundary (admit in CodexWorkerAdapter      *)
(* re-reads the scope): of what a process had been admitted to, at most one *)
(* effect happens after another attempt's denial stopped the scope.         *)
StopTakesHold == \A w \in Workers : late[w] <= 1

(* A process that starts after a crash reads in the store what the last one  *)
(* left half done (claim_effect, record_submission, requires_reconciliation): *)
(* an effect or a delivery that is not recorded as submitted demands         *)
(* reconciliation of whoever trusts the submitted ones, what is recorded as  *)
(* submitted was taken by the provider, and of an effect whose result was    *)
(* handed over the event is there ("appended after execution and before      *)
(* submission", docs/architecture/coding-worker-execution-contract.md:22).   *)
OutsideIsOnRecord ==
    \A n \in ToolSteps :
        /\ performed[n] > 0 \/ delivered[n] > 0 =>
              \/ submission[n] = "submitted"
              \/ RequiresReconciliation({m \in ToolSteps : submission[m] = "submitted"})
        /\ submission[n] = "submitted" => delivered[n] = 1
        /\ performed[n] > 0 /\ delivered[n] > 0 => \E e \in events : e[2] = n

(* The turn the provider starts for a tool result can be checkpointed on    *)
(* the attempt that sent the result (record_turn of the lifecycle); the     *)
(* adapter's tests say "each post-tool SDK turn is checkpointed before      *)
(* consumption".                                                            *)
PostToolTurnsAreCheckpointed ==
    \A w \in Workers : Is(w, "next_turn") => Recordable(w)
=============================================================================
