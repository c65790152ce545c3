--------------------------- MODULE MutationBroker ---------------------------
(***************************************************************************)
(* The broker through which the Orchestrator changes GitHub                *)
(* (GitHubMutationBroker in github_runtime.py), its durable journal, the   *)
(* owner host that holds the credentials and GitHub itself.  A submission  *)
(* claims its idempotency key in the journal, reads the state before,      *)
(* checkpoints, sends one fixed request to the owner host and demands a    *)
(* read-back before it issues a receipt.  What was interrupted is only     *)
(* reconciled by a read-back, never sent again.                            *)
(*                                                                         *)
(* A journal write (DurableMutationJournal._store) is one step: it takes   *)
(* place, or it leaves the journal as it was, possibly with the temporary  *)
(* file that makes every later access fail.  The broker is one process     *)
(* with one call at a time; the clock, the owner host and everybody else   *)
(* on GitHub move between its steps, and it may die between any two.       *)
(***************************************************************************)
EXTENDS Naturals

CONSTANTS
    Intents,    \* GitHubMutationIntents
    Keys,       \* keys of journal entries: repository, operation, idempotency key
    KeyOf,      \* the key of each intent
    None,       \* no intent
    Window,     \* for how long capability health evidence is fresh
    MaxClock    \* bound: ticks of the owner's clock

Kinds ==
    {"state",       \* request review, mark ready, merge, close issue: read the same before and after
     "branch",      \* create or update a branch: another read before
     "delete",      \* delete a branch: read back by its absence
     "allocating"}  \* create pull request, comment: read back by the locator of the resource

ASSUME BrokerAssumption ==
    /\ KeyOf \in [Intents -> Keys]
    /\ None \notin Intents
    /\ Window \in Nat /\ MaxClock \in Nat

VARIABLES
    kind,       \* the kind of operation of each key (a parameter of the behaviour)
    life,       \* journal: the lifecycle of each entry,
    claimant,   \*    the intent that claimed it,
    from, until,\*    evaluated_at and fresh_until of its authorization
    torn,       \* whether the journal's temporary file was left behind
    call,       \* where the broker's current call is, and what it remembers
    completed,  \* _completed: intents with a receipt in memory
    clock,      \* the owner's clock
    horizon,    \* until when the capability health of this process is fresh
    sealed,     \* owner host: intents with an unused seal
    sent,       \* requests on their way to the owner host
    met,        \* GitHub: whether the postcondition of each intent holds
    effects     \* (history) mutations executed, per intent

journal == <<life, claimant, from, until>>
host == <<sealed, sent, effects>>
vars == <<kind, journal, torn, call, completed, clock, horizon, host, met>>

Uncertain == {"EXECUTION_STARTED", "TRANSPORT_ACCEPTED", "APPLIED", "AMBIGUOUS"}
Lifecycles == {"absent", "CLAIMED", "PRESTATE_CAPTURED", "FAILED", "VERIFIED"} \cup Uncertain

Steps == {"idle", "before", "start", "dispatch", "await", "denied", "accept", "apply",
          "readback", "recheck", "reread", "promote", "settle"}

Idle == [step |-> "idle", intent |-> None, now |-> 0, seen |-> FALSE]

Init ==
    /\ kind \in [Keys -> Kinds]
    /\ life = [k \in Keys |-> "absent"]
    /\ claimant = [k \in Keys |-> None]
    /\ from = [k \in Keys |-> 0] /\ until = [k \in Keys |-> 0]
    /\ torn = FALSE
    /\ call = Idle
    /\ completed = {}
    /\ clock = 0 /\ horizon = Window
    /\ sealed = {} /\ sent = {}
    /\ met \in [Intents -> BOOLEAN]
    /\ \A i \in Intents : met[i] => kind[KeyOf[i]] # "allocating"
    /\ effects = [i \in Intents |-> 0]

It == call.intent
Key == KeyOf[It]
At(step) == call.step = step
GoTo(step) == call' = [call EXCEPT !.step = step]
Return == call' = Idle

-----------------------------------------------------------------------------
\* DurableMutationJournal.transition, as _journal_transition sees it.
Write(k, to) ==
    /\ ~torn
    /\ life' = [life EXCEPT ![k] = to]
    /\ UNCHANGED <<claimant, from, until, torn>>

\* A write that is refused because of the temporary file, or fails and may leave it.
Unwritten ==
    /\ torn' \in {torn, TRUE}
    /\ UNCHANGED journal

\* A checkpoint without which the call does not go on.
Checkpoint(k, to, next) ==
    \/ Write(k, to) /\ GoTo(next)
    \/ Unwritten /\ Return

\* The last record of a call whose answer is the same if the write fails.
LastRecord(k, to) ==
    /\ Write(k, to) \/ Unwritten
    /\ Return

-----------------------------------------------------------------------------
\* What a read of the owner endpoint answers about the postcondition of i: the read may
\* fail, and it is STALE_RESPONSE when the endpoint's clock is unavailable or past the
\* health evidence.
Answers(i) ==
    {"failed", "stale"} \cup
    (IF clock < horizon THEN {IF met[i] THEN "met" ELSE "unmet"} ELSE {})

\* Mutant: every stale response passes for the postcondition.
MatchesStale(i, answer) == answer \in {"met", "stale"}

\* _readback_matches: the absence of a branch is reported as a STALE_RESPONSE.
ReadbackMatches(i, answer) ==
    \/ answer = "met"
    \/ kind[KeyOf[i]] = "delete" /\ answer = "stale"

\* DurableMutationJournal.claim finds no entry.
Claims(i) == life[KeyOf[i]] = "absent"

\* MutationJournalEntry.evidence_matches, for an entry that exists.
SameEvidence(i) ==
    LET k == KeyOf[i]
    IN claimant[k] = i /\ from[k] = clock /\ until[k] = horizon

\* submit up to the claim.  A retained receipt is returned, a conflicting entry denied:
\* neither changes anything.
Submit(i) ==
    LET k == KeyOf[i]
    IN /\ At("idle") /\ clock < horizon /\ i \notin completed
       /\ \/ /\ ~torn /\ Claims(i)
             /\ life' = [life EXCEPT ![k] = "CLAIMED"]
             /\ claimant' = [claimant EXCEPT ![k] = i]
             /\ from' = [from EXCEPT ![k] = clock]
             /\ until' = [until EXCEPT ![k] = horizon]
             /\ call' = [step |-> "before", intent |-> i, now |-> clock, seen |-> FALSE]
             /\ UNCHANGED torn
          \/ /\ ~torn /\ ~Claims(i) /\ SameEvidence(i)
             /\ call' = [step |-> "recheck", intent |-> i, now |-> clock, seen |-> FALSE]
             /\ UNCHANGED <<journal, torn>>
          \/ Claims(i) /\ Unwritten /\ UNCHANGED call
       /\ UNCHANGED <<kind, completed, clock, horizon, host, met>>

\* _complete_pre_dispatch_state and the checkpoint of what it read.  A branch that is
\* not at the expected commit has no digest: the checkpoint is refused.
Before ==
    /\ At("before")
    /\ \/ LastRecord(Key, "FAILED")
       \/ clock < horizon /\ kind[Key] # "state" /\ Return /\ UNCHANGED <<journal, torn>>
       \/ /\ clock < horizon
          /\ kind[Key] = "delete" => ~met[It]
          /\ \/ /\ Write(Key, "PRESTATE_CAPTURED")
                /\ call' = IF kind[Key] = "state" /\ met[It]
                           THEN [call EXCEPT !.step = "settle", !.seen = TRUE]
                           ELSE [call EXCEPT !.step = "start"]
             \/ Unwritten /\ Return
    /\ UNCHANGED <<kind, completed, clock, horizon, host, met>>

\* The checkpoint before the owner host is reachable.
Start ==
    /\ At("start")
    /\ Checkpoint(Key, "EXECUTION_STARTED", "dispatch")
    /\ UNCHANGED <<kind, completed, clock, horizon, host, met>>

\* _GhBrokerExecutor.execute: the request goes out, or is refused before it does.
Dispatch ==
    /\ At("dispatch")
    /\ \/ sent' = sent \cup {It} /\ GoTo("await")
       \/ GoTo("denied") /\ UNCHANGED sent
    /\ UNCHANGED <<kind, journal, torn, completed, clock, horizon, sealed, effects, met>>

\* OwnerMutationHostEndpoint._dispatch: an unused seal and the window it was sealed for.
HostMayExecute(i) == i \in sealed /\ from[KeyOf[i]] <= clock /\ clock < until[KeyOf[i]]

\* What the broker makes of an answer: a call it no longer waits in is not disturbed, and
\* an exception of the channel that dispatch does not catch ends the call.
Answered(i, steps) ==
    IF At("await") /\ It = i
    THEN (\E step \in steps : GoTo(step)) \/ ("denied" \in steps /\ Return)
    ELSE UNCHANGED call

\* The host takes a request: it refuses it, with or without having consumed the seal, or
\* executes it, which GitHub may not show yet.  Its answer may be lost or invalid.
HostTakes(i) ==
    /\ i \in sent
    /\ sent' = sent \ {i}
    /\ \/ /\ sealed' \in {sealed, sealed \ {i}}
          /\ Answered(i, {"denied"})
          /\ UNCHANGED <<effects, met>>
       \/ /\ HostMayExecute(i)
          /\ sealed' = sealed \ {i}
          /\ effects' = [effects EXCEPT ![i] = @ + 1]
          /\ met' \in {met, [met EXCEPT ![i] = TRUE]}
          /\ Answered(i, {"accept", "denied"})
    /\ UNCHANGED <<kind, journal, torn, completed, clock, horizon>>

\* The channel fails while the host may still take the request.
LosesAnswer ==
    /\ At("await")
    /\ GoTo("denied") \/ Return
    /\ UNCHANGED <<kind, journal, torn, completed, clock, horizon, host, met>>

\* Without an accepted fact the entry is ambiguous.  An ambiguous entry of an allocating
\* operation needs a locator, so that this transition is refused and nothing is stored.
Denied ==
    /\ At("denied")
    /\ IF kind[Key] = "allocating"
       THEN Return /\ UNCHANGED <<journal, torn>>
       ELSE LastRecord(Key, "AMBIGUOUS")
    /\ UNCHANGED <<kind, completed, clock, horizon, host, met>>

\* The two checkpoints after an accepted fact; the first stores the locator.
Accept ==
    /\ \/ At("accept") /\ Checkpoint(Key, "TRANSPORT_ACCEPTED", "apply")
       \/ At("apply") /\ Checkpoint(Key, "APPLIED", "readback")
    /\ UNCHANGED <<kind, completed, clock, horizon, host, met>>

\* _complete_broker_read after the mutation, and what follows from it.
ReadBack ==
    /\ At("readback")
    /\ \E answer \in Answers(It) :
          IF ReadbackMatches(It, answer)
          THEN call' = [call EXCEPT !.step = "settle", !.seen = met[It]]
               /\ UNCHANGED <<journal, torn>>
          ELSE LastRecord(Key, "AMBIGUOUS")
    /\ UNCHANGED <<kind, completed, clock, horizon, host, met>>

\* The receipt: persisted and retained, or taken back from memory.
Settle ==
    /\ At("settle")
    /\ \/ Write(Key, "VERIFIED") /\ completed' = completed \cup {It}
       \/ Unwritten /\ UNCHANGED completed
    /\ Return
    /\ UNCHANGED <<kind, clock, horizon, host, met>>

-----------------------------------------------------------------------------
\* reconcile up to _reconcile_journal: the entry must be this intent's.
Reconcile(i) ==
    /\ At("idle") /\ clock < horizon /\ ~torn
    /\ life[KeyOf[i]] # "absent" /\ claimant[KeyOf[i]] = i
    /\ call' = [step |-> "recheck", intent |-> i, now |-> clock, seen |-> FALSE]
    /\ UNCHANGED <<kind, journal, torn, completed, clock, horizon, host, met>>

\* Mutant: an uncertain entry is executed again.
RecheckResends ==
    /\ At("recheck")
    /\ IF life[Key] \in Uncertain THEN GoTo("dispatch") ELSE Return
    /\ UNCHANGED <<kind, journal, torn, completed, clock, horizon, host, met>>

\* _reconcile_journal: the clock is sampled again and must not have moved, the entry's own
\* authorization must be fresh, and an allocation needs the locator that was stored with
\* the transport acceptance.
Recheck ==
    LET fresh == clock = call.now /\ from[Key] <= call.now /\ call.now < until[Key]
        located == kind[Key] = "allocating" => life[Key] # "EXECUTION_STARTED"
        retained == fresh /\ life[Key] = "VERIFIED"
        readable == fresh /\ life[Key] \in Uncertain /\ located
    IN /\ At("recheck")
       /\ IF readable THEN GoTo("reread") ELSE Return
       /\ completed' = IF retained THEN completed \cup {It} ELSE completed
       /\ UNCHANGED <<kind, journal, torn, clock, horizon, host, met>>

\* Its read-back; what does not match stays as it is.
Reread ==
    /\ At("reread")
    /\ \E answer \in Answers(It) :
          IF ReadbackMatches(It, answer)
          THEN call' = [call EXCEPT !.seen = met[It],
                                    !.step = IF life[Key] \in {"EXECUTION_STARTED", "TRANSPORT_ACCEPTED"}
                                             THEN "promote" ELSE "settle"]
          ELSE Return
    /\ UNCHANGED <<kind, journal, torn, completed, clock, horizon, host, met>>

\* The transition that an entry needs before it can be verified.
Promote ==
    /\ At("promote")
    /\ Checkpoint(Key, IF life[Key] = "EXECUTION_STARTED" THEN "AMBIGUOUS" ELSE "APPLIED", "settle")
    /\ UNCHANGED <<kind, completed, clock, horizon, host, met>>

-----------------------------------------------------------------------------
\* The process dies, possibly inside a write, and is restarted with new health evidence.
Crash ==
    /\ Return
    /\ completed' = {}
    /\ torn' \in IF At("idle") THEN {torn} ELSE {torn, TRUE}
    /\ horizon' = clock + Window
    /\ UNCHANGED <<kind, journal, clock, host, met>>

\* The operator removes the temporary file.
Repair ==
    /\ torn /\ torn' = FALSE
    /\ UNCHANGED <<kind, journal, call, completed, clock, horizon, host, met>>

Tick ==
    /\ clock < MaxClock /\ clock' = clock + 1
    /\ UNCHANGED <<kind, journal, torn, call, completed, horizon, host, met>>

\* The owner seals a request, as often as it likes.
SealRequest(i) ==
    /\ sealed' = sealed \cup {i}
    /\ UNCHANGED <<kind, journal, torn, call, completed, clock, horizon, sent, effects, met>>

\* Somebody else changes what the postcondition is about.  The resource of an allocation
\* only exists once it was allocated.
Others(i) ==
    /\ ~met[i] => kind[KeyOf[i]] # "allocating" \/ effects[i] > 0
    /\ met' = [met EXCEPT ![i] = ~@]
    /\ UNCHANGED <<kind, journal, torn, call, completed, clock, horizon, host>>

Broker ==
    \/ \E i \in Intents : Submit(i) \/ Reconcile(i)
    \/ Before \/ Start \/ Dispatch \/ LosesAnswer \/ Denied \/ Accept \/ ReadBack
    \/ Settle \/ Recheck \/ Reread \/ Promote \/ Crash

World ==
    \/ Repair \/ Tick
    \/ \E i \in Intents : HostTakes(i) \/ SealRequest(i) \/ Others(i)

Next == Broker \/ World

Spec == Init /\ [][Next]_vars

-----------------------------------------------------------------------------
\* The variables have the types of the fields they stand for; no entry is ever DENIED,
\* because every call that could deny one has started its execution.
BrokerTypeOK ==
    /\ kind \in [Keys -> Kinds]
    /\ life \in [Keys -> Lifecycles]
    /\ claimant \in [Keys -> Intents \cup {None}]
    /\ from \in [Keys -> Nat] /\ until \in [Keys -> Nat]
    /\ torn \in BOOLEAN
    /\ call \in [step : Steps, intent : Intents \cup {None}, now : Nat, seen : BOOLEAN]
    /\ completed \subseteq Intents
    /\ clock \in Nat /\ horizon \in Nat
    /\ sealed \subseteq Intents /\ sent \subseteq Intents
    /\ met \in [Intents -> BOOLEAN]
    /\ effects \in [Intents -> Nat]

\* An idempotency key is worth one mutation: over any number of crashes, restarts,
\* submissions, reconciliations, lost answers and failed journal writes, at most one
\* request of at most one of the key's intents is executed on GitHub, even if the owner
\* seals it again and again.
OneEffect ==
    \A i, j \in Intents :
        /\ effects[i] <= 1
        /\ effects[i] > 0 /\ effects[j] > 0 /\ KeyOf[i] = KeyOf[j] => i = j

\* Whatever was executed is on record as started, so that an entry that failed or never
\* started has changed nothing: a caller may give up such a key.
EffectIsJournalled ==
    \A i \in Intents :
        effects[i] > 0 => claimant[KeyOf[i]] = i /\ life[KeyOf[i]] \in Uncertain \cup {"VERIFIED"}

\* Between calls, a receipt the broker would hand out again is one the journal has.
CachedReceiptIsDurable ==
    At("idle") => \A i \in completed : claimant[KeyOf[i]] = i /\ life[KeyOf[i]] = "VERIFIED"

\* An entry keeps its claimant and its window, and what is final stays.
RecordIsKept ==
    [][\A k \in Keys : life[k] # "absent" =>
          /\ claimant'[k] = claimant[k] /\ from'[k] = from[k] /\ until'[k] = until[k]
          /\ life[k] \in {"VERIFIED", "FAILED"} => life'[k] = life[k]]_vars

\* A receipt is only issued when the last read of the call found the postcondition true.
ReceiptObserves(k) == life[k] # "VERIFIED" /\ life'[k] = "VERIFIED" => call.seen

\* This holds for everything but the deletion of branches ...
ReceiptIsObserved == [][\A k \in Keys : kind[k] # "delete" => ReceiptObserves(k)]_vars

\* ... for which every stale response passes for the absence of the branch.  The adapter's
\* documentation: a receipt is produced only if the exact semantic condition matches.
DeletionIsObserved == [][\A k \in Keys : kind[k] = "delete" => ReceiptObserves(k)]_vars
=============================================================================
