---------------------------- MODULE Effects_proof ----------------------------
(***************************************************************************)
(* External effects: the mutation broker, the canary, the coding worker,   *)
(* the Supervisor sequence and the deployment handoff, for any number of   *)
(* callers, workers, processes, intents and steps.  Each part has one      *)
(* inductive invariant.                                                    *)
(***************************************************************************)
EXTENDS MutationBroker, CanaryExecution, CodingWorker, SupervisorSequence,
        DeploymentHandoff, TLAPS, FiniteSetTheorems

-----------------------------------------------------------------------------
(***************************************************************************)
(* The mutation broker, for any intents, keys and window.  BrokerInv ties  *)
(* the broker's place in a call to the lifecycle of the entry it is about, *)
(* and every request on its way and every mutation executed to an entry    *)
(* that has started its execution.                                         *)
(***************************************************************************)
Started == Uncertain \cup {"VERIFIED"}

CallRow == [step : Steps, intent : Intents \cup {None}, now : Nat, seen : BOOLEAN]

\* Where a call may be, given the lifecycle of its entry.
Placed(step, l) ==
    /\ step = "before" => l = "CLAIMED"
    /\ step = "start" => l = "PRESTATE_CAPTURED"
    /\ step \in {"dispatch", "await", "denied", "accept"} => l = "EXECUTION_STARTED"
    /\ step = "apply" => l = "TRANSPORT_ACCEPTED"
    /\ step = "readback" => l = "APPLIED"
    /\ step = "reread" => l \in Uncertain
    /\ step = "promote" => l \in {"EXECUTION_STARTED", "TRANSPORT_ACCEPTED"}
    /\ step = "settle" => l \in Uncertain \cup {"PRESTATE_CAPTURED"}

CallInv ==
    ~At("idle") =>
        /\ It \in Intents
        /\ claimant[Key] = It
        /\ Placed(call.step, life[Key])
        /\ At("dispatch") => effects[It] = 0 /\ It \notin sent
        /\ call.step \in {"promote", "settle"} => kind[Key] = "delete" \/ call.seen = TRUE

JournalInv ==
    /\ \A k \in Keys : life[k] = "absent" => claimant[k] = None
    /\ \A i \in Intents : effects[i] > 0 => claimant[KeyOf[i]] = i /\ life[KeyOf[i]] \in Started
    /\ \A i \in Intents : effects[i] <= 1
    /\ \A i \in sent : claimant[KeyOf[i]] = i /\ life[KeyOf[i]] \in Started /\ effects[i] = 0
    /\ \A i \in completed : claimant[KeyOf[i]] = i /\ life[KeyOf[i]] = "VERIFIED"

BrokerInv == BrokerTypeOK /\ CallInv /\ JournalInv

\* What a step may do to the journal.
BrokerKept(k) ==
    life[k] # "absent" =>
        /\ claimant'[k] = claimant[k] /\ from'[k] = from[k] /\ until'[k] = until[k]
        /\ life[k] \in {"VERIFIED", "FAILED"} => life'[k] = life[k]

\* What every step of the specification does.
Lawful ==
    /\ BrokerInv'
    /\ \A k \in Keys : BrokerKept(k)
    /\ \A k \in Keys : kind[k] # "delete" => ReceiptObserves(k)

\* The moves of a call within itself, and its return.
LEMMA BrokerCallMoves ==
    ASSUME BrokerInv
    PROVE  /\ call \in CallRow
           /\ Idle \in CallRow /\ Idle.step = "idle"
           /\ \A step \in Steps : GoTo(step) =>
                 call' \in CallRow /\ call'.step = step /\ call'.intent = call.intent
                 /\ call'.now = call.now /\ call'.seen = call.seen
           /\ ~At("idle") => It \in Intents /\ Key \in Keys /\ claimant[Key] = It
  <1>1. call \in CallRow
    BY DEF BrokerInv, BrokerTypeOK, CallRow
  <1>2. Idle \in CallRow /\ Idle.step = "idle"
    BY DEF Idle, CallRow, Steps
  <1>3. ASSUME NEW step \in Steps, GoTo(step)
        PROVE  call' \in CallRow /\ call'.step = step /\ call'.intent = call.intent
               /\ call'.now = call.now /\ call'.seen = call.seen
    BY <1>1, <1>3 DEF GoTo, CallRow
  <1>4. ~At("idle") => It \in Intents /\ Key \in Keys /\ claimant[Key] = It
    BY BrokerAssumption DEF BrokerInv, CallInv, Key
  <1> QED
    BY <1>1, <1>2, <1>3, <1>4

\* A step that leaves the journal, the host and the receipts alone.
LEMMA QuietStep ==
    ASSUME BrokerInv, UNCHANGED <<kind, journal, host>>, completed' \subseteq Intents,
           \A i \in completed' : claimant[KeyOf[i]] = i /\ life[KeyOf[i]] = "VERIFIED",
           torn' \in BOOLEAN, call' \in CallRow, clock' \in Nat, horizon' \in Nat,
           met' \in [Intents -> BOOLEAN], CallInv'
    PROVE  Lawful
  <1>1. BrokerTypeOK'
    BY DEF BrokerInv, BrokerTypeOK, journal, host, CallRow
  <1>2. JournalInv'
    BY DEF BrokerInv, JournalInv, journal, host
  <1>3. \A k \in Keys : BrokerKept(k) /\ ReceiptObserves(k)
    BY DEF BrokerKept, ReceiptObserves, journal
  <1> QED
    BY <1>1, <1>2, <1>3 DEF Lawful, BrokerInv

\* A step that writes the entry k and leaves the host alone.
LEMMA WriteStep ==
    ASSUME BrokerInv, NEW k \in Keys, NEW to \in Lifecycles, Write(k, to), to # "absent",
           life[k] \notin {"absent", "VERIFIED", "FAILED"},
           life[k] \in Uncertain => to \in Started,
           to = "VERIFIED" => kind[k] = "delete" \/ call.seen = TRUE,
           UNCHANGED <<kind, host, clock, horizon, met>>, completed' \subseteq Intents,
           \A i \in completed' :
               i \in completed \/ (claimant[k] = i /\ KeyOf[i] = k /\ to = "VERIFIED"),
           call' \in CallRow, CallInv'
    PROVE  Lawful
  <1>1. BrokerTypeOK'
    BY DEF BrokerInv, BrokerTypeOK, host, CallRow, Write
  <1>2. /\ life'[k] = to
        /\ \A d \in Keys : d # k => life'[d] = life[d]
        /\ claimant' = claimant /\ from' = from /\ until' = until
    BY DEF BrokerInv, BrokerTypeOK, Write
  <1>3. \A i \in Intents : KeyOf[i] \in Keys
    BY BrokerAssumption
  <1>4. \A d \in Keys : life[d] \in Started => life'[d] \in Started
    BY <1>2 DEF Started
  <1>5. JournalInv'
    <2>1. \A d \in Keys : life'[d] = "absent" => claimant'[d] = None
      BY <1>2 DEF BrokerInv, JournalInv
    <2>2. \A i \in Intents : effects'[i] <= 1
      BY DEF BrokerInv, JournalInv, host
    <2>3. \A i \in Intents : effects'[i] > 0 =>
             claimant'[KeyOf[i]] = i /\ life'[KeyOf[i]] \in Started
      BY <1>2, <1>3, <1>4 DEF BrokerInv, JournalInv, host
    <2>4. \A i \in sent' :
             claimant'[KeyOf[i]] = i /\ life'[KeyOf[i]] \in Started /\ effects'[i] = 0
      BY <1>2, <1>3, <1>4 DEF BrokerInv, BrokerTypeOK, JournalInv, host
    <2>5. \A i \in completed' : claimant'[KeyOf[i]] = i /\ life'[KeyOf[i]] = "VERIFIED"
      BY <1>2, <1>3 DEF BrokerInv, BrokerTypeOK, JournalInv
    <2> QED
      BY <2>1, <2>2, <2>3, <2>4, <2>5 DEF JournalInv
  <1>6. \A d \in Keys : BrokerKept(d)
    BY <1>2 DEF BrokerKept
  <1>7. \A d \in Keys : kind[d] # "delete" => ReceiptObserves(d)
    BY <1>2 DEF ReceiptObserves
  <1> QED
    BY <1>1, <1>5, <1>6, <1>7 DEF Lawful, BrokerInv

\* A call that goes on with its entry, and one that returns.
LEMMA Onwards ==
    ASSUME BrokerInv
    PROVE  /\ Return => call' \in CallRow /\ CallInv'
           /\ /\ ~At("idle")
              /\ call'.intent = call.intent
              /\ claimant' = claimant /\ kind' = kind
              /\ Placed(call'.step, life'[Key])
              /\ call'.step = "dispatch" => effects'[It] = 0 /\ It \notin sent'
              /\ call'.step \in {"promote", "settle"} => kind[Key] = "delete" \/ call'.seen = TRUE
              => CallInv'
  <1>1. Return => call' \in CallRow /\ CallInv'
    BY BrokerCallMoves DEF Return, CallInv, At
  <1>2. ASSUME ~At("idle"), call'.intent = call.intent, claimant' = claimant, kind' = kind,
               Placed(call'.step, life'[Key]),
               call'.step = "dispatch" => effects'[It] = 0 /\ It \notin sent',
               call'.step \in {"promote", "settle"} => kind[Key] = "delete" \/ call'.seen = TRUE
        PROVE  CallInv'
    <2>1. It' = It /\ Key' = Key
      BY <1>2 DEF It, Key
    <2> QED
      BY <2>1, <1>2, BrokerCallMoves DEF CallInv, At
  <1> QED
    BY <1>1, <1>2

\* A write that fails changes nothing but the temporary file.
LEMMA FailedWrite ==
    ASSUME BrokerInv, Unwritten, Return,
           UNCHANGED <<kind, host, clock, horizon, met, completed>>
    PROVE  Lawful
  <1>1. torn' \in BOOLEAN /\ UNCHANGED journal
    BY DEF Unwritten, BrokerInv, BrokerTypeOK
  <1>2. call' \in CallRow /\ CallInv'
    BY Onwards
  <1>3. /\ completed' \subseteq Intents /\ clock' \in Nat /\ horizon' \in Nat
        /\ met' \in [Intents -> BOOLEAN]
        /\ \A i \in completed' : claimant[KeyOf[i]] = i /\ life[KeyOf[i]] = "VERIFIED"
    BY DEF BrokerInv, BrokerTypeOK, JournalInv
  <1> QED
    BY <1>1, <1>2, <1>3, QuietStep

\* A write along which the call goes on, or that is its last.
LEMMA BrokerRecorded ==
    ASSUME BrokerInv, ~At("idle"), NEW to \in Lifecycles, to # "absent", to # "VERIFIED",
           life[Key] \notin {"absent", "VERIFIED", "FAILED"},
           life[Key] \in Uncertain => to \in Started,
           UNCHANGED <<kind, host, clock, horizon, met, completed>>,
           \/ LastRecord(Key, to)
           \/ \E next \in Steps \ {"dispatch", "promote", "settle"} :
                 Placed(next, to) /\ Checkpoint(Key, to, next)
    PROVE  Lawful
  <1>1. Key \in Keys
    BY BrokerCallMoves
  <1>2. CASE Unwritten /\ Return
    BY <1>2, FailedWrite
  <1>3. ASSUME Write(Key, to), call' \in CallRow, CallInv'
        PROVE  Lawful
    <2>1. completed' \subseteq Intents /\ \A i \in completed' : i \in completed
      BY DEF BrokerInv, BrokerTypeOK
    <2> QED
      BY <1>1, <1>3, <2>1, WriteStep
  <1>4. CASE Write(Key, to) /\ Return
    BY <1>3, <1>4, Onwards
  <1>5. ASSUME NEW next \in Steps \ {"dispatch", "promote", "settle"}, Placed(next, to),
               Write(Key, to), GoTo(next)
        PROVE  Lawful
    <2>1. call' \in CallRow /\ call'.step = next /\ call'.intent = call.intent
      BY <1>5, BrokerCallMoves
    <2>2. life'[Key] = to /\ claimant' = claimant
      BY <1>1, <1>5 DEF Write, BrokerInv, BrokerTypeOK
    <2>3. CallInv'
      BY <2>1, <2>2, <1>5, Onwards
    <2> QED
      BY <2>1, <2>3, <1>3, <1>5
  <1> QED
    BY <1>2, <1>4, <1>5 DEF LastRecord, Checkpoint

\* What the checked definitions of a call's place say.
LEMMA Places ==
    ASSUME BrokerInv, ~At("idle")
    PROVE  Placed(call.step, life[Key])
  BY DEF BrokerInv, CallInv

\* One lemma for each operation of the broker, the host and the world: it is lawful.
LEMMA SubmitIsLawful ==
    ASSUME BrokerInv, NEW i \in Intents, Submit(i)
    PROVE  Lawful
  <1> DEFINE k == KeyOf[i]
  <1>1. k \in Keys /\ KeyOf \in [Intents -> Keys] /\ None \notin Intents
    BY BrokerAssumption
  <1>2. BrokerTypeOK /\ JournalInv
    BY DEF BrokerInv
  <1>3. UNCHANGED <<kind, completed, clock, horizon, host, met>>
    BY DEF Submit
  <1>4. CASE /\ life' = [life EXCEPT ![k] = "CLAIMED"]
             /\ claimant' = [claimant EXCEPT ![k] = i]
             /\ from' = [from EXCEPT ![k] = clock]
             /\ until' = [until EXCEPT ![k] = horizon]
             /\ call' = [step |-> "before", intent |-> i, now |-> clock, seen |-> FALSE]
             /\ torn' = torn
             /\ life[k] = "absent"
    <2>1. call' \in CallRow /\ call'.step = "before" /\ call'.intent = i
      BY <1>4, <1>2 DEF CallRow, BrokerTypeOK, Steps
    <2>2. BrokerTypeOK'
      BY <1>1, <1>2, <1>3, <1>4, <2>1 DEF BrokerTypeOK, Lifecycles, host, CallRow
    <2>3. /\ life'[k] = "CLAIMED" /\ claimant'[k] = i
          /\ \A d \in Keys : d # k => /\ life'[d] = life[d] /\ claimant'[d] = claimant[d]
                                      /\ from'[d] = from[d] /\ until'[d] = until[d]
      BY <1>1, <1>2, <1>4 DEF BrokerTypeOK
    <2>4. CallInv'
      BY <2>1, <2>3 DEF CallInv, At, It, Key, Placed
    <2>5. claimant[k] = None
      BY <1>1, <1>2, <1>4 DEF JournalInv
    <2>6. \A j \in Intents : claimant[KeyOf[j]] = j => KeyOf[j] \in Keys /\ KeyOf[j] # k
      BY <1>1, <2>5
    <2>7. JournalInv'
      <3>1. \A d \in Keys : life'[d] = "absent" => claimant'[d] = None
        BY <2>3, <1>2 DEF JournalInv
      <3>2. \A j \in Intents : effects'[j] > 0 =>
               claimant'[KeyOf[j]] = j /\ life'[KeyOf[j]] \in Started
        BY <2>3, <2>6, <1>2, <1>3 DEF JournalInv, host
      <3>3. \A j \in Intents : effects'[j] <= 1
        BY <1>2, <1>3 DEF JournalInv, host
      <3>4. \A j \in sent' :
               claimant'[KeyOf[j]] = j /\ life'[KeyOf[j]] \in Started /\ effects'[j] = 0
        BY <2>3, <2>6, <1>2, <1>3 DEF JournalInv, BrokerTypeOK, host
      <3>5. \A j \in completed' : claimant'[KeyOf[j]] = j /\ life'[KeyOf[j]] = "VERIFIED"
        BY <2>3, <2>6, <1>2, <1>3 DEF JournalInv, BrokerTypeOK
      <3> QED
        BY <3>1, <3>2, <3>3, <3>4, <3>5 DEF JournalInv
    <2>8. \A d \in Keys : BrokerKept(d) /\ ReceiptObserves(d)
      BY <2>3, <1>4 DEF BrokerKept, ReceiptObserves
    <2> QED
      BY <2>2, <2>4, <2>7, <2>8 DEF Lawful, BrokerInv
  <1>5. CASE /\ SameEvidence(i)
             /\ call' = [step |-> "recheck", intent |-> i, now |-> clock, seen |-> FALSE]
             /\ UNCHANGED <<journal, torn>>
    <2>1. call' \in CallRow /\ call'.step = "recheck" /\ call'.intent = i
      BY <1>5, <1>2 DEF CallRow, BrokerTypeOK, Steps
    <2>2. CallInv'
      BY <2>1, <1>5 DEF CallInv, At, It, Key, Placed, SameEvidence, journal
    <2> QED
      BY <2>1, <2>2, <1>2, <1>3, <1>5, QuietStep DEF BrokerTypeOK, JournalInv
  <1>6. CASE Unwritten /\ UNCHANGED call
    <2>1. call' \in CallRow /\ torn' \in BOOLEAN /\ UNCHANGED journal
      BY <1>6, <1>2 DEF Unwritten, BrokerTypeOK, CallRow
    <2>2. CallInv'
      BY <1>6 DEF Submit, CallInv, At
    <2> QED
      BY <2>1, <2>2, <1>2, <1>3, QuietStep DEF BrokerTypeOK, JournalInv
  <1> QED
    BY <1>4, <1>5, <1>6 DEF Submit, Claims

LEMMA BeforeIsLawful ==
    ASSUME BrokerInv, Before
    PROVE  Lawful
  <1>1. ~At("idle") /\ life[Key] = "CLAIMED"
    BY Places DEF Before, At, Placed
  <1>2. UNCHANGED <<kind, completed, clock, horizon, host, met>>
    BY DEF Before
  <1>3. Key \in Keys /\ It \in Intents /\ call \in CallRow
    BY <1>1, BrokerCallMoves
  <1>4. CASE LastRecord(Key, "FAILED")
    BY <1>1, <1>2, <1>4, BrokerRecorded DEF Lifecycles, Uncertain
  <1>5. CASE Return /\ UNCHANGED <<journal, torn>>
    <2>1. call' \in CallRow /\ CallInv'
      BY <1>5, Onwards
    <2> QED
      BY <2>1, <1>2, <1>5, QuietStep DEF BrokerInv, BrokerTypeOK, JournalInv
  <1>6. CASE Unwritten /\ Return
    BY <1>2, <1>6, FailedWrite
  <1>7. CASE /\ Write(Key, "PRESTATE_CAPTURED")
             /\ call' = IF kind[Key] = "state" /\ met[It]
                        THEN [call EXCEPT !.step = "settle", !.seen = TRUE]
                        ELSE [call EXCEPT !.step = "start"]
    <2>1. /\ call' \in CallRow /\ call'.intent = call.intent
          /\ call'.step \in {"start", "settle"}
          /\ call'.step = "settle" => call'.seen = TRUE
      <3>1. CASE call' = [call EXCEPT !.step = "settle", !.seen = TRUE]
        BY <3>1, <1>3 DEF CallRow, Steps
      <3>2. CASE call' = [call EXCEPT !.step = "start"]
        BY <3>2, <1>3 DEF CallRow, Steps
      <3> QED
        BY <1>7, <3>1, <3>2
    <2>2. life'[Key] = "PRESTATE_CAPTURED" /\ claimant' = claimant
      BY <1>3, <1>7 DEF Write, BrokerInv, BrokerTypeOK
    <2>3. Placed(call'.step, life'[Key])
      BY <2>1, <2>2 DEF Placed
    <2>4. CallInv'
      BY <2>1, <2>2, <2>3, <1>1, <1>2, Onwards
    <2>5. "PRESTATE_CAPTURED" \in Lifecycles /\ life[Key] \notin Uncertain
      BY <1>1 DEF Lifecycles, Uncertain
    <2>6. completed' \subseteq Intents /\ \A j \in completed' : j \in completed
      BY <1>2 DEF BrokerInv, BrokerTypeOK
    <2> QED
      BY <2>1, <2>4, <2>5, <2>6, <1>1, <1>2, <1>3, <1>7, WriteStep
  <1> QED
    BY <1>4, <1>5, <1>6, <1>7 DEF Before

LEMMA StartIsLawful ==
    ASSUME BrokerInv, Start
    PROVE  Lawful
  <1>1. ~At("idle") /\ life[Key] = "PRESTATE_CAPTURED"
    BY Places DEF Start, At, Placed
  <1>2. UNCHANGED <<kind, completed, clock, horizon, host, met>>
    BY DEF Start
  <1>3. Key \in Keys /\ It \in Intents /\ claimant[Key] = It
    BY <1>1, BrokerCallMoves
  <1>4. CASE Unwritten /\ Return
    BY <1>2, <1>4, FailedWrite
  <1>5. CASE Write(Key, "EXECUTION_STARTED") /\ GoTo("dispatch")
    <2>1. call' \in CallRow /\ call'.step = "dispatch" /\ call'.intent = call.intent
      BY <1>5, BrokerCallMoves DEF Steps
    <2>2. life'[Key] = "EXECUTION_STARTED" /\ claimant' = claimant
      BY <1>3, <1>5 DEF Write, BrokerInv, BrokerTypeOK
    <2>3. effects[It] = 0 /\ It \notin sent
      <3>1. life[KeyOf[It]] \notin Started
        BY <1>1 DEF Key, Started, Uncertain
      <3> QED
        BY <3>1, <1>3 DEF BrokerInv, BrokerTypeOK, JournalInv
    <2>4. CallInv'
      BY <2>1, <2>2, <2>3, <1>1, <1>2, Onwards DEF Placed, host
    <2>5. "EXECUTION_STARTED" \in Lifecycles /\ life[Key] \notin Uncertain
      BY <1>1 DEF Lifecycles, Uncertain
    <2>6. completed' \subseteq Intents /\ \A j \in completed' : j \in completed
      BY <1>2 DEF BrokerInv, BrokerTypeOK
    <2> QED
      BY <2>1, <2>4, <2>5, <2>6, <1>1, <1>2, <1>3, <1>5, WriteStep
  <1> QED
    BY <1>4, <1>5 DEF Start, Checkpoint

LEMMA DispatchIsLawful ==
    ASSUME BrokerInv, Dispatch
    PROVE  Lawful
  <1>1. ~At("idle") /\ life[Key] = "EXECUTION_STARTED" /\ effects[It] = 0 /\ It \notin sent
    BY Places DEF Dispatch, At, Placed, BrokerInv, CallInv
  <1>2. /\ UNCHANGED <<kind, journal, torn, completed, clock, horizon, sealed, effects, met>>
        /\ sent' \in {sent, sent \cup {It}}
    BY DEF Dispatch
  <1>3. Key \in Keys /\ It \in Intents /\ claimant[Key] = It
    BY <1>1, BrokerCallMoves
  <1>4. /\ call' \in CallRow /\ call'.intent = call.intent
        /\ call'.step \in {"await", "denied"}
    BY BrokerCallMoves DEF Dispatch, Steps
  <1>5. CallInv'
    BY <1>1, <1>2, <1>4, Onwards DEF Placed, journal
  <1>6. BrokerTypeOK'
    BY <1>2, <1>3, <1>4 DEF BrokerInv, BrokerTypeOK, journal, CallRow
  <1>7. life[KeyOf[It]] \in Started /\ claimant[KeyOf[It]] = It
    BY <1>1, <1>3 DEF Key, Started, Uncertain
  <1>8. JournalInv'
    BY <1>1, <1>2, <1>7 DEF BrokerInv, JournalInv, journal
  <1>9. \A k \in Keys : BrokerKept(k) /\ ReceiptObserves(k)
    BY <1>2 DEF BrokerKept, ReceiptObserves, journal
  <1> QED
    BY <1>5, <1>6, <1>8, <1>9 DEF Lawful, BrokerInv

LEMMA HostTakesIsLawful ==
    ASSUME BrokerInv, NEW i \in Intents, HostTakes(i)
    PROVE  Lawful
  <1>1. /\ UNCHANGED <<kind, journal, torn, completed, clock, horizon>>
        /\ i \in sent /\ sent' = sent \ {i} /\ sealed' \subseteq Intents
    BY DEF HostTakes, BrokerInv, BrokerTypeOK
  <1>2. claimant[KeyOf[i]] = i /\ life[KeyOf[i]] \in Started /\ effects[i] = 0
    BY <1>1 DEF BrokerInv, JournalInv
  <1>3. \/ effects' = effects /\ met' = met
        \/ /\ HostMayExecute(i)
           /\ effects' = [effects EXCEPT ![i] = effects[i] + 1]
           /\ met' \in {met, [met EXCEPT ![i] = TRUE]}
    BY DEF HostTakes
  <1>4. /\ effects' \in [Intents -> Nat] /\ met' \in [Intents -> BOOLEAN]
        /\ effects'[i] \in {0, 1}
        /\ \A j \in Intents : j # i => effects'[j] = effects[j]
        /\ effects'[i] = 1 => HostMayExecute(i)
    <2>1. effects \in [Intents -> Nat] /\ met \in [Intents -> BOOLEAN]
      BY DEF BrokerInv, BrokerTypeOK
    <2>2. met' \in [Intents -> BOOLEAN]
      BY <1>3, <2>1
    <2>3. CASE effects' = effects
      BY <2>1, <2>2, <2>3, <1>2
    <2>4. CASE HostMayExecute(i) /\ effects' = [effects EXCEPT ![i] = effects[i] + 1]
      BY <2>1, <2>2, <2>4, <1>2
    <2> QED
      BY <1>3, <2>3, <2>4
  <1>5. call' = call \/ (At("await") /\ It = i /\ (GoTo("denied") \/ GoTo("accept") \/ Return))
    BY DEF HostTakes, Answered
  <1>6. call' \in CallRow /\ CallInv'
    <2>1. CASE call' = call
      <3>1. It' = It /\ Key' = Key /\ call \in CallRow
        BY <2>1, BrokerCallMoves DEF It, Key
      <3>2. At("dispatch") => It # i
        BY <1>1 DEF BrokerInv, CallInv, At
      <3> QED
        BY <2>1, <3>1, <3>2, <1>1, <1>4 DEF CallInv, BrokerInv, journal, At
    <2>2. CASE At("await") /\ (GoTo("denied") \/ GoTo("accept"))
      <3>1. call' \in CallRow /\ call'.step \in {"denied", "accept"} /\ call'.intent = call.intent
        BY <2>2, BrokerCallMoves DEF Steps
      <3>2. ~At("idle") /\ life[Key] = "EXECUTION_STARTED"
        BY <2>2, Places DEF At, Placed
      <3> QED
        BY <3>1, <3>2, <1>1, Onwards DEF Placed, journal
    <2>3. CASE Return
      BY <2>3, Onwards
    <2> QED
      BY <1>5, <2>1, <2>2, <2>3
  <1>7. BrokerTypeOK'
    BY <1>1, <1>4, <1>6 DEF BrokerInv, BrokerTypeOK, journal, CallRow
  <1>8. JournalInv'
    <2>1. \A j \in Intents : effects'[j] <= 1
      BY <1>4 DEF BrokerInv, JournalInv
    <2>2. \A j \in Intents : effects'[j] > 0 =>
             claimant[KeyOf[j]] = j /\ life[KeyOf[j]] \in Started
      BY <1>2, <1>4 DEF BrokerInv, JournalInv
    <2>3. \A j \in sent' : effects'[j] = 0 /\ j \in sent
      BY <1>1, <1>4 DEF BrokerInv, BrokerTypeOK, JournalInv
    <2> QED
      BY <2>1, <2>2, <2>3, <1>1 DEF BrokerInv, JournalInv, journal
  <1>9. \A k \in Keys : BrokerKept(k) /\ ReceiptObserves(k)
    BY <1>1 DEF BrokerKept, ReceiptObserves, journal
  <1> QED
    BY <1>6, <1>7, <1>8, <1>9 DEF Lawful, BrokerInv

\* The steps of a call that write nothing.
LEMMA CallOnly ==
    ASSUME BrokerInv, UNCHANGED <<kind, journal, host, torn, clock, horizon, met>>,
           \A i \in completed' :
               i \in completed \/ (i = It /\ life[Key] = "VERIFIED"),
           ~At("idle"), call' \in CallRow, CallInv'
    PROVE  Lawful
  <1>1. /\ torn' \in BOOLEAN /\ clock' \in Nat /\ horizon' \in Nat
        /\ met' \in [Intents -> BOOLEAN] /\ completed \subseteq Intents
    BY DEF BrokerInv, BrokerTypeOK
  <1>2. It \in Intents /\ claimant[Key] = It
    BY BrokerCallMoves
  <1>3. /\ completed' \subseteq Intents
        /\ \A i \in completed' : claimant[KeyOf[i]] = i /\ life[KeyOf[i]] = "VERIFIED"
    BY <1>1, <1>2 DEF BrokerInv, JournalInv, Key
  <1> QED
    BY <1>1, <1>3, QuietStep

LEMMA ReadsAreLawful ==
    ASSUME BrokerInv, LosesAnswer \/ ReadBack \/ Recheck \/ Reread
    PROVE  Lawful
  <1>1. ~At("idle") /\ call \in CallRow /\ Key \in Keys /\ It \in Intents
    BY BrokerCallMoves DEF LosesAnswer, ReadBack, Recheck, Reread, At
  <1>2. ASSUME NEW answer \in Answers(It), ReadbackMatches(It, answer)
        PROVE  kind[Key] = "delete" \/ met[It] = TRUE
    <2>1. answer = "met" => met[It]
      BY <1>2 DEF Answers
    <2> QED
      BY <2>1, <1>1, <1>2 DEF ReadbackMatches, Key, BrokerInv, BrokerTypeOK
  <1>3. ASSUME NEW step \in {"settle", "promote"},
               call' = [call EXCEPT !.step = step, !.seen = met[It]]
        PROVE  call' \in CallRow /\ call'.intent = call.intent /\ call'.step = step
               /\ call'.seen = met[It]
    <2>1. met[It] \in BOOLEAN
      BY <1>1 DEF BrokerInv, BrokerTypeOK
    <2> QED
      BY <1>1, <1>3, <2>1 DEF CallRow, Steps
  <1>4. CASE LosesAnswer
    <2>1. /\ life[Key] = "EXECUTION_STARTED"
          /\ UNCHANGED <<kind, journal, host, torn, completed, clock, horizon, met>>
      BY <1>1, <1>4, Places DEF LosesAnswer, At, Placed
    <2>2. CASE GoTo("denied")
      <3>1. call' \in CallRow /\ call'.step = "denied" /\ call'.intent = call.intent
        BY <2>2, BrokerCallMoves DEF Steps
      <3>2. CallInv'
        BY <3>1, <2>1, <1>1, Onwards DEF Placed, journal
      <3> QED
        BY <3>1, <3>2, <2>1, <1>1, CallOnly
    <2>3. CASE Return
      BY <2>3, <2>1, <1>1, Onwards, CallOnly
    <2> QED
      BY <1>4, <2>2, <2>3 DEF LosesAnswer
  <1>5. CASE ReadBack
    <2>1. /\ life[Key] = "APPLIED"
          /\ UNCHANGED <<kind, completed, clock, horizon, host, met>>
      BY <1>1, <1>5, Places DEF ReadBack, At, Placed
    <2>2. PICK answer \in Answers(It) :
             IF ReadbackMatches(It, answer)
             THEN call' = [call EXCEPT !.step = "settle", !.seen = met[It]]
                  /\ UNCHANGED <<journal, torn>>
             ELSE LastRecord(Key, "AMBIGUOUS")
      BY <1>5 DEF ReadBack
    <2>3. CASE ReadbackMatches(It, answer)
      <3>1. call' \in CallRow /\ call'.intent = call.intent /\ call'.step = "settle"
            /\ call'.seen = met[It]
        BY <2>2, <2>3, <1>3
      <3>2. CallInv'
        BY <3>1, <2>1, <2>2, <2>3, <1>1, <1>2, Onwards DEF Placed, Uncertain, journal
      <3> QED
        BY <3>1, <3>2, <2>1, <2>2, <2>3, <1>1, CallOnly
    <2>4. CASE ~ReadbackMatches(It, answer)
      BY <2>1, <2>2, <2>4, <1>1, BrokerRecorded DEF Lifecycles, Started, Uncertain
    <2> QED
      BY <2>3, <2>4
  <1>6. CASE Recheck
    <2>1. UNCHANGED <<kind, journal, host, torn, clock, horizon, met>>
      BY <1>6 DEF Recheck
    <2>2. \A i \in completed' : i \in completed \/ (i = It /\ life[Key] = "VERIFIED")
      BY <1>6 DEF Recheck
    <2>3. CASE GoTo("reread") /\ life[Key] \in Uncertain
      <3>1. call' \in CallRow /\ call'.step = "reread" /\ call'.intent = call.intent
        BY <2>3, BrokerCallMoves DEF Steps
      <3>2. CallInv'
        BY <3>1, <2>1, <2>3, <1>1, Onwards DEF Placed, journal
      <3> QED
        BY <3>1, <3>2, <2>1, <2>2, <1>1, CallOnly
    <2>4. CASE Return
      BY <2>4, <2>1, <2>2, <1>1, Onwards, CallOnly
    <2> QED
      BY <1>6, <2>3, <2>4 DEF Recheck
  <1>7. CASE Reread
    <2>1. /\ life[Key] \in Uncertain
          /\ UNCHANGED <<kind, journal, host, torn, completed, clock, horizon, met>>
      BY <1>1, <1>7, Places DEF Reread, At, Placed
    <2>2. PICK answer \in Answers(It) :
             IF ReadbackMatches(It, answer)
             THEN call' = [call EXCEPT !.seen = met[It],
                                       !.step = IF life[Key] \in {"EXECUTION_STARTED", "TRANSPORT_ACCEPTED"}
                                                THEN "promote" ELSE "settle"]
             ELSE Return
      BY <1>7 DEF Reread
    <2>3. CASE ReadbackMatches(It, answer)
      <3> DEFINE next == IF life[Key] \in {"EXECUTION_STARTED", "TRANSPORT_ACCEPTED"}
                         THEN "promote" ELSE "settle"
      <3>1. next \in {"settle", "promote"} /\ call' = [call EXCEPT !.step = next, !.seen = met[It]]
        BY <2>2, <2>3, <1>1 DEF CallRow
      <3>2. Placed(next, life[Key])
        BY <2>1 DEF Placed, Uncertain
      <3> HIDE DEF next
      <3>3. call' \in CallRow /\ call'.intent = call.intent /\ call'.step = next
            /\ call'.seen = met[It]
        BY <3>1, <1>3
      <3>4. CallInv'
        <4>1. life' = life /\ claimant' = claimant /\ kind' = kind
          BY <2>1 DEF journal
        <4>2. kind[Key] = "delete" \/ call'.seen = TRUE
          BY <2>3, <1>2, <3>3
        <4>3. call'.step # "dispatch"
          BY <3>1, <3>3
        <4> QED
          BY <4>1, <4>2, <4>3, <3>2, <3>3, <1>1, Onwards
      <3> QED
        BY <3>3, <3>4, <2>1, <1>1, CallOnly
    <2>4. CASE ~ReadbackMatches(It, answer)
      BY <2>1, <2>2, <2>4, <1>1, Onwards, CallOnly
    <2> QED
      BY <2>3, <2>4
  <1> QED
    BY <1>4, <1>5, <1>6, <1>7

LEMMA RecordsAreLawful ==
    ASSUME BrokerInv, Denied \/ Accept \/ Promote
    PROVE  Lawful
  <1>1. ~At("idle") /\ UNCHANGED <<kind, completed, clock, horizon, host, met>>
    BY DEF Denied, Accept, Promote, At
  <1>2. /\ {"TRANSPORT_ACCEPTED", "APPLIED", "AMBIGUOUS"} \subseteq Lifecycles \cap Started
        /\ {"apply", "readback"} \subseteq Steps \ {"dispatch", "promote", "settle"}
    BY DEF Lifecycles, Started, Uncertain, Steps
  <1>3. CASE Denied
    <2>1. life[Key] = "EXECUTION_STARTED"
      BY <1>1, <1>3, Places DEF Denied, At, Placed
    <2>2. CASE Return /\ UNCHANGED <<journal, torn>>
      BY <2>2, <1>1, Onwards, CallOnly
    <2>3. CASE LastRecord(Key, "AMBIGUOUS")
      BY <2>1, <2>3, <1>1, <1>2, BrokerRecorded
    <2> QED
      BY <1>3, <2>2, <2>3 DEF Denied
  <1>4. CASE At("accept") /\ Checkpoint(Key, "TRANSPORT_ACCEPTED", "apply")
    <2>1. life[Key] = "EXECUTION_STARTED" /\ Placed("apply", "TRANSPORT_ACCEPTED")
      BY <1>1, <1>4, Places DEF At, Placed
    <2> QED
      BY <2>1, <1>1, <1>2, <1>4, BrokerRecorded
  <1>5. CASE At("apply") /\ Checkpoint(Key, "APPLIED", "readback")
    <2>1. life[Key] = "TRANSPORT_ACCEPTED" /\ Placed("readback", "APPLIED")
      BY <1>1, <1>5, Places DEF At, Placed
    <2> QED
      BY <2>1, <1>1, <1>2, <1>5, BrokerRecorded
  <1>6. CASE Promote
    <2> DEFINE to == IF life[Key] = "EXECUTION_STARTED" THEN "AMBIGUOUS" ELSE "APPLIED"
    <2>1. life[Key] \in {"EXECUTION_STARTED", "TRANSPORT_ACCEPTED"} /\ Key \in Keys
      BY <1>1, <1>6, Places, BrokerCallMoves DEF Promote, At, Placed
    <2>2. to \in Lifecycles \cap Started /\ to \notin {"absent", "VERIFIED"} /\ Placed("settle", to)
      BY <1>2 DEF Placed, Uncertain
    <2>3. (Write(Key, to) /\ GoTo("settle")) \/ (Unwritten /\ Return)
      BY <1>6 DEF Promote, Checkpoint
    <2>4. call.seen = TRUE \/ kind[Key] = "delete"
      BY <1>1, <1>6 DEF Promote, At, BrokerInv, CallInv
    <2> HIDE DEF to
    <2>5. CASE Unwritten /\ Return
      BY <2>5, <1>1, FailedWrite
    <2>6. CASE Write(Key, to) /\ GoTo("settle")
      <3>1. call' \in CallRow /\ call'.step = "settle" /\ call'.intent = call.intent
            /\ call'.seen = call.seen
        BY <2>6, BrokerCallMoves DEF Steps
      <3>2. life'[Key] = to /\ claimant' = claimant
        BY <2>1, <2>6 DEF Write, BrokerInv, BrokerTypeOK
      <3>3. CallInv'
        BY <3>1, <3>2, <2>2, <2>4, <1>1, Onwards
      <3>4. completed' \subseteq Intents /\ \A i \in completed' : i \in completed
        BY <1>1 DEF BrokerInv, BrokerTypeOK
      <3> QED
        BY <3>1, <3>3, <3>4, <2>1, <2>2, <2>6, <1>1, WriteStep
    <2> QED
      BY <2>3, <2>5, <2>6
  <1> QED
    BY <1>3, <1>4, <1>5, <1>6 DEF Accept

LEMMA SettleIsLawful ==
    ASSUME BrokerInv, Settle
    PROVE  Lawful
  <1>1. /\ ~At("idle") /\ life[Key] \in Uncertain \cup {"PRESTATE_CAPTURED"}
        /\ kind[Key] = "delete" \/ call.seen = TRUE
    BY Places DEF Settle, At, Placed, BrokerInv, CallInv
  <1>2. UNCHANGED <<kind, clock, horizon, host, met>> /\ Return
    BY DEF Settle
  <1>3. Key \in Keys /\ It \in Intents /\ claimant[Key] = It
    BY <1>1, BrokerCallMoves
  <1>4. CASE Unwritten /\ UNCHANGED completed
    BY <1>2, <1>4, FailedWrite
  <1>5. CASE Write(Key, "VERIFIED") /\ completed' = completed \cup {It}
    <2>1. "VERIFIED" \in Lifecycles \cap Started /\ life[Key] \notin {"absent", "VERIFIED", "FAILED"}
      BY <1>1 DEF Lifecycles, Started, Uncertain
    <2>2. /\ completed' \subseteq Intents
          /\ \A i \in completed' : i \in completed \/ (claimant[Key] = i /\ KeyOf[i] = Key)
      BY <1>3, <1>5 DEF BrokerInv, BrokerTypeOK, Key
    <2>3. call' \in CallRow /\ CallInv'
      BY <1>2, Onwards
    <2> QED
      <3> DEFINE k == Key
      <3>1. /\ k \in Keys /\ Write(k, "VERIFIED") /\ life[k] \notin {"absent", "VERIFIED", "FAILED"}
            /\ kind[k] = "delete" \/ call.seen = TRUE
            /\ \A i \in completed' : i \in completed \/ (claimant[k] = i /\ KeyOf[i] = k)
        BY <2>1, <2>2, <1>1, <1>3, <1>5
      <3> HIDE DEF k
      <3> QED
        BY <3>1, <2>1, <2>2, <2>3, <1>2, WriteStep
  <1> QED
    BY <1>4, <1>5 DEF Settle

LEMMA ReconcileIsLawful ==
    ASSUME BrokerInv, NEW i \in Intents, Reconcile(i)
    PROVE  Lawful
  <1>1. UNCHANGED <<kind, journal, torn, completed, clock, horizon, host, met>>
    BY DEF Reconcile
  <1>2. call' \in CallRow /\ call'.step = "recheck" /\ call'.intent = i
    BY DEF Reconcile, CallRow, Steps, BrokerInv, BrokerTypeOK
  <1>3. claimant[KeyOf[i]] = i
    BY DEF Reconcile
  <1>4. CallInv'
    BY <1>1, <1>2, <1>3 DEF CallInv, At, It, Key, Placed, journal
  <1> QED
    BY <1>1, <1>2, <1>4, QuietStep DEF BrokerInv, BrokerTypeOK, JournalInv

LEMMA CrashIsLawful ==
    ASSUME BrokerInv, Crash
    PROVE  Lawful
  <1>1. UNCHANGED <<kind, journal, clock, host, met>> /\ Return /\ completed' = {}
    BY DEF Crash
  <1>2. torn' \in BOOLEAN
    BY DEF Crash, BrokerInv, BrokerTypeOK
  <1>3. horizon' \in Nat
    BY BrokerAssumption DEF Crash, BrokerInv, BrokerTypeOK
  <1>4. call' \in CallRow /\ CallInv'
    BY <1>1, Onwards
  <1> QED
    BY <1>1, <1>2, <1>3, <1>4, QuietStep DEF BrokerInv, BrokerTypeOK

LEMMA WorldIsLawful ==
    ASSUME BrokerInv, Repair \/ Tick \/ \E i \in Intents : SealRequest(i) \/ Others(i)
    PROVE  Lawful
  <1>1. /\ UNCHANGED <<kind, journal, call, completed, horizon, sent, effects>>
        /\ torn' \in BOOLEAN /\ clock' \in Nat /\ sealed' \subseteq Intents
    <2>1. /\ torn \in BOOLEAN /\ clock \in Nat /\ sealed \subseteq Intents
      BY DEF BrokerInv, BrokerTypeOK
    <2>2. CASE Repair
      BY <2>1, <2>2 DEF Repair, host
    <2>3. CASE Tick
      BY <2>1, <2>3 DEF Tick, host
    <2>4. CASE \E i \in Intents : SealRequest(i)
      BY <2>1, <2>4 DEF SealRequest
    <2>5. CASE \E i \in Intents : Others(i)
      BY <2>1, <2>5 DEF Others, host
    <2> QED
      BY <2>2, <2>3, <2>4, <2>5
  <1>2. met' \in [Intents -> BOOLEAN]
    BY Zenon DEF Repair, Tick, SealRequest, Others, BrokerInv, BrokerTypeOK
  <1>3. CallInv'
    <2>1. It' = It /\ Key' = Key
      BY <1>1 DEF It, Key
    <2> QED
      BY <2>1, <1>1 DEF BrokerInv, CallInv, At, journal
  <1>4. BrokerTypeOK' /\ JournalInv'
    BY <1>1, <1>2 DEF BrokerInv, BrokerTypeOK, JournalInv, journal
  <1>5. \A k \in Keys : BrokerKept(k) /\ ReceiptObserves(k)
    BY <1>1 DEF BrokerKept, ReceiptObserves, journal
  <1> QED
    BY <1>3, <1>4, <1>5 DEF Lawful, BrokerInv

\* Every step, and with it a stuttering one, is lawful.
LEMMA NextIsLawful ==
    ASSUME BrokerInv, [Next]_vars
    PROVE  Lawful
  <1>1. CASE UNCHANGED vars
    <2>1. /\ UNCHANGED <<kind, journal, host, torn, call, completed, clock, horizon, met>>
          /\ It' = It /\ Key' = Key
      BY <1>1 DEF vars, It, Key
    <2>2. CallInv'
      BY <2>1 DEF BrokerInv, CallInv, At, journal, host
    <2>3. BrokerTypeOK
      BY DEF BrokerInv
    <2> QED
      BY <2>1, <2>2, <2>3, QuietStep DEF BrokerInv, BrokerTypeOK, JournalInv, CallRow
  <1>2. CASE Broker
    BY <1>2, SubmitIsLawful, ReconcileIsLawful, BeforeIsLawful, StartIsLawful, DispatchIsLawful,
       ReadsAreLawful, RecordsAreLawful, SettleIsLawful, CrashIsLawful DEF Broker
  <1>3. CASE \E i \in Intents : HostTakes(i) \/ SealRequest(i) \/ Others(i)
    BY <1>3, HostTakesIsLawful, WorldIsLawful
  <1>4. CASE Repair \/ Tick
    BY <1>4, WorldIsLawful
  <1> QED
    BY <1>1, <1>2, <1>3, <1>4 DEF Next, World

LEMMA InitIsLawful ==
    ASSUME Init
    PROVE  BrokerInv
  <1>1. Idle \in CallRow /\ Idle.step = "idle"
    BY DEF Idle, CallRow, Steps
  <1>2. BrokerTypeOK
    BY <1>1, BrokerAssumption DEF Init, BrokerTypeOK, Lifecycles, CallRow
  <1>3. CallInv
    BY <1>1 DEF Init, CallInv, At
  <1>4. JournalInv
    BY DEF Init, JournalInv
  <1> QED
    BY <1>2, <1>3, <1>4 DEF BrokerInv

\* The inductive invariant holds throughout.
THEOREM BrokerInvariance == Spec => []BrokerInv
  <1>1. BrokerInv /\ [Next]_vars => BrokerInv'
    BY NextIsLawful DEF Lawful
  <1> QED
    BY <1>1, InitIsLawful, PTL DEF Spec

\* The fields and rows keep their types, and no entry is ever DENIED.
THEOREM BrokerTypes == Spec => []BrokerTypeOK
  <1>1. BrokerInv => BrokerTypeOK
    BY DEF BrokerInv
  <1> QED
    BY <1>1, BrokerInvariance, PTL

\* An idempotency key is worth at most one mutation, for any intents that share keys in
\* any way: submit and reconcile never send twice what the journal has started.
THEOREM OneEffectPerKey == Spec => []OneEffect
  <1>1. BrokerInv => OneEffect
    <2>1. ASSUME BrokerInv, NEW i \in Intents, NEW j \in Intents
          PROVE  /\ effects[i] <= 1
                 /\ effects[i] > 0 /\ effects[j] > 0 /\ KeyOf[i] = KeyOf[j] => i = j
      BY <2>1 DEF BrokerInv, JournalInv
    <2> QED
      BY <2>1 DEF OneEffect
  <1> QED
    BY <1>1, BrokerInvariance, PTL

\* What was executed is on record as started.
THEOREM EffectsAreJournalled == Spec => []EffectIsJournalled
  <1>1. BrokerInv => EffectIsJournalled
    BY DEF BrokerInv, JournalInv, EffectIsJournalled, Started
  <1> QED
    BY <1>1, BrokerInvariance, PTL

\* A retained receipt is one of the journal's.
THEOREM CachedReceiptsAreDurable == Spec => []CachedReceiptIsDurable
  <1>1. BrokerInv => CachedReceiptIsDurable
    BY DEF BrokerInv, JournalInv, CachedReceiptIsDurable
  <1> QED
    BY <1>1, BrokerInvariance, PTL

\* An entry keeps its claimant and window, and what is final stays.
THEOREM RecordsAreKept == Spec => RecordIsKept
  <1>1. BrokerInv /\ [Next]_vars =>
           [\A k \in Keys : life[k] # "absent" =>
               /\ claimant'[k] = claimant[k] /\ from'[k] = from[k] /\ until'[k] = until[k]
               /\ life[k] \in {"VERIFIED", "FAILED"} => life'[k] = life[k]]_vars
    BY NextIsLawful DEF Lawful, BrokerKept
  <1> QED
    BY <1>1, BrokerInvariance, PTL DEF Spec, RecordIsKept

\* Except for deletions, a receipt is issued only for a postcondition that was read.
THEOREM ReceiptsAreObserved == Spec => ReceiptIsObserved
  <1>1. BrokerInv /\ [Next]_vars =>
           [\A k \in Keys : kind[k] # "delete" => ReceiptObserves(k)]_vars
    BY NextIsLawful DEF Lawful
  <1> QED
    BY <1>1, BrokerInvariance, PTL DEF Spec, ReceiptIsObserved

-----------------------------------------------------------------------------
(***************************************************************************)
(* The deployment handoff.  HandoffInv ties the phase of a handoff to the  *)
(* receipts it revokes, retires and activates, and every evidence row to   *)
(* the tenure it observed.                                                 *)
(***************************************************************************)
HandoffTypes ==
    /\ now \in Nat /\ generation \in Nat /\ tenure \in Nat
    /\ active \in Receipts \cup {Vacant}
    /\ claim \in ClaimRow \cup {Vacant}
    /\ progress \in ProgressRow \cup {Vacant}
    /\ revoked \subseteq Receipts /\ retired \subseteq Receipts
    /\ evidence \in [Evidence -> EvidenceRow \cup {Vacant}]
    /\ hosts \in [Coordinators -> HostRow \cup {Vacant}]

(* The stages of a handoff and the receipt it retires. *)
StageInv ==
    /\ active \notin revoked
    /\ progress = Vacant => retired \subseteq revoked
    /\ progress = Vacant /\ claim # Vacant => active # Vacant
    /\ progress # Vacant =>
          /\ retired \subseteq revoked \cup {progress.old}
          /\ IF progress.phase = "revoked"
             THEN active = Vacant /\ claim = Vacant /\ progress.old \in revoked
             ELSE active = progress.old

(* Evidence about the receipt in force never runs ahead of its generation,
   and at the generation it is evidence of this tenure. *)
EvidenceFits(e, gen) ==
    evidence[e].generation <= gen /\ (evidence[e].generation = gen => evidence[e].about = tenure)
EvidenceInv(e) ==
    evidence[e] # Vacant =>
      /\ evidence[e].receipt \in revoked \cup {active}
      /\ progress = Vacant /\ claim = Vacant => evidence[e].receipt # active
      /\ progress = Vacant /\ evidence[e].receipt = active => EvidenceFits(e, generation)
      /\ progress # Vacant /\ evidence[e].receipt = progress.old => EvidenceFits(e, progress.generation)

HandoffInv == HandoffTypes /\ StageInv /\ \A e \in Evidence : EvidenceInv(e)

(* A handoff that starts retires the receipt it was given. *)
LEMMA StartHandoffKeeps ==
  ASSUME HandoffInv, NEW c, NEW r \in Receipts, NEW incoming \in Identities, NEW h \in Handoffs,
         NEW owner \in Coordinators, NEW gen \in Nat, StartHandoff(c, r, incoming, h, owner, gen),
         \/ gen = generation /\ claim # Vacant /\ UNCHANGED tenure
         \/ gen = generation + 1 /\ tenure' = tenure + 1
  PROVE  HandoffInv'
  <1>1. PICK row \in ProgressRow : row = NewProgress(h, r, incoming, owner, gen)
    BY DEF ProgressRow, NewProgress
  <1>2. row # Vacant /\ row.old = r /\ row.phase = "stopping" /\ row.generation = gen
    BY <1>1, WindowsAssumption DEF NewProgress
  <1>3. progress = Vacant /\ active = r /\ progress' = row /\ retired' = retired \cup {r}
        /\ UNCHANGED <<now, active, claim, generation, revoked, evidence, hosts>>
    BY <1>1 DEF StartHandoff, local
  <1>4. tenure' \in Nat BY DEF HandoffInv, HandoffTypes
  <1>5. HandoffTypes' BY <1>3, <1>4 DEF HandoffInv, HandoffTypes
  <1>6. StageInv' BY <1>2, <1>3 DEF HandoffInv, HandoffTypes, StageInv
  <1>7. ASSUME NEW e \in Evidence PROVE EvidenceInv(e)'
    <2>1. evidence[e] # Vacant => evidence[e].generation \in Nat
      BY DEF HandoffInv, HandoffTypes, EvidenceRow
    <2> QED BY <2>1, <1>2, <1>3 DEF HandoffInv, HandoffTypes, EvidenceInv, EvidenceFits
  <1> QED BY <1>5, <1>6, <1>7 DEF HandoffInv

(* The owner of the claim begins a handoff. *)
LEMMA BeginKeeps ==
  ASSUME HandoffInv, NEW c \in Coordinators, NEW r \in Receipts, NEW incoming \in Identities,
         NEW h \in Handoffs, BeginHandoff(c, r, incoming, h)
  PROVE  HandoffInv'
  <1>1. claim # Vacant /\ claim.owner \in Coordinators
    BY DEF BeginHandoff, FreshOwner, HoldsClaim, HandoffInv, HandoffTypes, ClaimRow
  <1>2. StartHandoff(c, r, incoming, h, claim.owner, generation) /\ UNCHANGED tenure
    BY DEF BeginHandoff
  <1>3. generation \in Nat BY DEF HandoffInv, HandoffTypes
  <1> QED BY <1>1, <1>2, <1>3, StartHandoffKeeps

(* The evidence that takes the claim names the tenure of its owner. *)
LEMMA BeginRecoveredKeeps ==
  ASSUME HandoffInv, NEW c \in Coordinators, NEW r \in Receipts, NEW incoming \in Identities,
         NEW h \in Handoffs, NEW e \in Evidence, BeginRecovered(c, r, incoming, h, e)
  PROVE  HandoffInv' /\ consumed' = consumed \cup {e} /\ evidence[e].about = tenure
  <1>1. evidence[e] # Vacant /\ evidence[e].receipt = r /\ evidence[e].generation = generation
        /\ evidence[e].replacement \in Coordinators /\ active = r /\ progress = Vacant
    BY DEF BeginRecovered, RecoveryMatches, StartHandoff, HandoffInv, HandoffTypes, EvidenceRow
  <1>2. StartHandoff(c, r, incoming, h, evidence[e].replacement, generation + 1)
        /\ tenure' = tenure + 1 /\ consumed' = consumed \cup {e}
    BY <1>1 DEF BeginRecovered
  <1>3. generation + 1 \in Nat BY DEF HandoffInv, HandoffTypes
  <1>4. HandoffInv' BY <1>1, <1>2, <1>3, StartHandoffKeeps
  <1>5. evidence[e].about = tenure BY <1>1 DEF HandoffInv, EvidenceInv, EvidenceFits
  <1> QED BY <1>2, <1>4, <1>5

(* A recovered handoff begins on evidence of the owner's tenure. *)
LEMMA RecoverHandoffKeeps ==
  ASSUME HandoffInv, NEW c \in Coordinators, NEW e \in Evidence, RecoverHandoff(c, e)
  PROVE  HandoffInv' /\ consumed' = consumed \cup {e} /\ evidence[e].about = tenure
  <1>1. progress \in ProgressRow /\ progress # Vacant
    BY DEF RecoverHandoff, HandoffInv, HandoffTypes
  <1>2. evidence[e] # Vacant /\ evidence[e].receipt = progress.old
        /\ evidence[e].generation = progress.generation /\ evidence[e].replacement \in Coordinators
    BY DEF RecoverHandoff, RecoveryMatches, HandoffInv, HandoffTypes, EvidenceRow
  <1>3. progress.generation \in Nat /\ progress.old \in Receipts BY <1>1 DEF ProgressRow
  <1>3a. PICK gen \in Nat, owner \in Coordinators :
            gen = progress.generation + 1 /\ owner = evidence[e].replacement
    BY <1>2, <1>3
  <1> DEFINE row == [progress EXCEPT !.owner = owner, !.generation = gen]
  <1>4. row \in ProgressRow /\ row.old = progress.old /\ row.phase = progress.phase
        /\ row.generation = progress.generation + 1
    BY <1>1, <1>3a DEF ProgressRow
  <1>5. progress' = row /\ consumed' = consumed \cup {e} /\ tenure' = tenure + 1
        /\ UNCHANGED <<now, active, claim, generation, revoked, evidence, hosts, retired>>
    BY <1>2, <1>3a DEF RecoverHandoff, local
  <1> HIDE DEF row
  <1>6. row # Vacant BY <1>4, WindowsAssumption
  <1>7. HandoffTypes' BY <1>4, <1>5 DEF HandoffInv, HandoffTypes
  <1>8. StageInv' BY <1>1, <1>4, <1>5, <1>6 DEF HandoffInv, StageInv
  <1>9. ASSUME NEW o \in Evidence PROVE EvidenceInv(o)'
    <2>1. evidence[o] # Vacant => evidence[o].generation \in Nat
      BY DEF HandoffInv, HandoffTypes, EvidenceRow
    <2> QED BY <2>1, <1>1, <1>3, <1>4, <1>5, <1>6 DEF HandoffInv, EvidenceInv, EvidenceFits
  <1>10. evidence[e].about = tenure BY <1>1, <1>2 DEF HandoffInv, EvidenceInv, EvidenceFits
  <1> QED BY <1>5, <1>7, <1>8, <1>9, <1>10 DEF HandoffInv

(* A phase of the open handoff, without a change of hands. *)
LEMMA PhaseKeeps ==
  ASSUME HandoffInv, NEW c \in Coordinators, ReconcileHandoff(c) \/ RevokeOldReceipt(c)
  PROVE  HandoffInv'
  <1>1. progress \in ProgressRow /\ progress # Vacant
    BY DEF ReconcileHandoff, RevokeOldReceipt, HoldsHandoff, HandoffInv, HandoffTypes
  <1>2. ASSUME NEW ph \in {"reconciled", "revoked"}
        PROVE  LET row == [progress EXCEPT !.phase = ph]
               IN  row \in ProgressRow /\ row # Vacant /\ row.old = progress.old /\ row.phase = ph
                   /\ row.generation = progress.generation
    <2> DEFINE row == [progress EXCEPT !.phase = ph]
    <2>1. row \in ProgressRow /\ row.old = progress.old /\ row.phase = ph
                   /\ row.generation = progress.generation
      BY <1>1 DEF ProgressRow
    <2> QED BY <2>1, WindowsAssumption
  <1>3. CASE ReconcileHandoff(c)
    <2>1. PICK row \in ProgressRow : row = progress' /\ row # Vacant /\ row.old = progress.old
            /\ row.phase = "reconciled" /\ row.generation = progress.generation
      BY <1>2, <1>3 DEF ReconcileHandoff
    <2>2. progress.phase = "stopping"
          /\ UNCHANGED <<now, active, claim, generation, revoked, evidence, hosts, retired, tenure>>
      BY <1>3 DEF ReconcileHandoff, local
    <2>3. HandoffTypes' BY <2>1, <2>2 DEF HandoffInv, HandoffTypes
    <2>4. StageInv' BY <1>1, <2>1, <2>2 DEF HandoffInv, StageInv
    <2>5. \A e \in Evidence : EvidenceInv(e)'
      BY <1>1, <2>1, <2>2 DEF HandoffInv, EvidenceInv, EvidenceFits
    <2> QED BY <2>3, <2>4, <2>5 DEF HandoffInv
  <1>4. CASE RevokeOldReceipt(c)
    <2>1. PICK row \in ProgressRow : row = progress' /\ row # Vacant /\ row.old = progress.old
            /\ row.phase = "revoked" /\ row.generation = progress.generation
      BY <1>2, <1>4 DEF RevokeOldReceipt
    <2>2. progress.phase = "reconciled" /\ active = progress.old /\ revoked' = revoked \cup {active}
          /\ active' = Vacant /\ claim' = Vacant
          /\ UNCHANGED <<now, generation, evidence, hosts, retired, tenure>>
      BY <1>4 DEF RevokeOldReceipt, local
    <2>3. progress.old \in Receipts BY <1>1 DEF ProgressRow
    <2>4. HandoffTypes' BY <2>1, <2>2, <2>3 DEF HandoffInv, HandoffTypes
    <2>5. StageInv'
      BY <1>1, <2>1, <2>2, <2>3, WindowsAssumption DEF HandoffInv, HandoffTypes, StageInv
    <2>6. \A e \in Evidence : EvidenceInv(e)'
      BY <1>1, <2>1, <2>2 DEF HandoffInv, EvidenceInv, EvidenceFits
    <2> QED BY <2>4, <2>5, <2>6 DEF HandoffInv
  <1> QED BY <1>3, <1>4

(* A receipt that comes into force was never in force: no evidence names it. *)
LEMMA NewReceipt ==
  ASSUME HandoffInv, active = Vacant, NEW r \in Receipts, r \notin revoked, NEW e \in Evidence,
         evidence[e] # Vacant
  PROVE  evidence[e].receipt # r
  BY WindowsAssumption DEF HandoffInv, EvidenceInv

(* Issuing the new receipt closes the handoff. *)
LEMMA IssueKeeps ==
  ASSUME HandoffInv, NEW c \in Coordinators, NEW r \in Receipts, IssueNewReceipt(c, r)
  PROVE  HandoffInv'
  <1>1. progress \in ProgressRow /\ progress # Vacant /\ progress.phase = "revoked"
    BY DEF IssueNewReceipt, HoldsHandoff, HandoffInv, HandoffTypes
  <1>2. active = Vacant /\ progress.old \in revoked BY <1>1 DEF HandoffInv, StageInv
  <1>3. PICK row \in ClaimRow : row = claim'
    BY <1>1 DEF IssueNewReceipt, ClaimRow, ProgressRow
  <1>4. r \notin revoked /\ active' = r /\ generation' = progress.generation /\ progress' = Vacant
        /\ UNCHANGED <<now, revoked, evidence, hosts, retired, tenure>>
    BY DEF IssueNewReceipt, local
  <1>5. HandoffTypes' BY <1>1, <1>3, <1>4 DEF HandoffInv, HandoffTypes, ProgressRow
  <1>6. row # Vacant BY WindowsAssumption
  <1>7. StageInv' BY <1>1, <1>2, <1>4, WindowsAssumption DEF HandoffInv, StageInv
  <1>8. ASSUME NEW e \in Evidence PROVE EvidenceInv(e)'
    BY <1>2, <1>4, NewReceipt, WindowsAssumption DEF HandoffInv, EvidenceInv, HandoffTypes, EvidenceRow
  <1> QED BY <1>5, <1>7, <1>8 DEF HandoffInv

(* Tearing down revokes what the handoff retires. *)
LEMMA TeardownKeeps ==
  ASSUME HandoffInv, NEW c \in Coordinators, CompleteTeardown(c)
  PROVE  HandoffInv'
  <1>1. progress \in ProgressRow /\ progress # Vacant /\ progress.phase = "revoked"
    BY DEF CompleteTeardown, HoldsHandoff, HandoffInv, HandoffTypes
  <1>2. active = Vacant /\ claim = Vacant /\ progress.old \in revoked BY <1>1 DEF HandoffInv, StageInv
  <1>3. progress' = Vacant
        /\ UNCHANGED <<now, active, claim, generation, revoked, evidence, hosts, retired, tenure>>
    BY DEF CompleteTeardown, local
  <1>4. HandoffTypes' BY <1>3 DEF HandoffInv, HandoffTypes
  <1>5. StageInv' BY <1>1, <1>2, <1>3 DEF HandoffInv, StageInv
  <1>6. ASSUME NEW e \in Evidence PROVE EvidenceInv(e)'
    BY <1>2, <1>3, WindowsAssumption DEF HandoffInv, EvidenceInv, HandoffTypes, EvidenceRow
  <1> QED BY <1>4, <1>5, <1>6 DEF HandoffInv

(* The first activation and the first claim. *)
LEMMA OpeningKeeps ==
  ASSUME HandoffInv,
         NEW r \in Receipts, ActivateInitial(r) \/ \E c \in Coordinators : ClaimOrchestrator(c, r)
  PROVE  HandoffInv'
  <1>1. CASE ActivateInitial(r)
    <2>1. active = Vacant /\ progress = Vacant /\ r \notin revoked /\ active' = r /\ claim' = Vacant
          /\ UNCHANGED <<now, generation, progress, revoked, evidence, hosts, retired, tenure>>
      BY <1>1 DEF ActivateInitial, local
    <2>2. HandoffTypes' BY <2>1 DEF HandoffInv, HandoffTypes
    <2>3. StageInv' BY <2>1, WindowsAssumption DEF HandoffInv, StageInv
    <2>4. ASSUME NEW e \in Evidence PROVE EvidenceInv(e)'
      BY <2>1, NewReceipt, WindowsAssumption DEF HandoffInv, EvidenceInv, HandoffTypes, EvidenceRow
    <2> QED BY <2>2, <2>3, <2>4 DEF HandoffInv
  <1>2. ASSUME NEW c \in Coordinators, ClaimOrchestrator(c, r) PROVE HandoffInv'
    <2>1. active = r /\ progress = Vacant /\ claim = Vacant /\ generation' = generation + 1
          /\ tenure' = tenure + 1
          /\ UNCHANGED <<now, active, progress, revoked, evidence, hosts, retired>>
      BY <1>2 DEF ClaimOrchestrator, local
    <2>2. PICK row \in ClaimRow : row = claim' BY <1>2 DEF ClaimOrchestrator, ClaimRow
    <2>3. HandoffTypes' BY <2>1, <2>2 DEF HandoffInv, HandoffTypes
    <2>4. StageInv' BY <2>1, WindowsAssumption DEF HandoffInv, StageInv
    <2>5. \A e \in Evidence : EvidenceInv(e)' BY <2>1 DEF HandoffInv, EvidenceInv
    <2> QED BY <2>3, <2>4, <2>5 DEF HandoffInv
  <1> QED BY <1>1, <1>2

(* An observation names the tenure it saw. *)
LEMMA ObserveKeeps ==
  ASSUME HandoffInv, NEW x \in Evidence, NEW h \in Handoffs, NEW c \in Coordinators,
         ObserveStaleOwner(x, h, c)
  PROVE  HandoffInv'
  <1>1. evidence[x] = Vacant
        /\ UNCHANGED <<now, active, claim, generation, progress, revoked, hosts, retired, tenure>>
    BY DEF ObserveStaleOwner, local
  <1>2. ASSUME NEW r \in Receipts, NEW owner \in Coordinators, NEW gen \in Nat,
               evidence' = [evidence EXCEPT ![x] = StaleOwner(h, r, owner, gen, c)],
               r \in revoked \cup {active},
               progress = Vacant => claim # Vacant,
               progress = Vacant /\ r = active => gen = generation,
               progress # Vacant /\ r = progress.old => gen = progress.generation
        PROVE  HandoffInv'
    <2>0. now \in Nat /\ tenure \in Nat /\ now + EvidenceFor \in Nat
      BY WindowsAssumption DEF HandoffInv, HandoffTypes
    <2>0a. StaleOwner(h, r, owner, gen, c) \in EvidenceRow
      BY <2>0 DEF EvidenceRow, StaleOwner
    <2>1. PICK row \in EvidenceRow : row = StaleOwner(h, r, owner, gen, c) BY <2>0a
    <2>2. row.receipt = r /\ row.generation = gen /\ row.about = tenure BY <2>1 DEF StaleOwner
    <2>3. evidence' = [evidence EXCEPT ![x] = row] BY <1>2, <2>1
    <2>4. HandoffTypes' BY <1>1, <2>3 DEF HandoffInv, HandoffTypes
    <2>5. StageInv' BY <1>1 DEF HandoffInv, StageInv
    <2>6. ASSUME NEW e \in Evidence PROVE EvidenceInv(e)'
      <3>1. CASE e = x
        <4>1. evidence'[e] = row BY <3>1, <2>3 DEF HandoffInv, HandoffTypes
        <4> QED BY <4>1, <1>1, <1>2, <2>2 DEF EvidenceInv, EvidenceFits
      <3>2. CASE e # x
        <4>1. evidence'[e] = evidence[e] BY <3>2, <2>3 DEF HandoffInv, HandoffTypes
        <4> QED BY <4>1, <1>1 DEF EvidenceInv, EvidenceFits, HandoffInv
      <3> QED BY <3>1, <3>2
    <2> QED BY <2>4, <2>5, <2>6 DEF HandoffInv
  <1>3. CASE progress # Vacant
    <2>1. progress \in ProgressRow BY <1>3 DEF HandoffInv, HandoffTypes
    <2>2. progress.old \in Receipts /\ progress.owner \in Coordinators /\ progress.generation \in Nat
      BY <2>1 DEF ProgressRow
    <2>3. progress.old \in revoked \cup {active} BY <1>3, <2>1 DEF HandoffInv, StageInv, ProgressRow
    <2>4. evidence' = [evidence EXCEPT ![x] =
             StaleOwner(h, progress.old, progress.owner, progress.generation, c)]
      BY <1>3 DEF ObserveStaleOwner
    <2> QED BY <1>2, <1>3, <2>2, <2>3, <2>4
  <1>4. CASE progress = Vacant
    <2>1. claim # Vacant /\ claim.owner \in Coordinators /\ active \in Receipts /\ generation \in Nat
      BY <1>4 DEF ObserveStaleOwner, HandoffInv, HandoffTypes, StageInv, ClaimRow
    <2>2. evidence' = [evidence EXCEPT ![x] = StaleOwner(h, active, claim.owner, generation, c)]
      BY <1>4 DEF ObserveStaleOwner
    <2> QED BY <1>2, <1>4, <2>1, <2>2
  <1> QED BY <1>3, <1>4

(* The clock and the native host leave the authority alone. *)
HostStep ==
    /\ now' \in Nat /\ hosts' \in [Coordinators -> HostRow \cup {Vacant}]
    /\ UNCHANGED <<authority, retired, tenure>>

(* A step of a host touches no authority. *)
LEMMA HostStepKeeps ==
  ASSUME HandoffInv, HostStep
  PROVE  HandoffInv'
  <1>1. HandoffTypes' BY DEF HostStep, authority, HandoffInv, HandoffTypes
  <1>2. StageInv' BY DEF HostStep, authority, HandoffInv, StageInv
  <1>3. \A e \in Evidence : EvidenceInv(e)'
    BY DEF HostStep, authority, HandoffInv, EvidenceInv, EvidenceFits
  <1> QED BY <1>1, <1>2, <1>3 DEF HandoffInv

(* A host's object moves to one of its states; it is running only after a
   start, and a start is authorized. *)
AdmitsLawfully ==
    \A c \in Coordinators : hosts'[c] # hosts[c] /\ hosts'[c].state = "running" =>
        hosts'[c].receipt = active /\ progress = Vacant

(* A host's row after its step is a row. *)
LEMMA HostRows ==
  ASSUME HandoffInv, NEW c \in Coordinators, hosts[c] # Vacant, NEW st \in {"idle", "running", "stopped"},
         NEW proc \in Children \cup {Vacant}, NEW more \in SUBSET Children,
         hosts' = [hosts EXCEPT ![c].state = st, ![c].process = proc, ![c].used = more]
         \/ hosts' = [hosts EXCEPT ![c].state = st, ![c].process = proc]
         \/ hosts' = [hosts EXCEPT ![c].state = st]
  PROVE  /\ hosts' \in [Coordinators -> HostRow \cup {Vacant}]
         /\ hosts'[c].state = st /\ hosts'[c].receipt = hosts[c].receipt
         /\ \A o \in Coordinators : o # c => hosts'[o] = hosts[o]
  <1>1. hosts[c] \in HostRow BY DEF HandoffInv, HandoffTypes
  <1>2. ASSUME NEW row \in HostRow, hosts' = [hosts EXCEPT ![c] = row], row.state = st,
               row.receipt = hosts[c].receipt
        PROVE  /\ hosts' \in [Coordinators -> HostRow \cup {Vacant}]
               /\ hosts'[c].state = st /\ hosts'[c].receipt = hosts[c].receipt
               /\ \A o \in Coordinators : o # c => hosts'[o] = hosts[o]
    BY <1>2 DEF HandoffInv, HandoffTypes
  <1>3. CASE hosts' = [hosts EXCEPT ![c].state = st, ![c].process = proc, ![c].used = more]
    <2> DEFINE row == [hosts[c] EXCEPT !.state = st, !.process = proc, !.used = more]
    <2>1. row \in HostRow /\ row.state = st /\ row.receipt = hosts[c].receipt BY <1>1 DEF HostRow
    <2>2. hosts' = [hosts EXCEPT ![c] = row] BY <1>1, <1>3 DEF HandoffInv, HandoffTypes
    <2> HIDE DEF row
    <2> QED BY <2>1, <2>2, <1>2
  <1>4. CASE hosts' = [hosts EXCEPT ![c].state = st, ![c].process = proc]
    <2> DEFINE row == [hosts[c] EXCEPT !.state = st, !.process = proc]
    <2>1. row \in HostRow /\ row.state = st /\ row.receipt = hosts[c].receipt BY <1>1 DEF HostRow
    <2>2. hosts' = [hosts EXCEPT ![c] = row] BY <1>1, <1>4 DEF HandoffInv, HandoffTypes
    <2> HIDE DEF row
    <2> QED BY <2>1, <2>2, <1>2
  <1>5. CASE hosts' = [hosts EXCEPT ![c].state = st]
    <2> DEFINE row == [hosts[c] EXCEPT !.state = st]
    <2>1. row \in HostRow /\ row.state = st /\ row.receipt = hosts[c].receipt BY <1>1 DEF HostRow
    <2>2. hosts' = [hosts EXCEPT ![c] = row] BY <1>1, <1>5 DEF HandoffInv, HandoffTypes
    <2> HIDE DEF row
    <2> QED BY <2>1, <2>2, <1>2
  <1> QED BY <1>3, <1>4, <1>5

(* The steps of the hosts and of time. *)
LEMMA HostSteps ==
  ASSUME HandoffInv,
         \/ Elapses
         \/ \E c \in Coordinators, r \in Receipts : InstallNativeHost(c, r)
         \/ \E c \in Coordinators, p \in Children : StartChild(c, p)
         \/ \E c \in Coordinators, state \in {"completed", "cancelled"} : Finish(c, state)
         \/ \E c \in Coordinators : RenewChildLease(c)
         \/ \E c \in Coordinators, p \in Children : RecoverStaleChild(c, p)
         \/ \E c \in Coordinators : Stop(c)
  PROVE  HostStep /\ AdmitsLawfully
  <1>0. now \in Nat /\ hosts \in [Coordinators -> HostRow \cup {Vacant}]
    BY DEF HandoffInv, HandoffTypes
  <1>1. CASE Elapses
    BY <1>0, <1>1 DEF Elapses, local, HostStep, AdmitsLawfully
  <1>2. ASSUME NEW c \in Coordinators, NEW r \in Receipts, InstallNativeHost(c, r)
        PROVE  HostStep /\ AdmitsLawfully
    <2>0. NewHost(r) \in HostRow /\ NewHost(r).state = "idle" BY DEF HostRow, NewHost
    <2>1. PICK row \in HostRow : row = NewHost(r) /\ row.state = "idle" BY <2>0
    <2>2. hosts' = [hosts EXCEPT ![c] = row] /\ UNCHANGED <<now, authority, retired, tenure>>
      BY <1>2, <2>1 DEF InstallNativeHost
    <2> QED BY <1>0, <2>1, <2>2 DEF HostStep, AdmitsLawfully
  <1>3. ASSUME NEW c \in Coordinators, NEW p \in Children, StartChild(c, p)
        PROVE  HostStep /\ AdmitsLawfully
    <2>1. hosts[c] # Vacant /\ active = hosts[c].receipt /\ progress = Vacant
          /\ UNCHANGED <<now, authority, retired, tenure>>
      BY <1>3 DEF StartChild, HostActs, Authorized
    <2>2. hosts[c] \in HostRow /\ hosts[c].used \cup {p} \in SUBSET Children
      BY <1>0, <2>1 DEF HostRow
    <2>3. hosts' = [hosts EXCEPT ![c].state = "running", ![c].process = p,
                                 ![c].used = hosts[c].used \cup {p}]
      BY <1>0, <1>3 DEF StartChild
    <2>4. /\ hosts' \in [Coordinators -> HostRow \cup {Vacant}]
          /\ hosts'[c].receipt = hosts[c].receipt
          /\ \A o \in Coordinators : o # c => hosts'[o] = hosts[o]
      BY <2>1, <2>2, <2>3, HostRows
    <2> QED BY <1>0, <2>1, <2>4 DEF HostStep, AdmitsLawfully
  <1>4. ASSUME NEW c \in Coordinators, NEW state, Finish(c, state)
        PROVE  HostStep /\ AdmitsLawfully
    <2>1. hosts[c] # Vacant /\ UNCHANGED <<now, authority, retired, tenure>>
          /\ hosts' = [hosts EXCEPT ![c].state = "idle", ![c].process = Vacant]
      BY <1>4 DEF Finish, HostActs
    <2>2. /\ hosts' \in [Coordinators -> HostRow \cup {Vacant}] /\ hosts'[c].state = "idle"
          /\ \A o \in Coordinators : o # c => hosts'[o] = hosts[o]
      BY <2>1, HostRows
    <2> QED BY <1>0, <2>1, <2>2 DEF HostStep, AdmitsLawfully
  <1>5. ASSUME NEW c \in Coordinators, RenewChildLease(c)
        PROVE  HostStep /\ AdmitsLawfully
    BY <1>0, <1>5 DEF RenewChildLease, HostActs, HostStep, AdmitsLawfully
  <1>6. ASSUME NEW c \in Coordinators, NEW p \in Children, RecoverStaleChild(c, p)
        PROVE  HostStep /\ AdmitsLawfully
    <2>1. hosts[c] # Vacant /\ UNCHANGED <<now, authority, retired, tenure>>
      BY <1>6 DEF RecoverStaleChild, HostActs
    <2>2. CASE hosts' = hosts BY <1>0, <2>1, <2>2 DEF HostStep, AdmitsLawfully
    <2>3. CASE hosts' = [hosts EXCEPT ![c].state = "idle", ![c].process = Vacant]
      <3>1. /\ hosts' \in [Coordinators -> HostRow \cup {Vacant}] /\ hosts'[c].state = "idle"
            /\ \A o \in Coordinators : o # c => hosts'[o] = hosts[o]
        BY <2>1, <2>3, HostRows
      <3> QED BY <1>0, <2>1, <3>1 DEF HostStep, AdmitsLawfully
    <2> QED BY <1>6, <2>2, <2>3, Zenon DEF RecoverStaleChild
  <1>7. ASSUME NEW c \in Coordinators, Stop(c)
        PROVE  HostStep /\ AdmitsLawfully
    <2>1. hosts[c] # Vacant /\ UNCHANGED <<now, authority, retired, tenure>>
          /\ hosts' = [hosts EXCEPT ![c].state = "stopped"]
      BY <1>7 DEF Stop
    <2>2. /\ hosts' \in [Coordinators -> HostRow \cup {Vacant}] /\ hosts'[c].state = "stopped"
          /\ \A o \in Coordinators : o # c => hosts'[o] = hosts[o]
      BY <2>1, HostRows
    <2> QED BY <1>0, <2>1, <2>2 DEF HostStep, AdmitsLawfully
  <1> QED BY <1>1, <1>2, <1>3, <1>4, <1>5, <1>6, <1>7

(* One step per operation of the handoff, with what the two action
   properties say of it. *)
LEMMA HandoffInductive ==
  ASSUME HandoffInv, [HandoffNext]_handoffVars
  PROVE  /\ HandoffInv'
         /\ \A e \in consumed' \ consumed : evidence[e].about = tenure
         /\ AdmitsLawfully
  <1>1. ASSUME UNCHANGED hosts PROVE AdmitsLawfully BY <1>1 DEF AdmitsLawfully
  <1>2. ASSUME NEW r \in Receipts, ActivateInitial(r) \/ \E c \in Coordinators : ClaimOrchestrator(c, r)
        PROVE  HandoffInv' /\ UNCHANGED <<consumed, hosts>>
    BY <1>2, OpeningKeeps DEF ActivateInitial, ClaimOrchestrator, local
  <1>3. ASSUME NEW c \in Coordinators, NEW r \in Receipts, NEW incoming \in Identities, NEW h \in Handoffs,
               BeginHandoff(c, r, incoming, h)
        PROVE  HandoffInv' /\ UNCHANGED <<consumed, hosts>>
    BY <1>3, BeginKeeps DEF BeginHandoff, StartHandoff, local
  <1>4. ASSUME NEW c \in Coordinators, NEW r \in Receipts, NEW incoming \in Identities, NEW h \in Handoffs,
               NEW e \in Evidence, BeginRecovered(c, r, incoming, h, e)
        PROVE  HandoffInv' /\ UNCHANGED hosts /\ consumed' = consumed \cup {e}
               /\ evidence[e].about = tenure
    BY <1>4, BeginRecoveredKeeps DEF BeginRecovered, StartHandoff, local
  <1>5. ASSUME NEW c \in Coordinators, NEW e \in Evidence, RecoverHandoff(c, e)
        PROVE  HandoffInv' /\ UNCHANGED hosts /\ consumed' = consumed \cup {e}
               /\ evidence[e].about = tenure
    BY <1>5, RecoverHandoffKeeps DEF RecoverHandoff, local
  <1>6. ASSUME NEW c \in Coordinators, ReconcileHandoff(c) \/ RevokeOldReceipt(c)
        PROVE  HandoffInv' /\ UNCHANGED <<consumed, hosts>>
    BY <1>6, PhaseKeeps DEF ReconcileHandoff, RevokeOldReceipt, local
  <1>7. ASSUME NEW c \in Coordinators, NEW r \in Receipts, IssueNewReceipt(c, r)
        PROVE  HandoffInv' /\ UNCHANGED <<consumed, hosts>>
    BY <1>7, IssueKeeps DEF IssueNewReceipt, local
  <1>8. ASSUME NEW c \in Coordinators, CompleteTeardown(c)
        PROVE  HandoffInv' /\ UNCHANGED <<consumed, hosts>>
    BY <1>8, TeardownKeeps DEF CompleteTeardown, local
  <1>9. ASSUME NEW e \in Evidence, NEW h \in Handoffs, NEW c \in Coordinators, ObserveStaleOwner(e, h, c)
        PROVE  HandoffInv' /\ UNCHANGED <<consumed, hosts>>
    BY <1>9, ObserveKeeps DEF ObserveStaleOwner, local
  <1>10. CASE \/ Elapses
              \/ \E c \in Coordinators, r \in Receipts : InstallNativeHost(c, r)
              \/ \E c \in Coordinators, p \in Children : StartChild(c, p)
              \/ \E c \in Coordinators, state \in {"completed", "cancelled"} : Finish(c, state)
              \/ \E c \in Coordinators : RenewChildLease(c)
              \/ \E c \in Coordinators, p \in Children : RecoverStaleChild(c, p)
              \/ \E c \in Coordinators : Stop(c)
    <2>1. HostStep /\ AdmitsLawfully BY <1>10, HostSteps
    <2>2. consumed' = consumed BY <2>1 DEF HostStep, authority
    <2> QED BY <2>1, <2>2, HostStepKeeps
  <1>11. CASE UNCHANGED handoffVars
    <2>1. HostStep /\ UNCHANGED <<hosts, consumed>>
      BY <1>11 DEF handoffVars, HostStep, authority, HandoffInv, HandoffTypes
    <2> QED BY <2>1, <1>1, HostStepKeeps
  <1> QED BY <1>1, <1>2, <1>3, <1>4, <1>5, <1>6, <1>7, <1>8, <1>9, <1>10, <1>11 DEF HandoffNext

(* Nothing is active, claimed or observed at first. *)
LEMMA HandoffStarts == HandoffInit => HandoffInv
  BY WindowsAssumption
  DEF HandoffInit, HandoffInv, HandoffTypes, StageInv, EvidenceInv

(* Stale-owner evidence takes the authority only from the tenure it was
   observed about: evidence kept back while the authority changed hands,
   even back to the same claim, displaces nobody. *)
THEOREM EvidenceTakesItsOwnTenure == HandoffSpec => EvidenceNamesTheOwner
  <1>1. HandoffInv /\ [HandoffNext]_handoffVars =>
          HandoffInv' /\ [\A e \in consumed' \ consumed : evidence[e].about = tenure]_handoffVars
    BY HandoffInductive
  <1> QED BY <1>1, HandoffStarts, PTL DEF HandoffSpec, EvidenceNamesTheOwner

(* Once a handoff has begun, no host admits a child under the old receipt,
   while the handoff is open or after it was torn down. *)
THEOREM RetirementHolds == HandoffSpec => RetiredReceiptsAdmitNothing
  <1>1. HandoffInv /\ AdmitsLawfully =>
           \A c \in Coordinators : hosts'[c] # hosts[c] /\ hosts'[c].state = "running" =>
                hosts'[c].receipt \notin retired
    BY DEF HandoffInv, StageInv, AdmitsLawfully
  <1>2. HandoffInv /\ [HandoffNext]_handoffVars =>
          HandoffInv' /\ [\A c \in Coordinators :
             (hosts'[c] # hosts[c] /\ hosts'[c].state = "running") =>
                hosts'[c].receipt \notin retired]_handoffVars
    BY <1>1, HandoffInductive
  <1> QED BY <1>2, HandoffStarts, PTL DEF HandoffSpec, RetiredReceiptsAdmitNothing

-----------------------------------------------------------------------------
(***************************************************************************)
(* The coding worker.  CodingInv says which sequences a worker has still   *)
(* before it, and that nobody has begun, submitted or reported those; the  *)
(* claim makes one worker the only one that dispatches.                    *)
(***************************************************************************)
ToPerform == {"open", "record_session", "start_turn", "record_turn", "read", "execute", "perform"}
ToSubmit == ToPerform \cup {"validate", "append", "intent", "submit"}
Dispatching == ToSubmit \cup {"next_turn", "submitted", "doubt", "broken", "failed"}
WorkerSteps == Dispatching \cup {"away", "reserve", "claim"}
WorkerRow == [step : WorkerSteps, permit : BOOLEAN, handle : Nat, sequence : ToolSteps,
              acknowledged : SUBSET ToolSteps]

CodingTypes ==
    /\ worker \in [Workers -> WorkerRow]
    /\ opened \in Nat /\ performed \in [ToolSteps -> Nat] /\ delivered \in [ToolSteps -> Nat]
    /\ late \in [Workers -> Nat] /\ stopped \in BOOLEAN

(* The sequences a dispatch has still before it are untouched. *)
Progress(row) ==
    /\ \A n \in ToolSteps : n > row.sequence \/ (n = row.sequence /\ row.step \in ToPerform) =>
          performed[n] = 0
    /\ \A n \in ToolSteps : n > row.sequence \/ (n = row.sequence /\ row.step \in ToSubmit) =>
          delivered[n] = 0
    /\ row.step = "open" => opened = 0

(* One process at most ever gets past the claim of the dispatch. *)
OnceInv ==
    /\ ~claimed => /\ opened = 0
                   /\ \A n \in ToolSteps : performed[n] = 0 /\ delivered[n] = 0
    /\ \A w \in Workers : worker[w].step \in Dispatching =>
          /\ claimed /\ Progress(worker[w])
          /\ \A v \in Workers : worker[v].step \in Dispatching => v = w
    /\ EffectsHappenOnce

(* A process that acted since the stop has to be admitted again. *)
Ready(row) == row.permit \/ row.step \in {"open", "perform"}
HoldInv ==
    \A w \in Workers : late[w] # 0 => late[w] = 1 /\ stopped /\ ~Ready(worker[w])

CodingInv == CodingTypes /\ OnceInv /\ HoldInv

Goes(w, row) == row \in WorkerRow /\ worker' = [worker EXCEPT ![w] = row]

(* One worker moves. *)
LEMMA GoesFacts ==
  ASSUME CodingTypes, NEW w \in Workers, NEW row, Goes(w, row)
  PROVE  /\ worker' \in [Workers -> WorkerRow] /\ worker'[w] = row
         /\ \A v \in Workers : v # w => worker'[v] = worker[v]
  BY DEF Goes, CodingTypes

(* A worker that acts notices a stop before it acts again. *)
LEMMA HoldActs ==
  ASSUME CodingTypes, HoldInv, NEW w \in Workers, NEW row, Goes(w, row), Ready(worker[w]),
         Acts(w), UNCHANGED stopped, ~Ready(row)
  PROVE  HoldInv' /\ late' \in [Workers -> Nat]
  <1>1. late[w] = 0 BY DEF HoldInv
  <1>2. late' = [late EXCEPT ![w] = IF stopped THEN 1 ELSE 0] BY <1>1 DEF Acts, CodingTypes
  <1> QED BY <1>2, GoesFacts DEF HoldInv, CodingTypes

(* A step without an effect keeps what a stop demands. *)
LEMMA HoldQuiet ==
  ASSUME CodingTypes, HoldInv, NEW w \in Workers, NEW row, Goes(w, row),
         UNCHANGED late, stopped => stopped', Ready(row) => Ready(worker[w]) \/ ~stopped
  PROVE  HoldInv'
  <1>1. ASSUME NEW v \in Workers, late'[v] # 0
        PROVE  late'[v] = 1 /\ stopped' /\ ~Ready(worker'[v])
    <2>1. late[v] = 1 /\ stopped /\ ~Ready(worker[v]) BY <1>1 DEF HoldInv
    <2>2. CASE v = w BY <2>1, <2>2, GoesFacts
    <2>3. CASE v # w BY <2>1, <2>3, GoesFacts
    <2> QED BY <2>1, <2>2, <2>3
  <1> QED BY <1>1 DEF HoldInv

(* A process leaves its dispatch, or has none yet. *)
LEMMA OnceAside ==
  ASSUME CodingTypes, OnceInv, NEW w \in Workers, NEW row, Goes(w, row),
         row.step \notin Dispatching,
         UNCHANGED <<claimed, opened, performed, delivered>>
  PROVE  OnceInv'
  <1>1. ASSUME NEW v \in Workers, worker'[v].step \in Dispatching
        PROVE  v # w /\ worker'[v] = worker[v] /\ worker[v].step \in Dispatching
    BY <1>1, GoesFacts
  <1>2. ASSUME NEW v \in Workers, worker'[v].step \in Dispatching
        PROVE  Progress(worker[v])'
    <2>1. PICK b : b = worker[v] /\ b = worker'[v] BY <1>1, <1>2
    <2>2. Progress(b) BY <1>1, <1>2, <2>1 DEF OnceInv
    <2>3. Progress(b)' BY <2>2 DEF Progress
    <2> QED BY <2>1, <2>3
  <1>3. ASSUME NEW v \in Workers, worker'[v].step \in Dispatching, NEW u \in Workers,
               worker'[u].step \in Dispatching
        PROVE  u = v /\ claimed'
    BY <1>1, <1>3 DEF OnceInv
  <1>4. EffectsHappenOnce' BY DEF OnceInv, EffectsHappenOnce
  <1> QED BY <1>2, <1>3, <1>4 DEF OnceInv

(* The one process that is past the claim takes a step. *)
LEMMA OnceOn ==
  ASSUME CodingTypes, OnceInv, NEW w \in Workers, NEW row, Goes(w, row),
         worker[w].step \in Dispatching, UNCHANGED claimed, Progress(row)',
         EffectsHappenOnce'
  PROVE  OnceInv'
  <1>1. claimed /\ \A v \in Workers : worker[v].step \in Dispatching => v = w BY DEF OnceInv
  <1>2. \A v \in Workers : worker'[v].step \in Dispatching => v = w BY <1>1, GoesFacts
  <1>3. Progress(worker[w])'
    <2>1. PICK b : b = row /\ b = worker'[w] BY GoesFacts
    <2> QED BY <2>1
  <1> QED BY <1>1, <1>2, <1>3 DEF OnceInv

(* A worker that moves without an effect keeps what is untouched before it. *)
LEMMA OnceQuiet ==
  ASSUME CodingTypes, OnceInv, NEW w \in Workers, NEW row, Goes(w, row),
         worker[w].step \in Dispatching, row.sequence = worker[w].sequence,
         row.step \in ToPerform => worker[w].step \in ToPerform,
         row.step \in ToSubmit => worker[w].step \in ToSubmit,
         row.step = "open" => worker[w].step = "open",
         UNCHANGED <<claimed, opened, performed, delivered>>
  PROVE  OnceInv'
  <1>1. Progress(worker[w]) /\ worker[w].sequence \in ToolSteps BY DEF OnceInv, CodingTypes, WorkerRow
  <1>2. Progress(row) BY <1>1 DEF Progress
  <1>3. Progress(row)' BY <1>2 DEF Progress
  <1>4. EffectsHappenOnce' BY DEF OnceInv, EffectsHappenOnce
  <1> QED BY <1>3, <1>4, OnceOn

(* The rows the steps of a process leave. *)
LEMMA AwayRow ==
  ASSUME CodingTypes, NEW w \in Workers, Ends(w)
  PROVE  Goes(w, Away) /\ Away.step = "away" /\ ~Ready(Away)
  <1>1. Away \in WorkerRow
    BY WorkerAssumption DEF Away, WorkerRow, WorkerSteps, ToolSteps
  <1> QED BY <1>1 DEF Goes, Ends, Away, Ready

Lands(w, row, step) ==
    /\ Goes(w, row) /\ row.step = step /\ row.permit = FALSE
    /\ row.sequence = worker[w].sequence

(* A worker's row after it moves. *)
LEMMA MovesRow ==
  ASSUME CodingTypes, NEW w \in Workers, NEW step \in WorkerSteps, Moves(w, step)
  PROVE  \E row : Lands(w, row, step)
  <1>1. worker[w] \in WorkerRow BY DEF CodingTypes
  <1> DEFINE row == [worker[w] EXCEPT !.step = step, !.permit = FALSE]
  <1>2. row \in WorkerRow /\ row.step = step /\ row.permit = FALSE
        /\ row.sequence = worker[w].sequence
    BY <1>1 DEF WorkerRow
  <1>3. worker' = [worker EXCEPT ![w] = row] BY <1>1 DEF Moves, CodingTypes
  <1> HIDE DEF row
  <1>4. Lands(w, row, step) BY <1>2, <1>3 DEF Goes, Lands
  <1> QED BY <1>2, <1>4

(* Of what happened, a quiet step changes nothing; it may be an effect of
   an admitted process on the provider, or a stop. *)
Quiet == UNCHANGED <<claimed, opened, performed, delivered>>
Watched(w) ==
    \/ UNCHANGED late /\ stopped' \in BOOLEAN /\ (stopped => stopped')
    \/ Acts(w) /\ Ready(worker[w]) /\ UNCHANGED stopped

(* Every worker watches the stop. *)
LEMMA WatchedHolds ==
  ASSUME CodingTypes, HoldInv, NEW w \in Workers, NEW row, Goes(w, row), Watched(w), ~Ready(row)
  PROVE  HoldInv' /\ late' \in [Workers -> Nat] /\ stopped' \in BOOLEAN
  BY HoldActs, HoldQuiet DEF Watched, CodingTypes

(* A worker that ends dispatches nothing more. *)
LEMMA EndsKeeps ==
  ASSUME CodingInv, NEW w \in Workers, Ends(w), Quiet, Watched(w)
  PROVE  CodingInv'
  <1>1. Goes(w, Away) /\ Away.step = "away" /\ ~Ready(Away) BY AwayRow DEF CodingInv
  <1>2. Away.step \notin Dispatching BY <1>1 DEF Dispatching, ToSubmit, ToPerform
  <1>3. HoldInv' /\ late' \in [Workers -> Nat] /\ stopped' \in BOOLEAN
    BY <1>1, WatchedHolds DEF CodingInv
  <1>4. OnceInv' BY <1>1, <1>2, OnceAside DEF CodingInv, Quiet
  <1>5. CodingTypes' BY <1>1, <1>3, GoesFacts DEF CodingInv, CodingTypes, Quiet
  <1> QED BY <1>3, <1>4, <1>5 DEF CodingInv

(* Moves between the effects. *)
LEMMA MovesKeeps ==
  ASSUME CodingInv, NEW w \in Workers, NEW step \in WorkerSteps, Moves(w, step), Quiet, Watched(w),
         step \notin {"open", "perform"},
         step \in Dispatching => worker[w].step \in Dispatching,
         step \in ToPerform => worker[w].step \in ToPerform,
         step \in ToSubmit => worker[w].step \in ToSubmit
  PROVE  CodingInv'
  <1>0. PICK row : Lands(w, row, step) BY MovesRow DEF CodingInv
  <1>1. Goes(w, row) /\ row.step = step /\ row.permit = FALSE /\ row.sequence = worker[w].sequence
    BY <1>0 DEF Lands
  <1>2. ~Ready(row) BY <1>1 DEF Ready
  <1>3. HoldInv' /\ late' \in [Workers -> Nat] /\ stopped' \in BOOLEAN
    BY <1>1, <1>2, WatchedHolds DEF CodingInv
  <1>4. OnceInv'
    <2>1. CASE step \in Dispatching BY <1>1, <2>1, OnceQuiet DEF CodingInv, Quiet
    <2>2. CASE step \notin Dispatching BY <1>1, <2>2, OnceAside DEF CodingInv, Quiet
    <2> QED BY <2>1, <2>2
  <1>5. CodingTypes' BY <1>1, <1>3, GoesFacts DEF CodingInv, CodingTypes, Quiet
  <1> QED BY <1>3, <1>4, <1>5 DEF CodingInv

(* The steps of a worker. *)
LEMMA StepNames ==
  /\ {"reserve", "claim", "open", "record_session", "start_turn", "record_turn", "read", "execute",
      "perform", "validate", "append", "intent", "submit", "next_turn", "submitted", "doubt",
      "broken", "failed"} \subseteq WorkerSteps
  /\ {"record_session", "start_turn", "record_turn", "read", "execute", "perform", "open"} = ToPerform
  /\ ToPerform \cup {"validate", "append", "intent", "submit"} = ToSubmit
  /\ ToSubmit \cup {"next_turn", "submitted", "doubt", "broken", "failed"} = Dispatching
  /\ "away" \notin Dispatching /\ "reserve" \notin Dispatching /\ "claim" \notin Dispatching
  BY DEF WorkerSteps, Dispatching, ToSubmit, ToPerform

(* Steps that only move the process, or end its dispatch. *)
LEMMA BeforeDispatch ==
  ASSUME CodingInv, NEW w \in Workers, StartDispatch(w) \/ ReserveBudget(w)
  PROVE  CodingInv'
  <1>1. Quiet /\ Watched(w)
    BY DEF StartDispatch, ReserveBudget, attemptRows, store, done, Quiet, Watched, CodingInv, CodingTypes
  <1>2. Moves(w, "reserve") \/ Moves(w, "claim") \/ Ends(w) BY DEF StartDispatch, ReserveBudget
  <1> QED BY <1>1, <1>2, StepNames, EndsKeeps, MovesKeeps

(* A refused worker ends. *)
LEMMA RefusedKeeps ==
  ASSUME CodingInv, NEW w \in Workers, Refused(w), Quiet, Watched(w)
  PROVE  CodingInv'
  <1>1. CASE worker[w].step \in {"submit", "next_turn"}
    <2>1. Moves(w, "doubt") BY <1>1 DEF Refused
    <2> QED BY <1>1, <2>1, StepNames, MovesKeeps
  <1>2. CASE worker[w].step \notin {"submit", "next_turn"}
    <2>1. Ends(w) BY <1>2 DEF Refused
    <2> QED BY <2>1, EndsKeeps
  <1> QED BY <1>1, <1>2

(* The step of the effect is admitted. *)
LEMMA AdmitEffectKeeps ==
  ASSUME CodingInv, NEW w \in Workers, AdmitEffect(w)
  PROVE  CodingInv'
  <1>1. Quiet /\ Watched(w) /\ UNCHANGED <<late, stopped>>
    BY DEF AdmitEffect, attemptRows, store, done, Quiet, Watched, CodingInv, CodingTypes
  <1>2. CASE stopped
    <2>1. Refused(w) BY <1>2 DEF AdmitEffect, Admitted
    <2> QED BY <1>1, <2>1, RefusedKeeps
  <1>3. CASE ~stopped
    <2>1. worker' = [worker EXCEPT ![w].permit = TRUE] BY <1>3 DEF AdmitEffect, Admitted
    <2>2. worker[w] \in WorkerRow BY DEF CodingInv, CodingTypes
    <2> DEFINE row == [worker[w] EXCEPT !.permit = TRUE]
    <2>3. row \in WorkerRow /\ row.step = worker[w].step /\ row.sequence = worker[w].sequence
      BY <2>2 DEF WorkerRow
    <2>4. worker' = [worker EXCEPT ![w] = row] BY <2>1
    <2> HIDE DEF row
    <2>5. Goes(w, row) BY <2>3, <2>4 DEF Goes
    <2>6. HoldInv' BY <1>1, <1>3, <2>5, HoldQuiet DEF CodingInv
    <2>7. row.step \in Dispatching /\ row.step # "open"
      BY <2>3, StepNames DEF AdmitEffect, Admissions
    <2>8. OnceInv' BY <1>1, <2>3, <2>5, <2>7, OnceQuiet DEF CodingInv, Quiet
    <2>9. CodingTypes' BY <1>1, <2>5, GoesFacts DEF CodingInv, CodingTypes, Quiet
    <2> QED BY <2>6, <2>8, <2>9 DEF CodingInv
  <1> QED BY <1>2, <1>3

(* The actions that only move a worker. *)
LEMMA MovingSteps ==
  ASSUME CodingInv, NEW w \in Workers,
         \/ CheckpointFails(w) \/ RecordSession(w) \/ RecordTurn(w) \/ ReadStep(w) \/ SdkFails(w)
         \/ DenyTool(w) \/ ReceiptDrifts(w) \/ ToolRefuses(w) \/ ReadFile(w) \/ SandboxAnswers(w)
         \/ AppendToolEvent(w) \/ SubmissionIntent(w) \/ CheckpointNextTurn(w)
         \/ SubmissionUncertain(w) \/ RecordTerminalFailure(w) \/ Dies(w)
  PROVE  CodingInv'
  <1> USE DEF attemptRows, store, done, Is, May
  <1>0. stopped \in BOOLEAN BY DEF CodingInv, CodingTypes
  <1>1. CASE CheckpointFails(w)
    <2>1. Quiet /\ Watched(w) /\ Refused(w) BY <1>0, <1>1 DEF CheckpointFails, Quiet, Watched
    <2> QED BY <2>1, RefusedKeeps
  <1>2. CASE RecordSession(w)
    <2>1. Quiet /\ Watched(w) /\ (Ends(w) \/ Moves(w, "start_turn"))
          /\ worker[w].step = "record_session"
      BY <1>0, <1>2 DEF RecordSession, Quiet, Watched
    <2> QED BY <2>1, StepNames, EndsKeeps, MovesKeeps
  <1>3. CASE RecordTurn(w)
    <2>1. Quiet /\ Watched(w) /\ (Ends(w) \/ Moves(w, "read")) /\ worker[w].step = "record_turn"
      BY <1>0, <1>3 DEF RecordTurn, Quiet, Watched
    <2> QED BY <2>1, StepNames, EndsKeeps, MovesKeeps
  <1>4. CASE ReadStep(w)
    <2>1. Quiet /\ Watched(w) /\ (Ends(w) \/ Moves(w, "execute")) /\ worker[w].step = "read"
      BY <1>0, <1>4 DEF ReadStep, Quiet, Watched, Ready
    <2> QED BY <2>1, StepNames, EndsKeeps, MovesKeeps
  <1>5. CASE SdkFails(w)
    <2>1. Quiet /\ Watched(w) /\ Moves(w, "failed")
          /\ worker[w].step \in {"open", "start_turn", "read"}
      BY <1>0, <1>5 DEF SdkFails, Quiet, Watched, Ready
    <2> QED BY <2>1, StepNames, MovesKeeps
  <1>6. CASE DenyTool(w)
    <2>1. Quiet /\ Watched(w) /\ Moves(w, "intent") /\ worker[w].step = "execute"
      BY <1>0, <1>6 DEF DenyTool, Quiet, Watched
    <2> QED BY <2>1, StepNames, MovesKeeps
  <1>7. CASE ReceiptDrifts(w)
    <2>1. Quiet /\ Watched(w) /\ Ends(w) BY <1>0, <1>7 DEF ReceiptDrifts, Quiet, Watched
    <2> QED BY <2>1, EndsKeeps
  <1>8. CASE SubmissionIntent(w)
    <2>1. Quiet /\ Watched(w) /\ Moves(w, "submit") /\ worker[w].step = "intent"
      BY <1>0, <1>8 DEF SubmissionIntent, Quiet, Watched
    <2> QED BY <2>1, StepNames, MovesKeeps
  <1>9. CASE CheckpointNextTurn(w)
    <2>1. Quiet /\ Watched(w) /\ (Moves(w, "submitted") \/ Moves(w, "doubt"))
          /\ worker[w].step = "next_turn"
      BY <1>0, <1>9 DEF CheckpointNextTurn, Quiet, Watched
    <2> QED BY <2>1, StepNames, MovesKeeps
  <1>10. CASE SubmissionUncertain(w)
    <2>1. Quiet /\ Watched(w) /\ (Ends(w) \/ (Moves(w, "failed") /\ worker[w].step = "broken"))
      BY <1>0, <1>10 DEF SubmissionUncertain, Quiet, Watched
    <2> QED BY <2>1, StepNames, EndsKeeps, MovesKeeps
  <1>11. CASE RecordTerminalFailure(w)
    <2>1. Quiet /\ Watched(w) /\ Ends(w)
      BY <1>0, <1>11 DEF RecordTerminalFailure, Quiet, Watched
    <2> QED BY <2>1, EndsKeeps
  <1>12. CASE Dies(w)
    <2>1. Quiet /\ Watched(w) /\ Ends(w) BY <1>0, <1>12 DEF Dies, Quiet, Watched
    <2> QED BY <2>1, EndsKeeps
  <1>13. CASE ToolRefuses(w) \/ ReadFile(w) \/ SandboxAnswers(w)
    <2>1. Quiet /\ Watched(w) /\ (Ends(w) \/ Moves(w, "append"))
          /\ worker[w].step \in {"perform", "validate"}
      BY <1>0, <1>13 DEF ToolRefuses, ReadFile, SandboxAnswers, Quiet, Watched, Ready
    <2> QED BY <2>1, StepNames, EndsKeeps, MovesKeeps
  <1>14. CASE AppendToolEvent(w)
    <2>1. Quiet /\ Watched(w) /\ Moves(w, "intent") /\ worker[w].step = "append"
      BY <1>0, <1>14 DEF AppendToolEvent, Quiet, Watched
    <2> QED BY <2>1, StepNames, MovesKeeps
  <1> QED BY <1>1, <1>2, <1>3, <1>4, <1>5, <1>6, <1>7, <1>8, <1>9, <1>10, <1>11, <1>12, <1>13, <1>14

(* The claim of the dispatch is the first one. *)
LEMMA ClaimDispatchKeeps ==
  ASSUME CodingInv, NEW w \in Workers, ClaimDispatch(w)
  PROVE  CodingInv'
  <1> USE DEF attemptRows, store, done, Is
  <1>1. CASE ~DispatchClaimable
    <2>1. Quiet /\ Watched(w) /\ Ends(w)
      BY <1>1 DEF ClaimDispatch, Quiet, Watched, CodingInv, CodingTypes
    <2> QED BY <2>1, EndsKeeps
  <1>2. CASE DispatchClaimable
    <2>1. /\ ~stopped /\ ~claimed /\ claimed' = TRUE /\ Moves(w, "open")
          /\ UNCHANGED <<opened, performed, delivered, late, stopped>>
      BY <1>2 DEF ClaimDispatch, DispatchClaimable
    <2>0. PICK row : Lands(w, row, "open") BY <2>1, StepNames, MovesRow DEF CodingInv
    <2>2. Goes(w, row) /\ row.step = "open" /\ row.sequence = worker[w].sequence BY <2>0 DEF Lands
    <2>3. HoldInv' BY <2>1, <2>2, HoldQuiet DEF CodingInv
    <2>4. CodingTypes' BY <2>1, <2>2, GoesFacts DEF CodingInv, CodingTypes
    <2>5. \A v \in Workers : worker[v].step \notin Dispatching BY <2>1 DEF CodingInv, OnceInv
    <2>6. /\ opened = 0
          /\ \A n \in ToolSteps : performed[n] = 0 /\ delivered[n] = 0
      BY <2>1 DEF CodingInv, OnceInv
    <2>7. Progress(row)' BY <2>1, <2>2, <2>6 DEF Progress
    <2>8. \A v \in Workers : worker'[v].step \in Dispatching => v = w BY <2>2, <2>5, GoesFacts DEF CodingInv
    <2>9. Progress(worker[w])'
      <3>1. PICK b : b = row /\ b = worker'[w] BY <2>2, GoesFacts DEF CodingInv
      <3> QED BY <3>1, <2>7
    <2>10. EffectsHappenOnce'
      BY <2>1 DEF CodingInv, OnceInv, EffectsHappenOnce
    <2>11. OnceInv' BY <2>1, <2>8, <2>9, <2>10 DEF OnceInv
    <2> QED BY <2>3, <2>4, <2>11 DEF CodingInv
  <1> QED BY <1>1, <1>2

(* The claim's worker opens the session. *)
LEMMA WorkerOpensSession ==
  ASSUME CodingInv, NEW w \in Workers, OpenWorkerSession(w)
  PROVE  CodingInv'
  <1>1. /\ worker[w].step = "open" /\ Ready(worker[w]) /\ Acts(w) /\ opened' = opened + 1
        /\ Moves(w, "record_session")
        /\ UNCHANGED <<claimed, performed, delivered, stopped>>
    BY DEF OpenWorkerSession, Is, Ready, attemptRows, store
  <1>0. "record_session" \in WorkerSteps BY StepNames
  <1>00. PICK row : Lands(w, row, "record_session") BY <1>0, <1>1, MovesRow DEF CodingInv
  <1>2. /\ Goes(w, row) /\ row.step = "record_session" /\ row.permit = FALSE
        /\ row.sequence = worker[w].sequence
    BY <1>00 DEF Lands
  <1>3. ~Ready(row) BY <1>2 DEF Ready
  <1>4. HoldInv' /\ late' \in [Workers -> Nat] BY <1>1, <1>2, <1>3, HoldActs DEF CodingInv
  <1>5. opened = 0 /\ Progress(worker[w])
    BY <1>1, StepNames DEF CodingInv, OnceInv, Progress
  <1>6. CodingTypes' BY <1>1, <1>2, <1>4, <1>5, GoesFacts DEF CodingInv, CodingTypes
  <1>7. Progress(row)'
    BY <1>1, <1>2, <1>5, StepNames DEF Progress
  <1>8. EffectsHappenOnce'
    BY <1>1, <1>5 DEF CodingInv, OnceInv, EffectsHappenOnce
  <1>9. OnceInv' BY <1>1, <1>2, <1>7, <1>8, StepNames, OnceOn DEF CodingInv
  <1> QED BY <1>4, <1>6, <1>9 DEF CodingInv

(* A step of the one dispatch that leaves its mark: what has to be shown. *)
LEMMA MarkKeeps ==
  ASSUME CodingInv, NEW w \in Workers, NEW row, Goes(w, row), worker[w].step \in Dispatching,
         UNCHANGED <<claimed, opened>>, Progress(row)', EffectsHappenOnce',
         HoldInv', performed' \in [ToolSteps -> Nat], delivered' \in [ToolSteps -> Nat],
         late' \in [Workers -> Nat], stopped' \in BOOLEAN
  PROVE  CodingInv'
  <1>1. OnceInv' BY OnceOn DEF CodingInv
  <1>2. CodingTypes' BY GoesFacts DEF CodingInv, CodingTypes
  <1> QED BY <1>1, <1>2 DEF CodingInv

(* The turn starts on the open session. *)
LEMMA StartTurnKeeps ==
  ASSUME CodingInv, NEW w \in Workers, StartTurn(w)
  PROVE  CodingInv'
  <1>1. Quiet /\ Watched(w) /\ worker[w].step = "start_turn"
    BY DEF StartTurn, May, Is, Quiet, Watched, Ready, attemptRows, store, done
  <1>2. worker[w] \in WorkerRow BY DEF CodingInv, CodingTypes
  <1> DEFINE row == [worker[w] EXCEPT !.step = "record_turn", !.permit = FALSE, !.handle = 1]
  <1>3. row \in WorkerRow /\ row.step = "record_turn" /\ row.permit = FALSE
        /\ row.sequence = worker[w].sequence
    BY <1>2, StepNames DEF WorkerRow
  <1>4. worker' = [worker EXCEPT ![w] = row] BY <1>2 DEF StartTurn, CodingInv, CodingTypes
  <1> HIDE DEF row
  <1>5. Goes(w, row) /\ ~Ready(row) BY <1>3, <1>4 DEF Goes, Ready
  <1>6. HoldInv' /\ late' \in [Workers -> Nat] /\ stopped' \in BOOLEAN
    BY <1>1, <1>5, WatchedHolds DEF CodingInv
  <1>7. OnceInv' BY <1>1, <1>3, <1>5, StepNames, OnceQuiet DEF CodingInv, Quiet
  <1>8. CodingTypes' BY <1>1, <1>5, <1>6, GoesFacts DEF CodingInv, CodingTypes, Quiet
  <1> QED BY <1>6, <1>7, <1>8 DEF CodingInv

(* One worker claims the dispatch. *)
LEMMA ClaimEffectKeeps ==
  ASSUME CodingInv, NEW w \in Workers, ClaimEffect(w)
  PROVE  CodingInv'
  <1>1. /\ Quiet /\ Watched(w) /\ UNCHANGED <<late, stopped>>
        /\ worker[w].step = "execute" /\ Ready(worker[w]) /\ worker[w] \in WorkerRow
    BY DEF ClaimEffect, May, Is, Quiet, Watched, Ready, attemptRows, store, done, CodingInv, CodingTypes
  <1>2. CASE Ends(w) BY <1>1, <1>2, EndsKeeps
  <1>3. ASSUME NEW row, Goes(w, row), row.step \in {"append", "perform"},
               row.sequence = worker[w].sequence
        PROVE  CodingInv'
    <2>1. HoldInv' BY <1>1, <1>3, HoldQuiet DEF CodingInv
    <2>2. OnceInv' BY <1>1, <1>3, StepNames, OnceQuiet DEF CodingInv, Quiet
    <2>3. CodingTypes' BY <1>1, <1>3, GoesFacts DEF CodingInv, CodingTypes, Quiet
    <2> QED BY <2>1, <2>2, <2>3 DEF CodingInv
  <1>4. CASE worker' = [worker EXCEPT ![w].step = "append"]
    <2> DEFINE row == [worker[w] EXCEPT !.step = "append"]
    <2>1. row \in WorkerRow /\ row.step = "append" /\ row.sequence = worker[w].sequence
      BY <1>1, StepNames DEF WorkerRow
    <2>2. worker' = [worker EXCEPT ![w] = row] BY <1>1, <1>4 DEF CodingInv, CodingTypes
    <2> HIDE DEF row
    <2> QED BY <2>1, <2>2, <1>3 DEF Goes
  <1>5. CASE Moves(w, "perform")
    <2>0. "perform" \in WorkerSteps BY StepNames
    <2>1. PICK row : Lands(w, row, "perform") BY <1>5, <2>0, MovesRow DEF CodingInv
    <2> QED BY <2>1, <1>3 DEF Lands
  <1> QED BY <1>2, <1>4, <1>5 DEF ClaimEffect

(* A write, or the start of a validation: the first effect of its sequence. *)
LEMMA PerformsKeeps ==
  ASSUME CodingInv, NEW w \in Workers, WriteFile(w) \/ Validate(w)
  PROVE  CodingInv'
  <1> DEFINE n == worker[w].sequence
  <1>1. /\ worker[w].step = "perform" /\ Ready(worker[w]) /\ Acts(w)
        /\ performed' = [performed EXCEPT ![worker[w].sequence] = @ + 1]
        /\ UNCHANGED <<claimed, opened, delivered, stopped>>
    BY DEF WriteFile, Validate, Performs, Is, Ready, attemptRows, store
  <1>2. worker[w] \in WorkerRow /\ worker[w].sequence \in ToolSteps BY DEF CodingInv, CodingTypes, WorkerRow
  <1>3. worker[w].step \in Dispatching /\ Progress(worker[w]) BY <1>1, StepNames DEF CodingInv, OnceInv
  <1>4. /\ performed[n] = 0 /\ delivered[n] = 0
        /\ \A m \in ToolSteps : m > n => performed[m] = 0 /\ delivered[m] = 0
    BY <1>1, <1>2, <1>3, StepNames DEF Progress
  <1>5. PICK row : Lands(w, row, "append") \/ Lands(w, row, "validate")
    <2>1. Moves(w, "append") \/ Moves(w, "validate") BY DEF WriteFile, Validate
    <2> QED BY <2>1, StepNames, MovesRow DEF CodingInv
  <1>6. Goes(w, row) /\ ~Ready(row) /\ row.step \in {"append", "validate"} /\ row.sequence = n
    BY <1>5 DEF Lands, Ready
  <1>7. HoldInv' /\ late' \in [Workers -> Nat] BY <1>1, <1>6, HoldActs DEF CodingInv
  <1>8. /\ performed' \in [ToolSteps -> Nat] /\ delivered' \in [ToolSteps -> Nat]
        /\ stopped' \in BOOLEAN
    BY <1>1, <1>2 DEF CodingInv, CodingTypes
  <1>9. EffectsHappenOnce'
    BY <1>1, <1>2, <1>4 DEF CodingInv, CodingTypes, OnceInv, EffectsHappenOnce
  <1>11. Progress(row)'
    <2>0. n \in ToolSteps /\ performed \in [ToolSteps -> Nat] BY <1>2 DEF CodingInv, CodingTypes
    <2>1. ASSUME NEW m \in ToolSteps, m > n
          PROVE  m # n /\ performed'[m] = 0 /\ delivered'[m] = 0
      <3>1. m # n BY <2>0, <2>1 DEF ToolSteps
      <3>2. performed'[m] = performed[m] BY <1>1, <2>0, <3>1
      <3> QED BY <1>1, <1>4, <2>1, <3>1, <3>2
    <2>2. row.step \notin ToPerform /\ row.step # "open" BY <1>6, StepNames
    <2>4. delivered'[n] = 0 BY <1>1, <1>4
    <2> HIDE DEF n
    <2> QED BY <1>6, <2>1, <2>2, <2>4 DEF Progress
  <1> QED BY <1>1, <1>3, <1>6, <1>7, <1>8, <1>9, <1>11, MarkKeeps

(* The worker's row after it handed a result over. *)
LEMMA SubmitRow ==
  ASSUME CodingTypes, NEW w \in Workers, SubmitToolResult(w) \/ SubmitFails(w)
  PROVE  /\ SubmitToolResult(w) => \E row : Lands(w, row, "next_turn")
         /\ SubmitFails(w) => \E row : Lands(w, row, "broken")
  <1>0. worker[w] \in WorkerRow BY DEF CodingTypes
  <1>1. ASSUME SubmitToolResult(w) PROVE \E row : Lands(w, row, "next_turn")
    <2>0. worker[w].handle \in Nat BY <1>0 DEF WorkerRow
    <2>1. PICK named \in Nat :
            worker' = [worker EXCEPT ![w].step = "next_turn", ![w].permit = FALSE,
                                     ![w].handle = named]
      <3>1. PICK naming \in SdkTurns :
              worker' = [worker EXCEPT ![w].step = "next_turn", ![w].permit = FALSE,
                                       ![w].handle = IF naming = "fresh" THEN @ + 1 ELSE @]
        BY <1>1 DEF SubmitToolResult
      <3>2. CASE naming = "fresh"
        <4>1. worker[w].handle + 1 \in Nat BY <2>0
        <4> WITNESS worker[w].handle + 1 \in Nat
        <4> QED BY <3>1, <3>2
      <3>3. CASE naming # "fresh"
        <4> USE <2>0
        <4> WITNESS worker[w].handle \in Nat
        <4> QED BY <3>1, <3>3
      <3> QED BY <3>2, <3>3
    <2> DEFINE row == [worker[w] EXCEPT !.step = "next_turn", !.permit = FALSE, !.handle = named]
    <2>2. /\ row \in WorkerRow /\ row.step = "next_turn" /\ row.permit = FALSE
          /\ row.sequence = worker[w].sequence
      BY <1>0, StepNames DEF WorkerRow
    <2>3. worker' = [worker EXCEPT ![w] = row] BY <1>0, <2>1 DEF CodingTypes
    <2> HIDE DEF row
    <2>4. Lands(w, row, "next_turn") BY <2>2, <2>3 DEF Lands, Goes
    <2> QED BY <2>4
  <1>2. ASSUME SubmitFails(w) PROVE \E row : Lands(w, row, "broken")
    <2>0. "broken" \in WorkerSteps /\ Moves(w, "broken") BY <1>2, StepNames DEF SubmitFails
    <2> QED BY <2>0, MovesRow
  <1> QED BY <1>1, <1>2

(* The provider takes a result, or its answer is lost. *)
LEMMA SubmitKeeps ==
  ASSUME CodingInv, NEW w \in Workers, SubmitToolResult(w) \/ SubmitFails(w)
  PROVE  CodingInv'
  <1> DEFINE n == worker[w].sequence
  <1>1. /\ worker[w].step = "submit" /\ Ready(worker[w]) /\ Acts(w)
        /\ \E took \in {0, 1} : delivered' = [delivered EXCEPT ![n] = @ + took]
        /\ UNCHANGED <<claimed, opened, performed, stopped>>
    BY DEF SubmitToolResult, SubmitFails, May, Is, Ready, attemptRows, store
  <1>2. worker[w] \in WorkerRow /\ n \in ToolSteps BY DEF CodingInv, CodingTypes, WorkerRow
  <1>3. worker[w].step \in Dispatching /\ Progress(worker[w]) BY <1>1, StepNames DEF CodingInv, OnceInv
  <1>4. PICK row : Lands(w, row, "next_turn") \/ Lands(w, row, "broken") BY SubmitRow DEF CodingInv
  <1>5. Goes(w, row) /\ ~Ready(row) /\ row.step \in {"next_turn", "broken"} /\ row.sequence = n
    BY <1>4 DEF Lands, Ready
  <1>6. HoldInv' /\ late' \in [Workers -> Nat] BY <1>1, <1>5, HoldActs DEF CodingInv
  <1>7. /\ delivered[n] = 0
        /\ \A m \in ToolSteps : m > n =>
              performed[m] = 0 /\ delivered[m] = 0
    BY <1>1, <1>2, <1>3, StepNames DEF Progress
  <1>8. PICK took \in {0, 1} : delivered' = [delivered EXCEPT ![n] = took]
    <2>1. PICK took \in {0, 1} : delivered' = [delivered EXCEPT ![n] = @ + took] BY <1>1
    <2>2. delivered \in [ToolSteps -> Nat] /\ delivered[n] + took = took
      BY <1>7, <2>1 DEF CodingInv, CodingTypes
    <2>3. delivered' = [delivered EXCEPT ![n] = took] BY <2>1, <2>2
    <2> QED BY <2>3
  <1>9a. delivered' \in [ToolSteps -> Nat] BY <1>2, <1>8 DEF CodingInv, CodingTypes
  <1>9b. performed' \in [ToolSteps -> Nat] /\ stopped' \in BOOLEAN
    BY <1>1 DEF CodingInv, CodingTypes
  <1>10. EffectsHappenOnce' BY <1>1, <1>2, <1>8 DEF CodingInv, CodingTypes, OnceInv, EffectsHappenOnce
  <1>12. Progress(row)'
    <2>1. \A m \in ToolSteps : m > n => delivered'[m] = 0
      <3>1. \A m \in ToolSteps : m > n => m # n BY <1>2 DEF ToolSteps
      <3> HIDE DEF n
      <3> QED BY <1>2, <1>7, <1>8, <3>1 DEF CodingInv, CodingTypes
    <2>2. row.step \notin ToSubmit /\ row.step # "open" BY <1>5, StepNames
    <2>3. row.step \notin ToPerform BY <2>2, StepNames
    <2> HIDE DEF n
    <2> QED BY <1>1, <1>5, <1>7, <2>1, <2>2, <2>3 DEF Progress
  <1> QED BY <1>1, <1>3, <1>5, <1>6, <1>9a, <1>9b, <1>10, <1>12, MarkKeeps

(* The worker's row after a submitted result: the next sequence. *)
LEMMA SubmittedRow ==
  ASSUME CodingTypes, NEW w \in Workers, Submitted(w), worker[w].sequence # MaxSteps
  PROVE  \E row : /\ Goes(w, row) /\ row.step = "read" /\ row.permit = FALSE
                  /\ row.sequence = worker[w].sequence + 1
  <1> DEFINE n == worker[w].sequence
             next == [worker[w] EXCEPT !.step = "read", !.permit = FALSE,
                                       !.sequence = n + 1, !.acknowledged = @ \cup {n}]
  <1>1. worker[w] \in WorkerRow /\ n \in ToolSteps BY DEF CodingTypes, WorkerRow
  <1>2. worker' = [worker EXCEPT ![w].step = "read", ![w].permit = FALSE,
                                 ![w].sequence = n + 1, ![w].acknowledged = @ \cup {n}]
    BY DEF Submitted
  <1>3. n + 1 \in ToolSteps BY <1>1, WorkerAssumption DEF ToolSteps
  <1>4. next \in WorkerRow /\ next.step = "read" /\ next.permit = FALSE /\ next.sequence = n + 1
    BY <1>1, <1>3, StepNames DEF WorkerRow
  <1>5. worker' = [worker EXCEPT ![w] = next] BY <1>1, <1>2 DEF CodingTypes
  <1> HIDE DEF next
  <1>6. Goes(w, next) BY <1>4, <1>5 DEF Goes
  <1> QED BY <1>4, <1>6

(* A result the store calls submitted: the next sequence is untouched. *)
LEMMA SubmittedKeeps ==
  ASSUME CodingInv, NEW w \in Workers, Submitted(w)
  PROVE  CodingInv'
  <1> DEFINE n == worker[w].sequence
  <1>1. /\ worker[w].step = "submitted" /\ Quiet /\ Watched(w) /\ UNCHANGED <<late, stopped>>
    BY DEF Submitted, May, Is, Quiet, Watched, attemptRows, store, done, CodingInv, CodingTypes
  <1>2. worker[w] \in WorkerRow /\ n \in ToolSteps BY DEF CodingInv, CodingTypes, WorkerRow
  <1>3. worker[w].step \in Dispatching /\ Progress(worker[w]) BY <1>1, StepNames DEF CodingInv, OnceInv
  <1>4. CASE Ends(w) BY <1>1, <1>4, EndsKeeps
  <1>5. CASE n # MaxSteps
    <2>3. PICK row : Goes(w, row) /\ row.step = "read" /\ row.permit = FALSE /\ row.sequence = n + 1
      BY <1>5, SubmittedRow DEF CodingInv
    <2>5. Goes(w, row) /\ ~Ready(row) BY <2>3 DEF Ready
    <2>6. HoldInv' BY <1>1, <2>5, HoldQuiet DEF CodingInv
    <2>7. \A m \in ToolSteps : m > n =>
            performed[m] = 0 /\ delivered[m] = 0
      BY <1>2, <1>3 DEF Progress
    <2>8. \A m \in ToolSteps : m > n + 1 \/ m = n + 1 => m > n BY <1>2 DEF ToolSteps
    <2>9. Progress(row)
      <3> HIDE DEF n
      <3> QED BY <2>3, <2>7, <2>8 DEF Progress
    <2>10. Progress(row)' BY <1>1, <2>9 DEF Progress, Quiet
    <2>11. /\ performed' \in [ToolSteps -> Nat] /\ delivered' \in [ToolSteps -> Nat]
           /\ stopped' \in BOOLEAN /\ late' \in [Workers -> Nat]
      BY <1>1 DEF CodingInv, CodingTypes, Quiet
    <2>12. EffectsHappenOnce'
      BY <1>1 DEF CodingInv, OnceInv, EffectsHappenOnce, Quiet
    <2> QED BY <1>1, <1>3, <2>5, <2>6, <2>10, <2>11, <2>12, MarkKeeps DEF Quiet
  <1> QED BY <1>4, <1>5 DEF Submitted

(* The scope is stopped, cleared, or nothing at all happens. *)
LEMMA ScopeKeeps ==
  ASSUME CodingInv, StopWorkerScope \/ ClearScope \/ UNCHANGED workerVars
  PROVE  CodingInv'
  <1> USE DEF attemptRows, store, done, bounds, workerVars
  <1>1. Quiet /\ UNCHANGED worker BY DEF StopWorkerScope, ClearScope, Quiet
  <1>2. \/ UNCHANGED <<late, stopped>>
        \/ stopped' \in BOOLEAN /\ late' = [w \in Workers |-> 0]
    BY DEF StopWorkerScope, ClearScope
  <1>3. CodingTypes' BY <1>1, <1>2 DEF CodingInv, CodingTypes, Quiet
  <1>4. HoldInv' BY <1>1, <1>2 DEF CodingInv, HoldInv, Ready
  <1>5. EffectsHappenOnce'
    BY <1>1 DEF CodingInv, OnceInv, EffectsHappenOnce, Quiet
  <1>6. ASSUME NEW w \in Workers, worker[w].step \in Dispatching PROVE Progress(worker[w])'
    BY <1>1, <1>6 DEF CodingInv, OnceInv, Progress, Quiet
  <1>7. OnceInv' BY <1>1, <1>5, <1>6 DEF CodingInv, OnceInv, Quiet
  <1> QED BY <1>3, <1>4, <1>7 DEF CodingInv

(* One step per action of the coding worker. *)
LEMMA CodingInductive ==
  ASSUME CodingInv, [CodingNext]_workerVars
  PROVE  CodingInv'
  <1>1. ASSUME NEW w \in Workers, Step(w) PROVE CodingInv'
    BY <1>1, BeforeDispatch, AdmitEffectKeeps, MovingSteps, ClaimDispatchKeeps, WorkerOpensSession,
       StartTurnKeeps, ClaimEffectKeeps, PerformsKeeps, SubmitKeeps, SubmittedKeeps
    DEF Step
  <1> QED BY <1>1, ScopeKeeps DEF CodingNext

(* Nothing is performed at first. *)
LEMMA CodingStarts ==
  ASSUME CodingInit
  PROVE  CodingInv
  <1>1. Away \in WorkerRow
    BY WorkerAssumption DEF Away, WorkerRow, WorkerSteps, ToolSteps
  <1>2. CodingTypes BY <1>1 DEF CodingInit, CodingTypes
  <1>3. \A w \in Workers : worker[w].step \notin Dispatching BY StepNames DEF CodingInit, Away
  <1>4. OnceInv BY <1>3 DEF CodingInit, OnceInv, EffectsHappenOnce
  <1>5. HoldInv BY DEF CodingInit, HoldInv
  <1> QED BY <1>2, <1>4, <1>5 DEF CodingInv

(* CodingInv holds of every behaviour. *)
LEMMA CodingAlways == CodingSpec => []CodingInv
  <1>1. CodingInit => CodingInv BY CodingStarts
  <1>2. CodingInv /\ [CodingNext]_workerVars => CodingInv' BY CodingInductive
  <1> QED BY <1>1, <1>2, PTL DEF CodingSpec

(* An attempt opens one native session, and each of its tool steps is
   performed once and handed over once, for any number of workers and steps
   and however often processes die (claim_worker_dispatch, claim_effect). *)
THEOREM WorkerEffectsHappenOnce == CodingSpec => []EffectsHappenOnce
  <1>1. CodingInv => EffectsHappenOnce BY DEF CodingInv, OnceInv
  <1> QED BY <1>1, CodingAlways, PTL

(* Of what a worker had been admitted to, at most one effect happens after
   the scope was stopped (admit of CodexWorkerAdapter). *)
THEOREM StopsReachTheWorker == CodingSpec => []StopTakesHold
  <1>1. CodingInv => StopTakesHold BY DEF CodingInv, CodingTypes, HoldInv, StopTakesHold
  <1> QED BY <1>1, CodingAlways, PTL

(***************************************************************************)
(* What the store knows.  OnRecord relates what happened outside to the    *)
(* rows of a sequence; Handed says what the process that is past the claim *)
(* has already written for the step it is at.                              *)
(***************************************************************************)
HasEvent(n) == \E e \in events : e[2] = n
Told(n) ==
    /\ performed[n] > 0 => n \in effectClaims
    /\ delivered[n] > 0 => submission[n] # Unset
    /\ submission[n] = "submitted" => delivered[n] = 1
    /\ performed[n] > 0 /\ delivered[n] > 0 => HasEvent(n)

Handed(row) ==
    /\ row.step = "perform" => row.sequence \in effectClaims
    /\ row.step \in {"intent", "submit"} /\ performed[row.sequence] > 0 => HasEvent(row.sequence)
    /\ row.step = "submit" => submission[row.sequence] # Unset
    /\ row.step \in {"next_turn", "submitted"} => delivered[row.sequence] = 1

StoreInv ==
    /\ submission \in [ToolSteps -> {Unset, "intent", "uncertain", "submitted"}]
    /\ \A n \in ToolSteps : Told(n)
    /\ \A w \in Workers : Handed(worker[w])

Untold == UNCHANGED <<effectClaims, events, submission, performed, delivered>>

(* Nothing is written and nothing happens: only the process moves. *)
LEMMA StoreStays ==
  ASSUME CodingInv, StoreInv, NEW w \in Workers, NEW row, Goes(w, row), Untold, Handed(row)
  PROVE  StoreInv'
  <1>1. worker'[w] = row /\ \A v \in Workers : v # w => worker'[v] = worker[v]
    BY GoesFacts DEF CodingInv
  <1>2. ASSUME NEW v \in Workers PROVE Handed(worker[v])'
    <2>1. PICK b : b = worker'[v] OBVIOUS
    <2>2. Handed(b)
      <3>1. CASE v = w BY <1>1, <2>1, <3>1
      <3>2. CASE v # w BY <1>1, <2>1, <3>2 DEF StoreInv
      <3> QED BY <3>1, <3>2
    <2>3. Handed(b)' BY <2>2 DEF Handed, HasEvent, Untold
    <2> QED BY <2>1, <2>3
  <1>3. \A n \in ToolSteps : Told(n)' BY DEF StoreInv, Told, HasEvent, Untold
  <1> QED BY <1>2, <1>3 DEF StoreInv, Untold

(* The one process past the claim writes, or acts. *)
LEMMA StoreOn ==
  ASSUME CodingInv, NEW w \in Workers, NEW row, Goes(w, row), worker[w].step \in Dispatching,
         Handed(row)', \A n \in ToolSteps : Told(n)',
         submission' \in [ToolSteps -> {Unset, "intent", "uncertain", "submitted"}]
  PROVE  StoreInv'
  <1>1. worker'[w] = row /\ \A v \in Workers : v # w => worker'[v] = worker[v]
    BY GoesFacts DEF CodingInv
  <1>2. \A v \in Workers : v # w => worker[v].step \notin Dispatching BY DEF CodingInv, OnceInv
  <1>3. ASSUME NEW v \in Workers PROVE Handed(worker[v])'
    <2>1. PICK b : b = worker'[v] OBVIOUS
    <2>2. CASE v = w
      <3>1. b = row BY <1>1, <2>1, <2>2
      <3> QED BY <2>1, <3>1
    <2>3. CASE v # w
      <3>1. b.step \notin Dispatching BY <1>1, <1>2, <2>1, <2>3
      <3>2. b.step \notin {"perform", "intent", "submit", "next_turn", "submitted"}
        BY <3>1, StepNames
      <3>3. Handed(b)' BY <3>2 DEF Handed
      <3> QED BY <2>1, <3>3
    <2> QED BY <2>2, <2>3
  <1> QED BY <1>3 DEF StoreInv

(* The steps at which a process knows what it has to. *)
LEMMA StoreMoves ==
  ASSUME CodingInv, StoreInv, NEW w \in Workers, NEW step \in WorkerSteps, Moves(w, step), Untold,
         step \notin {"perform", "submit", "next_turn"},
         step = "intent" => worker[w].step = "execute",
         step = "submitted" => worker[w].step = "next_turn"
  PROVE  StoreInv'
  <1>1. PICK row : Lands(w, row, step) BY MovesRow DEF CodingInv
  <1>2. Goes(w, row) /\ row.step = step /\ row.sequence = worker[w].sequence BY <1>1 DEF Lands
  <1>3. worker[w] \in WorkerRow /\ Handed(worker[w]) BY DEF CodingInv, CodingTypes, StoreInv
  <1>4. step = "intent" => performed[worker[w].sequence] = 0
    BY <1>3, StepNames DEF CodingInv, OnceInv, Progress, WorkerRow
  <1>5. Handed(row) BY <1>2, <1>3, <1>4 DEF Handed
  <1> QED BY <1>2, <1>5, StoreStays

(* A process that ends. *)
LEMMA StoreEnds ==
  ASSUME CodingInv, StoreInv, NEW w \in Workers, Ends(w), Untold
  PROVE  StoreInv'
  <1>1. Goes(w, Away) /\ Away.step = "away" BY AwayRow DEF CodingInv
  <1>2. Handed(Away) BY <1>1 DEF Handed
  <1>3. PICK row : row = Away OBVIOUS
  <1> QED BY <1>1, <1>2, <1>3, StoreStays

(* The steps that write nothing into the store. *)
LEMMA StoreAside ==
  ASSUME CodingInv, StoreInv, NEW w \in Workers,
         \/ StartDispatch(w) \/ ReserveBudget(w) \/ ClaimDispatch(w) \/ CheckpointFails(w)
         \/ OpenWorkerSession(w) \/ RecordSession(w) \/ SdkFails(w) \/ RecordTurn(w)
         \/ ReadStep(w) \/ DenyTool(w) \/ ReceiptDrifts(w) \/ ToolRefuses(w) \/ ReadFile(w)
         \/ SandboxAnswers(w) \/ CheckpointNextTurn(w) \/ RecordTerminalFailure(w) \/ Dies(w)
  PROVE  StoreInv'
  <1>1. Untold
    BY DEF StartDispatch, ReserveBudget, ClaimDispatch, CheckpointFails, OpenWorkerSession,
           RecordSession, SdkFails, RecordTurn, ReadStep, DenyTool, ReceiptDrifts, ToolRefuses,
           ReadFile, SandboxAnswers, CheckpointNextTurn, RecordTerminalFailure, Dies,
           Untold, store, done
  <1>2. \/ Ends(w)
        \/ \E step \in {"reserve", "claim", "open", "record_session", "start_turn", "failed", "read",
                        "execute", "append", "doubt"} : Moves(w, step)
        \/ Moves(w, "intent") /\ worker[w].step = "execute"
        \/ Moves(w, "submitted") /\ worker[w].step = "next_turn"
    BY DEF StartDispatch, ReserveBudget, ClaimDispatch, CheckpointFails, OpenWorkerSession,
           RecordSession, SdkFails, RecordTurn, ReadStep, DenyTool, ReceiptDrifts, ToolRefuses,
           ReadFile, SandboxAnswers, CheckpointNextTurn, RecordTerminalFailure, Dies,
           Refused, May, Is
  <1> QED BY <1>1, <1>2, StepNames, StoreEnds, StoreMoves

(* An admission, and the start of the turn. *)
LEMMA StoreAdmits ==
  ASSUME CodingInv, StoreInv, NEW w \in Workers, AdmitEffect(w) \/ StartTurn(w)
  PROVE  StoreInv'
  <1>1. Untold BY DEF AdmitEffect, StartTurn, Untold, store, done
  <1>2. worker[w] \in WorkerRow /\ Handed(worker[w]) BY DEF CodingInv, CodingTypes, StoreInv
  <1>3. CASE AdmitEffect(w) /\ ~Admitted(w)
    <2>1. Moves(w, "doubt") \/ Ends(w) BY <1>3 DEF AdmitEffect, Refused
    <2> QED BY <1>1, <2>1, StepNames, StoreEnds, StoreMoves
  <1>4. CASE AdmitEffect(w) /\ Admitted(w)
    <2> DEFINE row == [worker[w] EXCEPT !.permit = TRUE]
    <2>1. row \in WorkerRow /\ row.step = worker[w].step /\ row.sequence = worker[w].sequence
      BY <1>2 DEF WorkerRow
    <2>2. worker' = [worker EXCEPT ![w] = row] BY <1>2, <1>4 DEF AdmitEffect, CodingInv, CodingTypes
    <2> HIDE DEF row
    <2>3. Goes(w, row) /\ Handed(row) BY <1>2, <2>1, <2>2 DEF Goes, Handed
    <2> QED BY <1>1, <2>3, StoreStays
  <1>5. CASE StartTurn(w)
    <2> DEFINE row == [worker[w] EXCEPT !.step = "record_turn", !.permit = FALSE, !.handle = 1]
    <2>1. row \in WorkerRow /\ row.step = "record_turn" BY <1>2, StepNames DEF WorkerRow
    <2>2. worker' = [worker EXCEPT ![w] = row] BY <1>2, <1>5 DEF StartTurn, CodingInv, CodingTypes
    <2> HIDE DEF row
    <2>3. Goes(w, row) /\ Handed(row) BY <2>1, <2>2 DEF Goes, Handed
    <2> QED BY <1>1, <2>3, StoreStays
  <1> QED BY <1>3, <1>4, <1>5

(* The first claim of a sequence is written before its effect. *)
LEMMA StoreClaims ==
  ASSUME CodingInv, StoreInv, NEW w \in Workers, ClaimEffect(w)
  PROVE  StoreInv'
  <1> DEFINE n == worker[w].sequence
  <1>1. /\ worker[w].step = "execute" /\ worker[w] \in WorkerRow
        /\ UNCHANGED <<events, submission, performed, delivered>>
    BY DEF ClaimEffect, May, Is, done, CodingInv, CodingTypes
  <1>2. CASE UNCHANGED effectClaims /\ Ends(w) BY <1>1, <1>2, StoreEnds DEF Untold
  <1>3. CASE UNCHANGED effectClaims /\ worker' = [worker EXCEPT ![w].step = "append"]
    <2> DEFINE row == [worker[w] EXCEPT !.step = "append"]
    <2>1. row \in WorkerRow /\ row.step = "append" BY <1>1, StepNames DEF WorkerRow
    <2>2. worker' = [worker EXCEPT ![w] = row] BY <1>1, <1>3 DEF CodingInv, CodingTypes
    <2> HIDE DEF row
    <2>3. Goes(w, row) /\ Handed(row) BY <2>1, <2>2 DEF Goes, Handed
    <2> QED BY <1>1, <1>3, <2>3, StoreStays DEF Untold
  <1>4. CASE effectClaims' = effectClaims \cup {n} /\ Moves(w, "perform")
    <2>1. PICK row : Lands(w, row, "perform") BY <1>4, StepNames, MovesRow DEF CodingInv
    <2>2. Goes(w, row) /\ row.step = "perform" /\ row.sequence = n BY <2>1 DEF Lands
    <2>3. Handed(row)' BY <1>4, <2>2 DEF Handed
    <2>4. \A m \in ToolSteps : Told(m)' BY <1>1, <1>4 DEF StoreInv, Told, HasEvent
    <2> QED BY <1>1, <2>2, <2>3, <2>4, StepNames, StoreOn DEF StoreInv
  <1> QED BY <1>2, <1>3, <1>4 DEF ClaimEffect

(* An effect takes place after its claim. *)
LEMMA StorePerforms ==
  ASSUME CodingInv, StoreInv, NEW w \in Workers, WriteFile(w) \/ Validate(w)
  PROVE  StoreInv'
  <1> DEFINE n == worker[w].sequence
  <1>1. /\ worker[w].step = "perform" /\ performed' = [performed EXCEPT ![n] = @ + 1]
        /\ UNCHANGED <<effectClaims, events, submission, delivered>>
        /\ Moves(w, "append") \/ Moves(w, "validate")
    BY DEF WriteFile, Validate, Performs, Is, store
  <1>2. n \in ToolSteps /\ performed \in [ToolSteps -> Nat] BY DEF CodingInv, CodingTypes, WorkerRow
  <1>3. worker[w].step \in Dispatching /\ Progress(worker[w]) /\ Handed(worker[w])
    BY <1>1, StepNames DEF CodingInv, OnceInv, StoreInv
  <1>4. delivered[n] = 0 /\ n \in effectClaims
    BY <1>1, <1>2, <1>3, StepNames DEF Progress, Handed
  <1>5. PICK row : Lands(w, row, "append") \/ Lands(w, row, "validate")
    BY <1>1, StepNames, MovesRow DEF CodingInv
  <1>6. Goes(w, row) /\ row.step \in {"append", "validate"} BY <1>5 DEF Lands
  <1>7. Handed(row)' BY <1>6 DEF Handed
  <1>8. ASSUME NEW m \in ToolSteps PROVE Told(m)'
    <2>1. Told(m) BY DEF StoreInv
    <2>2. CASE m = n BY <1>1, <1>4, <2>1, <2>2 DEF Told, HasEvent
    <2>3. CASE m # n
      <3>1. performed'[m] = performed[m] BY <1>1, <1>2, <2>3
      <3> QED BY <1>1, <2>1, <3>1 DEF Told, HasEvent
    <2> QED BY <2>2, <2>3
  <1> QED BY <1>1, <1>3, <1>6, <1>7, <1>8, StoreOn DEF StoreInv

(* The event is written before the result is handed over. *)
LEMMA StoreAppends ==
  ASSUME CodingInv, StoreInv, NEW w \in Workers, AppendToolEvent(w)
  PROVE  StoreInv'
  <1> DEFINE n == worker[w].sequence
  <1>1. /\ worker[w].step = "append" /\ events' = events \cup {ToolEvent(w)} /\ Moves(w, "intent")
        /\ UNCHANGED <<effectClaims, submission, performed, delivered>>
    BY DEF AppendToolEvent, Is, done
  <1>2. PICK row : Lands(w, row, "intent") BY <1>1, StepNames, MovesRow DEF CodingInv
  <1>3. Goes(w, row) /\ row.step = "intent" /\ row.sequence = n BY <1>2 DEF Lands
  <1>4. ToolEvent(w) \in events' /\ ToolEvent(w)[2] = n BY <1>1 DEF ToolEvent
  <1>6. Handed(row)'
    <2>1. PICK k : k = n OBVIOUS
    <2>2. HasEvent(k)'
      <3>1. \E e \in events' : e[2] = k BY <1>4, <2>1
      <3> QED BY <3>1 DEF HasEvent
    <2>3. row.sequence = k BY <1>3, <2>1
    <2>4. row.step = "intent" BY <1>3
    <2> HIDE DEF n
    <2> QED BY <2>2, <2>3, <2>4 DEF Handed
  <1>7. \A m \in ToolSteps : Told(m)' BY <1>1 DEF StoreInv, Told, HasEvent
  <1> QED BY <1>1, <1>3, <1>6, <1>7, StepNames, StoreOn DEF StoreInv

(* The intent is written before the hand-over. *)
LEMMA StoreIntends ==
  ASSUME CodingInv, StoreInv, NEW w \in Workers, SubmissionIntent(w)
  PROVE  StoreInv'
  <1> DEFINE n == worker[w].sequence
  <1>1. /\ worker[w].step = "intent" /\ submission[n] = Unset /\ Moves(w, "submit")
        /\ submission' = [submission EXCEPT ![n] = "intent"]
        /\ UNCHANGED <<effectClaims, events, performed, delivered>>
    BY DEF SubmissionIntent, Submission, May, Is, done
  <1>2. n \in ToolSteps /\ submission \in [ToolSteps -> {Unset, "intent", "uncertain", "submitted"}]
    BY DEF CodingInv, CodingTypes, WorkerRow, StoreInv
  <1>3. PICK row : Lands(w, row, "submit") BY <1>1, StepNames, MovesRow DEF CodingInv
  <1>4. Goes(w, row) /\ row.step = "submit" /\ row.sequence = n BY <1>3 DEF Lands
  <1>5. Handed(worker[w]) BY DEF StoreInv
  <1>6. Handed(row)' BY <1>1, <1>2, <1>4, <1>5 DEF Handed, HasEvent, Unset
  <1>7. \A m \in ToolSteps : Told(m)' BY <1>1, <1>2 DEF StoreInv, Told, HasEvent, Unset
  <1>8. submission' \in [ToolSteps -> {Unset, "intent", "uncertain", "submitted"}] BY <1>1, <1>2
  <1> QED BY <1>1, <1>4, <1>6, <1>7, <1>8, StepNames, StoreOn

(* The provider takes the result, or its answer is lost. *)
LEMMA StoreSubmits ==
  ASSUME CodingInv, StoreInv, NEW w \in Workers, SubmitToolResult(w) \/ SubmitFails(w)
  PROVE  StoreInv'
  <1> DEFINE n == worker[w].sequence
  <1>1. /\ worker[w].step = "submit"
        /\ UNCHANGED <<effectClaims, events, submission, performed>>
    BY DEF SubmitToolResult, SubmitFails, May, Is, store
  <1>2. n \in ToolSteps /\ delivered \in [ToolSteps -> Nat] BY DEF CodingInv, CodingTypes, WorkerRow
  <1>3. worker[w].step \in Dispatching /\ Progress(worker[w]) /\ Handed(worker[w])
    BY <1>1, StepNames DEF CodingInv, OnceInv, StoreInv
  <1>4. /\ delivered[n] = 0 /\ submission[n] # Unset
        /\ performed[n] > 0 => HasEvent(n)
    BY <1>1, <1>2, <1>3, StepNames DEF Progress, Handed
  <1>5. submission[n] # "submitted" BY <1>2, <1>4 DEF StoreInv, Told
  <1>6. PICK row : \/ Lands(w, row, "next_turn") /\ SubmitToolResult(w)
                   \/ Lands(w, row, "broken") /\ SubmitFails(w)
    BY SubmitRow DEF CodingInv
  <1>7. Goes(w, row) /\ row.step \in {"next_turn", "broken"} /\ row.sequence = n
    BY <1>6 DEF Lands
  <1>8. \E took \in {0, 1} : delivered' = [delivered EXCEPT ![n] = took]
    <2>1. PICK took \in {0, 1} : delivered' = [delivered EXCEPT ![n] = @ + took]
      BY DEF SubmitToolResult, SubmitFails
    <2>2. delivered[n] + took = took BY <1>4
    <2>3. delivered' = [delivered EXCEPT ![n] = took] BY <1>2, <2>1, <2>2
    <2> QED BY <2>3
  <1>9. row.step = "next_turn" => delivered'[n] = 1
    <2>1. ASSUME row.step = "next_turn" PROVE delivered'[n] = 1
      <3>1. SubmitToolResult(w) BY <1>6, <2>1 DEF Lands
      <3>2. delivered' = [delivered EXCEPT ![n] = @ + 1] BY <3>1 DEF SubmitToolResult
      <3> QED BY <1>2, <1>4, <3>2
    <2> QED BY <2>1
  <1>10. Handed(row)' BY <1>7, <1>9 DEF Handed
  <1>11. ASSUME NEW m \in ToolSteps PROVE Told(m)'
    <2>1. Told(m) BY DEF StoreInv
    <2>2. CASE m = n BY <1>1, <1>4, <1>5, <2>1, <2>2 DEF Told, HasEvent
    <2>3. CASE m # n
      <3>1. delivered'[m] = delivered[m] BY <1>2, <1>8, <2>3
      <3> QED BY <1>1, <2>1, <3>1 DEF Told, HasEvent
    <2> QED BY <2>2, <2>3
  <1> QED BY <1>1, <1>3, <1>7, <1>10, <1>11, StoreOn DEF StoreInv

(* A result is called submitted after the provider took it, uncertain when
   nobody knows. *)
LEMMA StoreSettles ==
  ASSUME CodingInv, StoreInv, NEW w \in Workers, SubmissionUncertain(w) \/ Submitted(w)
  PROVE  StoreInv'
  <1> DEFINE n == worker[w].sequence
  <1>1. /\ worker[w] \in WorkerRow /\ n \in ToolSteps /\ Handed(worker[w])
        /\ submission \in [ToolSteps -> {Unset, "intent", "uncertain", "submitted"}]
    BY DEF CodingInv, CodingTypes, WorkerRow, StoreInv
  <1>2. PICK state \in {"uncertain", "submitted"} :
          /\ submission' = [submission EXCEPT ![n] = state]
          /\ state = "submitted" => worker[w].step = "submitted"
    BY DEF SubmissionUncertain, Submitted, Submission, May, Is
  <1>3. /\ worker[w].step \in {"doubt", "broken", "submitted"}
        /\ UNCHANGED <<effectClaims, events, performed, delivered>>
    BY DEF SubmissionUncertain, Submitted, May, Is, done
  <1>4. PICK row : Goes(w, row) /\ row.step \in {"away", "failed", "read"}
    <2>1. CASE Ends(w) BY <2>1, AwayRow DEF CodingInv
    <2>2. CASE Moves(w, "failed")
      <3>1. PICK row : Lands(w, row, "failed") BY <2>2, StepNames, MovesRow DEF CodingInv
      <3> QED BY <3>1 DEF Lands
    <2>3. CASE Submitted(w) /\ n # MaxSteps BY <2>3, SubmittedRow DEF CodingInv
    <2> QED BY <2>1, <2>2, <2>3 DEF SubmissionUncertain, Submitted
  <1>5. Handed(row)' BY <1>4 DEF Handed
  <1>6. ASSUME NEW m \in ToolSteps PROVE Told(m)'
    <2>1. Told(m) BY DEF StoreInv
    <2>2. CASE m = n
      <3>1. submission'[m] = state BY <1>1, <1>2, <2>2
      <3>2. state = "submitted" => delivered[m] = 1 BY <1>1, <1>2, <2>2 DEF Handed
      <3> QED BY <1>2, <1>3, <2>1, <3>1, <3>2 DEF Told, HasEvent, Unset
    <2>3. CASE m # n
      <3>1. submission'[m] = submission[m] BY <1>1, <1>2, <2>3
      <3> QED BY <1>3, <2>1, <3>1 DEF Told, HasEvent
    <2> QED BY <2>2, <2>3
  <1>7. submission' \in [ToolSteps -> {Unset, "intent", "uncertain", "submitted"}] BY <1>1, <1>2
  <1> QED BY <1>3, <1>4, <1>5, <1>6, <1>7, StepNames, StoreOn

(* One step per action of the coding worker. *)
LEMMA StoreInductive ==
  ASSUME CodingInv, StoreInv, [CodingNext]_workerVars
  PROVE  StoreInv'
  <1>1. ASSUME NEW w \in Workers, Step(w) PROVE StoreInv'
    BY <1>1, StoreAside, StoreAdmits, StoreClaims, StorePerforms, StoreAppends, StoreIntends,
       StoreSubmits, StoreSettles
    DEF Step
  <1>2. ASSUME StopWorkerScope \/ ClearScope \/ UNCHANGED workerVars PROVE StoreInv'
    <2>1. Untold /\ UNCHANGED worker
      BY <1>2 DEF StopWorkerScope, ClearScope, workerVars, store, done, Untold
    <2> QED BY <2>1 DEF StoreInv, Told, Handed, HasEvent, Untold
  <1> QED BY <1>1, <1>2 DEF CodingNext

(* What happened and is not known to be over demands reconciliation. *)
LEMMA StoreTells ==
  ASSUME StoreInv
  PROVE  OutsideIsOnRecord
  <1> DEFINE trusted == {m \in ToolSteps : submission[m] = "submitted"}
  <1>1. ASSUME NEW n \in ToolSteps
        PROVE  /\ performed[n] > 0 \/ delivered[n] > 0 =>
                     submission[n] = "submitted" \/ RequiresReconciliation(trusted)
               /\ submission[n] = "submitted" => delivered[n] = 1
               /\ performed[n] > 0 /\ delivered[n] > 0 => \E e \in events : e[2] = n
    <2>1. Told(n) BY DEF StoreInv
    <2>2. ASSUME performed[n] > 0 PROVE submission[n] = "submitted" \/ RequiresReconciliation(trusted)
      BY <2>1, <2>2 DEF Told, RequiresReconciliation
    <2>3. ASSUME delivered[n] > 0 PROVE submission[n] = "submitted" \/ RequiresReconciliation(trusted)
      <3>1. submission[n] # Unset BY <2>1, <2>3 DEF Told
      <3>2. submission[n] \in {"intent", "uncertain", "submitted"} BY <3>1 DEF StoreInv
      <3> QED BY <3>2 DEF RequiresReconciliation, Unresolved
    <2>4. submission[n] = "submitted" => delivered[n] = 1 BY <2>1 DEF Told
    <2>5. performed[n] > 0 /\ delivered[n] > 0 => \E e \in events : e[2] = n
      BY <2>1 DEF Told, HasEvent
    <2> QED BY <2>2, <2>3, <2>4, <2>5
  <1> QED BY <1>1 DEF OutsideIsOnRecord

(* Whatever was performed or handed over, by any number of processes and at
   any crash, the store tells the next one: it is submitted, or it demands
   reconciliation, and what is submitted was taken (claim_effect,
   record_submission, requires_reconciliation). *)
THEOREM StoreKnowsTheOutside == CodingSpec => []OutsideIsOnRecord
  <1>1. CodingInit => StoreInv
    BY DEF CodingInit, StoreInv, Told, Handed, Away, Unset
  <1>2. CodingInv /\ StoreInv /\ [CodingNext]_workerVars => StoreInv' BY StoreInductive
  <1>3. StoreInv => OutsideIsOnRecord BY StoreTells
  <1> QED BY <1>1, <1>2, <1>3, CodingAlways, PTL DEF CodingSpec

-----------------------------------------------------------------------------
(***************************************************************************)
(* Canary execution.  CanaryInv gives every head one claim that may be     *)
(* dispatched, counts the heads that are spent, and lets a claim out a     *)
(* second time only by its one retry, after its effect was missed.         *)
(***************************************************************************)
Dispatched == {"claimed", "dispatched", "read", "concluded", "retrying"}
CallSteps == {"matched", "decided", "reserved"} \cup Dispatched
CanaryHeads == 0..TotalCalls

(* Caller c acts for claim k: it holds the fence of k's head. *)
Holds(c, step, k) == CallAt(c, step) /\ calls[c].claim = k
ActsFor(c, k) == \E step \in Dispatched : Holds(c, step, k)

CanaryTypes ==
    /\ chain \in Seq([operation : Operations, claim : CanaryClaims])
    /\ record \in [CanaryClaims -> CanaryRow \cup {Absent}]
    /\ fence \in [CanaryHeads -> CanaryRequests \cup {Absent}]
    /\ dispatches \in [CanaryClaims -> Nat] /\ landed \in [CanaryClaims -> Nat]
    /\ missed \subseteq CanaryClaims
    /\ calls = [c \in Callers |-> calls[c]]

(* What the entry of a caller is. *)
EntryFits(entry) ==
    /\ entry.step \in CallSteps
    /\ entry.step = "matched" => entry.request \in CanaryRequests /\ entry.purpose \in Purposes
    /\ entry.step = "decided" => entry.purpose \in Purposes
    /\ entry.step = "read" => entry.seen \in {"applied", "absent", "ambiguous"}
    /\ entry.step = "concluded" => entry.state \in {"verified", "quarantined", "retry", "preserved"}
    /\ entry.step # "matched" => entry.claim \in CanaryClaims

CallsFit == \A c \in Callers : calls[c] # Absent => EntryFits(calls[c])

(* The heads that are spent, of an operation and below a head. *)
Spent(operation) == {n \in CanaryHeads : fence[n] # Absent /\ fence[n].operation = operation}
SpentBelow(operation, n) == {m \in Spent(operation) : m < n}

(* The claim was authorised at a head all earlier ones of which are spent. *)
Affordable(k) ==
    /\ k[2] < TotalCalls
    /\ \A n \in CanaryHeads : n < k[2] => fence[n] # Absent
    /\ Cardinality(SpentBelow(k[1].operation, k[2])) < Limit[k[1].operation]

(* Heads are spent in order and within the limits, and links only lead over
   spent heads. *)
BudgetInv ==
    /\ \A m, n \in CanaryHeads : m < n /\ fence[n] # Absent => fence[m] # Absent
    /\ \A operation \in Operations : Cardinality(Spent(operation)) <= Limit[operation]
    /\ \A i \in DOMAIN chain :
          fence[chain[i].claim[2]] = chain[i].claim[1] /\ chain[i].claim[2] < TotalCalls
    /\ \A k \in CanaryClaims : record[k] # Absent => Affordable(k)
    /\ \A k \in CanaryClaims, c \in Callers : Holds(c, "decided", k) => Affordable(k)

(* What was dispatched owns its head; only the retry dispatches again. *)
DispatchesInv ==
    \A k \in CanaryClaims :
       /\ landed[k] <= dispatches[k]
       /\ dispatches[k] > 0 => fence[k[2]] = k[1] /\ record[k] # Absent
       /\ record[k] # Absent =>
             /\ record[k].state \in {"quarantined", "retry"} => fence[k[2]] = k[1]
             /\ dispatches[k] <= IF record[k].retried THEN 2 ELSE 1

(* A reserved claim is nobody else's; a claim that is acted for has the head. *)
ReservedInv ==
    \A k \in CanaryClaims, c \in Callers :
       /\ Holds(c, "reserved", k) =>
             /\ record[k] # Absent /\ record[k].state = "claimed" /\ ~record[k].retried
             /\ dispatches[k] = 0
             /\ \A d \in Callers : ~ActsFor(d, k) /\ (Holds(d, "reserved", k) => d = c)
       /\ ActsFor(c, k) => record[k] # Absent /\ fence[k[2]] = k[1]

(* A caller that may dispatch has not, and is the only one that may. *)
DispatchInv ==
    \A k \in CanaryClaims, c \in Callers : Holds(c, "claimed", k) =>
       /\ \A d \in Callers : Holds(d, "claimed", k) => d = c
       /\ ~record[k].retried =>
             record[k].state = "claimed" /\ dispatches[k] = 0 /\ \A d \in Callers : ActsFor(d, k) => d = c
       /\ record[k].retried => dispatches[k] <= 1

(* A retry follows a read-back that missed the effect. *)
MissedInv ==
    \A k \in CanaryClaims :
       /\ record[k] # Absent /\ (record[k].retried \/ record[k].state = "retry") => k \in missed
       /\ \A c \in Callers :
             /\ Holds(c, "read", k) /\ calls[c].seen = "absent" => k \in missed
             /\ Holds(c, "concluded", k) /\ calls[c].state = "retry" => k \in missed

CanaryInv ==
    /\ CanaryTypes /\ CallsFit /\ BudgetInv /\ DispatchesInv /\ ReservedInv /\ DispatchInv /\ MissedInv

(* An entry of a sequence is one of its values. *)
LEMMA EntryOf ==
  ASSUME NEW S, NEW s \in Seq(S), NEW i \in DOMAIN s
  PROVE  s[i] \in S
  OBVIOUS

Puts(c, entry) == calls' = [calls EXCEPT ![c] = entry]

(* One caller's entry changes. *)
LEMMA PutsFacts ==
  ASSUME calls = [c \in Callers |-> calls[c]], NEW c \in Callers, NEW entry, Puts(c, entry)
  PROVE  /\ calls' = [d \in Callers |-> calls'[d]] /\ calls'[c] = entry
         /\ \A d \in Callers : d # c => calls'[d] = calls[d]
  BY DEF Puts

(* Who holds which claim after a caller's entry changes. *)
LEMMA PutsHolds ==
  ASSUME calls = [c \in Callers |-> calls[c]], NEW c \in Callers, NEW entry, Puts(c, entry),
         NEW d \in Callers, NEW step, NEW k
  PROVE  /\ d # c => (Holds(d, step, k)' <=> Holds(d, step, k))
         /\ d = c => (Holds(d, step, k)' <=> entry # Absent /\ entry.step = step /\ entry.claim = k)
  BY PutsFacts DEF Holds, CallAt

(* Who acts for which claim after a caller's entry changes. *)
LEMMA PutsActs ==
  ASSUME calls = [c \in Callers |-> calls[c]], NEW c \in Callers, NEW entry, Puts(c, entry),
         NEW d \in Callers, NEW k
  PROVE  /\ d # c => (ActsFor(d, k)' <=> ActsFor(d, k))
         /\ d = c => (ActsFor(d, k)' <=> entry # Absent /\ entry.step \in Dispatched /\ entry.claim = k)
  BY PutsHolds DEF ActsFor

(* The claim a caller holds. *)
LEMMA CallFacts ==
  ASSUME CanaryInv, NEW c \in Callers, NEW step \in CallSteps \ {"matched"}, CallAt(c, step)
  PROVE  \E k \in CanaryClaims :
            /\ k = calls[c].claim /\ Holds(c, step, k)
            /\ k[1] \in CanaryRequests /\ k[1].operation \in Operations /\ k[2] \in CanaryHeads
  BY DEF CanaryInv, CallsFit, EntryFits, CallAt, Holds, CanaryClaims, CanaryRequests, CanaryHeads

(***************************************************************************)
(* What a step does to the calls and what it leaves alone.                 *)
(***************************************************************************)
(* Heads are only ever taken when they are free. *)
FenceKept ==
    /\ fence' \in [CanaryHeads -> CanaryRequests \cup {Absent}]
    /\ \A n \in CanaryHeads : fence[n] # Absent => fence'[n] = fence[n]

LEMMA AffordableKept ==
  ASSUME CanaryTypes, FenceKept, NEW k \in CanaryClaims, Affordable(k)
  PROVE  Affordable(k)'
  <1>1. k[2] \in CanaryHeads BY DEF CanaryClaims, CanaryHeads
  <1>2. SpentBelow(k[1].operation, k[2])' = SpentBelow(k[1].operation, k[2])
    BY <1>1 DEF Affordable, SpentBelow, Spent, FenceKept
  <1>3. \A n \in CanaryHeads : n < k[2] => fence'[n] # Absent
    BY DEF Affordable, FenceKept
  <1> QED BY <1>2, <1>3 DEF Affordable

(* A claim takes its head. *)
LEMMA TakenFacts ==
  ASSUME CanaryInv, NEW k \in CanaryClaims, LeaseTaken(k)
  PROVE  FenceKept /\ fence'[k[2]] = k[1] /\ \A n \in CanaryHeads : n # k[2] => fence'[n] = fence[n]
  <1>1. k[1] \in CanaryRequests /\ k[2] \in CanaryHeads BY DEF CanaryClaims, CanaryHeads
  <1>2. fence \in [CanaryHeads -> CanaryRequests \cup {Absent}] BY DEF CanaryInv, CanaryTypes
  <1> QED BY <1>1, <1>2 DEF LeaseTaken, Granted, FenceKept

(* The limits hold when an affordable claim takes its head or fails to. *)
LEMMA LimitsKept ==
  ASSUME CanaryInv, NEW k \in CanaryClaims, Affordable(k), LeaseFails(k)
  PROVE  /\ FenceKept
         /\ \A m, n \in CanaryHeads : m < n /\ fence'[n] # Absent => fence'[m] # Absent
         /\ \A operation \in Operations : Cardinality(Spent(operation)') <= Limit[operation]
  <1>1. k[1] \in CanaryRequests /\ k[2] \in CanaryHeads /\ k[1] # Absent
    BY BudgetAssumption DEF CanaryClaims, CanaryHeads
  <1>2. fence \in [CanaryHeads -> CanaryRequests \cup {Absent}] BY DEF CanaryInv, CanaryTypes
  <1>3. CASE UNCHANGED fence
    <2>1. \A operation \in Operations : Spent(operation)' = Spent(operation) BY <1>3 DEF Spent
    <2> QED BY <1>2, <1>3, <2>1 DEF CanaryInv, BudgetInv, FenceKept
  <1>4. CASE LeaseTaken(k)
    <2>1. FenceKept /\ fence'[k[2]] = k[1] /\ \A n \in CanaryHeads : n # k[2] => fence'[n] = fence[n]
      BY <1>4, TakenFacts
    <2>2. CASE fence[k[2]] # Absent
      <3>1. fence' = fence BY <1>1, <1>2, <1>4, <2>2 DEF LeaseTaken, Granted
      <3>2. \A operation \in Operations : Spent(operation)' = Spent(operation) BY <3>1 DEF Spent
      <3> QED BY <2>1, <3>1, <3>2 DEF CanaryInv, BudgetInv
    <2>3. CASE fence[k[2]] = Absent
      <3>1. \A n \in CanaryHeads : n > k[2] => fence[n] = Absent
        BY <1>1, <2>3 DEF CanaryInv, BudgetInv, CanaryHeads
      <3>2. \A m, n \in CanaryHeads : m < n /\ fence'[n] # Absent => fence'[m] # Absent
        <4>1. SUFFICES ASSUME NEW m \in CanaryHeads, NEW n \in CanaryHeads, m < n, fence'[n] # Absent
                       PROVE  fence'[m] # Absent
          OBVIOUS
        <4>2. n = k[2] \/ fence[n] # Absent BY <2>1, <4>1
        <4>3. fence[m] # Absent BY <4>1, <4>2 DEF CanaryInv, BudgetInv, Affordable
        <4> QED BY <2>1, <4>3 DEF FenceKept
      <3>3. ASSUME NEW operation \in Operations
            PROVE  Cardinality(Spent(operation)') <= Limit[operation]
        <4>1. CASE operation # k[1].operation
          <5>1. Spent(operation)' = Spent(operation) BY <1>1, <2>1, <2>3, <4>1 DEF Spent
          <5> QED BY <5>1 DEF CanaryInv, BudgetInv
        <4>2. CASE operation = k[1].operation
          <5>1. Spent(operation)' = SpentBelow(operation, k[2]) \cup {k[2]}
            BY <1>1, <2>1, <2>3, <3>1, <4>2 DEF Spent, SpentBelow, CanaryHeads
          <5>2. IsFiniteSet(SpentBelow(operation, k[2]))
            <6>1. IsFiniteSet(CanaryHeads) BY BudgetAssumption, FS_Interval DEF CanaryHeads
            <6> QED BY <6>1, FS_Subset DEF SpentBelow, Spent
          <5>3. Cardinality(Spent(operation)') = Cardinality(SpentBelow(operation, k[2])) + 1
            <6>1. PICK B : B = SpentBelow(operation, k[2]) OBVIOUS
            <6>2. k[2] \notin B BY <1>1, <6>1 DEF SpentBelow, CanaryHeads
            <6>3. Cardinality(B \cup {k[2]}) = Cardinality(B) + 1 BY <5>2, <6>1, <6>2, FS_AddElement
            <6> QED BY <5>1, <6>1, <6>3
          <5>4. Cardinality(SpentBelow(operation, k[2])) \in Nat BY <5>2, FS_CardinalityType
          <5> QED BY <4>2, <5>3, <5>4, BudgetAssumption DEF Affordable
        <4> QED BY <4>1, <4>2
      <3> QED BY <2>1, <3>2, <3>3
    <2> QED BY <2>2, <2>3
  <1> QED BY <1>3, <1>4 DEF LeaseFails

(* The parts of BudgetInv that are not about the fence. *)
LEMMA BudgetKept ==
  ASSUME CanaryInv, FenceKept,
         \A m, n \in CanaryHeads : m < n /\ fence'[n] # Absent => fence'[m] # Absent,
         \A operation \in Operations : Cardinality(Spent(operation)') <= Limit[operation],
         \A i \in DOMAIN chain' :
            \/ i \in DOMAIN chain /\ chain'[i] = chain[i]
            \/ /\ fence[chain'[i].claim[2]] = chain'[i].claim[1]
               /\ chain'[i].claim \in CanaryClaims /\ chain'[i].claim[2] < TotalCalls,
         \A k \in CanaryClaims : record'[k] # Absent /\ record[k] = Absent =>
            \E c \in Callers : Holds(c, "decided", k),
         \A k \in CanaryClaims, c \in Callers : Holds(c, "decided", k)' =>
            Holds(c, "decided", k) \/ Affordable(k)
  PROVE  BudgetInv'
  <1>1. \A k \in CanaryClaims : Affordable(k) => Affordable(k)' BY AffordableKept DEF CanaryInv
  <1>2. \A i \in DOMAIN chain' :
           fence'[chain'[i].claim[2]] = chain'[i].claim[1] /\ chain'[i].claim[2] < TotalCalls
    <2>1. SUFFICES ASSUME NEW i \in DOMAIN chain'
                   PROVE  fence'[chain'[i].claim[2]] = chain'[i].claim[1] /\ chain'[i].claim[2] < TotalCalls
      OBVIOUS
    <2>2. PICK j : j = chain'[i].claim OBVIOUS
    <2>3. fence[j[2]] = j[1] /\ j \in CanaryClaims /\ j[2] < TotalCalls
      <3>1. CASE i \in DOMAIN chain /\ chain'[i] = chain[i]
        <4>1. chain[i] \in [operation : Operations, claim : CanaryClaims] BY <3>1, EntryOf DEF CanaryInv, CanaryTypes
        <4> QED BY <2>2, <3>1, <4>1 DEF CanaryInv, BudgetInv
      <3>2. CASE ~(i \in DOMAIN chain /\ chain'[i] = chain[i]) BY <2>1, <2>2, <3>2
      <3> QED BY <3>1, <3>2
    <2>4. j[2] \in CanaryHeads /\ j[1] # Absent BY <2>3, BudgetAssumption DEF CanaryClaims, CanaryHeads
    <2> QED BY <2>2, <2>3, <2>4 DEF FenceKept
  <1> QED BY <1>1, <1>2 DEF CanaryInv, BudgetInv

(***************************************************************************)
(* One lemma per kind of step.                                             *)
(***************************************************************************)
Stable == UNCHANGED <<chain, record, fence, dispatches, landed>>

(* A step that changes one entry, and at most what was missed. *)
LEMMA CallKeeps ==
  ASSUME CanaryInv, NEW c \in Callers, NEW entry, Puts(c, entry), Stable,
         missed \subseteq missed', missed' \subseteq CanaryClaims,
         entry # Absent =>
            /\ EntryFits(entry) /\ entry.step \notin {"reserved", "claimed"}
            /\ entry.step = "decided" => Affordable(entry.claim)
            /\ entry.step \in Dispatched =>
                  /\ record[entry.claim] # Absent /\ fence[entry.claim[2]] = entry.claim[1]
                  /\ \A d \in Callers \ {c} : /\ ~Holds(d, "reserved", entry.claim)
                                              /\ Holds(d, "claimed", entry.claim) => record[entry.claim].retried
            /\ entry.step = "read" /\ entry.seen = "absent" => entry.claim \in missed'
            /\ entry.step = "concluded" /\ entry.state = "retry" => entry.claim \in missed'
  PROVE  CanaryInv'
  <1>1. calls = [d \in Callers |-> calls[d]] /\ fence \in [CanaryHeads -> CanaryRequests \cup {Absent}]
    BY DEF CanaryInv, CanaryTypes
  <1>2. \A d \in Callers, b \in CanaryClaims, step \in CallSteps :
           Holds(d, step, b)' =>
              \/ d = c /\ entry # Absent /\ entry.step = step /\ entry.claim = b /\ calls'[d] = entry
              \/ d # c /\ Holds(d, step, b) /\ calls'[d] = calls[d]
    BY <1>1, PutsHolds, PutsFacts
  <1>3. \A d \in Callers, b \in CanaryClaims : ActsFor(d, b)' =>
           \/ d = c /\ entry # Absent /\ entry.step \in Dispatched /\ entry.claim = b
           \/ d # c /\ ActsFor(d, b)
    BY <1>1, PutsActs
  <1>4. CanaryTypes' BY <1>1, PutsFacts DEF CanaryInv, CanaryTypes, Stable
  <1>5. CallsFit' BY <1>1, PutsFacts DEF CanaryInv, CallsFit, EntryFits
  <1>6. BudgetInv'
    <2>1. FenceKept /\ \A operation \in Operations : Spent(operation)' = Spent(operation)
      BY <1>1 DEF Stable, FenceKept, Spent
    <2> QED BY <1>2, <2>1, BudgetKept DEF Stable, CallSteps, CanaryInv, BudgetInv
  <1>7. DispatchesInv' BY DEF CanaryInv, DispatchesInv, Stable
  <1>8. ReservedInv'
    <2>1. ASSUME NEW b \in CanaryClaims, NEW d \in Callers, Holds(d, "reserved", b)'
          PROVE  /\ Holds(d, "reserved", b) /\ d # c
                 /\ \A a \in Callers : ~ActsFor(a, b)' /\ (Holds(a, "reserved", b)' => a = d)
      <3>1. Holds(d, "reserved", b) /\ d # c BY <1>2, <2>1 DEF CallSteps
      <3>2. entry # Absent /\ entry.step \in Dispatched => entry.claim # b BY <3>1
      <3> QED BY <1>2, <1>3, <3>1, <3>2 DEF CanaryInv, ReservedInv, CallSteps
    <2>2. ASSUME NEW b \in CanaryClaims, NEW d \in Callers, ActsFor(d, b)'
          PROVE  record[b] # Absent /\ fence[b[2]] = b[1]
      BY <1>3, <2>2 DEF CanaryInv, ReservedInv
    <2> QED BY <2>1, <2>2 DEF CanaryInv, ReservedInv, Stable
  <1>9. DispatchInv'
    <2>1. ASSUME NEW b \in CanaryClaims, NEW d \in Callers, Holds(d, "claimed", b)'
          PROVE  Holds(d, "claimed", b) /\ d # c
      BY <1>2, <2>1 DEF CallSteps, Dispatched
    <2>2. ASSUME NEW b \in CanaryClaims, NEW d \in Callers, Holds(d, "claimed", b)', ~record[b].retried,
                 NEW a \in Callers, ActsFor(a, b)'
          PROVE  a = d
      <3>1. Holds(d, "claimed", b) /\ d # c BY <2>1, <2>2
      <3>2. ActsFor(a, b) /\ a # c BY <1>3, <2>2, <3>1
      <3> QED BY <2>2, <3>1, <3>2 DEF CanaryInv, DispatchInv
    <2> QED BY <2>1, <2>2 DEF CanaryInv, DispatchInv, Stable
  <1>10. MissedInv'
    <2>1. ASSUME NEW b \in CanaryClaims, NEW d \in Callers
          PROVE  /\ Holds(d, "read", b)' /\ calls'[d].seen = "absent" => b \in missed'
                 /\ Holds(d, "concluded", b)' /\ calls'[d].state = "retry" => b \in missed'
      BY <1>2 DEF CanaryInv, MissedInv, CallSteps, Dispatched
    <2> QED BY <2>1 DEF CanaryInv, MissedInv, Stable
  <1> QED BY <1>4, <1>5, <1>6, <1>7, <1>8, <1>9, <1>10 DEF CanaryInv

(* A claim that someone acts for is reserved by nobody, and before its retry
   only its dispatcher acts for it. *)
LEMMA OthersOf ==
  ASSUME CanaryInv, NEW k \in CanaryClaims, NEW c \in Callers, ActsFor(c, k)
  PROVE  \A d \in Callers \ {c} : /\ ~Holds(d, "reserved", k)
                                  /\ Holds(d, "claimed", k) => record[k].retried
  BY DEF CanaryInv, ReservedInv, DispatchInv

(* The limits at a valid head are those of the heads it has spent. *)
LEMMA DecisionAffords ==
  ASSUME CanaryInv, NEW k \in CanaryClaims, Decision(k[1]), k[2] = ChainHead
  PROVE  Affordable(k)
  <1> DEFINE h == ChainHead
             op == k[1].operation
             below == {m \in CanaryHeads : m < h}
             links == {j \in Counted : j[1].operation = op}
             f == [j \in Counted |-> j[2]]
             g == [j \in links |-> j[2]]
  <1>1. k[2] \in CanaryHeads /\ k[1] \in CanaryRequests /\ op \in Operations
    BY DEF CanaryClaims, CanaryHeads, CanaryRequests
  <1>2. /\ chain \in Seq([operation : Operations, claim : CanaryClaims])
        /\ Len(chain) \in Nat /\ DOMAIN chain = 1..Len(chain)
        /\ \A i \in DOMAIN chain : chain[i].claim[2] = i - 1
    BY DEF CanaryInv, CanaryTypes, Decision, ValidChain
  <1>3. h = Len(chain)
    <2>1. CASE chain = <<>> BY <2>1 DEF ChainHead
    <2>2. CASE chain # <<>>
      <3>1. Len(chain) \in DOMAIN chain BY <1>2, <2>2
      <3>2. h = chain[Len(chain)].claim[2] + 1 BY <2>2 DEF ChainHead
      <3> QED BY <1>2, <3>1, <3>2
    <2> QED BY <2>1, <2>2
  <1>4. \A m \in below : m + 1 \in DOMAIN chain /\ chain[m + 1].claim[2] = m
    <2>1. SUFFICES ASSUME NEW m \in below
                   PROVE  m + 1 \in DOMAIN chain /\ chain[m + 1].claim[2] = m
      OBVIOUS
    <2>2. m \in Nat /\ m < Len(chain) BY <1>3 DEF CanaryHeads
    <2>3. m + 1 \in 1..Len(chain) /\ (m + 1) - 1 = m BY <1>2, <2>2
    <2> QED BY <1>2, <2>3
  <1>5. \A m \in below : /\ chain[m + 1].claim \in Counted /\ fence[m] = chain[m + 1].claim[1]
                         /\ fence[m] # Absent
    <2>1. SUFFICES ASSUME NEW m \in below
                   PROVE  /\ chain[m + 1].claim \in Counted /\ fence[m] = chain[m + 1].claim[1]
                          /\ fence[m] # Absent
      OBVIOUS
    <2>2. PICK i, j : i = m + 1 /\ j = chain[i].claim OBVIOUS
    <2>3. i \in DOMAIN chain /\ j[2] = m BY <1>4, <2>2
    <2>4. chain[i] \in [operation : Operations, claim : CanaryClaims] BY <1>2, <2>3, EntryOf
    <2>5. j \in CanaryClaims /\ fence[j[2]] = j[1] BY <2>2, <2>3, <2>4 DEF CanaryInv, BudgetInv
    <2>6. j[1] # Absent BY <2>5, BudgetAssumption DEF CanaryClaims
    <2> QED BY <2>2, <2>3, <2>5, <2>6 DEF Counted, Links
  <1>6. \A j \in Counted : j \in CanaryClaims /\ j[2] \in below /\ fence[j[2]] = j[1]
    <2>1. SUFFICES ASSUME NEW j \in Counted
                   PROVE  j \in CanaryClaims /\ j[2] \in below /\ fence[j[2]] = j[1]
      OBVIOUS
    <2>2. PICK i \in DOMAIN chain : j = chain[i].claim BY DEF Counted, Links
    <2>3. chain[i] \in [operation : Operations, claim : CanaryClaims] BY <1>2, <2>2, EntryOf
    <2>4. j \in CanaryClaims /\ fence[j[2]] = j[1] BY <2>2, <2>3 DEF CanaryInv, BudgetInv
    <2> QED BY <2>1, <2>4 DEF Counted, CanaryClaims, CanaryHeads
  <1>7. IsFiniteSet(CanaryHeads) BY BudgetAssumption, FS_Interval DEF CanaryHeads
  <1>8. IsFiniteSet(below) BY <1>7, FS_Subset
  <1>9. f \in Bijection(Counted, below)
    <2>1. f \in [Counted -> below] BY <1>6
    <2>2. ASSUME NEW i \in Counted, NEW j \in Counted, f[i] = f[j] PROVE i = j
      BY <1>6, <2>2 DEF CanaryClaims
    <2>3. \A m \in below : \E j \in Counted : f[j] = m BY <1>4, <1>5
    <2> QED BY <2>1, <2>2, <2>3 DEF Bijection, Injection, Surjection, IsInjective
  <1>10. IsFiniteSet(Counted) /\ Cardinality(below) <= Cardinality(Counted)
    <2> HIDE DEF f, below
    <2>1. f \in Injection(Counted, below) /\ f \in Surjection(Counted, below)
      BY <1>9 DEF Bijection
    <2>2. IsFiniteSet(Counted) BY <1>8, <2>1, FS_Injection
    <2> QED BY <2>1, <2>2, FS_Surjection
  <1>11. Cardinality(below) = h
    <2>1. below = 0..(h - 1) BY <1>1, BudgetAssumption DEF CanaryHeads
    <2>2. h \in Nat BY <1>2, <1>3
    <2> HIDE DEF below, h
    <2> QED BY <2>1, <2>2, FS_Interval
  <1>12. g \in Surjection(links, SpentBelow(op, h))
    <2>1. ASSUME NEW j \in links PROVE j[2] \in SpentBelow(op, h)
      <3>1. j[2] \in below /\ fence[j[2]] = j[1] /\ fence[j[2]] # Absent BY <1>5, <1>6
      <3> QED BY <3>1 DEF SpentBelow, Spent
    <2>2. ASSUME NEW m \in SpentBelow(op, h) PROVE \E j \in links : g[j] = m
      <3>1. m \in below BY DEF SpentBelow, Spent
      <3>2. PICK j : j = chain[m + 1].claim OBVIOUS
      <3>3. j \in Counted /\ j[2] = m /\ j[1] = fence[m] BY <1>4, <1>5, <3>1, <3>2
      <3>4. j \in links BY <3>3 DEF SpentBelow, Spent
      <3> QED BY <3>3, <3>4
    <2>3. g \in [links -> SpentBelow(op, h)] BY <2>1
    <2> QED BY <2>2, <2>3 DEF Surjection
  <1>13. IsFiniteSet(links) BY <1>10, FS_Subset
  <1>14. Cardinality(SpentBelow(op, h)) <= Cardinality(links)
    <2> HIDE DEF g, links, h, op
    <2> QED BY <1>12, <1>13, FS_Surjection
  <1>15. Cardinality(Counted) < TotalCalls /\ Cardinality(links) < Limit[op]
    BY DEF Decision, WithinBudget, BelowLimit, Count
  <1>16. /\ Cardinality(Counted) \in Nat /\ Cardinality(links) \in Nat /\ Limit[op] \in Nat
         /\ Cardinality(SpentBelow(op, h)) \in Nat /\ TotalCalls \in Nat /\ h \in Nat
    <2>1. IsFiniteSet(SpentBelow(op, h)) BY <1>7, FS_Subset DEF SpentBelow, Spent
    <2>2. h \in Nat BY <1>2, <1>3
    <2> HIDE DEF links, h, op
    <2> QED BY <1>1, <1>10, <1>13, <2>1, <2>2, FS_CardinalityType, BudgetAssumption
  <1>17. k[2] < TotalCalls
    <2> HIDE DEF h, below
    <2>1. h < TotalCalls BY <1>10, <1>11, <1>15, <1>16
    <2> QED BY <2>1 DEF h
  <1>18. Cardinality(SpentBelow(op, k[2])) < Limit[op]
    <2> HIDE DEF links, op
    <2>1. Cardinality(SpentBelow(op, h)) < Limit[op] BY <1>14, <1>15, <1>16
    <2> QED BY <2>1
  <1>19. \A n \in CanaryHeads : n < k[2] => fence[n] # Absent BY <1>5
  <1> QED BY <1>17, <1>18, <1>19 DEF Affordable

(* A valid chain's head is a head. *)
LEMMA HeadIsOne ==
  ASSUME CanaryInv, ValidChain
  PROVE  ChainHead \in CanaryHeads
  <1>1. CASE chain = <<>> BY <1>1, BudgetAssumption DEF ChainHead, CanaryHeads
  <1>2. CASE chain # <<>>
    <2>1. chain \in Seq([operation : Operations, claim : CanaryClaims]) /\ Len(chain) \in DOMAIN chain
      BY <1>2 DEF CanaryInv, CanaryTypes
    <2>2. PICK j : j = chain[Len(chain)].claim OBVIOUS
    <2>3. chain[Len(chain)] \in [operation : Operations, claim : CanaryClaims] BY <2>1, EntryOf
    <2>4. j \in CanaryClaims /\ j[2] < TotalCalls BY <2>1, <2>2, <2>3 DEF CanaryInv, BudgetInv
    <2>5. ChainHead = j[2] + 1 BY <1>2, <2>2 DEF ChainHead
    <2> QED BY <2>4, <2>5, BudgetAssumption DEF CanaryClaims, CanaryHeads
  <1> QED BY <1>1, <1>2

(* Steps that only move a call along. *)
LEMMA MovingCalls ==
  ASSUME CanaryInv, NEW c \in Callers,
         \/ \E q \in CanaryRequests, purpose \in Purposes : Deliver(c, q, purpose)
         \/ Decide(c) \/ DecideRefused(c) \/ ConcludeReading(c)
         \/ \E seen \in {"applied", "absent", "ambiguous"} : ReadBackTarget(c, seen)
         \/ \E k \in CanaryClaims : ReconcileRecord(c, k) \/ Retry(c, k)
  PROVE  CanaryInv'
  <1>0. missed \subseteq CanaryClaims BY DEF CanaryInv, CanaryTypes
  <1>1. CASE \E q \in CanaryRequests, purpose \in Purposes : Deliver(c, q, purpose)
    <2>1. PICK q \in CanaryRequests, purpose \in Purposes : Deliver(c, q, purpose) BY <1>1
    <2>2. PICK entry : entry = [step |-> "matched", request |-> q, purpose |-> purpose] OBVIOUS
    <2>3. EntryFits(entry) /\ entry.step = "matched" BY <2>2 DEF EntryFits, CallSteps, Dispatched
    <2>4. Puts(c, entry) /\ Stable /\ missed' = missed
      BY <2>1, <2>2 DEF Deliver, CallMoves, Puts, Stable, ledger, outside
    <2> QED BY <1>0, <2>3, <2>4, CallKeeps DEF Dispatched
  <1>2. CASE Decide(c)
    <2>1. calls[c].request \in CanaryRequests /\ calls[c].purpose \in Purposes
      BY <1>2 DEF Decide, CallAt, CanaryInv, CallsFit, EntryFits
    <2>2. PICK k, entry : /\ k = <<calls[c].request, ChainHead>>
                          /\ entry = [step |-> "decided", purpose |-> calls[c].purpose, claim |-> k]
      OBVIOUS
    <2>3. k[1] = calls[c].request /\ k[2] = ChainHead BY <2>2
    <2>4. ChainHead \in CanaryHeads BY <1>2, HeadIsOne DEF Decide, Decision
    <2>5. k \in CanaryClaims BY <2>1, <2>2, <2>4 DEF CanaryClaims, CanaryHeads
    <2>6. Affordable(k) BY <1>2, <2>3, <2>5, DecisionAffords DEF Decide
    <2>7. EntryFits(entry) /\ entry.step = "decided" /\ entry.claim = k
      BY <2>1, <2>2, <2>5 DEF EntryFits, CallSteps, Dispatched
    <2>8. Puts(c, entry) /\ Stable /\ missed' = missed
      BY <1>2, <2>2 DEF Decide, CallMoves, Puts, Stable, ledger, outside
    <2> QED BY <1>0, <2>6, <2>7, <2>8, CallKeeps DEF Dispatched
  <1>3. CASE DecideRefused(c)
    <2>1. Puts(c, Absent) /\ Stable /\ missed' = missed
      BY <1>3 DEF DecideRefused, CallEnds, Puts, Stable, ledger, outside
    <2> QED BY <1>0, <2>1, CallKeeps
  <1>4. CASE ConcludeReading(c)
    <2>1. PICK k \in CanaryClaims : k = calls[c].claim /\ Holds(c, "read", k)
      BY <1>4, CallFacts DEF ConcludeReading, CallSteps, Dispatched
    <2>2. ActsFor(c, k) BY <2>1 DEF ActsFor, Dispatched
    <2>3. PICK seen, state : seen = calls[c].seen /\ state = StateAfter(k, seen, calls[c].allow) OBVIOUS
    <2>4. seen \in {"applied", "absent", "ambiguous"}
      BY <2>1, <2>3 DEF Holds, CallAt, CanaryInv, CallsFit, EntryFits
    <2>5. /\ state \in {"verified", "quarantined", "retry", "preserved"}
          /\ state = "retry" => seen = "absent"
      BY <2>3, <2>4 DEF StateAfter
    <2>6. PICK concluded \in {state, "quarantined"} :
             Puts(c, [step |-> "concluded", claim |-> k, state |-> concluded])
      BY <1>4, <2>1, <2>3 DEF ConcludeReading, CallMoves, Puts
    <2>7. PICK entry : entry = [step |-> "concluded", claim |-> k, state |-> concluded] OBVIOUS
    <2>8. EntryFits(entry) /\ entry.step = "concluded" /\ entry.claim = k /\ entry.state = concluded
      BY <2>5, <2>7 DEF EntryFits, CallSteps, Dispatched
    <2>9. concluded = "retry" => k \in missed BY <2>1, <2>3, <2>5 DEF CanaryInv, MissedInv
    <2>10. Puts(c, entry) /\ Stable /\ missed' = missed
      BY <1>4, <2>6, <2>7 DEF ConcludeReading, Stable, ledger, outside
    <2>11. record[k] # Absent /\ fence[k[2]] = k[1] BY <2>2 DEF CanaryInv, ReservedInv
    <2> QED BY <1>0, <2>2, <2>8, <2>9, <2>10, <2>11, OthersOf, CallKeeps
  <1>5. CASE \E seen \in {"applied", "absent", "ambiguous"} : ReadBackTarget(c, seen)
    <2>1. PICK seen \in {"applied", "absent", "ambiguous"} : ReadBackTarget(c, seen) BY <1>5
    <2>2. PICK k \in CanaryClaims : k = calls[c].claim /\ Holds(c, "dispatched", k)
      BY <2>1, CallFacts DEF ReadBackTarget, CallSteps, Dispatched
    <2>3. ActsFor(c, k) BY <2>2 DEF ActsFor, Dispatched
    <2>4. PICK entry : entry = [step |-> "read", claim |-> k, allow |-> calls[c].allow, seen |-> seen] OBVIOUS
    <2>5. EntryFits(entry) /\ entry.step = "read" /\ entry.claim = k /\ entry.seen = seen
      BY <2>1, <2>4 DEF EntryFits, CallSteps, Dispatched
    <2>6. Puts(c, entry) /\ Stable BY <2>1, <2>2, <2>4 DEF ReadBackTarget, CallMoves, Puts, Stable, ledger
    <2>7. missed \subseteq missed' /\ missed' \subseteq CanaryClaims /\ (seen = "absent" => k \in missed')
      BY <1>0, <2>1, <2>2 DEF ReadBackTarget
    <2>8. record[k] # Absent /\ fence[k[2]] = k[1] BY <2>3 DEF CanaryInv, ReservedInv
    <2> QED BY <2>3, <2>5, <2>6, <2>7, <2>8, OthersOf, CallKeeps
  <1>6. CASE \E k \in CanaryClaims : ReconcileRecord(c, k) \/ Retry(c, k)
    <2>1. PICK k \in CanaryClaims : ReconcileRecord(c, k) \/ Retry(c, k) BY <1>6
    <2>2. record[k] # Absent /\ record[k].state \in {"quarantined", "retry"}
      BY <2>1 DEF ReconcileRecord, Retry, Undrifted
    <2>3. fence[k[2]] = k[1] BY <2>2 DEF CanaryInv, DispatchesInv
    <2>4. \A d \in Callers : ~Holds(d, "reserved", k) /\ (Holds(d, "claimed", k) => record[k].retried)
      BY <2>2 DEF CanaryInv, ReservedInv, DispatchInv
    <2>5. PICK entry : /\ entry \in {[step |-> "dispatched", claim |-> k, allow |-> TRUE], Working("retrying", k)}
                       /\ Puts(c, entry)
      BY <2>1 DEF ReconcileRecord, Retry, CallMoves, Puts
    <2>6. EntryFits(entry) /\ entry.step \in {"dispatched", "retrying"} /\ entry.claim = k
      BY <2>5 DEF EntryFits, CallSteps, Dispatched, Working
    <2>7. Stable /\ missed' = missed BY <2>1 DEF ReconcileRecord, Retry, Stable, ledger, outside
    <2> QED BY <1>0, <2>2, <2>3, <2>4, <2>5, <2>6, <2>7, CallKeeps
  <1> QED BY <1>1, <1>2, <1>3, <1>4, <1>5, <1>6

(* A record is reserved once, for a claim that was decided on. *)
LEMMA ReserveKeeps ==
  ASSUME CanaryInv, NEW c \in Callers, ReserveRecord(c)
  PROVE  CanaryInv'
  <1>0. missed \subseteq CanaryClaims BY DEF CanaryInv, CanaryTypes
  <1>1. PICK k \in CanaryClaims : k = calls[c].claim /\ Holds(c, "decided", k)
    BY CallFacts DEF ReserveRecord, CallSteps, Dispatched
  <1>2. CASE record[k] # Absent
    <2>1. Puts(c, Absent) /\ Stable /\ missed' = missed
      BY <1>1, <1>2 DEF ReserveRecord, CallEnds, Puts, Stable, outside
    <2> QED BY <1>0, <2>1, CallKeeps
  <1>3. CASE record[k] = Absent
    <2>1. PICK row, entry : row = NewRecord(calls[c].purpose) /\ entry = Working("reserved", k) OBVIOUS
    <2>2. calls[c].purpose \in Purposes BY DEF ReserveRecord, CallAt, CanaryInv, CallsFit, EntryFits
    <2>3. row \in CanaryRow /\ row.state = "claimed" /\ row.retried = FALSE
      BY <2>1, <2>2 DEF NewRecord, CanaryRow
    <2>4. row # Absent BY <2>3, BudgetAssumption
    <2>5. /\ record' = [record EXCEPT ![k] = row] /\ Puts(c, entry)
          /\ UNCHANGED <<chain, fence, dispatches, landed, missed>>
      BY <1>1, <1>3, <2>1 DEF ReserveRecord, CallMoves, Puts, outside
    <2>6. EntryFits(entry) /\ entry.step = "reserved" /\ entry.claim = k
      BY <2>1, <1>1 DEF EntryFits, CallSteps, Dispatched, Working
    <2>7. /\ calls = [d \in Callers |-> calls[d]]
          /\ record \in [CanaryClaims -> CanaryRow \cup {Absent}]
          /\ fence \in [CanaryHeads -> CanaryRequests \cup {Absent}]
          /\ dispatches \in [CanaryClaims -> Nat]
      BY DEF CanaryInv, CanaryTypes
    <2>8. record'[k] = row /\ \A b \in CanaryClaims : b # k => record'[b] = record[b] BY <2>5, <2>7
    <2>9. \A d \in Callers : ~ActsFor(d, k) /\ ~Holds(d, "reserved", k)
      BY <1>3 DEF CanaryInv, ReservedInv
    <2>10. dispatches[k] = 0
      <3>1. ~(dispatches[k] > 0) BY <1>3 DEF CanaryInv, DispatchesInv
      <3> QED BY <2>7, <3>1
    <2>11. \A d \in Callers, b \in CanaryClaims, step \in CallSteps :
              Holds(d, step, b)' => \/ d = c /\ b = k /\ step = "reserved"
                                    \/ d # c /\ Holds(d, step, b) /\ calls'[d] = calls[d]
      BY <2>5, <2>6, <2>7, PutsHolds, PutsFacts
    <2>12. \A d \in Callers, b \in CanaryClaims : ActsFor(d, b)' => d # c /\ ActsFor(d, b) /\ b # k
      BY <2>5, <2>6, <2>7, <2>9, PutsActs DEF Dispatched
    <2>13. CanaryTypes' BY <2>3, <2>5, <2>7, PutsFacts DEF CanaryInv, CanaryTypes
    <2>14. CallsFit' BY <2>5, <2>6, <2>7, PutsFacts DEF CanaryInv, CallsFit, EntryFits
    <2>15. BudgetInv'
      <3>1. FenceKept /\ \A operation \in Operations : Spent(operation)' = Spent(operation)
        BY <2>5, <2>7 DEF FenceKept, Spent
      <3>2. \A b \in CanaryClaims : record'[b] # Absent /\ record[b] = Absent =>
               \E d \in Callers : Holds(d, "decided", b)
        BY <1>1, <2>8
      <3>3. \A b \in CanaryClaims, d \in Callers : Holds(d, "decided", b)' => Holds(d, "decided", b)
        BY <2>11 DEF CallSteps
      <3> QED BY <2>5, <3>1, <3>2, <3>3, BudgetKept DEF CanaryInv, BudgetInv
    <2>16. DispatchesInv'
      <3>1. ASSUME NEW b \in CanaryClaims
            PROVE  /\ dispatches[b] > 0 => record'[b] # Absent
                   /\ record'[b] # Absent =>
                         /\ record'[b].state \in {"quarantined", "retry"} => fence[b[2]] = b[1]
                         /\ dispatches[b] <= IF record'[b].retried THEN 2 ELSE 1
        <4>1. CASE b = k BY <2>3, <2>4, <2>8, <2>10, <4>1
        <4>2. CASE b # k BY <2>8, <4>2 DEF CanaryInv, DispatchesInv
        <4> QED BY <4>1, <4>2
      <3> QED BY <2>5, <3>1 DEF CanaryInv, DispatchesInv
    <2>17. ReservedInv'
      <3>1. ASSUME NEW b \in CanaryClaims, NEW d \in Callers, Holds(d, "reserved", b)'
            PROVE  /\ record'[b] # Absent /\ record'[b].state = "claimed" /\ ~record'[b].retried
                   /\ dispatches[b] = 0
                   /\ \A a \in Callers : ~ActsFor(a, b)' /\ (Holds(a, "reserved", b)' => a = d)
        <4>1. CASE d = c /\ b = k
          BY <2>3, <2>4, <2>8, <2>9, <2>10, <2>11, <2>12, <4>1 DEF CallSteps
        <4>2. CASE ~(d = c /\ b = k)
          <5>1. Holds(d, "reserved", b) /\ d # c BY <2>11, <3>1, <4>2 DEF CallSteps
          <5>2. b # k BY <2>9, <5>1
          <5> QED BY <2>8, <2>11, <2>12, <5>1, <5>2 DEF CanaryInv, ReservedInv, CallSteps
        <4> QED BY <4>1, <4>2
      <3>2. ASSUME NEW b \in CanaryClaims, NEW d \in Callers, ActsFor(d, b)'
            PROVE  record'[b] # Absent /\ fence[b[2]] = b[1]
        BY <2>8, <2>12, <3>2 DEF CanaryInv, ReservedInv
      <3> QED BY <2>5, <3>1, <3>2 DEF ReservedInv
    <2>18. DispatchInv'
      <3>1. ASSUME NEW b \in CanaryClaims, NEW d \in Callers, Holds(d, "claimed", b)'
            PROVE  Holds(d, "claimed", b) /\ b # k /\ record'[b] = record[b]
        <4>1. Holds(d, "claimed", b) BY <2>11, <3>1 DEF CallSteps, Dispatched
        <4>2. ActsFor(d, b) BY <4>1 DEF ActsFor, Dispatched
        <4> QED BY <2>8, <2>9, <4>1, <4>2
      <3> QED BY <2>5, <2>12, <3>1 DEF CanaryInv, DispatchInv
    <2>19. MissedInv'
      <3>1. \A d \in Callers, b \in CanaryClaims, step \in {"read", "concluded"} :
               Holds(d, step, b)' => Holds(d, step, b) /\ calls'[d] = calls[d]
        BY <2>11 DEF CallSteps, Dispatched
      <3>2. \A b \in CanaryClaims : record'[b] # Absent /\ (record'[b].retried \/ record'[b].state = "retry")
               => b \in missed
        BY <2>3, <2>8 DEF CanaryInv, MissedInv
      <3> QED BY <2>5, <3>1, <3>2 DEF CanaryInv, MissedInv
    <2> QED BY <2>13, <2>14, <2>15, <2>16, <2>17, <2>18, <2>19 DEF CanaryInv
  <1> QED BY <1>2, <1>3

(* A call ends with an update of its record. *)
LEMMA SettleKeeps ==
  ASSUME CanaryInv, NEW c \in Callers, NEW k \in CanaryClaims, NEW row \in CanaryRow, Puts(c, Absent),
         record[k] # Absent, record' = [record EXCEPT ![k] = row], row.retried = record[k].retried,
         row.state \in {"quarantined", "retry"} => fence[k[2]] = k[1],
         row.state = "retry" => k \in missed,
         \A d \in Callers \ {c} : ~Holds(d, "reserved", k) /\ (Holds(d, "claimed", k) => record[k].retried),
         LeaseFails(k), UNCHANGED <<dispatches, landed, missed>>,
         \/ chain' = chain
         \/ /\ fence[k[2]] = k[1]
            /\ chain' = Append(chain, [operation |-> k[1].operation, claim |-> k])
  PROVE  CanaryInv'
  <1>1. row # Absent /\ Affordable(k) BY BudgetAssumption DEF CanaryInv, BudgetInv
  <1>2. /\ calls = [d \in Callers |-> calls[d]]
        /\ record \in [CanaryClaims -> CanaryRow \cup {Absent}]
        /\ chain \in Seq([operation : Operations, claim : CanaryClaims])
    BY DEF CanaryInv, CanaryTypes
  <1>3. /\ FenceKept
        /\ \A m, n \in CanaryHeads : m < n /\ fence'[n] # Absent => fence'[m] # Absent
        /\ \A operation \in Operations : Cardinality(Spent(operation)') <= Limit[operation]
    BY <1>1, LimitsKept
  <1>4. record'[k] = row /\ \A b \in CanaryClaims : b # k => record'[b] = record[b] BY <1>2
  <1>5. \A d \in Callers, b \in CanaryClaims, step \in CallSteps :
           Holds(d, step, b)' => d # c /\ Holds(d, step, b) /\ calls'[d] = calls[d]
    BY <1>2, PutsHolds, PutsFacts
  <1>6. \A d \in Callers, b \in CanaryClaims : ActsFor(d, b)' => d # c /\ ActsFor(d, b)
    BY <1>2, PutsActs
  <1>7. \A b \in CanaryClaims : fence[b[2]] = b[1] => fence'[b[2]] = b[1]
    BY <1>3, BudgetAssumption DEF FenceKept, CanaryClaims, CanaryHeads
  <1>8. k[1].operation \in Operations /\ k[2] < TotalCalls
    BY <1>1 DEF CanaryClaims, CanaryRequests, Affordable
  <1>9. CanaryTypes'
    <2>1. PICK link : link = [operation |-> k[1].operation, claim |-> k] OBVIOUS
    <2>2. link \in [operation : Operations, claim : CanaryClaims] BY <1>8, <2>1
    <2>3. PICK links : links = [operation : Operations, claim : CanaryClaims] OBVIOUS
    <2>4. chain \in Seq(links) /\ link \in links BY <1>2, <2>2, <2>3
    <2>5. chain' = chain \/ chain' = Append(chain, link) BY <2>1
    <2>6. chain' \in Seq(links) BY <2>4, <2>5
    <2> QED BY <1>2, <1>3, <2>3, <2>6, PutsFacts DEF CanaryInv, CanaryTypes, FenceKept
  <1>10. CallsFit' BY <1>2, PutsFacts DEF CanaryInv, CallsFit, EntryFits
  <1>11. BudgetInv'
    <2>1. \A i \in DOMAIN chain' :
             \/ i \in DOMAIN chain /\ chain'[i] = chain[i]
             \/ /\ fence[chain'[i].claim[2]] = chain'[i].claim[1]
                /\ chain'[i].claim \in CanaryClaims /\ chain'[i].claim[2] < TotalCalls
      <3>1. CASE chain' = chain BY <3>1
      <3>2. CASE fence[k[2]] = k[1] /\ chain' = Append(chain, [operation |-> k[1].operation, claim |-> k])
        <4>1. PICK link : link = [operation |-> k[1].operation, claim |-> k] OBVIOUS
        <4>2. link \in [operation : Operations, claim : CanaryClaims] /\ link.claim = k BY <1>8, <4>1
        <4>3. \A i \in DOMAIN chain' : (i \in DOMAIN chain /\ chain'[i] = chain[i]) \/ chain'[i] = link
          BY <1>2, <3>2, <4>1, <4>2
        <4> QED BY <1>8, <3>2, <4>2, <4>3
      <3> QED BY <3>1, <3>2
    <2>2. \A b \in CanaryClaims : record[b] = Absent => record'[b] = Absent BY <1>4
    <2>3. \A b \in CanaryClaims, d \in Callers : Holds(d, "decided", b)' => Holds(d, "decided", b)
      BY <1>5 DEF CallSteps
    <2> QED BY <1>3, <2>1, <2>2, <2>3, BudgetKept
  <1>12. DispatchesInv'
    <2>1. ASSUME NEW b \in CanaryClaims
          PROVE  /\ dispatches[b] > 0 => record'[b] # Absent
                 /\ record'[b] # Absent =>
                       /\ record'[b].state \in {"quarantined", "retry"} => fence[b[2]] = b[1]
                       /\ dispatches[b] <= IF record'[b].retried THEN 2 ELSE 1
      <3>1. CASE b = k BY <1>1, <1>4, <3>1 DEF CanaryInv, DispatchesInv
      <3>2. CASE b # k BY <1>4, <3>2 DEF CanaryInv, DispatchesInv
      <3> QED BY <3>1, <3>2
    <2> QED BY <1>7, <2>1 DEF CanaryInv, DispatchesInv
  <1>13. ReservedInv'
    <2>1. ASSUME NEW b \in CanaryClaims, NEW d \in Callers, Holds(d, "reserved", b)'
          PROVE  Holds(d, "reserved", b) /\ b # k /\ record'[b] = record[b]
      BY <1>4, <1>5, <2>1 DEF CallSteps
    <2>2. ASSUME NEW b \in CanaryClaims, NEW d \in Callers, ActsFor(d, b)'
          PROVE  record'[b] # Absent /\ fence'[b[2]] = b[1]
      BY <1>1, <1>4, <1>6, <1>7, <2>2 DEF CanaryInv, ReservedInv
    <2>3. \A b \in CanaryClaims, d \in Callers : Holds(d, "reserved", b)' => Holds(d, "reserved", b)
      BY <1>5 DEF CallSteps
    <2> QED BY <1>6, <2>1, <2>2, <2>3 DEF CanaryInv, ReservedInv
  <1>14. DispatchInv'
    <2>1. ASSUME NEW b \in CanaryClaims, NEW d \in Callers, Holds(d, "claimed", b)'
          PROVE  /\ Holds(d, "claimed", b) /\ record'[b].retried = record[b].retried
                 /\ ~record[b].retried => record'[b] = record[b]
      <3>1. Holds(d, "claimed", b) /\ d # c BY <1>5, <2>1 DEF CallSteps, Dispatched
      <3> QED BY <1>4, <3>1
    <2>2. \A b \in CanaryClaims, d \in Callers : Holds(d, "claimed", b)' => Holds(d, "claimed", b)
      BY <2>1
    <2> QED BY <1>6, <2>1, <2>2 DEF CanaryInv, DispatchInv
  <1>15. MissedInv'
    <2>1. \A d \in Callers, b \in CanaryClaims, step \in {"read", "concluded"} :
             Holds(d, step, b)' => Holds(d, step, b) /\ calls'[d] = calls[d]
      BY <1>5 DEF CallSteps, Dispatched
    <2>2. \A b \in CanaryClaims : record'[b] # Absent /\ (record'[b].retried \/ record'[b].state = "retry")
             => b \in missed
      BY <1>4 DEF CanaryInv, MissedInv
    <2> QED BY <2>1, <2>2 DEF CanaryInv, MissedInv
  <1> QED BY <1>9, <1>10, <1>11, <1>12, <1>13, <1>14, <1>15 DEF CanaryInv

(* What a reading concluded is written, whatever the record says by now. *)
LEMMA WriteOutcomeKeeps ==
  ASSUME CanaryInv, NEW c \in Callers, WriteOutcome(c)
  PROVE  CanaryInv'
  <1>1. PICK k \in CanaryClaims : k = calls[c].claim /\ Holds(c, "concluded", k)
    BY CallFacts DEF WriteOutcome, CallSteps, Dispatched
  <1>2. ActsFor(c, k) BY <1>1 DEF ActsFor, Dispatched
  <1>3. record[k] # Absent /\ fence[k[2]] = k[1] /\ record[k] \in CanaryRow
    BY <1>2 DEF CanaryInv, ReservedInv, CanaryTypes
  <1>4. PICK state : state = calls[c].state OBVIOUS
  <1>5. state \in {"verified", "quarantined", "retry", "preserved"}
    BY <1>1, <1>4 DEF Holds, CallAt, CanaryInv, CallsFit, EntryFits
  <1>6. PICK row : row = [record[k] EXCEPT !.state = state] OBVIOUS
  <1>7. row \in CanaryRow /\ row.state = state /\ row.retried = record[k].retried
    BY <1>3, <1>5, <1>6 DEF CanaryRow
  <1>8. /\ record' = [record EXCEPT ![k] = row] /\ Puts(c, Absent)
        /\ UNCHANGED <<fence, dispatches, landed, missed>>
        /\ chain' = IF state = "verified"
                    THEN Append(chain, [operation |-> k[1].operation, claim |-> k]) ELSE chain
    BY <1>1, <1>4, <1>6 DEF WriteOutcome, CallEnds, Puts, outside
  <1>9. state = "retry" => k \in missed BY <1>1, <1>4 DEF CanaryInv, MissedInv
  <1>10. LeaseFails(k) BY <1>8 DEF LeaseFails
  <1> QED BY <1>2, <1>3, <1>7, <1>8, <1>9, <1>10, OthersOf, SettleKeeps

(* A claim whose lease fails is preserved. *)
LEMMA PreserveKeeps ==
  ASSUME CanaryInv, NEW c \in Callers, NEW k \in CanaryClaims, record[k] # Absent,
         \A d \in Callers \ {c} : ~Holds(d, "reserved", k) /\ (Holds(d, "claimed", k) => record[k].retried),
         LeaseFails(k), Preserve(k), CallEnds(c), UNCHANGED <<chain, outside>>
  PROVE  CanaryInv'
  <1>1. PICK row : row = [record[k] EXCEPT !.state = "preserved"] OBVIOUS
  <1>2. record[k] \in CanaryRow BY DEF CanaryInv, CanaryTypes
  <1>3. row \in CanaryRow /\ row.state = "preserved" /\ row.retried = record[k].retried
    BY <1>1, <1>2 DEF CanaryRow
  <1>4. record' = [record EXCEPT ![k] = row] /\ Puts(c, Absent) BY <1>1 DEF Preserve, CallEnds, Puts
  <1> QED BY <1>3, <1>4, SettleKeeps DEF outside

LEMMA RetryUnprovenKeeps ==
  ASSUME CanaryInv, NEW c \in Callers, RetryUnproven(c)
  PROVE  CanaryInv'
  <1>1. PICK k \in CanaryClaims : k = calls[c].claim /\ Holds(c, "retrying", k)
    BY CallFacts DEF RetryUnproven, CallSteps, Dispatched
  <1>2. ActsFor(c, k) BY <1>1 DEF ActsFor, Dispatched
  <1>3. record[k] # Absent BY <1>2 DEF CanaryInv, ReservedInv
  <1>4. LeaseFails(k) /\ Preserve(k) /\ CallEnds(c) /\ UNCHANGED <<chain, outside>>
    BY <1>1 DEF RetryUnproven
  <1> QED BY <1>2, <1>3, <1>4, OthersOf, PreserveKeeps

(* The call takes its head and may dispatch, the first time or by its retry. *)
LEMMA MayDispatch ==
  ASSUME CanaryInv, NEW c \in Callers, NEW k \in CanaryClaims, NEW row \in CanaryRow,
         Puts(c, Working("claimed", k)), record[k] # Absent, record' = [record EXCEPT ![k] = row],
         row.state = "claimed", LeaseFails(k), fence'[k[2]] = k[1],
         UNCHANGED <<chain, dispatches, landed, missed>>,
         \A d \in Callers : ~Holds(d, "claimed", k) /\ (Holds(d, "reserved", k) => d = c),
         ~row.retried => dispatches[k] = 0 /\ \A d \in Callers : ~ActsFor(d, k),
         row.retried => k \in missed /\ dispatches[k] <= 1
  PROVE  CanaryInv'
  <1>1. row # Absent /\ Affordable(k) BY BudgetAssumption DEF CanaryInv, BudgetInv
  <1>2. /\ calls = [d \in Callers |-> calls[d]]
        /\ record \in [CanaryClaims -> CanaryRow \cup {Absent}]
        /\ dispatches \in [CanaryClaims -> Nat]
    BY DEF CanaryInv, CanaryTypes
  <1>3. /\ FenceKept
        /\ \A m, n \in CanaryHeads : m < n /\ fence'[n] # Absent => fence'[m] # Absent
        /\ \A operation \in Operations : Cardinality(Spent(operation)') <= Limit[operation]
    BY <1>1, LimitsKept
  <1>4. record'[k] = row /\ \A b \in CanaryClaims : b # k => record'[b] = record[b] BY <1>2
  <1>5. PICK entry : entry = Working("claimed", k) OBVIOUS
  <1>6. Puts(c, entry) /\ EntryFits(entry) /\ entry.step = "claimed" /\ entry.claim = k
    BY <1>5 DEF EntryFits, CallSteps, Dispatched, Working
  <1>7. \A d \in Callers, b \in CanaryClaims, step \in CallSteps :
           Holds(d, step, b)' => \/ d = c /\ b = k /\ step = "claimed"
                                 \/ d # c /\ Holds(d, step, b) /\ calls'[d] = calls[d]
    BY <1>2, <1>6, PutsHolds, PutsFacts
  <1>8. \A d \in Callers, b \in CanaryClaims : ActsFor(d, b)' =>
           (d = c /\ b = k) \/ (d # c /\ ActsFor(d, b))
    BY <1>2, <1>6, PutsActs
  <1>9. \A b \in CanaryClaims : fence[b[2]] = b[1] => fence'[b[2]] = b[1]
    BY <1>3, BudgetAssumption DEF FenceKept, CanaryClaims, CanaryHeads
  <1>10. CanaryTypes' BY <1>2, <1>3, <1>6, PutsFacts DEF CanaryInv, CanaryTypes, FenceKept
  <1>11. CallsFit' BY <1>2, <1>6, PutsFacts DEF CanaryInv, CallsFit, EntryFits
  <1>12. BudgetInv'
    <2>1. \A b \in CanaryClaims : record[b] = Absent => record'[b] = Absent BY <1>4
    <2>2. \A b \in CanaryClaims, d \in Callers : Holds(d, "decided", b)' => Holds(d, "decided", b)
      BY <1>7 DEF CallSteps
    <2> QED BY <1>3, <2>1, <2>2, BudgetKept
  <1>13. DispatchesInv'
    <2>1. ASSUME NEW b \in CanaryClaims
          PROVE  /\ dispatches[b] > 0 => record'[b] # Absent
                 /\ record'[b] # Absent =>
                       /\ record'[b].state \in {"quarantined", "retry"} => fence[b[2]] = b[1]
                       /\ dispatches[b] <= IF record'[b].retried THEN 2 ELSE 1
      <3>1. CASE b = k BY <1>1, <1>2, <1>4, <3>1
      <3>2. CASE b # k BY <1>4, <3>2 DEF CanaryInv, DispatchesInv
      <3> QED BY <3>1, <3>2
    <2> QED BY <1>9, <2>1 DEF CanaryInv, DispatchesInv
  <1>14. ReservedInv'
    <2>1. ASSUME NEW b \in CanaryClaims, NEW d \in Callers, Holds(d, "reserved", b)'
          PROVE  Holds(d, "reserved", b) /\ d # c /\ b # k /\ record'[b] = record[b]
      BY <1>4, <1>7, <2>1 DEF CallSteps, Dispatched
    <2>2. ASSUME NEW b \in CanaryClaims, NEW d \in Callers, ActsFor(d, b)'
          PROVE  record'[b] # Absent /\ fence'[b[2]] = b[1]
      BY <1>1, <1>4, <1>8, <1>9, <2>2 DEF CanaryInv, ReservedInv
    <2>3. \A b \in CanaryClaims, d \in Callers : b # k => (ActsFor(d, b)' => ActsFor(d, b))
      BY <1>8
    <2>4. \A b \in CanaryClaims, d \in Callers : Holds(d, "reserved", b)' => Holds(d, "reserved", b)
      BY <2>1
    <2> QED BY <2>1, <2>2, <2>3, <2>4 DEF CanaryInv, ReservedInv
  <1>15. DispatchInv'
    <2>1. ASSUME NEW b \in CanaryClaims, NEW d \in Callers, Holds(d, "claimed", b)'
          PROVE  (d = c /\ b = k) \/ (Holds(d, "claimed", b) /\ b # k /\ record'[b] = record[b])
      BY <1>4, <1>7, <2>1 DEF CallSteps, Dispatched
    <2>2. ASSUME NEW b \in CanaryClaims, NEW d \in Callers, Holds(d, "claimed", b)', b # k
          PROVE  /\ \A a \in Callers : Holds(a, "claimed", b)' => a = d
                 /\ ~record'[b].retried =>
                       /\ record'[b].state = "claimed" /\ dispatches[b] = 0
                       /\ \A a \in Callers : ActsFor(a, b)' => a = d
                 /\ record'[b].retried => dispatches[b] <= 1
      BY <1>8, <2>1, <2>2 DEF CanaryInv, DispatchInv
    <2>3. ASSUME NEW d \in Callers, Holds(d, "claimed", k)'
          PROVE  /\ d = c /\ \A a \in Callers : Holds(a, "claimed", k)' => a = d
                 /\ ~row.retried => \A a \in Callers : ActsFor(a, k)' => a = d
      BY <1>8, <2>1, <2>3
    <2> QED BY <1>4, <2>2, <2>3 DEF DispatchInv
  <1>16. MissedInv'
    <2>1. \A d \in Callers, b \in CanaryClaims, step \in {"read", "concluded"} :
             Holds(d, step, b)' => Holds(d, step, b) /\ calls'[d] = calls[d]
      BY <1>7 DEF CallSteps, Dispatched
    <2>2. \A b \in CanaryClaims : record'[b] # Absent /\ (record'[b].retried \/ record'[b].state = "retry")
             => b \in missed
      BY <1>4 DEF CanaryInv, MissedInv
    <2> QED BY <2>1, <2>2 DEF CanaryInv, MissedInv
  <1> QED BY <1>10, <1>11, <1>12, <1>13, <1>14, <1>15, <1>16 DEF CanaryInv

(* The head's fence goes to one claim, or the claim is preserved. *)
LEMMA ClaimLeaseKeeps ==
  ASSUME CanaryInv, NEW c \in Callers, ClaimLease(c)
  PROVE  CanaryInv'
  <1>1. PICK k \in CanaryClaims : k = calls[c].claim /\ Holds(c, "reserved", k)
    BY CallFacts DEF ClaimLease, CallSteps, Dispatched
  <1>2. /\ record[k] # Absent /\ record[k].state = "claimed" /\ ~record[k].retried /\ dispatches[k] = 0
        /\ \A d \in Callers : ~ActsFor(d, k) /\ (Holds(d, "reserved", k) => d = c)
    BY <1>1 DEF CanaryInv, ReservedInv
  <1>3. \A d \in Callers : ~Holds(d, "claimed", k) BY <1>2 DEF ActsFor, Dispatched
  <1>4. CASE LeaseTaken(k) /\ CallMoves(c, Working("claimed", k)) /\ UNCHANGED record
    <2>1. fence'[k[2]] = k[1] /\ LeaseFails(k) BY <1>4, TakenFacts DEF LeaseFails
    <2>2. PICK row : row = record[k] OBVIOUS
    <2>3. row \in CanaryRow /\ record' = [record EXCEPT ![k] = row]
      BY <1>2, <1>4, <2>2 DEF CanaryInv, CanaryTypes
    <2>4. Puts(c, Working("claimed", k)) /\ UNCHANGED <<chain, dispatches, landed, missed>>
      BY <1>4 DEF ClaimLease, CallMoves, Puts, outside
    <2> QED BY <1>2, <1>3, <2>1, <2>2, <2>3, <2>4, MayDispatch
  <1>5. CASE LeaseFails(k) /\ Preserve(k) /\ CallEnds(c)
    <2>1. UNCHANGED <<chain, outside>> BY DEF ClaimLease
    <2> QED BY <1>2, <1>3, <1>5, <2>1, PreserveKeeps
  <1> QED BY <1>1, <1>4, <1>5 DEF ClaimLease

(* A retry is consumed once, after its effect was missed. *)
LEMMA ConsumeRetryKeeps ==
  ASSUME CanaryInv, NEW c \in Callers, ConsumeRetry(c)
  PROVE  CanaryInv'
  <1>0. missed \subseteq CanaryClaims BY DEF CanaryInv, CanaryTypes
  <1>1. PICK k \in CanaryClaims : k = calls[c].claim /\ Holds(c, "retrying", k)
    BY CallFacts DEF ConsumeRetry, CallSteps, Dispatched
  <1>2. ActsFor(c, k) BY <1>1 DEF ActsFor, Dispatched
  <1>3. record[k] # Absent /\ fence[k[2]] = k[1] BY <1>2 DEF CanaryInv, ReservedInv
  <1>4. fence' = fence
    <2>1. fence \in [CanaryHeads -> CanaryRequests \cup {Absent}] BY DEF CanaryInv, CanaryTypes
    <2> QED BY <1>1, <1>3, <2>1 DEF ConsumeRetry, LeaseTaken
  <1>5. CASE ~(record[k].state = "retry" /\ ~record[k].retried)
    <2>1. Puts(c, Absent) /\ Stable /\ missed' = missed
      BY <1>1, <1>4, <1>5 DEF ConsumeRetry, CallEnds, Puts, Stable, outside
    <2> QED BY <1>0, <2>1, CallKeeps
  <1>6. CASE record[k].state = "retry" /\ ~record[k].retried
    <2>1. PICK row : row = [record[k] EXCEPT !.state = "claimed", !.retried = TRUE] OBVIOUS
    <2>2. record[k] \in CanaryRow /\ record \in [CanaryClaims -> CanaryRow \cup {Absent}]
          /\ dispatches \in [CanaryClaims -> Nat]
      BY <1>3 DEF CanaryInv, CanaryTypes
    <2>3. row \in CanaryRow /\ row.state = "claimed" /\ row.retried = TRUE
      BY <2>1, <2>2 DEF CanaryRow
    <2>4. /\ record' = [record EXCEPT ![k] = row] /\ Puts(c, Working("claimed", k))
          /\ UNCHANGED <<chain, dispatches, landed, missed>>
      BY <1>1, <1>6, <2>1, <2>2 DEF ConsumeRetry, CallMoves, Puts, outside
    <2>5. k \in missed /\ dispatches[k] <= 1
      BY <1>3, <1>6 DEF CanaryInv, MissedInv, DispatchesInv
    <2>6. \A d \in Callers : ~Holds(d, "claimed", k) /\ ~Holds(d, "reserved", k)
      BY <1>6 DEF CanaryInv, DispatchInv, ReservedInv
    <2>7. LeaseFails(k) /\ fence'[k[2]] = k[1] BY <1>3, <1>4 DEF LeaseFails
    <2> QED BY <1>3, <2>3, <2>4, <2>5, <2>6, <2>7, MayDispatch
  <1> QED BY <1>5, <1>6

(* The owner of a head dispatches. *)
LEMMA DispatchKeeps ==
  ASSUME CanaryInv, NEW c \in Callers, NEW accepted \in BOOLEAN, DispatchCanary(c, accepted)
  PROVE  CanaryInv'
  <1>1. PICK k \in CanaryClaims : k = calls[c].claim /\ Holds(c, "claimed", k)
    BY CallFacts DEF DispatchCanary, CallSteps, Dispatched
  <1>2. ActsFor(c, k) BY <1>1 DEF ActsFor, Dispatched
  <1>3. record[k] # Absent /\ fence[k[2]] = k[1] BY <1>2 DEF CanaryInv, ReservedInv
  <1>4. /\ \A d \in Callers : Holds(d, "claimed", k) => d = c
        /\ ~record[k].retried =>
              record[k].state = "claimed" /\ dispatches[k] = 0 /\ \A d \in Callers : ActsFor(d, k) => d = c
        /\ record[k].retried => dispatches[k] <= 1
    BY <1>1 DEF CanaryInv, DispatchInv
  <1>5. PICK entry : entry = [step |-> "dispatched", claim |-> k, allow |-> ~accepted] OBVIOUS
  <1>6. /\ Puts(c, entry) /\ UNCHANGED <<chain, record, fence, landed, missed>>
        /\ dispatches' = [dispatches EXCEPT ![k] = @ + 1]
    BY <1>1, <1>5 DEF DispatchCanary, CallMoves, Puts, ledger
  <1>7. EntryFits(entry) /\ entry.step = "dispatched" /\ entry.claim = k
    BY <1>5 DEF EntryFits, CallSteps, Dispatched
  <1>8. /\ calls = [d \in Callers |-> calls[d]] /\ dispatches \in [CanaryClaims -> Nat]
        /\ landed \in [CanaryClaims -> Nat] /\ fence \in [CanaryHeads -> CanaryRequests \cup {Absent}]
    BY DEF CanaryInv, CanaryTypes
  <1>9. /\ dispatches' \in [CanaryClaims -> Nat] /\ dispatches'[k] = dispatches[k] + 1
        /\ \A b \in CanaryClaims : b # k => dispatches'[b] = dispatches[b]
    BY <1>6, <1>8
  <1>10. \A d \in Callers, b \in CanaryClaims, step \in CallSteps :
            Holds(d, step, b)' => \/ d = c /\ b = k /\ step = "dispatched"
                                  \/ d # c /\ Holds(d, step, b) /\ calls'[d] = calls[d]
    BY <1>6, <1>7, <1>8, PutsHolds, PutsFacts
  <1>11. \A d \in Callers, b \in CanaryClaims : ActsFor(d, b)' => (d = c /\ b = k) \/ ActsFor(d, b)
    BY <1>6, <1>7, <1>8, PutsActs
  <1>12. CanaryTypes' BY <1>6, <1>8, <1>9, PutsFacts DEF CanaryInv, CanaryTypes
  <1>13. CallsFit' BY <1>6, <1>7, <1>8, PutsFacts DEF CanaryInv, CallsFit, EntryFits
  <1>14. BudgetInv'
    <2>1. FenceKept /\ \A operation \in Operations : Spent(operation)' = Spent(operation)
      BY <1>6, <1>8 DEF FenceKept, Spent
    <2>2. \A b \in CanaryClaims, d \in Callers : Holds(d, "decided", b)' => Holds(d, "decided", b)
      BY <1>10 DEF CallSteps
    <2> QED BY <1>6, <2>1, <2>2, BudgetKept DEF CanaryInv, BudgetInv
  <1>15. DispatchesInv'
    <2>1. ASSUME NEW b \in CanaryClaims
          PROVE  /\ landed[b] <= dispatches'[b]
                 /\ dispatches'[b] > 0 => fence[b[2]] = b[1] /\ record[b] # Absent
                 /\ record[b] # Absent => dispatches'[b] <= IF record[b].retried THEN 2 ELSE 1
      <3>1. CASE b = k
        <4>1. landed[k] <= dispatches[k] /\ landed[k] \in Nat /\ dispatches[k] \in Nat
          BY <1>8 DEF CanaryInv, DispatchesInv
        <4> QED BY <1>3, <1>4, <1>9, <3>1, <4>1
      <3>2. CASE b # k BY <1>9, <3>2 DEF CanaryInv, DispatchesInv
      <3> QED BY <3>1, <3>2
    <2> QED BY <1>6, <2>1 DEF CanaryInv, DispatchesInv
  <1>16. ReservedInv'
    <2>1. ASSUME NEW b \in CanaryClaims, NEW d \in Callers, Holds(d, "reserved", b)'
          PROVE  Holds(d, "reserved", b) /\ d # c /\ b # k
      <3>1. Holds(d, "reserved", b) /\ d # c BY <1>10, <2>1 DEF CallSteps, Dispatched
      <3> QED BY <1>2, <3>1 DEF CanaryInv, ReservedInv
    <2>2. \A b \in CanaryClaims, d \in Callers : Holds(d, "reserved", b)' => Holds(d, "reserved", b)
      BY <2>1
    <2> QED BY <1>3, <1>6, <1>9, <1>11, <2>1, <2>2 DEF CanaryInv, ReservedInv
  <1>17. DispatchInv'
    <2>1. ASSUME NEW b \in CanaryClaims, NEW d \in Callers, Holds(d, "claimed", b)'
          PROVE  Holds(d, "claimed", b) /\ d # c /\ b # k
      <3>1. Holds(d, "claimed", b) /\ d # c BY <1>10, <2>1 DEF CallSteps, Dispatched
      <3> QED BY <1>4, <3>1
    <2>2. \A b \in CanaryClaims, d \in Callers : Holds(d, "claimed", b)' => Holds(d, "claimed", b)
      BY <2>1
    <2> QED BY <1>6, <1>9, <1>11, <2>1, <2>2 DEF CanaryInv, DispatchInv
  <1>18. MissedInv'
    <2>1. \A d \in Callers, b \in CanaryClaims, step \in {"read", "concluded"} :
             Holds(d, step, b)' => Holds(d, step, b) /\ calls'[d] = calls[d]
      BY <1>10 DEF CallSteps, Dispatched
    <2> QED BY <1>6, <2>1 DEF CanaryInv, MissedInv
  <1> QED BY <1>12, <1>13, <1>14, <1>15, <1>16, <1>17, <1>18 DEF CanaryInv

(* What was dispatched lands, a replacement keeps the ledger and the fence and
   has no calls, or nothing happens. *)
LEMMA QuietlyKeeps ==
  ASSUME CanaryInv,
         \/ \E k \in CanaryClaims : CanaryLands(k)
         \/ \E granted \in BOOLEAN : Restart(granted)
         \/ UNCHANGED canaryVars
  PROVE  CanaryInv'
  <1>1. /\ UNCHANGED <<chain, record, fence, dispatches, missed>>
        /\ calls' = calls \/ calls' = [c \in Callers |-> Absent]
    BY DEF CanaryLands, Restart, canaryVars, ledger, outside
  <1>2. landed' \in [CanaryClaims -> Nat] /\ \A k \in CanaryClaims : landed'[k] <= dispatches[k]
    <2>1. /\ landed \in [CanaryClaims -> Nat] /\ dispatches \in [CanaryClaims -> Nat]
          /\ \A k \in CanaryClaims : landed[k] <= dispatches[k]
      BY DEF CanaryInv, CanaryTypes, DispatchesInv
    <2>2. CASE \E k \in CanaryClaims : CanaryLands(k) BY <2>1, <2>2 DEF CanaryLands
    <2>3. CASE landed' = landed BY <2>1, <2>3
    <2> QED BY <2>2, <2>3 DEF Restart, canaryVars, outside
  <1>3. \A c \in Callers : \A step, k : Holds(c, step, k)' => Holds(c, step, k) /\ calls'[c] = calls[c]
    BY <1>1 DEF Holds, CallAt
  <1>4. \A c \in Callers, k \in CanaryClaims : ActsFor(c, k)' => ActsFor(c, k) BY <1>3 DEF ActsFor
  <1>5. CanaryTypes' /\ CallsFit' BY <1>1, <1>2 DEF CanaryInv, CanaryTypes, CallsFit, EntryFits
  <1>6. BudgetInv'
    <2>1. FenceKept /\ \A operation \in Operations : Spent(operation)' = Spent(operation)
      BY <1>1 DEF FenceKept, Spent, CanaryInv, CanaryTypes
    <2> QED BY <1>1, <1>3, <2>1, BudgetKept DEF CanaryInv, BudgetInv
  <1>7. DispatchesInv' BY <1>1, <1>2 DEF CanaryInv, DispatchesInv
  <1>8. ReservedInv' BY <1>1, <1>3, <1>4 DEF CanaryInv, ReservedInv
  <1>9. DispatchInv' BY <1>1, <1>3, <1>4 DEF CanaryInv, DispatchInv
  <1>10. MissedInv' BY <1>1, <1>3 DEF CanaryInv, MissedInv
  <1> QED BY <1>5, <1>6, <1>7, <1>8, <1>9, <1>10 DEF CanaryInv

(* Nothing is spent. *)
LEMMA CanaryStarts ==
  ASSUME CanaryInit
  PROVE  CanaryInv
  <1>1. \A k \in CanaryClaims : k[2] \in CanaryHeads /\ k[1] # Absent
    BY BudgetAssumption DEF CanaryClaims, CanaryHeads
  <1>2. CanaryTypes BY DEF CanaryInit, CanaryTypes, CanaryHeads
  <1>3. \A c \in Callers : \A step, k : ~Holds(c, step, k) BY DEF CanaryInit, Holds, CallAt
  <1>4. \A c \in Callers, k \in CanaryClaims : ~ActsFor(c, k) BY <1>3 DEF ActsFor
  <1>5. CallsFit BY DEF CanaryInit, CallsFit
  <1>6. \A operation \in Operations : Spent(operation) = {} BY DEF CanaryInit, Spent, CanaryHeads
  <1>7. \A operation \in Operations : Cardinality(Spent(operation)) <= Limit[operation]
    BY <1>6, FS_EmptySet, BudgetAssumption
  <1>8. BudgetInv BY <1>3, <1>7 DEF CanaryInit, BudgetInv, CanaryHeads
  <1>9. DispatchesInv BY DEF CanaryInit, DispatchesInv
  <1>10. ReservedInv /\ DispatchInv /\ MissedInv
    BY <1>3, <1>4 DEF CanaryInit, ReservedInv, DispatchInv, MissedInv
  <1> QED BY <1>2, <1>5, <1>8, <1>9, <1>10 DEF CanaryInv

(* One step per action of the canary. *)
LEMMA CanaryInductive ==
  ASSUME CanaryInv, [CanaryNext]_canaryVars
  PROVE  CanaryInv'
  BY MovingCalls, ReserveKeeps, ClaimLeaseKeeps, DispatchKeeps, WriteOutcomeKeeps, RetryUnprovenKeeps,
     ConsumeRetryKeeps, QuietlyKeeps DEF CanaryNext

(* Claims that own their heads are no more than the heads. *)
LEMMA ClaimsAreHeads ==
  ASSUME NEW L \in SUBSET CanaryClaims, NEW H, IsFiniteSet(H),
         \A k \in L : k[2] \in H /\ fence[k[2]] = k[1]
  PROVE  IsFiniteSet(L) /\ Cardinality(L) <= Cardinality(H)
  <1> DEFINE f == [k \in L |-> k[2]]
  <1>1. f \in [L -> H] OBVIOUS
  <1>2. ASSUME NEW j \in L, NEW k \in L, f[j] = f[k] PROVE j = k
    BY <1>2 DEF CanaryClaims
  <1>3. f \in Injection(L, H) BY <1>1, <1>2 DEF Injection, IsInjective
  <1> HIDE DEF f
  <1> QED BY <1>3, FS_Injection

(* What landed owns a head that is spent. *)
LEMMA WithinTheBudget ==
  ASSUME CanaryInv
  PROVE  EffectsWithinBudget
  <1>1. TotalCalls \in Nat /\ Limit \in [Operations -> Nat] BY BudgetAssumption
  <1>2. \A k \in CanaryClaims : dispatches[k] \in Nat /\ landed[k] \in Nat BY DEF CanaryInv, CanaryTypes
  <1>3. \A k \in CanaryClaims : landed[k] > 0 => dispatches[k] > 0
    BY <1>2 DEF CanaryInv, DispatchesInv
  <1>4. \A k \in CanaryClaims : dispatches[k] > 0 =>
           /\ fence[k[2]] = k[1] /\ record[k] # Absent /\ k[2] < TotalCalls
           /\ k[2] \in CanaryHeads /\ k[1] # Absent
    BY BudgetAssumption DEF CanaryInv, DispatchesInv, BudgetInv, Affordable, CanaryClaims, CanaryHeads
  <1>5. IsFiniteSet(CanaryHeads) BY <1>1, FS_Interval DEF CanaryHeads
  <1>6. ASSUME NEW operation \in Operations
        PROVE  Cardinality(Effective(operation)) <= Limit[operation]
    <2>1. IsFiniteSet(Spent(operation)) BY <1>5, FS_Subset DEF Spent
    <2>2. \A k \in Effective(operation) : k[2] \in Spent(operation) /\ fence[k[2]] = k[1]
      BY <1>3, <1>4 DEF Effective, Spent
    <2>3. Effective(operation) \in SUBSET CanaryClaims BY DEF Effective
    <2>4. /\ IsFiniteSet(Effective(operation))
          /\ Cardinality(Effective(operation)) <= Cardinality(Spent(operation))
      BY <2>1, <2>2, <2>3, ClaimsAreHeads
    <2>5. /\ Cardinality(Effective(operation)) \in Nat /\ Cardinality(Spent(operation)) \in Nat
          /\ Cardinality(Spent(operation)) <= Limit[operation] /\ Limit[operation] \in Nat
      BY <1>1, <2>1, <2>4, FS_CardinalityType DEF CanaryInv, BudgetInv
    <2> QED BY <2>4, <2>5
  <1>7. Cardinality({k \in CanaryClaims : landed[k] > 0}) <= TotalCalls
    <2>1. PICK L, H : L = {k \in CanaryClaims : landed[k] > 0} /\ H = 0..(TotalCalls - 1) OBVIOUS
    <2>2. IsFiniteSet(H) /\ Cardinality(H) = TotalCalls BY <1>1, <2>1, FS_Interval
    <2>3. \A k \in L : k[2] \in H /\ fence[k[2]] = k[1] BY <1>1, <1>3, <1>4, <2>1 DEF CanaryHeads
    <2> QED BY <2>1, <2>2, <2>3, ClaimsAreHeads
  <1>8. \A j, k \in CanaryClaims : dispatches[j] > 0 /\ dispatches[k] > 0 /\ j[2] = k[2] => j = k
    <2>1. \A j, k \in CanaryClaims : j[1] = k[1] /\ j[2] = k[2] => j = k BY DEF CanaryClaims
    <2> QED BY <1>4, <2>1
  <1>9. ASSUME NEW k \in CanaryClaims, dispatches[k] > 1
        PROVE  dispatches[k] = 2 /\ record[k].retried /\ k \in missed
    <2>1. record[k] # Absent /\ record[k] \in CanaryRow BY <1>2, <1>4, <1>9 DEF CanaryInv, CanaryTypes
    <2>2. dispatches[k] <= IF record[k].retried THEN 2 ELSE 1 BY <2>1 DEF CanaryInv, DispatchesInv
    <2>3. record[k].retried BY <1>2, <1>9, <2>1, <2>2 DEF CanaryRow
    <2> QED BY <1>2, <1>9, <2>1, <2>2, <2>3 DEF CanaryInv, MissedInv
  <1> QED BY <1>6, <1>7, <1>8, <1>9 DEF EffectsWithinBudget

(* What took effect stays within the limits of its operation and the calls of
   the budget, one claim spends a head, and a claim goes out a second time only
   by its one retry after a read-back that missed it: for any callers, budget,
   late effects and restarts (canary_execution.py:730-889). *)
THEOREM CanariesStayWithinBudget == CanarySpec => []EffectsWithinBudget
  <1>1. CanaryInit => CanaryInv BY CanaryStarts
  <1>2. CanaryInv /\ [CanaryNext]_canaryVars => CanaryInv' BY CanaryInductive
  <1>3. CanaryInv => EffectsWithinBudget BY WithinTheBudget
  <1> QED BY <1>1, <1>2, <1>3, PTL DEF CanarySpec

-----------------------------------------------------------------------------
(***************************************************************************)
(* The Supervisor sequence.  SequenceInv gives every request one owner and *)
(* the plan one writer, says what each process knows where it stands, and  *)
(* what the three stores say of each other at every end of a process.      *)
(***************************************************************************)
PlanSteps == {"plan", "plan-receipt"}
Paying == {"intent", "authorize", "fence", "reserve", "consume", "claim"}
Native == {"turn", "checkpoint", "read"}
Unrecorded == {"open", "record", "append"} \cup Native
Closing == {"terminal", "terminal-receipt", "seal"}
Recorded == Closing \cup {"receipt", "decide"}
Owning == Unrecorded \cup Recorded
QualifierSteps == {"idle", "resume"} \cup PlanSteps \cup Paying \cup Owning
Unfinished == {"blocked", "ambiguous"}
QualifierRow == [step : QualifierSteps, n : Ordinals, recover : BOOLEAN, result : Results \cup {"none"}]

SequenceTypes ==
    /\ results \in [Ordinals -> Results \cup {"none"}] /\ sessions \in [Ordinals -> Nat]
    /\ routes \in [Ordinals -> {"none", "issued", "reserving", "consumed"}]
    /\ claims \subseteq Ordinals /\ budget \subseteq Ordinals /\ admissions \subseteq Ordinals
    /\ decisions \subseteq Ordinals /\ at \in [Qualifiers -> QualifierRow] /\ qualified \in BOOLEAN

(* What a process knows, by where it stands. *)
RowInv(row) ==
    /\ row.step \in Paying \cup Owning => \A j \in Ordinals : j < row.n => j \in decisions
    /\ row.step \in {"claim"} \cup Owning /\ row.n > 1 => row.n \in admissions
    /\ row.step \in Owning => row.n \in claims
    /\ row.step = "open" => sessions[row.n] = 0
    /\ row.step \in Native => sessions[row.n] = 1
    /\ row.step = "record" => row.result = "blocked"
    /\ row.step = "append" => row.result \in Results /\ (row.result \in Unfinished \/ sessions[row.n] = 1)
    /\ row.step \in Unrecorded => Event(row.n) \notin files
    /\ row.step \in Recorded => Event(row.n) \in files /\ results[row.n] = row.result
    /\ row.step = "receipt" => Receipt(row.n) \notin files
    /\ row.step \in {"receipt", "decide"} => row.n \notin decisions
    /\ row.step = "decide" => row.result = "format"
    /\ row.step \in Closing => row.result # "format" \/ row.n = Requests
    /\ row.step \in {"terminal-receipt", "seal"} => Doc("terminal") \in files
    /\ row.step = "seal" => row.result = "accepted"
    /\ row.step \in PlanSteps => Doc("directory") \in files /\ Doc("plan-receipt") \notin files

(* A request has one owner, and the plan one writer. *)
PairInv ==
    \A p, q \in Qualifiers : p # q =>
       /\ ~(at[p].step \in PlanSteps /\ at[q].step \in PlanSteps)
       /\ ~(at[p].step \in Owning /\ at[q].step \in Owning /\ at[p].n = at[q].n)

(* What the stores say of each other. *)
StoresInv ==
    /\ Events = 1..Cardinality(Events) /\ Cardinality(Events) \in 0..Requests
    /\ Doc("plan-receipt") \in files => Doc("directory") \in files
    /\ \A n \in decisions : Event(n) \in files /\ results[n] = "format"
    /\ \A n \in Ordinals : /\ routes[n] # "none" => n > 1 /\ n - 1 \in decisions
                           /\ n \in admissions => routes[n] = "consumed"
                           /\ sessions[n] > 0 => /\ sessions[n] = 1 /\ n \in claims /\ n \in budget
                                                 /\ n > 1 => n \in admissions
                           /\ Event(n) \in files => n \in claims /\ (results[n] \notin Unfinished => sessions[n] = 1)

(* A sealed case leaves nothing to write. *)
SealedInv ==
    qualified => /\ Readable /\ Doc("terminal") \in files
                 /\ \E n \in Events : results[n] = "accepted"
                 /\ \A p \in Qualifiers : at[p].step \notin PlanSteps \cup Owning

SequenceInv ==
    /\ SequenceTypes /\ StoresInv /\ PairInv /\ SealedInv
    /\ \A p \in Qualifiers : RowInv(at[p])

(* Where a step leaves its process. *)
Becomes(p, row, step, n, result) ==
    /\ row \in QualifierRow /\ at' = [at EXCEPT ![p] = row]
    /\ row.step = step /\ row.n = n /\ row.result = result

(* The stores only grow; what another process relies on stays. *)
Grow ==
    /\ files \subseteq files' /\ decisions \subseteq decisions'
    /\ claims \subseteq claims' /\ admissions \subseteq admissions'
KnownUntouched(row) ==
    /\ row.step \in Owning =>
          /\ sessions'[row.n] = sessions[row.n] /\ results'[row.n] = results[row.n]
          /\ Event(row.n) \in files' => Event(row.n) \in files
          /\ Receipt(row.n) \in files' => Receipt(row.n) \in files
          /\ row.n \in decisions' => row.n \in decisions
    /\ row.step \in PlanSteps /\ Doc("plan-receipt") \in files' => Doc("plan-receipt") \in files

(* The steps of a process. *)
LEMMA SequenceSteps ==
    /\ "idle" \in QualifierSteps /\ "resume" \in QualifierSteps /\ "plan" \in QualifierSteps
    /\ "plan-receipt" \in QualifierSteps /\ "intent" \in QualifierSteps
    /\ "authorize" \in QualifierSteps /\ "fence" \in QualifierSteps /\ "reserve" \in QualifierSteps
    /\ "consume" \in QualifierSteps /\ "claim" \in QualifierSteps /\ "open" \in QualifierSteps
    /\ "turn" \in QualifierSteps /\ "checkpoint" \in QualifierSteps /\ "read" \in QualifierSteps /\ "record" \in QualifierSteps
    /\ "append" \in QualifierSteps /\ "receipt" \in QualifierSteps /\ "decide" \in QualifierSteps
    /\ "terminal" \in QualifierSteps /\ "terminal-receipt" \in QualifierSteps
    /\ "seal" \in QualifierSteps
  BY DEF QualifierSteps, PlanSteps, Paying, Owning, Unrecorded, Native, Recorded, Closing

(* A process that waits. *)
LEMMA WaitingRow == Waiting \in QualifierRow /\ Waiting.step = "idle" /\ Waiting.n = 1 /\ Waiting.result = "none"
  BY SequenceSteps, SequenceAssumption DEF Waiting, QualifierRow, Ordinals

(* A process that moves keeps its request and its result. *)
LEMMA ProcessMoves ==
    ASSUME SequenceTypes, NEW p \in Qualifiers, NEW step \in QualifierSteps, Move(p, step)
    PROVE  \E row : Becomes(p, row, step, at[p].n, at[p].result)
  <1> DEFINE row == [at[p] EXCEPT !.step = step]
  <1>1. at[p] \in QualifierRow  BY DEF SequenceTypes
  <1>2. /\ row \in QualifierRow /\ row.step = step /\ row.n = at[p].n
        /\ row.result = at[p].result  BY <1>1 DEF QualifierRow
  <1>3. at' = [at EXCEPT ![p] = row]  BY DEF Move
  <1> HIDE DEF row
  <1> QED  BY <1>2, <1>3 DEF Becomes

(* A refusal puts a process back to where it waits. *)
LEMMA ProcessRefuses ==
    ASSUME NEW p \in Qualifiers, Refuse(p)
    PROVE  \E row : Becomes(p, row, "idle", 1, "none")
  BY WaitingRow DEF Refuse, Becomes

(* A result is recorded first when it is a blocked one. *)
LEMMA ProcessAnswers ==
    ASSUME SequenceTypes, NEW p \in Qualifiers, NEW result \in Results, Answer(p, result)
    PROVE  \E row : Becomes(p, row, IF result = "blocked" THEN "record" ELSE "append", at[p].n, result)
  <1> DEFINE step == IF result = "blocked" THEN "record" ELSE "append"
  <1> DEFINE row == [at[p] EXCEPT !.result = result, !.step = step]
  <1>0. step \in QualifierSteps  BY SequenceSteps
  <1>1. at[p] \in QualifierRow  BY DEF SequenceTypes
  <1>2. at' = [at EXCEPT ![p] = row]  BY DEF Answer
  <1> HIDE DEF step
  <1>3. /\ row \in QualifierRow /\ row.step = step /\ row.n = at[p].n /\ row.result = result
    BY <1>0, <1>1 DEF QualifierRow
  <1> HIDE DEF row
  <1>4. Becomes(p, row, step, at[p].n, result)  BY <1>2, <1>3 DEF Becomes
  <1> QED  BY <1>4 DEF step

(* A process on its way to the debit. *)
LEMMA ProcessReserves ==
    ASSUME SequenceTypes, NEW p \in Qualifiers, NEW recover \in BOOLEAN, Reserving(p, recover)
    PROVE  \E row : Becomes(p, row, "reserve", at[p].n, at[p].result)
  <1> DEFINE row == [at[p] EXCEPT !.recover = recover, !.step = "reserve"]
  <1>1. at[p] \in QualifierRow  BY DEF SequenceTypes
  <1>2. /\ row \in QualifierRow /\ row.step = "reserve" /\ row.n = at[p].n
        /\ row.result = at[p].result  BY <1>1, SequenceSteps DEF QualifierRow
  <1>3. at' = [at EXCEPT ![p] = row]  BY DEF Reserving
  <1> HIDE DEF row
  <1> QED  BY <1>2, <1>3 DEF Becomes

(* What a process knows holds while nobody touches it. *)
LEMMA KnownStays ==
    ASSUME NEW row, RowInv(row), Grow, KnownUntouched(row)
    PROVE  RowInv(row)'
  <1>1. row.step \in Owning <=> row.step \in Unrecorded \/ row.step \in Recorded  BY DEF Owning
  <1>2. Closing \subseteq Recorded /\ "receipt" \in Recorded /\ "decide" \in Recorded
        /\ "open" \in Unrecorded /\ Native \subseteq Unrecorded /\ "append" \in Unrecorded
    BY DEF Recorded, Unrecorded
  <1> QED  BY <1>1, <1>2 DEF RowInv, Grow, KnownUntouched

(* One process moves; the others stand where they stood. *)
LEMMA MoveKeeps ==
    ASSUME SequenceInv, NEW p \in Qualifiers, NEW row \in QualifierRow,
           at' = [at EXCEPT ![p] = row], Grow,
           \A q \in Qualifiers \ {p} : KnownUntouched(at[q]), RowInv(row)',
           SequenceTypes', StoresInv', SealedInv',
           row.step \in Owning => \/ at[p].step \in Owning /\ at[p].n = row.n
                                  \/ row.n \notin claims,
           row.step \in PlanSteps => at[p].step \in PlanSteps \/ Doc("directory") \notin files
    PROVE  SequenceInv'
  <1>1. \A q \in Qualifiers \ {p} : at'[q] = at[q]  BY DEF SequenceInv, SequenceTypes
  <1>2. at'[p] = row  BY DEF SequenceInv, SequenceTypes
  <1>3. \A q \in Qualifiers : RowInv(at[q])'
    <2> TAKE q \in Qualifiers
    <2> PICK r : r = at[q]  OBVIOUS
    <2>1. CASE q = p
      <3>1. at'[q] = row  BY <2>1, <1>2
      <3> QED  BY <3>1 DEF RowInv, Event, Receipt, Doc
    <2>2. CASE q # p
      <3>1. RowInv(r) /\ KnownUntouched(r)  BY <2>2 DEF SequenceInv
      <3>2. RowInv(r)'  BY <3>1, KnownStays
      <3>3. at'[q] = r  BY <2>2, <1>1
      <3> QED  BY <3>2, <3>3 DEF RowInv, Event, Receipt, Doc
    <2> QED  BY <2>1, <2>2
  <1>4. PairInv'
    <2>1. \A q \in Qualifiers \ {p} : /\ at[q].step \in Owning => at[q].n \in claims
                                      /\ at[q].step \in PlanSteps => Doc("directory") \in files
      BY DEF SequenceInv, RowInv
    <2>2. \A q \in Qualifiers \ {p} :
             /\ ~(row.step \in PlanSteps /\ at[q].step \in PlanSteps)
             /\ ~(row.step \in Owning /\ at[q].step \in Owning /\ row.n = at[q].n)
      BY <2>1 DEF SequenceInv, PairInv
    <2> QED  BY <1>1, <1>2, <2>2 DEF SequenceInv, PairInv
  <1> QED  BY <1>3, <1>4 DEF SequenceInv

(* A sealed case stays sealed through a step that writes nothing. *)
LEMMA SealStays ==
    ASSUME SequenceInv, NEW p \in Qualifiers, NEW row \in QualifierRow,
           at' = [at EXCEPT ![p] = row], qualified' = qualified,
           qualified => UNCHANGED fileVars /\ row.step \notin PlanSteps \cup Owning
    PROVE  SealedInv'
  <1> SUFFICES ASSUME qualified PROVE SealedInv'  BY DEF SealedInv
  <1>1. files' = files /\ results' = results  BY DEF fileVars
  <1>2. \A q \in Qualifiers : at'[q].step \notin PlanSteps \cup Owning
    BY DEF SequenceInv, SequenceTypes, SealedInv
  <1> QED  BY <1>1, <1>2 DEF SequenceInv, SealedInv, Readable, Events

(* Steps that leave the record, the routes, the claims and the sessions. *)
LEMMA QuietKeeps ==
    ASSUME SequenceInv, NEW p \in Qualifiers, NEW row, NEW step, NEW n, NEW result,
           Becomes(p, row, step, n, result),
           UNCHANGED <<fileVars, claims, routes, admissions, decisions, sessions, qualified>>,
           budget \subseteq budget', budget' \subseteq Ordinals,
           RowInv(row), step \notin PlanSteps,
           step \in Owning => at[p].step \in Owning /\ at[p].n = n
    PROVE  SequenceInv'
  <1>1. /\ row \in QualifierRow /\ row.step = step /\ row.n = n /\ at' = [at EXCEPT ![p] = row]
    BY DEF Becomes
  <1>2. /\ files' = files /\ results' = results /\ claims' = claims /\ routes' = routes
        /\ admissions' = admissions /\ decisions' = decisions /\ sessions' = sessions
        /\ qualified' = qualified
    BY DEF fileVars
  <1>3. Grow /\ \A q \in Qualifiers \ {p} : KnownUntouched(at[q])  BY <1>2 DEF Grow, KnownUntouched
  <1>4. RowInv(row)'  BY <1>2 DEF RowInv
  <1>5. SequenceTypes'
    <2>1. at' \in [Qualifiers -> QualifierRow]  BY <1>1 DEF SequenceInv, SequenceTypes
    <2> QED  BY <2>1, <1>2 DEF SequenceInv, SequenceTypes
  <1>6. StoresInv'
    <2>1. Events' = Events  BY <1>2 DEF Events
    <2> QED  BY <1>2, <2>1 DEF SequenceInv, StoresInv
  <1>7. SealedInv'
    <2>1. qualified => row.step \notin PlanSteps \cup Owning  BY <1>1 DEF SequenceInv, SealedInv
    <2> QED  BY <1>1, <1>2, <2>1, SealStays DEF fileVars
  <1> QED  BY <1>1, <1>3, <1>4, <1>5, <1>6, <1>7, MoveKeeps

(* A refusal leaves nothing to know. *)
LEMMA RefusedKnowsNothing ==
    ASSUME NEW row, row.step \in {"idle", "resume"} PROVE RowInv(row)
  BY DEF RowInv, Owning, Paying, Unrecorded, Native, Recorded, Closing, PlanSteps

(* A refusal writes nothing. *)
LEMMA RefuseKeeps ==
    ASSUME SequenceInv, NEW p \in Qualifiers, Refuse(p),
           UNCHANGED <<fileVars, claims, routes, admissions, decisions, sessions, qualified, budget>>
    PROVE  SequenceInv'
  <1> PICK row : Becomes(p, row, "idle", 1, "none")  BY ProcessRefuses
  <1>1. RowInv(row)  BY RefusedKnowsNothing DEF Becomes
  <1>2. "idle" \notin PlanSteps /\ "idle" \notin Owning
    BY DEF Owning, Unrecorded, Native, Recorded, Closing, PlanSteps
  <1> QED  BY <1>1, <1>2, QuietKeeps DEF SequenceInv, SequenceTypes

(* The names in the record directory are distinct. *)
LEMMA FileNames ==
    /\ \A m, n \in Ordinals : /\ Event(m) = Event(n) => m = n
                              /\ Receipt(m) = Receipt(n) => m = n
                              /\ Event(m) # Receipt(n)
    /\ \A n \in Ordinals, name \in {"directory", "plan", "plan-receipt", "terminal", "terminal-receipt", "unfinished"} :
          Doc(name) # Event(n) /\ Doc(name) # Receipt(n)
    /\ Doc("plan-receipt") # Doc("directory") /\ Doc("plan-receipt") # Doc("plan")
    /\ Doc("plan-receipt") # Doc("terminal") /\ Doc("plan-receipt") # Doc("terminal-receipt")
    /\ Doc("plan-receipt") # Doc("unfinished")
  BY DEF Event, Receipt, Doc

(* The steps that only read, or write what no property is about. *)
LEMMA ResumeKeeps ==
    ASSUME SequenceInv, NEW p \in Qualifiers, Resume(p)
    PROVE  SequenceInv'
  <1> DEFINE turns == Cardinality(Events)
  <1>0. UNCHANGED <<fileVars, claims, routes, admissions, decisions, sessions, qualified, budget>>
    BY DEF Resume, ledgerVars
  <1>1. CASE Resumes(turns)
    <2> DEFINE step == IF turns = 0 THEN "intent" ELSE "authorize"
    <2> DEFINE row == [at[p] EXCEPT !.n = turns + 1, !.step = step]
    <2>1. at' = [at EXCEPT ![p] = row]  BY <1>1 DEF Resume
    <2>2. turns \in 0..Requests /\ turns < Requests  BY <1>1 DEF Resumes, SequenceInv, StoresInv
    <2>3. turns + 1 \in Ordinals  BY <2>2, SequenceAssumption DEF Ordinals
    <2>4. at[p] \in QualifierRow /\ step \in QualifierSteps  BY SequenceSteps DEF SequenceInv, SequenceTypes
    <2>5. step \in {"intent", "authorize"}  OBVIOUS
    <2>6. \A j \in Ordinals : j < turns + 1 => j \in decisions
      BY <1>1, <2>2, SequenceAssumption DEF Resumes, Reconstructs, Ordinals
    <2> HIDE DEF step, turns
    <2>7. row \in QualifierRow /\ row.step = step /\ row.n = turns + 1 /\ row.result = at[p].result
      BY <2>3, <2>4 DEF QualifierRow
    <2> HIDE DEF row
    <2>8. Becomes(p, row, step, turns + 1, at[p].result)  BY <2>1, <2>7 DEF Becomes
    <2>9. RowInv(row)
      BY <2>5, <2>6, <2>7 DEF RowInv, Owning, Paying, Unrecorded, Native, Recorded, Closing, PlanSteps
    <2>10. step \notin PlanSteps /\ step \notin Owning
      BY <2>5 DEF Owning, Unrecorded, Native, Recorded, Closing, PlanSteps
    <2> QED  BY <1>0, <2>8, <2>9, <2>10, QuietKeeps DEF SequenceInv, SequenceTypes
  <1>2. CASE ~Resumes(turns)
    <2>1. Refuse(p)  BY <1>2 DEF Resume
    <2> QED  BY <1>0, <2>1, RefuseKeeps
  <1> QED  BY <1>1, <1>2

(* Payment: what is before n stays decided. *)
LEMMA PayKeeps ==
    ASSUME SequenceInv, NEW p \in Qualifiers, at[p].step \in Paying, NEW row, NEW step \in Paying,
           Becomes(p, row, step, at[p].n, at[p].result),
           UNCHANGED <<fileVars, claims, routes, admissions, decisions, sessions, qualified>>,
           budget \subseteq budget', budget' \subseteq Ordinals,
           step = "claim" => at[p].n = 1
    PROVE  SequenceInv'
  <1>1. /\ row \in QualifierRow /\ row.step = step /\ row.n = at[p].n /\ at[p].n \in Ordinals
    BY DEF Becomes, SequenceInv, SequenceTypes, QualifierRow
  <1>2. RowInv(at[p])  BY DEF SequenceInv
  <1>3. step \notin PlanSteps /\ step \notin Owning
    BY DEF Paying, Owning, Unrecorded, Native, Recorded, Closing, PlanSteps
  <1>4. RowInv(row)
    BY <1>1, <1>2 DEF RowInv, Owning, Paying, Unrecorded, Native, Recorded, Closing, PlanSteps
  <1> QED  BY <1>3, <1>4, QuietKeeps

(* The steps before the claim. *)
LEMMA PaySteps ==
    /\ "intent" \in Paying /\ "authorize" \in Paying /\ "fence" \in Paying
    /\ "reserve" \in Paying /\ "consume" \in Paying /\ "claim" \in Paying
    /\ Paying \subseteq QualifierSteps
  BY DEF Paying, QualifierSteps

(* The first request's intent. *)
LEMMA BeginFirstKeeps ==
    ASSUME SequenceInv, NEW p \in Qualifiers, BeginFirst(p)
    PROVE  SequenceInv'
  <1>0. UNCHANGED <<fileVars, claims, routes, admissions, decisions, sessions, qualified, budget>>
    BY DEF BeginFirst
  <1>1. CASE Reserving(p, 1 \in intents)
    <2> PICK row : Becomes(p, row, "reserve", at[p].n, at[p].result)
      <3>1. (1 \in intents) \in BOOLEAN  OBVIOUS
      <3>2. SequenceTypes  BY DEF SequenceInv
      <3> QED  BY <1>1, <3>1, <3>2, ProcessReserves
    <2>1. at[p].step \in Paying  BY PaySteps DEF BeginFirst, Stands
    <2> QED  BY <1>0, <2>1, PayKeeps, PaySteps DEF SequenceInv, SequenceTypes
  <1>2. CASE Refuse(p)  BY <1>0, <1>2, RefuseKeeps
  <1> QED  BY <1>1, <1>2 DEF BeginFirst

(* The debit of a turn. *)
LEMMA ReserveTurnKeeps ==
    ASSUME SequenceInv, NEW p \in Qualifiers, ReserveTurn(p)
    PROVE  SequenceInv'
  <1>0. UNCHANGED <<fileVars, claims, routes, admissions, decisions, sessions, qualified>>
    BY DEF ReserveTurn, ledgerVars
  <1>1. at[p].step \in Paying /\ at[p].n \in Ordinals
    BY PaySteps DEF ReserveTurn, Stands, SequenceInv, SequenceTypes, QualifierRow
  <1>2. budget \subseteq budget' /\ budget' \subseteq Ordinals
    BY <1>1 DEF ReserveTurn, Request, SequenceInv, SequenceTypes
  <1>3. CASE Move(p, IF at[p].n = 1 THEN "claim" ELSE "consume")
    <2> PICK step : step = IF at[p].n = 1 THEN "claim" ELSE "consume"  OBVIOUS
    <2>1. step \in Paying /\ step \in QualifierSteps /\ (step = "claim" => at[p].n = 1)  BY PaySteps
    <2>2. Move(p, step)  BY <1>3
    <2> PICK row : Becomes(p, row, step, at[p].n, at[p].result)
      BY <2>1, <2>2, ProcessMoves DEF SequenceInv
    <2> QED  BY <1>0, <1>1, <1>2, <2>1, PayKeeps
  <1>4. CASE Refuse(p) /\ UNCHANGED budget  BY <1>0, <1>4, RefuseKeeps
  <1> QED  BY <1>3, <1>4 DEF ReserveTurn, Request

(* The turn's owner goes on without a write. *)
LEMMA TurnKeeps ==
    ASSUME SequenceInv, NEW p \in Qualifiers, at[p].step \in Unrecorded, NEW row,
           NEW step \in {"checkpoint", "read", "record", "append"}, NEW result,
           Becomes(p, row, step, at[p].n, result),
           UNCHANGED <<fileVars, claims, routes, admissions, decisions, sessions, qualified, budget>>,
           step \in Native => at[p].step \in Native,
           step = "record" => result = "blocked",
           step = "append" => result \in Results /\ (result \in Unfinished \/ at[p].step \in Native)
    PROVE  SequenceInv'
  <1>1. /\ row \in QualifierRow /\ row.step = step /\ row.n = at[p].n /\ row.result = result
    BY DEF Becomes
  <1>2. RowInv(at[p])  BY DEF SequenceInv
  <1>3. step \notin PlanSteps /\ step \in Owning /\ at[p].step \in Owning
    BY DEF Owning, Unrecorded, Native, PlanSteps
  <1>4. RowInv(row)
    BY <1>1, <1>2 DEF RowInv, Owning, Paying, Unrecorded, Native, Recorded, Closing, PlanSteps
  <1> QED  BY <1>3, <1>4, QuietKeeps DEF SequenceInv, SequenceTypes

(* A result is kept by its owner until it is recorded. *)
LEMMA AnswerKeeps ==
    ASSUME SequenceInv, NEW p \in Qualifiers, at[p].step \in Unrecorded,
           NEW result \in Results, Answer(p, result),
           UNCHANGED <<fileVars, claims, routes, admissions, decisions, sessions, qualified, budget>>,
           result \in Unfinished \/ at[p].step \in Native
    PROVE  SequenceInv'
  <1> PICK step : step = IF result = "blocked" THEN "record" ELSE "append"  OBVIOUS
  <1> PICK row : Becomes(p, row, step, at[p].n, result)  BY ProcessAnswers DEF SequenceInv
  <1>1. /\ step \in {"checkpoint", "read", "record", "append"} /\ step \notin Native
        /\ step = "record" => result = "blocked"
    BY DEF Native
  <1> QED  BY <1>1, TurnKeeps

(* The results of a step that fails. *)
LEMMA UnfinishedResults == Unfinished \subseteq Results /\ "blocked" \in Unfinished /\ "ambiguous" \in Unfinished
  BY DEF Unfinished, Results

(* The native steps of a turn. *)
LEMMA TurnStepsKeep ==
    ASSUME SequenceInv, NEW p \in Qualifiers, NEW result \in Results, NEW stops \in BOOLEAN,
           BeginTurn(p) \/ CheckpointTurn(p) \/ ReadResponse(p, result) \/ RecordBlocked(p, stops)
    PROVE  SequenceInv'
  <1>0. UNCHANGED <<fileVars, claims, routes, admissions, decisions, sessions, qualified, budget>>
    BY DEF BeginTurn, CheckpointTurn, ReadResponse, RecordBlocked, ledgerVars
  <1>u. at[p].step \in Unrecorded
    BY DEF BeginTurn, CheckpointTurn, ReadResponse, RecordBlocked, Stands, Unrecorded, Native
  <1>1. CASE (BeginTurn(p) \/ CheckpointTurn(p)) /\ (Move(p, "checkpoint") \/ Move(p, "read"))
    <2> PICK step \in {"checkpoint", "read"} : Move(p, step)  BY <1>1
    <2>1. step \in QualifierSteps  BY SequenceSteps
    <2> PICK row : Becomes(p, row, step, at[p].n, at[p].result)
      BY <2>1, ProcessMoves DEF SequenceInv
    <2>2. at[p].step \in Native  BY <1>1 DEF BeginTurn, CheckpointTurn, Stands, Native
    <2> QED  BY <1>0, <1>u, <2>2, TurnKeeps
  <1>2. CASE Answer(p, "blocked") \/ Answer(p, "ambiguous")
    BY <1>0, <1>u, <1>2, UnfinishedResults, AnswerKeeps
  <1>3. CASE Refuse(p)  BY <1>0, <1>3, RefuseKeeps
  <1>4. CASE ReadResponse(p, result) /\ Answer(p, result)
    <2>1. at[p].step \in Native  BY <1>4 DEF ReadResponse, Stands, Native
    <2> QED  BY <1>0, <1>u, <1>4, <2>1, AnswerKeeps
  <1>5. CASE RecordBlocked(p, stops)
    <2> PICK row : Becomes(p, row, "append", at[p].n, at[p].result)
      BY <1>5, ProcessMoves, SequenceSteps DEF SequenceInv, RecordBlocked
    <2>1. at[p].step = "record"  BY <1>5 DEF RecordBlocked, Stands
    <2>2. at[p].result = "blocked"  BY <2>1 DEF SequenceInv, RowInv
    <2>3. "append" \notin Native  BY DEF Native
    <2> QED  BY <1>0, <1>u, <2>2, <2>3, UnfinishedResults, TurnKeeps
  <1> QED  BY <1>1, <1>2, <1>3, <1>4, <1>5 DEF BeginTurn, NativeFails, CheckpointTurn, ReadResponse

(* A route changes at n, for the process that pays for n. *)
LEMMA RouteKeeps ==
    ASSUME SequenceInv, NEW p \in Qualifiers, at[p].step \in Paying, NEW row, NEW step \in Paying,
           Becomes(p, row, step, at[p].n, at[p].result),
           UNCHANGED <<fileVars, claims, decisions, sessions, qualified, budget>>,
           NEW value \in {"issued", "reserving", "consumed"}, routes' = [routes EXCEPT ![at[p].n] = value],
           at[p].n > 1, at[p].n - 1 \in decisions,
           \/ admissions' = admissions /\ step # "claim" /\ (at[p].n \in admissions => value = "consumed")
           \/ admissions' = admissions \cup {at[p].n} /\ value = "consumed"
    PROVE  SequenceInv'
  <1> PICK n \in Ordinals : n = at[p].n  BY DEF SequenceInv, SequenceTypes, QualifierRow
  <1>1. /\ row \in QualifierRow /\ row.step = step /\ row.n = n /\ at' = [at EXCEPT ![p] = row]
    BY DEF Becomes
  <1>2. /\ files' = files /\ results' = results /\ claims' = claims
        /\ decisions' = decisions /\ sessions' = sessions /\ qualified' = qualified /\ budget' = budget
    BY DEF fileVars
  <1>3. step \notin PlanSteps /\ step \notin Owning
    BY DEF Paying, Owning, Unrecorded, Native, Recorded, Closing, PlanSteps
  <1>4. Grow /\ \A q \in Qualifiers \ {p} : KnownUntouched(at[q])  BY <1>2 DEF Grow, KnownUntouched
  <1>5. RowInv(row)'
    <2>1. RowInv(at[p])  BY DEF SequenceInv
    <2>2. \A j \in Ordinals : j < n => j \in decisions  BY <2>1 DEF RowInv
    <2>3. step = "claim" => n \in admissions'  OBVIOUS
    <2> QED  BY <1>1, <1>2, <1>3, <2>2, <2>3 DEF RowInv, Paying, Owning, Unrecorded, Native, Recorded, Closing, PlanSteps
  <1>6. SequenceTypes'
    <2>1. at' \in [Qualifiers -> QualifierRow]  BY <1>1 DEF SequenceInv, SequenceTypes
    <2>2. routes' \in [Ordinals -> {"none", "issued", "reserving", "consumed"}]
      BY DEF SequenceInv, SequenceTypes
    <2>3. admissions' \subseteq Ordinals  BY DEF SequenceInv, SequenceTypes
    <2> QED  BY <2>1, <2>2, <2>3, <1>2 DEF SequenceInv, SequenceTypes
  <1>7. StoresInv'
    <2>1. Events' = Events  BY <1>2 DEF Events
    <2>2. /\ routes'[n] = value /\ \A m \in Ordinals \ {n} : routes'[m] = routes[m]
      BY DEF SequenceInv, SequenceTypes
    <2>3. \A m \in Ordinals : /\ routes'[m] # "none" => m > 1 /\ m - 1 \in decisions
                              /\ m \in admissions' => routes'[m] = "consumed"
      BY <2>2 DEF SequenceInv, StoresInv
    <2>4. admissions \subseteq admissions'  OBVIOUS
    <2> QED  BY <1>2, <2>1, <2>3, <2>4 DEF SequenceInv, StoresInv
  <1>8. SealedInv'
    BY <1>1, <1>2, <1>3, SealStays DEF fileVars
  <1> QED  BY <1>1, <1>3, <1>4, <1>5, <1>6, <1>7, <1>8, MoveKeeps

(* The route from a decided answer. *)
LEMMA AuthorizeFallbackKeeps ==
    ASSUME SequenceInv, NEW p \in Qualifiers, AuthorizeFallback(p)
    PROVE  SequenceInv'
  <1> PICK n \in Ordinals : n = at[p].n  BY DEF SequenceInv, SequenceTypes, QualifierRow
  <1>0. UNCHANGED <<fileVars, claims, admissions, decisions, sessions, qualified, budget>>
    BY DEF AuthorizeFallback
  <1>1. at[p].step \in Paying  BY PaySteps DEF AuthorizeFallback, Stands
  <1>2. CASE /\ n - 1 \in decisions /\ Move(p, "fence")
             /\ routes' = [routes EXCEPT ![n] = IF @ = "none" THEN "issued" ELSE @]
    <2> PICK row : Becomes(p, row, "fence", at[p].n, at[p].result)
      BY <1>2, ProcessMoves, SequenceSteps DEF SequenceInv
    <2> PICK value : value = IF routes[n] = "none" THEN "issued" ELSE routes[n]  OBVIOUS
    <2>1. routes' = [routes EXCEPT ![n] = value]  BY <1>2
    <2>2. value \in {"issued", "reserving", "consumed"}  BY DEF SequenceInv, SequenceTypes
    <2>3. n \in admissions => value = "consumed"  BY DEF SequenceInv, StoresInv
    <2>4. n > 1 /\ n - 1 \in decisions
      BY <1>2, SequenceAssumption DEF SequenceInv, SequenceTypes, Ordinals
    <2>5. "fence" \in Paying /\ "fence" # "claim"  BY PaySteps
    <2> QED  BY <1>0, <1>1, <2>1, <2>2, <2>3, <2>4, <2>5, RouteKeeps
  <1>3. CASE Refuse(p) /\ UNCHANGED routes  BY <1>0, <1>3, RefuseKeeps
  <1> QED  BY <1>2, <1>3 DEF AuthorizeFallback, Request

(* The fence of an issued route. *)
LEMMA FenceFallbackKeeps ==
    ASSUME SequenceInv, NEW p \in Qualifiers, FenceFallback(p)
    PROVE  SequenceInv'
  <1> PICK n \in Ordinals : n = at[p].n  BY DEF SequenceInv, SequenceTypes, QualifierRow
  <1>0. UNCHANGED <<fileVars, claims, admissions, decisions, sessions, qualified, budget>>
    BY DEF FenceFallback
  <1>1. at[p].step \in Paying /\ "reserve" \in Paying /\ "reserve" # "claim"
    BY PaySteps DEF FenceFallback, Stands
  <1>t. SequenceTypes /\ TRUE \in BOOLEAN /\ FALSE \in BOOLEAN /\ (n \in budget) \in BOOLEAN
    BY DEF SequenceInv
  <1>2. CASE /\ UNCHANGED routes
             /\ Reserving(p, TRUE) \/ Reserving(p, n \in budget)
    <2> PICK row : Becomes(p, row, "reserve", at[p].n, at[p].result)
      BY <1>2, <1>t, ProcessReserves
    <2> QED  BY <1>0, <1>1, <1>2, PayKeeps DEF SequenceInv, SequenceTypes
  <1>3. CASE /\ n \notin admissions /\ routes[n] = "issued"
             /\ routes' = [routes EXCEPT ![n] = "reserving"] /\ Reserving(p, FALSE)
    <2> PICK row : Becomes(p, row, "reserve", at[p].n, at[p].result)
      BY <1>3, <1>t, ProcessReserves
    <2>1. n > 1 /\ n - 1 \in decisions  BY <1>3 DEF SequenceInv, StoresInv
    <2>2. "reserving" \in {"issued", "reserving", "consumed"}  OBVIOUS
    <2> QED  BY <1>0, <1>1, <1>3, <2>1, <2>2, RouteKeeps
  <1>4. CASE Refuse(p) /\ UNCHANGED routes  BY <1>0, <1>4, RefuseKeeps
  <1> QED  BY <1>2, <1>3, <1>4 DEF FenceFallback, Request

(* The admission that consumes the route. *)
LEMMA ConsumeFallbackKeeps ==
    ASSUME SequenceInv, NEW p \in Qualifiers, ConsumeFallback(p)
    PROVE  SequenceInv'
  <1> PICK n \in Ordinals : n = at[p].n  BY DEF SequenceInv, SequenceTypes, QualifierRow
  <1>0. UNCHANGED <<fileVars, claims, decisions, sessions, qualified, budget>>
    BY DEF ConsumeFallback
  <1>1. at[p].step \in Paying /\ "claim" \in Paying  BY PaySteps DEF ConsumeFallback, Stands
  <1>2. CASE AdmitSuccessor(n) /\ Move(p, "claim")
    <2> PICK row : Becomes(p, row, "claim", at[p].n, at[p].result)
      BY <1>2, ProcessMoves, SequenceSteps DEF SequenceInv
    <2>1. n > 1 /\ n - 1 \in decisions  BY <1>2 DEF AdmitSuccessor, SequenceInv, StoresInv
    <2>2. "consumed" \in {"issued", "reserving", "consumed"}  OBVIOUS
    <2> QED  BY <1>0, <1>1, <1>2, <2>1, <2>2, RouteKeeps DEF AdmitSuccessor
  <1>3. CASE Refuse(p) /\ UNCHANGED <<routes, admissions>>  BY <1>0, <1>3, RefuseKeeps
  <1> QED  BY <1>2, <1>3 DEF ConsumeFallback, Request

(* One process claims n: it is the request's owner from there on. *)
LEMMA ClaimTurnKeeps ==
    ASSUME SequenceInv, NEW p \in Qualifiers, ClaimTurn(p)
    PROVE  SequenceInv'
  <1> PICK n \in Ordinals : n = at[p].n  BY DEF SequenceInv, SequenceTypes, QualifierRow
  <1>0. UNCHANGED <<fileVars, routes, admissions, decisions, sessions, qualified, budget>>
    BY DEF ClaimTurn
  <1>1. CASE n \notin claims /\ claims' = claims \cup {n} /\ Move(p, "open")
    <2> PICK row : Becomes(p, row, "open", at[p].n, at[p].result)
      BY <1>1, ProcessMoves, SequenceSteps DEF SequenceInv
    <2>1. /\ row \in QualifierRow /\ row.step = "open" /\ row.n = n /\ at' = [at EXCEPT ![p] = row]
      BY DEF Becomes
    <2>2. /\ files' = files /\ results' = results /\ routes' = routes /\ admissions' = admissions
          /\ decisions' = decisions /\ sessions' = sessions /\ qualified' = qualified /\ budget' = budget
      BY <1>0 DEF fileVars
    <2>3. Grow /\ \A q \in Qualifiers \ {p} : KnownUntouched(at[q])  BY <1>1, <2>2 DEF Grow, KnownUntouched
    <2>4. sessions[n] = 0 /\ Event(n) \notin files
      BY <1>1 DEF SequenceInv, StoresInv, SequenceTypes
    <2>5. RowInv(row)'
      <3>1. RowInv(at[p]) /\ at[p].step = "claim"  BY DEF SequenceInv, ClaimTurn, Stands
      <3>2. /\ \A j \in Ordinals : j < n => j \in decisions
            /\ n > 1 => n \in admissions
        BY <3>1, PaySteps DEF RowInv
      <3> QED  BY <1>1, <2>1, <2>2, <2>4, <3>2
             DEF RowInv, Owning, Paying, Unrecorded, Native, Recorded, Closing, PlanSteps
    <2>6. SequenceTypes'
      <3>1. at' \in [Qualifiers -> QualifierRow]  BY <2>1 DEF SequenceInv, SequenceTypes
      <3>2. claims' \subseteq Ordinals  BY <1>1 DEF SequenceInv, SequenceTypes
      <3> QED  BY <3>1, <3>2, <2>2 DEF SequenceInv, SequenceTypes
    <2>7. StoresInv'
      <3>1. Events' = Events  BY <2>2 DEF Events
      <3> QED  BY <1>1, <2>2, <3>1 DEF SequenceInv, StoresInv
    <2>8. ~qualified
      <3> SUFFICES ASSUME qualified PROVE FALSE  OBVIOUS
      <3> PICK m \in Events : results[m] = "accepted"  BY DEF SequenceInv, SealedInv
      <3>1. m \in Ordinals /\ m \notin decisions  BY DEF SequenceInv, StoresInv, Events
      <3>2. RowInv(at[p]) /\ at[p].step = "claim"  BY DEF SequenceInv, ClaimTurn, Stands
      <3>3. ~(m < n)  BY <3>1, <3>2, PaySteps DEF RowInv
      <3>4. n <= m /\ n >= 1 /\ n \in Int /\ m \in Int
        BY <3>1, <3>3, SequenceAssumption DEF Ordinals
      <3>5. m \in 1..Cardinality(Events) /\ Cardinality(Events) \in 0..Requests
        BY DEF SequenceInv, StoresInv
      <3>6. n \in 1..Cardinality(Events)  BY <3>4, <3>5, SequenceAssumption
      <3>7. n \in Events  BY <3>6 DEF SequenceInv, StoresInv
      <3>8. Event(n) \in files  BY <3>7 DEF Events
      <3> QED  BY <2>4, <3>8
    <2>9. SealedInv'  BY <2>2, <2>8 DEF SealedInv
    <2>10. "open" \notin PlanSteps  BY DEF PlanSteps
    <2> QED  BY <1>1, <2>1, <2>3, <2>5, <2>6, <2>7, <2>9, <2>10, MoveKeeps
  <1>2. CASE Refuse(p) /\ UNCHANGED claims  BY <1>0, <1>2, RefuseKeeps
  <1> QED  BY <1>1, <1>2 DEF ClaimTurn, Request, Claimable

(* Where a process stands after it tried to open a session. *)
Opened(p, row) ==
    /\ row \in QualifierRow /\ at' = [at EXCEPT ![p] = row]
    /\ \/ row.step = "turn" /\ row.n = at[p].n
       \/ row.step = "record" /\ row.n = at[p].n /\ row.result = "blocked"
       \/ row.step = "append" /\ row.n = at[p].n /\ row.result = "ambiguous"
       \/ row.step = "idle"

(* Only the process that opened one goes on. *)
LEMMA ProcessOpens ==
    ASSUME SequenceTypes, NEW p \in Qualifiers
    PROVE  /\ Move(p, "turn") => \E row : Opened(p, row)
           /\ NativeFails(p) => \E row : Opened(p, row) /\ row.step # "turn"
  <1>1. ASSUME Move(p, "turn") PROVE \E row : Opened(p, row)
    <2> PICK row : Becomes(p, row, "turn", at[p].n, at[p].result)
      BY <1>1, ProcessMoves, SequenceSteps
    <2> QED  BY DEF Becomes, Opened
  <1>2. ASSUME NativeFails(p) PROVE \E row : Opened(p, row) /\ row.step # "turn"
    <2>2. CASE Answer(p, "blocked")
      <3> PICK row : Becomes(p, row, "record", at[p].n, "blocked")
        BY <2>2, UnfinishedResults, ProcessAnswers
      <3> QED  BY DEF Becomes, Opened
    <2>3. CASE Answer(p, "ambiguous")
      <3> PICK row : Becomes(p, row, "append", at[p].n, "ambiguous")
        BY <2>3, UnfinishedResults, ProcessAnswers
      <3> QED  BY DEF Becomes, Opened
    <2>4. CASE Refuse(p)
      <3> PICK row : Becomes(p, row, "idle", 1, "none")  BY <2>4, ProcessRefuses
      <3> QED  BY DEF Becomes, Opened
    <2> QED  BY <1>2, <2>2, <2>3, <2>4 DEF NativeFails
  <1> QED  BY <1>1, <1>2

(* The owner of n opens its session, once; a failed opening may have left it. *)
LEMMA OpenSessionKeeps ==
    ASSUME SequenceInv, NEW p \in Qualifiers, OpenSession(p)
    PROVE  SequenceInv'
  <1> PICK n \in Ordinals : n = at[p].n  BY DEF SequenceInv, SequenceTypes, QualifierRow
  <1>0. UNCHANGED <<fileVars, claims, routes, admissions, decisions, qualified, budget>>
    BY DEF OpenSession, ledgerVars
  <1>o. at[p].step = "open" /\ at[p].step \in Unrecorded /\ at[p].step \in Owning
    BY DEF OpenSession, Stands, Unrecorded, Native, Owning
  <1>i. RowInv(at[p])  BY DEF SequenceInv
  <1>1. ASSUME n \in budget, NEW count \in {0, 1}, sessions' = [sessions EXCEPT ![n] = @ + count],
               (count = 1 /\ Move(p, "turn")) \/ NativeFails(p)
        PROVE  SequenceInv'
    <2> PICK row : Opened(p, row) /\ (row.step = "turn" => count = 1)
      BY <1>1, ProcessOpens DEF SequenceInv
    <2>1. /\ row \in QualifierRow /\ at' = [at EXCEPT ![p] = row]
          /\ \/ row.step = "turn" /\ row.n = n /\ count = 1
             \/ row.step = "record" /\ row.n = n /\ row.result = "blocked"
             \/ row.step = "append" /\ row.n = n /\ row.result = "ambiguous"
             \/ row.step = "idle"
      BY DEF Opened
    <2>0. sessions[n] = 0 /\ sessions \in [Ordinals -> Nat]
      BY <1>o, <1>i DEF RowInv, SequenceInv, SequenceTypes
    <2>2. /\ files' = files /\ results' = results /\ routes' = routes /\ admissions' = admissions
          /\ decisions' = decisions /\ claims' = claims /\ qualified' = qualified /\ budget' = budget
      BY <1>0 DEF fileVars
    <2>3. sessions'[n] = count /\ \A m \in Ordinals \ {n} : sessions'[m] = sessions[m]
      <3>1. sessions[n] + count = count  BY <2>0
      <3> QED  BY <1>1, <2>0, <3>1
    <2>4. /\ \A j \in Ordinals : j < n => j \in decisions
          /\ n > 1 => n \in admissions
          /\ n \in claims /\ Event(n) \notin files
      BY <1>o, <1>i DEF RowInv
    <2>5. Grow  BY <2>2 DEF Grow
    <2>6. \A q \in Qualifiers \ {p} : KnownUntouched(at[q])
      <3> TAKE q \in Qualifiers \ {p}
      <3>1. at[q].n \in Ordinals  BY DEF SequenceInv, SequenceTypes, QualifierRow
      <3>2. at[q].step \in Owning => at[q].n # n  BY <1>o DEF SequenceInv, PairInv
      <3> QED  BY <2>2, <2>3, <3>1, <3>2 DEF KnownUntouched
    <2>7. RowInv(row)'
      <3>1. CASE row.step = "idle"
        BY <3>1 DEF RowInv, Owning, Paying, Unrecorded, Native, Recorded, Closing, PlanSteps
      <3>2. CASE row.step # "idle"
        BY <2>1, <2>2, <2>3, <2>4, <3>2, UnfinishedResults
           DEF RowInv, Owning, Paying, Unrecorded, Native, Recorded, Closing, PlanSteps
      <3> QED  BY <3>1, <3>2
    <2>8. SequenceTypes'
      <3>1. at' \in [Qualifiers -> QualifierRow]  BY <2>1 DEF SequenceInv, SequenceTypes
      <3>2. sessions' \in [Ordinals -> Nat]  BY <1>1, <2>0
      <3> QED  BY <3>1, <3>2, <2>2 DEF SequenceInv, SequenceTypes
    <2>9. StoresInv'
      <3>1. Events' = Events  BY <2>2 DEF Events
      <3> QED  BY <1>1, <2>2, <2>3, <2>4, <3>1 DEF SequenceInv, StoresInv
    <2>10. SealedInv'
      <3>1. ~qualified  BY <1>o DEF SequenceInv, SealedInv
      <3> QED  BY <2>2, <3>1 DEF SealedInv
    <2>11. row.step \notin PlanSteps /\ (row.step \in Owning => row.n = n)
      BY <2>1 DEF PlanSteps, Owning, Unrecorded, Native, Recorded, Closing
    <2> QED  BY <1>o, <2>1, <2>5, <2>6, <2>7, <2>8, <2>9, <2>10, <2>11, MoveKeeps
  <1>2. CASE Answer(p, "blocked") /\ UNCHANGED sessions
    BY <1>0, <1>o, <1>2, UnfinishedResults, AnswerKeeps
  <1>3. CASE Refuse(p) /\ UNCHANGED sessions  BY <1>0, <1>3, RefuseKeeps
  <1> QED  BY <1>1, <1>2, <1>3 DEF OpenSession, Request

(* A file that is not an event takes its name. *)
LEMMA PublishKeeps ==
    ASSUME SequenceInv, NEW p \in Qualifiers, NEW row, NEW step, NEW n, NEW result, NEW name,
           Becomes(p, row, step, n, result), files' = files \cup {name},
           UNCHANGED <<results, claims, routes, admissions, decisions, sessions, qualified, budget>>,
           ~qualified, \A m \in Ordinals : name # Event(m),
           \A m \in Ordinals : name = Receipt(m) => at[p].step \in Owning /\ m = at[p].n,
           name = Doc("plan-receipt") => at[p].step \in PlanSteps,
           RowInv(row)',
           step \in Owning => at[p].step \in Owning /\ at[p].n = n,
           step \in PlanSteps => at[p].step \in PlanSteps \/ Doc("directory") \notin files
    PROVE  SequenceInv'
  <1>1. /\ row \in QualifierRow /\ row.step = step /\ row.n = n /\ at' = [at EXCEPT ![p] = row]
    BY DEF Becomes
  <1>2. Grow  BY DEF Grow
  <1>3. \A q \in Qualifiers \ {p} : KnownUntouched(at[q])
    <2> TAKE q \in Qualifiers \ {p}
    <2>1. at[q].n \in Ordinals  BY DEF SequenceInv, SequenceTypes, QualifierRow
    <2>2. /\ ~(at[p].step \in Owning /\ at[q].step \in Owning /\ at[p].n = at[q].n)
          /\ ~(at[p].step \in PlanSteps /\ at[q].step \in PlanSteps)
      BY DEF SequenceInv, PairInv
    <2> QED  BY <2>1, <2>2 DEF KnownUntouched
  <1>4. SequenceTypes'
    <2>1. at' \in [Qualifiers -> QualifierRow]  BY <1>1 DEF SequenceInv, SequenceTypes
    <2> QED  BY <2>1 DEF SequenceInv, SequenceTypes
  <1>5. StoresInv'
    <2>1. Events' = Events  BY DEF Events
    <2>2. Doc("plan-receipt") \in files' => Doc("directory") \in files'
      BY DEF SequenceInv, StoresInv, RowInv
    <2>3. \A m \in Ordinals : Event(m) \in files' <=> Event(m) \in files  OBVIOUS
    <2>4. decisions \subseteq Ordinals  BY DEF SequenceInv, SequenceTypes
    <2> QED  BY <2>1, <2>2, <2>3, <2>4 DEF SequenceInv, StoresInv
  <1>6. SealedInv'  BY DEF SealedInv
  <1> QED  BY <1>1, <1>2, <1>3, <1>4, <1>5, <1>6, MoveKeeps

(* One of the documents takes its name. *)
LEMMA PublishDocKeeps ==
    ASSUME SequenceInv, NEW p \in Qualifiers, NEW row, NEW step, NEW n, NEW result,
           NEW doc \in {"directory", "plan", "plan-receipt", "terminal", "terminal-receipt", "unfinished"},
           Becomes(p, row, step, n, result), files' = files \cup {Doc(doc)},
           UNCHANGED <<results, claims, routes, admissions, decisions, sessions, qualified, budget>>,
           ~qualified, doc = "plan-receipt" => at[p].step \in PlanSteps, RowInv(row)',
           step \in Owning => at[p].step \in Owning /\ at[p].n = n,
           step \in PlanSteps => at[p].step \in PlanSteps \/ Doc("directory") \notin files
    PROVE  SequenceInv'
  <1> PICK name : name = Doc(doc)  OBVIOUS
  <1>1. \A m \in Ordinals : name # Event(m) /\ name # Receipt(m)  BY FileNames
  <1>2. name = Doc("plan-receipt") => doc = "plan-receipt"  BY DEF Doc
  <1> QED  BY <1>1, <1>2, PublishKeeps

(* The directory is made once. *)
LEMMA PrepareKeeps ==
    ASSUME SequenceInv, NEW p \in Qualifiers, Prepare(p)
    PROVE  SequenceInv'
  <1>0. UNCHANGED <<results, claims, routes, admissions, decisions, sessions, qualified, budget>>
    BY DEF Prepare, ledgerVars
  <1>1. CASE Doc("directory") \in files
    <2>1. Move(p, "resume") /\ UNCHANGED files  BY <1>1 DEF Prepare
    <2> PICK row : Becomes(p, row, "resume", at[p].n, at[p].result)
      BY <2>1, ProcessMoves, SequenceSteps DEF SequenceInv
    <2>2. RowInv(row)  BY RefusedKnowsNothing DEF Becomes
    <2>3. "resume" \notin PlanSteps /\ "resume" \notin Owning
      BY DEF Owning, Unrecorded, Native, Recorded, Closing, PlanSteps
    <2> QED  BY <1>0, <2>1, <2>2, <2>3, QuietKeeps DEF SequenceInv, SequenceTypes, fileVars
  <1>2. CASE Doc("directory") \notin files
    <2>1. Move(p, "plan") /\ files' = files \cup {Doc("directory")}  BY <1>2 DEF Prepare, Publish
    <2> PICK row : Becomes(p, row, "plan", at[p].n, at[p].result)
      BY <2>1, ProcessMoves, SequenceSteps DEF SequenceInv
    <2>2. Doc("plan-receipt") \notin files  BY <1>2 DEF SequenceInv, StoresInv
    <2>3. Doc("directory") \in files' /\ Doc("plan-receipt") \notin files'
      BY <2>1, <2>2, FileNames
    <2>4. row.step = "plan"  BY DEF Becomes
    <2>5. RowInv(row)'
      BY <2>3, <2>4 DEF RowInv, Owning, Paying, Unrecorded, Native, Recorded, Closing, PlanSteps
    <2>6. ~qualified  BY <2>2 DEF SequenceInv, SealedInv, Readable
    <2>7. "plan" \notin Owning  BY DEF Owning, Unrecorded, Native, Recorded, Closing
    <2> QED  BY <1>0, <1>2, <2>1, <2>5, <2>6, <2>7, PublishDocKeeps
  <1> QED  BY <1>1, <1>2

(* Its maker writes the plan and the receipt. *)
LEMMA PublishPlanKeeps ==
    ASSUME SequenceInv, NEW p \in Qualifiers, PublishPlan(p)
    PROVE  SequenceInv'
  <1>0. UNCHANGED <<results, claims, routes, admissions, decisions, sessions, qualified, budget>>
    BY DEF PublishPlan, ledgerVars
  <1>1. at[p].step \in PlanSteps  BY DEF PublishPlan, Stands, PlanSteps
  <1>2. ~qualified  BY <1>1 DEF SequenceInv, SealedInv
  <1>3. Doc("directory") \in files /\ Doc("plan-receipt") \notin files
    BY <1>1 DEF SequenceInv, RowInv
  <1>4. CASE files' = files \cup {Doc("plan")} /\ Move(p, "plan-receipt")
    <2> PICK row : Becomes(p, row, "plan-receipt", at[p].n, at[p].result)
      BY <1>4, ProcessMoves, SequenceSteps DEF SequenceInv
    <2>1. Doc("directory") \in files' /\ Doc("plan-receipt") \notin files'
      BY <1>3, <1>4, FileNames
    <2>2. row.step = "plan-receipt"  BY DEF Becomes
    <2>3. RowInv(row)'
      BY <2>1, <2>2 DEF RowInv, Owning, Paying, Unrecorded, Native, Recorded, Closing, PlanSteps
    <2>4. "plan-receipt" \notin Owning  BY DEF Owning, Unrecorded, Native, Recorded, Closing
    <2> QED  BY <1>0, <1>1, <1>2, <1>4, <2>3, <2>4, PublishDocKeeps
  <1>5. CASE files' = files \cup {Doc("plan-receipt")} /\ Move(p, "resume")
    <2> PICK row : Becomes(p, row, "resume", at[p].n, at[p].result)
      BY <1>5, ProcessMoves, SequenceSteps DEF SequenceInv
    <2>2. row.step = "resume"  BY DEF Becomes
    <2>3. RowInv(row)'
      BY <2>2 DEF RowInv, Owning, Paying, Unrecorded, Native, Recorded, Closing, PlanSteps
    <2>4. "resume" \notin Owning /\ "resume" \notin PlanSteps
      BY DEF Owning, Unrecorded, Native, Recorded, Closing, PlanSteps
    <2> QED  BY <1>0, <1>1, <1>2, <1>5, <2>3, <2>4, PublishDocKeeps
  <1> QED  BY <1>4, <1>5 DEF PublishPlan, Publish

(* An event's owner writes its receipt. *)
LEMMA AppendReceiptKeeps ==
    ASSUME SequenceInv, NEW p \in Qualifiers, AppendReceipt(p)
    PROVE  SequenceInv'
  <1> PICK n \in Ordinals : n = at[p].n  BY DEF SequenceInv, SequenceTypes, QualifierRow
  <1>0. UNCHANGED <<results, claims, routes, admissions, decisions, sessions, qualified, budget>>
    BY DEF AppendReceipt, ledgerVars
  <1>1. at[p].step = "receipt" /\ at[p].step \in Owning /\ at[p].step \in Recorded
    BY DEF AppendReceipt, Stands, Owning, Recorded
  <1>2. ~qualified  BY <1>1 DEF SequenceInv, SealedInv
  <1> PICK step : step = IF at[p].result = "format" THEN "decide" ELSE "terminal"  OBVIOUS
  <1>3. Move(p, step) /\ files' = files \cup {Receipt(n)}  BY DEF AppendReceipt, Publish, Request
  <1>4. step \in QualifierSteps /\ step \in {"decide", "terminal"}  BY SequenceSteps
  <1> PICK row : Becomes(p, row, step, at[p].n, at[p].result)
    BY <1>3, <1>4, ProcessMoves DEF SequenceInv
  <1>5. row.step = step /\ row.n = n /\ row.result = at[p].result  BY DEF Becomes
  <1>6. /\ \A j \in Ordinals : j < n => j \in decisions
        /\ n > 1 => n \in admissions
        /\ n \in claims /\ Event(n) \in files /\ results[n] = at[p].result
        /\ n \notin decisions
    <2> RowInv(at[p])  BY DEF SequenceInv
    <2> QED  BY <1>1 DEF RowInv
  <1>7. RowInv(row)'
    BY <1>0, <1>3, <1>4, <1>5, <1>6
       DEF RowInv, Owning, Paying, Unrecorded, Native, Recorded, Closing, PlanSteps
  <1>8. step \notin PlanSteps  BY <1>4 DEF PlanSteps
  <1> PICK name : name = Receipt(n)  OBVIOUS
  <1>9. /\ \A m \in Ordinals : name # Event(m) /\ (name = Receipt(m) => m = n)
        /\ name # Doc("plan-receipt")
    BY FileNames
  <1> QED  BY <1>0, <1>1, <1>2, <1>3, <1>7, <1>8, <1>9, PublishKeeps

(* An owner closes the record. *)
LEMMA FinalizeKeeps ==
    ASSUME SequenceInv, NEW p \in Qualifiers, Finalize(p) \/ FinalizeReceipt(p)
    PROVE  SequenceInv'
  <1> PICK n \in Ordinals : n = at[p].n  BY DEF SequenceInv, SequenceTypes, QualifierRow
  <1>0. UNCHANGED <<results, claims, routes, admissions, decisions, sessions, qualified, budget>>
    BY DEF Finalize, FinalizeReceipt, ledgerVars
  <1>1. /\ at[p].step \in {"terminal", "terminal-receipt"} /\ at[p].step \in Owning
        /\ at[p].step \in Recorded /\ at[p].step \in Closing
    BY DEF Finalize, FinalizeReceipt, Stands, Owning, Recorded, Closing
  <1>2. ~qualified  BY <1>1 DEF SequenceInv, SealedInv
  <1>i. RowInv(at[p])  BY DEF SequenceInv
  <1>6. /\ \A j \in Ordinals : j < n => j \in decisions
        /\ n > 1 => n \in admissions
        /\ n \in claims /\ Event(n) \in files /\ results[n] = at[p].result
        /\ at[p].result # "format" \/ n = Requests
    BY <1>1, <1>i DEF RowInv
  <1>3. CASE Finalize(p)
    <2>1. Move(p, "terminal-receipt") /\ files' = files \cup {Doc("terminal")}
      BY <1>3 DEF Finalize, Publish
    <2> PICK row : Becomes(p, row, "terminal-receipt", at[p].n, at[p].result)
      BY <2>1, ProcessMoves, SequenceSteps DEF SequenceInv
    <2>2. row.step = "terminal-receipt" /\ row.n = n /\ row.result = at[p].result  BY DEF Becomes
    <2>3. RowInv(row)'
      BY <1>0, <1>6, <2>1, <2>2
         DEF RowInv, Owning, Paying, Unrecorded, Native, Recorded, Closing, PlanSteps
    <2>4. "terminal-receipt" \notin PlanSteps  BY DEF PlanSteps
    <2> QED  BY <1>0, <1>1, <1>2, <2>1, <2>3, <2>4, PublishDocKeeps
  <1>4. CASE FinalizeReceipt(p)
    <2>1. files' = files \cup {Doc("terminal-receipt")} /\ at[p].step = "terminal-receipt"
      BY <1>4 DEF FinalizeReceipt, Publish, Stands
    <2>2. CASE at[p].result = "accepted"
      <3>1. Move(p, "seal")  BY <1>4, <2>2 DEF FinalizeReceipt
      <3> PICK row : Becomes(p, row, "seal", at[p].n, at[p].result)
        BY <3>1, ProcessMoves, SequenceSteps DEF SequenceInv
      <3>2. row.step = "seal" /\ row.n = n /\ row.result = "accepted"  BY <2>2 DEF Becomes
      <3>3. Doc("terminal") \in files  BY <1>i, <2>1 DEF RowInv
      <3>4. RowInv(row)'
        BY <1>0, <1>6, <2>1, <2>2, <3>2, <3>3
           DEF RowInv, Owning, Paying, Unrecorded, Native, Recorded, Closing, PlanSteps
      <3>5. "seal" \notin PlanSteps  BY DEF PlanSteps
      <3> QED  BY <1>0, <1>1, <1>2, <2>1, <3>4, <3>5, PublishDocKeeps
    <2>3. CASE Refuse(p)
      <3> PICK row : Becomes(p, row, "idle", 1, "none")  BY <2>3, ProcessRefuses
      <3>1. row.step = "idle"  BY DEF Becomes
      <3>2. RowInv(row)'
        BY <3>1 DEF RowInv, Owning, Paying, Unrecorded, Native, Recorded, Closing, PlanSteps
      <3>3. "idle" \notin PlanSteps /\ "idle" \notin Owning
        BY DEF Owning, Unrecorded, Native, Recorded, Closing, PlanSteps
      <3> QED  BY <1>0, <1>1, <1>2, <2>1, <3>2, <3>3, PublishDocKeeps
    <2> QED  BY <1>4, <2>2, <2>3 DEF FinalizeReceipt
  <1> QED  BY <1>3, <1>4

(* A process ends, perhaps in the middle of a write. *)
LEMMA EndProcessKeeps ==
    ASSUME SequenceInv, NEW p \in Qualifiers, EndProcess(p)
    PROVE  SequenceInv'
  <1>0. UNCHANGED <<results, claims, routes, admissions, decisions, sessions, qualified, budget>> /\ Refuse(p)
    BY DEF EndProcess, ledgerVars
  <1>1. CASE UNCHANGED files  BY <1>0, <1>1, RefuseKeeps DEF fileVars
  <1>2. CASE at[p].step \in Writes /\ files' = files \cup {Doc("unfinished")}
    <2>1. at[p].step \in PlanSteps \cup Owning
      BY <1>2 DEF Writes, Owning, Unrecorded, Native, Recorded, Closing, PlanSteps
    <2>2. ~qualified  BY <2>1 DEF SequenceInv, SealedInv
    <2> PICK row : Becomes(p, row, "idle", 1, "none")  BY <1>0, ProcessRefuses
    <2>3. row.step = "idle"  BY DEF Becomes
    <2>4. RowInv(row)'
      BY <2>3 DEF RowInv, Owning, Paying, Unrecorded, Native, Recorded, Closing, PlanSteps
    <2>5. "idle" \notin PlanSteps /\ "idle" \notin Owning
      BY DEF Owning, Unrecorded, Native, Recorded, Closing, PlanSteps
    <2> QED  BY <1>0, <1>2, <2>2, <2>4, <2>5, PublishDocKeeps
  <1> QED  BY <1>1, <1>2 DEF EndProcess

(* The event of n is the next one. *)
LEMMA EventsGrow ==
    ASSUME SequenceInv, NEW n \in Ordinals, n = Cardinality(Events) + 1,
           files' = files \cup {Event(n)}
    PROVE  /\ Events' = 1..n /\ Events' = 1..Cardinality(Events') /\ Cardinality(Events') \in 0..Requests
           /\ \A m \in Ordinals \ {n} : Event(m) \in files' => Event(m) \in files
  <1>1. \A m \in Ordinals \ {n} : Event(m) \in files' <=> Event(m) \in files  BY FileNames
  <1>2. Events' = Events \cup {n}  BY <1>1 DEF Events
  <1>3. Events = 1..Cardinality(Events) /\ Cardinality(Events) \in 0..Requests
    BY DEF SequenceInv, StoresInv
  <1>4. Events' = 1..n  BY <1>2, <1>3, SequenceAssumption DEF Ordinals
  <1>5. n \in Nat /\ n >= 1 /\ n <= Requests  BY SequenceAssumption DEF Ordinals
  <1>6. Cardinality(1..n) = n  BY <1>5, FS_Interval
  <1> QED  BY <1>1, <1>4, <1>5, <1>6, SequenceAssumption

(* An event's owner appends it. *)
LEMMA AppendEventKeeps ==
    ASSUME SequenceInv, NEW p \in Qualifiers, AppendEvent(p)
    PROVE  SequenceInv'
  <1> PICK n \in Ordinals : n = at[p].n  BY DEF SequenceInv, SequenceTypes, QualifierRow
  <1> PICK result : result = at[p].result  OBVIOUS
  <1>0. UNCHANGED <<claims, routes, admissions, decisions, sessions, qualified, budget>>
    BY DEF AppendEvent, ledgerVars
  <1>o. at[p].step = "append" /\ at[p].step \in Unrecorded /\ at[p].step \in Owning
    BY DEF AppendEvent, Stands, Unrecorded, Native, Owning
  <1>1. CASE /\ n = Cardinality(Events) + 1 /\ files' = files \cup {Event(n)}
             /\ Readable /\ results' = [results EXCEPT ![n] = result] /\ Move(p, "receipt")
    <2> PICK row : Becomes(p, row, "receipt", n, result)
      BY <1>1, ProcessMoves, SequenceSteps DEF SequenceInv
    <2>1. /\ row \in QualifierRow /\ row.step = "receipt" /\ row.n = n /\ row.result = result
          /\ at' = [at EXCEPT ![p] = row]
      BY DEF Becomes
    <2>2. /\ \A j \in Ordinals : j < n => j \in decisions
          /\ n > 1 => n \in admissions
          /\ n \in claims /\ Event(n) \notin files
          /\ result \in Results /\ (result \notin Unfinished => sessions[n] = 1)
      <3> RowInv(at[p])  BY DEF SequenceInv
      <3> QED  BY <1>o DEF RowInv
    <2>3. /\ Events' = 1..Cardinality(Events') /\ Cardinality(Events') \in 0..Requests
          /\ \A m \in Ordinals \ {n} : Event(m) \in files' => Event(m) \in files
      BY <1>1, EventsGrow
    <2>4. results'[n] = result /\ \A m \in Ordinals \ {n} : results'[m] = results[m]
      BY <1>1 DEF SequenceInv, SequenceTypes
    <2>5. n \notin decisions /\ decisions \subseteq Ordinals
      BY <2>2 DEF SequenceInv, StoresInv, SequenceTypes
    <2>6. /\ \A m \in Ordinals : Receipt(m) \in files' => Receipt(m) \in files
          /\ Doc("plan-receipt") \in files' => Doc("plan-receipt") \in files
      BY <1>1, FileNames
    <2>7. Receipt(n) \notin files'
      BY <1>1, <2>2, <2>6 DEF Readable
    <2>8. Grow  BY <1>0, <1>1 DEF Grow
    <2>9. \A q \in Qualifiers \ {p} : KnownUntouched(at[q])
      <3> TAKE q \in Qualifiers \ {p}
      <3>1. at[q].n \in Ordinals  BY DEF SequenceInv, SequenceTypes, QualifierRow
      <3>2. at[q].step \in Owning => at[q].n # n  BY <1>o DEF SequenceInv, PairInv
      <3> QED  BY <1>0, <2>3, <2>4, <2>6, <3>1, <3>2 DEF KnownUntouched
    <2>10. Event(n) \in files'  BY <1>1
    <2>11. RowInv(row)'
      BY <1>0, <2>1, <2>2, <2>4, <2>5, <2>7, <2>10
         DEF RowInv, Owning, Paying, Unrecorded, Native, Recorded, Closing, PlanSteps
    <2>12. SequenceTypes'
      <3>1. at' \in [Qualifiers -> QualifierRow]  BY <2>1 DEF SequenceInv, SequenceTypes
      <3>2. results' \in [Ordinals -> Results \cup {"none"}]
        BY <1>1, <2>2 DEF SequenceInv, SequenceTypes
      <3> QED  BY <3>1, <3>2, <1>0 DEF SequenceInv, SequenceTypes
    <2>13. StoresInv'
      <3>1. Doc("plan-receipt") \in files' => Doc("directory") \in files'
        BY <1>1, <2>6 DEF SequenceInv, StoresInv
      <3>2. \A m \in decisions : Event(m) \in files' /\ results'[m] = "format"
        BY <1>1, <2>4, <2>5 DEF SequenceInv, StoresInv
      <3>3. \A m \in Ordinals : Event(m) \in files' =>
               m \in claims /\ (results'[m] \notin Unfinished => sessions[m] = 1)
        BY <2>2, <2>3, <2>4 DEF SequenceInv, StoresInv
      <3> QED  BY <1>0, <2>3, <3>1, <3>2, <3>3 DEF SequenceInv, StoresInv
    <2>14. SealedInv'
      <3>1. ~qualified  BY <1>o DEF SequenceInv, SealedInv
      <3> QED  BY <1>0, <3>1 DEF SealedInv
    <2>15. "receipt" \notin PlanSteps  BY DEF PlanSteps
    <2> QED  BY <1>o, <2>1, <2>8, <2>9, <2>11, <2>12, <2>13, <2>14, <2>15, MoveKeeps
  <1>2. CASE Refuse(p) /\ UNCHANGED fileVars  BY <1>0, <1>2, RefuseKeeps
  <1> QED  BY <1>1, <1>2 DEF AppendEvent, Request, Publish

(* The owner of n decides its malformed answer and goes on to the next. *)
LEMMA DecideFormatKeeps ==
    ASSUME SequenceInv, NEW p \in Qualifiers, DecideFormat(p)
    PROVE  SequenceInv'
  <1> PICK n \in Ordinals : n = at[p].n  BY DEF SequenceInv, SequenceTypes, QualifierRow
  <1>0. /\ UNCHANGED <<fileVars, claims, routes, admissions, sessions, qualified, budget>>
        /\ decisions' = decisions \cup {n}
    BY DEF DecideFormat, Request
  <1>o. at[p].step = "decide" /\ at[p].step \in Recorded /\ at[p].step \in Owning
    BY DEF DecideFormat, Stands, Recorded, Owning
  <1>1. /\ \A j \in Ordinals : j < n => j \in decisions
        /\ n > 1 => n \in admissions
        /\ n \in claims /\ Event(n) \in files /\ results[n] = "format" /\ at[p].result = "format"
    <2> RowInv(at[p])  BY DEF SequenceInv
    <2> QED  BY <1>o DEF RowInv
  <1>2. \E row : /\ row \in QualifierRow /\ at' = [at EXCEPT ![p] = row]
                 /\ \/ row.step = "terminal" /\ row.n = n /\ n = Requests /\ row.result = "format"
                    \/ row.step = "authorize" /\ row.n = n + 1
    <2>1. CASE n = Requests
      <3>1. Move(p, "terminal")  BY <2>1 DEF DecideFormat, Request
      <3> PICK row : Becomes(p, row, "terminal", n, at[p].result)
        BY <3>1, ProcessMoves, SequenceSteps DEF SequenceInv
      <3> QED  BY <1>1, <2>1 DEF Becomes
    <2>2. CASE n # Requests
      <3> DEFINE row == [at[p] EXCEPT !.n = n + 1, !.step = "authorize"]
      <3>1. at' = [at EXCEPT ![p] = row]  BY <2>2 DEF DecideFormat, Request
      <3>2. n + 1 \in Ordinals  BY <2>2, SequenceAssumption DEF Ordinals
      <3>3. at[p] \in QualifierRow  BY DEF SequenceInv, SequenceTypes
      <3>4. row \in QualifierRow /\ row.step = "authorize" /\ row.n = n + 1
        BY <3>2, <3>3, SequenceSteps DEF QualifierRow
      <3> HIDE DEF row
      <3> QED  BY <3>1, <3>4
    <2> QED  BY <2>1, <2>2
  <1> PICK row : /\ row \in QualifierRow /\ at' = [at EXCEPT ![p] = row]
                 /\ \/ row.step = "terminal" /\ row.n = n /\ n = Requests /\ row.result = "format"
                    \/ row.step = "authorize" /\ row.n = n + 1
    BY <1>2
  <1>3. /\ files' = files /\ results' = results /\ claims' = claims /\ routes' = routes
        /\ admissions' = admissions /\ sessions' = sessions /\ qualified' = qualified /\ budget' = budget
    BY <1>0 DEF fileVars
  <1>4. Grow  BY <1>0, <1>3 DEF Grow
  <1>5. \A q \in Qualifiers \ {p} : KnownUntouched(at[q])
    <2> TAKE q \in Qualifiers \ {p}
    <2>1. at[q].step \in Owning => at[q].n # n  BY <1>o DEF SequenceInv, PairInv
    <2> QED  BY <1>0, <1>3, <2>1 DEF KnownUntouched
  <1>6. RowInv(row)'
    <2>1. CASE row.step = "terminal" /\ row.n = n /\ n = Requests /\ row.result = "format"
      BY <1>0, <1>1, <1>3, <2>1
         DEF RowInv, Owning, Paying, Unrecorded, Native, Recorded, Closing, PlanSteps
    <2>2. CASE row.step = "authorize" /\ row.n = n + 1
      <3>1. \A j \in Ordinals : j < n + 1 => j \in decisions'
        BY <1>0, <1>1, SequenceAssumption DEF Ordinals
      <3> QED  BY <2>2, <3>1
           DEF RowInv, Owning, Paying, Unrecorded, Native, Recorded, Closing, PlanSteps
    <2> QED  BY <2>1, <2>2
  <1>7. SequenceTypes'
    <2>1. at' \in [Qualifiers -> QualifierRow]  BY DEF SequenceInv, SequenceTypes
    <2>2. decisions' \subseteq Ordinals  BY <1>0 DEF SequenceInv, SequenceTypes
    <2> QED  BY <2>1, <2>2, <1>3 DEF SequenceInv, SequenceTypes
  <1>8. StoresInv'
    <2>1. Events' = Events  BY <1>3 DEF Events
    <2>2. \A m \in decisions' : Event(m) \in files' /\ results'[m] = "format"
      BY <1>0, <1>1, <1>3 DEF SequenceInv, StoresInv
    <2>3. decisions \subseteq decisions'  BY <1>0
    <2> QED  BY <1>3, <2>1, <2>2, <2>3 DEF SequenceInv, StoresInv
  <1>9. SealedInv'
    <2>1. ~qualified  BY <1>o DEF SequenceInv, SealedInv
    <2> QED  BY <1>3, <2>1 DEF SealedInv
  <1>10. /\ row.step \notin PlanSteps
         /\ row.step \in Owning => at[p].n = row.n
    BY DEF PlanSteps, Owning, Unrecorded, Native, Recorded, Closing
  <1> QED  BY <1>o, <1>4, <1>5, <1>6, <1>7, <1>8, <1>9, <1>10, MoveKeeps

(* A case is sealed once nobody owns a request or the plan. *)
LEMMA NobodyElseWrites ==
    ASSUME SequenceInv, NEW p \in Qualifiers, at[p].step = "seal", Readable,
           NEW q \in Qualifiers, q # p
    PROVE  at[q].step \notin PlanSteps \cup Owning
  <1> PICK n \in Ordinals : n = at[p].n  BY DEF SequenceInv, SequenceTypes, QualifierRow
  <1> PICK m \in Ordinals : m = at[q].n  BY DEF SequenceInv, SequenceTypes, QualifierRow
  <1>o. at[p].step \in Owning /\ at[p].step \in Recorded  BY DEF Owning, Recorded, Closing
  <1>i. RowInv(at[p]) /\ RowInv(at[q])  BY DEF SequenceInv
  <1>1. at[q].step \notin PlanSteps  BY <1>i DEF RowInv, Readable
  <1>2. SUFFICES ASSUME at[q].step \in Owning PROVE FALSE  BY <1>1
  <1>3. m # n  BY <1>o, <1>2 DEF SequenceInv, PairInv
  <1>4. results[n] = "accepted"  BY <1>i, <1>o DEF RowInv
  <1>5. n \notin decisions  BY <1>4 DEF SequenceInv, StoresInv
  <1>6. ~(n < m)  BY <1>2, <1>5, <1>i DEF RowInv
  <1>7. m < n /\ m # Requests  BY <1>3, <1>6, SequenceAssumption DEF Ordinals
  <1>8. m \in decisions  BY <1>o, <1>7, <1>i DEF RowInv
  <1>9. Event(m) \in files /\ results[m] = "format"  BY <1>8 DEF SequenceInv, StoresInv
  <1>10. Receipt(m) \in files  BY <1>9 DEF Readable
  <1>11. at[q].step \in Recorded  BY <1>2, <1>9, <1>i DEF RowInv, Owning
  <1>12. at[q].result = "format"  BY <1>9, <1>11, <1>i DEF RowInv
  <1>13. at[q].step \notin {"receipt", "decide"}  BY <1>8, <1>i DEF RowInv
  <1>14. at[q].step \in Closing  BY <1>11, <1>13 DEF Recorded
  <1> QED  BY <1>7, <1>12, <1>14, <1>i DEF RowInv

(* A sealed case. *)
LEMMA SealCaseKeeps ==
    ASSUME SequenceInv, NEW p \in Qualifiers, SealCase(p)
    PROVE  SequenceInv'
  <1> PICK n \in Ordinals : n = at[p].n  BY DEF SequenceInv, SequenceTypes, QualifierRow
  <1>0. /\ UNCHANGED <<fileVars, claims, routes, admissions, decisions, sessions, budget>>
        /\ Refuse(p) /\ at[p].step = "seal"
    BY DEF SealCase, ledgerVars, Stands
  <1>1. CASE ~EnvelopeAgrees(p)
    <2>1. UNCHANGED qualified  BY <1>1 DEF SealCase, SequenceInv, SequenceTypes
    <2> QED  BY <1>0, <2>1, RefuseKeeps
  <1>2. CASE EnvelopeAgrees(p)
    <2> PICK row : Becomes(p, row, "idle", 1, "none")  BY <1>0, ProcessRefuses
    <2>1. /\ row \in QualifierRow /\ row.step = "idle" /\ at' = [at EXCEPT ![p] = row]
      BY DEF Becomes
    <2>2. /\ files' = files /\ results' = results /\ claims' = claims /\ routes' = routes
          /\ admissions' = admissions /\ sessions' = sessions /\ decisions' = decisions /\ budget' = budget
      BY <1>0 DEF fileVars
    <2>3. qualified' = TRUE  BY <1>2 DEF SealCase
    <2>4. Grow /\ \A q \in Qualifiers \ {p} : KnownUntouched(at[q])  BY <2>2 DEF Grow, KnownUntouched
    <2>5. row.step \notin PlanSteps /\ row.step \notin Owning
      BY <2>1 DEF Owning, Unrecorded, Native, Recorded, Closing, PlanSteps
    <2>6. RowInv(row)'
      BY <2>1 DEF RowInv, Owning, Paying, Unrecorded, Native, Recorded, Closing, PlanSteps
    <2>7. SequenceTypes'
      <3>1. at' \in [Qualifiers -> QualifierRow]  BY <2>1 DEF SequenceInv, SequenceTypes
      <3> QED  BY <3>1, <2>2, <2>3 DEF SequenceInv, SequenceTypes
    <2>8. Events' = Events  BY <2>2 DEF Events
    <2>9. StoresInv'  BY <2>2, <2>8 DEF SequenceInv, StoresInv
    <2>10. SealedInv'
      <3>1. Readable  BY <1>2 DEF EnvelopeAgrees
      <3>2. \A q \in Qualifiers \ {p} : at[q].step \notin PlanSteps \cup Owning
        BY <1>0, <3>1, NobodyElseWrites
      <3>3. \A q \in Qualifiers : at'[q].step \notin PlanSteps \cup Owning
        BY <2>1, <2>5, <3>2 DEF SequenceInv, SequenceTypes
      <3>4. RowInv(at[p]) /\ at[p].step \in Recorded  BY <1>0 DEF SequenceInv, Recorded, Closing
      <3>5. Doc("terminal") \in files /\ Event(n) \in files /\ results[n] = "accepted"
        BY <1>0, <3>4 DEF RowInv
      <3>6. n \in Events /\ results[n] = "accepted"  BY <3>5 DEF Events
      <3>7. Readable'  BY <2>2, <2>8, <3>1 DEF Readable
      <3> QED  BY <2>2, <2>8, <3>3, <3>5, <3>6, <3>7 DEF SealedInv
    <2> QED  BY <2>1, <2>4, <2>5, <2>6, <2>7, <2>9, <2>10, MoveKeeps
  <1> QED  BY <1>1, <1>2

(* The scope's stop, the candidate's move and a stutter change nothing a
   process relies on. *)
LEMMA AroundKeeps ==
    ASSUME SequenceInv, StopScope \/ SealDrifts \/ UNCHANGED sequenceVars
    PROVE  SequenceInv'
  <1>1. /\ files' = files /\ results' = results /\ claims' = claims /\ routes' = routes
        /\ admissions' = admissions /\ sessions' = sessions /\ decisions' = decisions
        /\ budget' = budget /\ at' = at /\ qualified' = qualified
    BY DEF StopScope, SealDrifts, sequenceVars, fileVars, ledgerVars
  <1>2. Events' = Events  BY <1>1 DEF Events
  <1>3. Readable' = Readable  BY <1>1, <1>2 DEF Readable
  <1>4. SequenceTypes' /\ PairInv'  BY <1>1 DEF SequenceInv, SequenceTypes, PairInv
  <1>5. StoresInv'  BY <1>1, <1>2 DEF SequenceInv, StoresInv
  <1>6. SealedInv'  BY <1>1, <1>2, <1>3 DEF SequenceInv, SealedInv
  <1>7. \A p \in Qualifiers : RowInv(at[p])'
    <2> TAKE p \in Qualifiers
    <2>1. RowInv(at[p])  BY DEF SequenceInv
    <2> QED  BY <1>1, <2>1 DEF RowInv
  <1> QED  BY <1>4, <1>5, <1>6, <1>7 DEF SequenceInv

(* Empty stores. *)
LEMMA SequenceStarts ==
    ASSUME SequenceInit PROVE SequenceInv
  <1>1. Events = {} /\ Cardinality(Events) = 0
    <2>1. Events = {}  BY DEF SequenceInit, Events
    <2> QED  BY <2>1, FS_EmptySet
  <1>2. \A p \in Qualifiers : at[p] = Waiting  BY DEF SequenceInit
  <1>3. SequenceTypes
    <2>1. at \in [Qualifiers -> QualifierRow]  BY WaitingRow DEF SequenceInit
    <2> QED  BY <2>1 DEF SequenceInit, SequenceTypes
  <1>4. StoresInv  BY <1>1, SequenceAssumption DEF SequenceInit, StoresInv, Ordinals
  <1>5. \A p \in Qualifiers : RowInv(at[p])
    <2> TAKE p \in Qualifiers
    <2>1. at[p].step \in {"idle", "resume"}  BY <1>2, WaitingRow
    <2> QED  BY <2>1, RefusedKnowsNothing
  <1>6. PairInv /\ SealedInv
    <2>1. "idle" \notin PlanSteps /\ "idle" \notin Owning
      BY DEF Owning, Unrecorded, Native, Recorded, Closing, PlanSteps
    <2> QED  BY <1>2, <2>1, WaitingRow DEF SequenceInit, PairInv, SealedInv
  <1> QED  BY <1>3, <1>4, <1>5, <1>6 DEF SequenceInv

(* One step per action of the sequence. *)
LEMMA SequenceInductive ==
    ASSUME SequenceInv, [SequenceNext]_sequenceVars
    PROVE  SequenceInv'
  <1>1. ASSUME NEW p \in Qualifiers, Qualify(p) PROVE SequenceInv'
    <2>1. CASE \E result \in Results : ReadResponse(p, result)
      <3> PICK result \in Results : ReadResponse(p, result)  BY <2>1
      <3>1. TRUE \in BOOLEAN  OBVIOUS
      <3> QED  BY <3>1, TurnStepsKeep
    <2>2. CASE \E stops \in BOOLEAN : RecordBlocked(p, stops)
      <3> PICK stops \in BOOLEAN : RecordBlocked(p, stops)  BY <2>2
      <3>1. "blocked" \in Results  BY DEF Results
      <3> QED  BY <3>1, TurnStepsKeep
    <2>3. CASE BeginTurn(p) \/ CheckpointTurn(p)
      <3>1. "blocked" \in Results /\ TRUE \in BOOLEAN  BY DEF Results
      <3> QED  BY <2>3, <3>1, TurnStepsKeep
    <2> QED  BY <1>1, <2>1, <2>2, <2>3, PrepareKeeps, PublishPlanKeeps, ResumeKeeps, BeginFirstKeeps,
                AuthorizeFallbackKeeps, FenceFallbackKeeps, ReserveTurnKeeps, ConsumeFallbackKeeps,
                ClaimTurnKeeps, OpenSessionKeeps, AppendEventKeeps, AppendReceiptKeeps,
                DecideFormatKeeps, FinalizeKeeps, SealCaseKeeps DEF Qualify
  <1>2. ASSUME NEW p \in Qualifiers, EndProcess(p) PROVE SequenceInv'
    BY <1>2, EndProcessKeeps
  <1>3. CASE StopScope \/ SealDrifts \/ UNCHANGED sequenceVars  BY <1>3, AroundKeeps
  <1> QED  BY <1>1, <1>2, <1>3 DEF SequenceNext

(* SequenceInv holds of every behaviour. *)
LEMMA SequenceHolds == SequenceSpec => []SequenceInv
  <1>1. SequenceInit => SequenceInv  BY SequenceStarts
  <1>2. SequenceInv /\ [SequenceNext]_sequenceVars => SequenceInv'  BY SequenceInductive
  <1> QED  BY <1>1, <1>2, PTL DEF SequenceSpec

(* Only an event writes a result, and only the checkpoint of a turn a row. *)
LEMMA RecordStays ==
    ASSUME NEW p \in Qualifiers, Qualify(p)
    PROVE  \/ AppendEvent(p) \/ CheckpointTurn(p) \/ UNCHANGED <<results, rows>>
  <1>1. CASE Prepare(p) \/ PublishPlan(p) \/ Resume(p) \/ BeginFirst(p) \/ AuthorizeFallback(p)
    BY <1>1 DEF Prepare, PublishPlan, Resume, BeginFirst, AuthorizeFallback, fileVars, ledgerVars
  <1>2. CASE FenceFallback(p) \/ ReserveTurn(p) \/ ConsumeFallback(p) \/ ClaimTurn(p)
    BY <1>2 DEF FenceFallback, ReserveTurn, ConsumeFallback, ClaimTurn, fileVars, ledgerVars
  <1>3. CASE OpenSession(p) \/ BeginTurn(p) \/ (\E result \in Results : ReadResponse(p, result))
             \/ (\E stops \in BOOLEAN : RecordBlocked(p, stops))
    BY <1>3 DEF OpenSession, BeginTurn, ReadResponse, RecordBlocked, fileVars, ledgerVars
  <1>4. CASE AppendReceipt(p) \/ DecideFormat(p) \/ Finalize(p) \/ FinalizeReceipt(p) \/ SealCase(p)
    BY <1>4 DEF AppendReceipt, DecideFormat, Finalize, FinalizeReceipt, SealCase, fileVars, ledgerVars
  <1> QED  BY <1>1, <1>2, <1>3, <1>4 DEF Qualify

(***************************************************************************)
(* The rows.  A turn is read after its checkpoint; a result that is not one *)
(* of a failed step therefore finds its row dispatched.                    *)
(***************************************************************************)
RowStands(row) ==
    /\ row.step = "read" => rows[row.n] = "dispatched"
    /\ row.step = "append" /\ row.result \notin Unfinished => rows[row.n] = "dispatched"
DispatchedInv ==
    /\ rows \in [Ordinals -> {"prepared", "dispatched"}]
    /\ \A p \in Qualifiers : RowStands(at[p])
    /\ \A n \in Ordinals : Event(n) \in files /\ results[n] \notin Unfinished => rows[n] = "dispatched"

(* Where no event is written and no row changes, a process that reads or
   appends nothing new disturbs nothing. *)
LEMMA RowsStay ==
    ASSUME SequenceTypes, DispatchedInv, NEW p \in Qualifiers, NEW row, at' = [at EXCEPT ![p] = row],
           UNCHANGED <<results, rows>>, RowStands(row),
           \A n \in Ordinals : Event(n) \in files' => Event(n) \in files
    PROVE  DispatchedInv'
  <1>1. ASSUME NEW q \in Qualifiers PROVE RowStands(at[q])'
    <2> PICK b : b = at'[q]  OBVIOUS
    <2>1. RowStands(b)
      <3>1. CASE q = p  BY <3>1 DEF SequenceTypes
      <3>2. CASE q # p
        <4>1. b = at[q]  BY <3>2 DEF SequenceTypes
        <4> QED  BY <4>1 DEF DispatchedInv
      <3> QED  BY <3>1, <3>2
    <2>2. RowStands(b)'  BY <2>1 DEF RowStands
    <2> QED  BY <2>2
  <1>2. ASSUME NEW n \in Ordinals, Event(n) \in files', results'[n] \notin Unfinished
        PROVE  rows'[n] = "dispatched"
    BY <1>2 DEF DispatchedInv
  <1>3. ASSUME NEW n \in Ordinals PROVE (Event(n) \in files)' <=> Event(n) \in files'
    BY DEF Event
  <1> QED  BY <1>1, <1>2, <1>3 DEF DispatchedInv, Event

(* A process that moves anywhere but to a reading or an event. *)
LEMMA RowsMove ==
    ASSUME SequenceTypes, DispatchedInv, NEW p \in Qualifiers, NEW row,
           at' = [at EXCEPT ![p] = row], row.step \notin {"read", "append"},
           UNCHANGED <<results, rows>>, \A n \in Ordinals : Event(n) \in files' => Event(n) \in files
    PROVE  DispatchedInv'
  <1>1. RowStands(row)  BY DEF RowStands
  <1> QED  BY <1>1, RowsStay

(* A process that answers. *)
LEMMA RowsAnswer ==
    ASSUME SequenceTypes, DispatchedInv, NEW p \in Qualifiers, NEW result \in Results, Answer(p, result),
           result \in Unfinished \/ at[p].step = "read", UNCHANGED <<fileVars, rows>>
    PROVE  DispatchedInv'
  <1> PICK step : step = IF result = "blocked" THEN "record" ELSE "append"  OBVIOUS
  <1> PICK row : Becomes(p, row, step, at[p].n, result)  BY ProcessAnswers
  <1>1. /\ at' = [at EXCEPT ![p] = row] /\ row.step \in {"record", "append"}
        /\ row.n = at[p].n /\ row.result = result
    BY DEF Becomes
  <1>2. RowStands(at[p])  BY DEF DispatchedInv
  <1>3. RowStands(row)  BY <1>1, <1>2 DEF RowStands
  <1>4. UNCHANGED <<results, rows>> /\ \A n \in Ordinals : Event(n) \in files' => Event(n) \in files
    BY DEF fileVars
  <1> QED  BY <1>1, <1>3, <1>4, RowsStay

(* A refusal. *)
LEMMA RowsRefuse ==
    ASSUME SequenceTypes, DispatchedInv, NEW p \in Qualifiers, Refuse(p),
           UNCHANGED <<results, rows>>, \A n \in Ordinals : Event(n) \in files' => Event(n) \in files
    PROVE  DispatchedInv'
  <1> PICK row : Becomes(p, row, "idle", 1, "none")  BY ProcessRefuses
  <1>1. at' = [at EXCEPT ![p] = row] /\ row.step \notin {"read", "append"}  BY DEF Becomes
  <1> QED  BY <1>1, RowsMove

(* A move. *)
LEMMA RowsGo ==
    ASSUME SequenceTypes, DispatchedInv, NEW p \in Qualifiers,
           NEW step \in QualifierSteps \ {"read", "append"}, Move(p, step),
           UNCHANGED <<results, rows>>, \A n \in Ordinals : Event(n) \in files' => Event(n) \in files
    PROVE  DispatchedInv'
  <1> PICK row : Becomes(p, row, step, at[p].n, at[p].result)  BY ProcessMoves
  <1>1. at' = [at EXCEPT ![p] = row] /\ row.step \notin {"read", "append"}  BY DEF Becomes
  <1> QED  BY <1>1, RowsMove

(* The steps before a turn. *)
LEMMA RowsBefore ==
    ASSUME SequenceInv, DispatchedInv, NEW p \in Qualifiers,
           \/ Prepare(p) \/ PublishPlan(p) \/ Resume(p) \/ BeginFirst(p) \/ AuthorizeFallback(p)
           \/ FenceFallback(p) \/ ReserveTurn(p) \/ ConsumeFallback(p) \/ ClaimTurn(p)
    PROVE  DispatchedInv'
  <1>t. SequenceTypes  BY DEF SequenceInv
  <1>0. UNCHANGED <<results, rows>>
    BY DEF Prepare, PublishPlan, Resume, BeginFirst, AuthorizeFallback, FenceFallback, ReserveTurn,
           ConsumeFallback, ClaimTurn, fileVars, ledgerVars
  <1>1. \A n \in Ordinals : Event(n) \in files' => Event(n) \in files
    <2>1. \/ UNCHANGED files
          \/ \E name \in {"directory", "plan", "plan-receipt"} : files' = files \cup {Doc(name)}
      BY DEF Prepare, PublishPlan, Publish, Resume, BeginFirst, AuthorizeFallback, FenceFallback,
             ReserveTurn, ConsumeFallback, ClaimTurn, fileVars
    <2> QED  BY <2>1, FileNames
  <1>2. \/ \E step \in QualifierSteps \ {"read", "append"} : Move(p, step)
        \/ Refuse(p)
        \/ \E recover \in BOOLEAN : Reserving(p, recover)
        \/ Resume(p)
    <2>1. CASE Prepare(p) \/ PublishPlan(p)
      BY <2>1, SequenceSteps DEF Prepare, PublishPlan
    <2>b. /\ (1 \in intents) \in BOOLEAN /\ (Request(p) \in budget) \in BOOLEAN
          /\ TRUE \in BOOLEAN /\ FALSE \in BOOLEAN
      OBVIOUS
    <2>2. CASE BeginFirst(p)  BY <2>b, <2>2 DEF BeginFirst
    <2>4. CASE AuthorizeFallback(p)  BY <2>4, SequenceSteps DEF AuthorizeFallback
    <2>5. CASE FenceFallback(p)
      <3>1. \/ Reserving(p, TRUE) \/ Reserving(p, FALSE) \/ Refuse(p)
            \/ Reserving(p, Request(p) \in budget)
        BY <2>5 DEF FenceFallback
      <3> QED  BY <2>b, <3>1
    <2>3. CASE ReserveTurn(p) \/ ConsumeFallback(p) \/ ClaimTurn(p)
      BY <2>3, SequenceSteps DEF ReserveTurn, ConsumeFallback, ClaimTurn
    <2> QED  BY <2>1, <2>2, <2>3, <2>4, <2>5
  <1>3. CASE \E recover \in BOOLEAN : Reserving(p, recover)
    <2> PICK recover \in BOOLEAN : Reserving(p, recover)  BY <1>3
    <2> PICK row : Becomes(p, row, "reserve", at[p].n, at[p].result)  BY <1>t, ProcessReserves
    <2>1. at' = [at EXCEPT ![p] = row] /\ row.step \notin {"read", "append"}  BY DEF Becomes
    <2> QED  BY <1>t, <1>0, <1>1, <2>1, RowsMove
  <1>4. CASE Resume(p) /\ ~Refuse(p)
    <2> PICK k : k = Cardinality(Events) + 1  OBVIOUS
    <2>0. PICK step \in {"intent", "authorize"} :
            at' = [at EXCEPT ![p] = [@ EXCEPT !.n = k, !.step = step]]
      BY <1>4 DEF Resume
    <2> DEFINE row == [at[p] EXCEPT !.n = k, !.step = step]
    <2>1. at[p] \in QualifierRow  BY <1>t DEF SequenceTypes
    <2>2. at' = [at EXCEPT ![p] = row] /\ row.step \notin {"read", "append"}
      BY <2>0, <2>1 DEF QualifierRow
    <2> HIDE DEF row
    <2> QED  BY <1>t, <1>0, <1>1, <2>2, RowsMove
  <1> QED  BY <1>t, <1>0, <1>1, <1>2, <1>3, <1>4, RowsGo, RowsRefuse

(* The turn: the checkpoint makes the row what the reading finds. *)
LEMMA RowsTurn ==
    ASSUME SequenceInv, DispatchedInv, NEW p \in Qualifiers, NEW result \in Results,
           NEW stops \in BOOLEAN,
           \/ OpenSession(p) \/ BeginTurn(p) \/ CheckpointTurn(p)
           \/ ReadResponse(p, result) \/ RecordBlocked(p, stops)
    PROVE  DispatchedInv'
  <1>t. SequenceTypes  BY DEF SequenceInv
  <1>0. UNCHANGED fileVars
    BY DEF OpenSession, BeginTurn, CheckpointTurn, ReadResponse, RecordBlocked
  <1>e. UNCHANGED results /\ \A n \in Ordinals : Event(n) \in files' => Event(n) \in files
    BY <1>0 DEF fileVars
  <1>1. CASE CheckpointTurn(p) /\ Move(p, "read") /\ rows' = [rows EXCEPT ![at[p].n] = "dispatched"]
    <2> PICK row : Becomes(p, row, "read", at[p].n, at[p].result)
      BY <1>t, <1>1, ProcessMoves, SequenceSteps
    <2> PICK k \in Ordinals : k = at[p].n  BY <1>t DEF SequenceTypes, QualifierRow
    <2>1. at' = [at EXCEPT ![p] = row] /\ row.step = "read" /\ row.n = k  BY DEF Becomes
    <2>2. /\ rows' \in [Ordinals -> {"prepared", "dispatched"}] /\ rows'[k] = "dispatched"
          /\ \A n \in Ordinals : rows[n] = "dispatched" => rows'[n] = "dispatched"
      BY <1>1 DEF DispatchedInv
    <2>3. ASSUME NEW q \in Qualifiers PROVE RowStands(at[q])'
      <3> PICK b : b = at'[q]  OBVIOUS
      <3>1. CASE q = p
        <4>1. b = row  BY <1>t, <2>1, <3>1 DEF SequenceTypes
        <4>2. RowStands(b)'  BY <2>1, <2>2, <4>1 DEF RowStands
        <4> QED  BY <4>2
      <3>2. CASE q # p
        <4>1. b = at[q] /\ b.n \in Ordinals
          BY <1>t, <2>1, <3>2 DEF SequenceTypes, QualifierRow
        <4>2. RowStands(b)  BY <4>1 DEF DispatchedInv
        <4>3. RowStands(b)'  BY <2>2, <4>1, <4>2 DEF RowStands
        <4> QED  BY <4>3
      <3> QED  BY <3>1, <3>2
    <2> QED  BY <1>e, <2>2, <2>3 DEF DispatchedInv, Event
  <1>2. CASE UNCHANGED rows /\ (Answer(p, "blocked") \/ Answer(p, "ambiguous"))
    BY <1>t, <1>0, <1>2, UnfinishedResults, RowsAnswer
  <1>3. CASE UNCHANGED rows /\ Refuse(p)  BY <1>t, <1>e, <1>3, RowsRefuse
  <1>4. CASE ReadResponse(p, result) /\ Answer(p, result)
    <2>1. at[p].step = "read" /\ UNCHANGED rows  BY <1>4 DEF ReadResponse, Stands, ledgerVars
    <2> QED  BY <1>t, <1>0, <1>4, <2>1, RowsAnswer
  <1>5. CASE RecordBlocked(p, stops)
    <2> PICK row : Becomes(p, row, "append", at[p].n, at[p].result)
      BY <1>t, <1>5, ProcessMoves, SequenceSteps DEF RecordBlocked
    <2>1. at[p].step = "record" /\ UNCHANGED rows  BY <1>5 DEF RecordBlocked, Stands, ledgerVars
    <2>2. at[p].result = "blocked"  BY <2>1 DEF SequenceInv, RowInv
    <2>3. at' = [at EXCEPT ![p] = row] /\ RowStands(row)
      BY <2>2, UnfinishedResults DEF Becomes, RowStands
    <2> QED  BY <1>t, <1>e, <2>1, <2>3, RowsStay
  <1>6. CASE UNCHANGED rows /\ (Move(p, "turn") \/ Move(p, "checkpoint"))
    BY <1>t, <1>e, <1>6, SequenceSteps, RowsGo
  <1> QED  BY <1>1, <1>2, <1>3, <1>4, <1>5, <1>6
        DEF OpenSession, BeginTurn, NativeFails, CheckpointTurn, ReadResponse, Request, ledgerVars

(* The event of a turn. *)
LEMMA RowsAppend ==
    ASSUME SequenceInv, DispatchedInv, NEW p \in Qualifiers, AppendEvent(p)
    PROVE  DispatchedInv'
  <1>t. SequenceTypes  BY DEF SequenceInv
  <1> PICK n \in Ordinals : n = at[p].n  BY <1>t DEF SequenceTypes, QualifierRow
  <1> PICK result : result = at[p].result  OBVIOUS
  <1>0. UNCHANGED rows /\ at[p].step = "append"  BY DEF AppendEvent, ledgerVars, Stands
  <1>1. CASE Refuse(p) /\ UNCHANGED fileVars  BY <1>t, <1>0, <1>1, RowsRefuse DEF fileVars
  <1>2. CASE /\ files' = files \cup {Event(n)} /\ results' = [results EXCEPT ![n] = result]
             /\ Move(p, "receipt")
    <2> PICK row : Becomes(p, row, "receipt", at[p].n, at[p].result)
      BY <1>t, <1>2, ProcessMoves, SequenceSteps
    <2>1. at' = [at EXCEPT ![p] = row] /\ row.step = "receipt"  BY DEF Becomes
    <2>2. result \notin Unfinished => rows[n] = "dispatched"
      BY <1>0 DEF DispatchedInv, RowStands
    <2>3. ASSUME NEW q \in Qualifiers PROVE RowStands(at[q])'
      <3> PICK b : b = at'[q]  OBVIOUS
      <3>1. CASE q = p
        <4>1. b.step = "receipt"  BY <1>t, <2>1, <3>1 DEF SequenceTypes
        <4>2. RowStands(b)'  BY <4>1 DEF RowStands
        <4> QED  BY <4>2
      <3>2. CASE q # p
        <4>1. b = at[q]  BY <1>t, <2>1, <3>2 DEF SequenceTypes
        <4>2. RowStands(b)  BY <4>1 DEF DispatchedInv
        <4>3. RowStands(b)'  BY <1>0, <4>2 DEF RowStands
        <4> QED  BY <4>3
      <3> QED  BY <3>1, <3>2
    <2>4. ASSUME NEW m \in Ordinals, Event(m) \in files', results'[m] \notin Unfinished
          PROVE  rows[m] = "dispatched"
      <3>1. CASE m = n
        <4>1. results'[n] = result  BY <1>t, <1>2 DEF SequenceTypes
        <4> QED  BY <2>2, <2>4, <3>1, <4>1
      <3>2. CASE m # n
        <4>1. Event(m) \in files  BY <1>2, <2>4, <3>2, FileNames
        <4>2. results'[m] = results[m]  BY <1>t, <1>2, <3>2 DEF SequenceTypes
        <4> QED  BY <2>4, <4>1, <4>2 DEF DispatchedInv
      <3> QED  BY <3>1, <3>2
    <2> QED  BY <1>0, <2>3, <2>4 DEF DispatchedInv, Event
  <1> QED  BY <1>1, <1>2 DEF AppendEvent, Request, Publish

(* What follows the event. *)
LEMMA RowsAfter ==
    ASSUME SequenceInv, DispatchedInv, NEW p \in Qualifiers,
           \/ AppendReceipt(p) \/ DecideFormat(p) \/ Finalize(p) \/ FinalizeReceipt(p) \/ SealCase(p)
           \/ EndProcess(p)
    PROVE  DispatchedInv'
  <1>t. SequenceTypes  BY DEF SequenceInv
  <1> PICK k \in Ordinals : k = at[p].n  BY <1>t DEF SequenceTypes, QualifierRow
  <1>0. UNCHANGED <<results, rows>>
    BY DEF AppendReceipt, DecideFormat, Finalize, FinalizeReceipt, SealCase, EndProcess,
           fileVars, ledgerVars
  <1>1. \A n \in Ordinals : Event(n) \in files' => Event(n) \in files
    <2>1. \/ UNCHANGED files \/ files' = files \cup {Receipt(k)}
          \/ \E name \in {"terminal", "terminal-receipt", "unfinished"} : files' = files \cup {Doc(name)}
      BY DEF AppendReceipt, DecideFormat, Finalize, FinalizeReceipt, SealCase, EndProcess, Publish,
             Request, fileVars
    <2> QED  BY <2>1, FileNames
  <1>2. CASE \E step \in {"decide", "terminal", "terminal-receipt", "seal"} : Move(p, step)
    BY <1>t, <1>0, <1>1, <1>2, SequenceSteps, RowsGo
  <1>3. CASE Refuse(p)  BY <1>t, <1>0, <1>1, <1>3, RowsRefuse
  <1>4. CASE at' = [at EXCEPT ![p] = [@ EXCEPT !.n = Request(p) + 1, !.step = "authorize"]]
    <2> DEFINE row == [at[p] EXCEPT !.n = Request(p) + 1, !.step = "authorize"]
    <2>1. at[p] \in QualifierRow  BY <1>t DEF SequenceTypes
    <2>2. at' = [at EXCEPT ![p] = row] /\ row.step \notin {"read", "append"}
      BY <1>4, <2>1 DEF QualifierRow
    <2> HIDE DEF row
    <2> QED  BY <1>t, <1>0, <1>1, <2>2, RowsMove
  <1> QED  BY <1>2, <1>3, <1>4
        DEF AppendReceipt, DecideFormat, Finalize, FinalizeReceipt, SealCase, EndProcess

(* The rows stand in every behaviour. *)
LEMMA RowsHold == SequenceSpec => []DispatchedInv
  <1>1. SequenceInit => DispatchedInv
    BY DEF SequenceInit, DispatchedInv, RowStands, Waiting
  <1>2. SequenceInv /\ DispatchedInv /\ [SequenceNext]_sequenceVars => DispatchedInv'
    <2> SUFFICES ASSUME SequenceInv, DispatchedInv, [SequenceNext]_sequenceVars PROVE DispatchedInv'
      OBVIOUS
    <2>1. ASSUME NEW p \in Qualifiers, Qualify(p) PROVE DispatchedInv'
      <3>1. TRUE \in BOOLEAN /\ "blocked" \in Results  BY DEF Results
      <3> QED  BY <2>1, <3>1, RowsBefore, RowsTurn, RowsAppend, RowsAfter DEF Qualify
    <2>2. ASSUME NEW p \in Qualifiers, EndProcess(p) PROVE DispatchedInv'  BY <2>2, RowsAfter
    <2>3. CASE StopScope \/ SealDrifts \/ UNCHANGED sequenceVars
      <3>1. UNCHANGED <<files, results, rows, at>>
        BY <2>3 DEF StopScope, SealDrifts, sequenceVars, fileVars, ledgerVars
      <3> QED  BY <3>1 DEF DispatchedInv, RowStands
    <2> QED  BY <2>1, <2>2, <2>3 DEF SequenceNext
  <1> QED  BY <1>1, <1>2, SequenceHolds, PTL DEF SequenceSpec

(* One native session at most is opened per request, on a durable claim and
   debit and, for a correction, on a consumed route from a decided
   malformed answer; the record and the sealed case say no more than that,
   and only a blocked or an ambiguous event may lack its session and its
   dispatched row (supervisor_shadow.py, codex_supervisor.py), for any
   number of processes and ends of processes. *)
THEOREM SupervisorTurnsAreBacked == SequenceSpec => []TurnsAreBacked
  <1>1. SequenceInv /\ DispatchedInv => TurnsAreBacked
    BY DEF SequenceInv, StoresInv, SealedInv, DispatchedInv, Unfinished, TurnsAreBacked, Events
  <1> QED  BY <1>1, SequenceHolds, RowsHold, PTL

(* An accepted answer enters the record only while the scope is open and
   the candidate is the sealed one. *)
THEOREM StopsWin == SequenceSpec => StopsWinOverAcceptance
  <1> DEFINE Stopped == \A n \in Ordinals : results'[n] = "accepted" /\ results[n] = "none" =>
                           scopeOpen /\ sealHolds
  <1>1. SequenceInv /\ [SequenceNext]_sequenceVars => Stopped
    <2> SUFFICES ASSUME SequenceInv, [SequenceNext]_sequenceVars PROVE Stopped  OBVIOUS
    <2>1. CASE UNCHANGED results  BY <2>1
    <2>2. ASSUME NEW p \in Qualifiers, AppendEvent(p), ~UNCHANGED results PROVE Stopped
      <3>1. /\ results' = [results EXCEPT ![at[p].n] = at[p].result]
            /\ at[p].result = "accepted" => scopeOpen /\ sealHolds
        BY <2>2 DEF AppendEvent, Acceptable, Request, fileVars
      <3> QED  BY <3>1 DEF SequenceInv, SequenceTypes
    <2>3. UNCHANGED results \/ \E p \in Qualifiers : AppendEvent(p)
      <3>1. CASE \E p \in Qualifiers : Qualify(p)
        <4> PICK p \in Qualifiers : Qualify(p)  BY <3>1
        <4> QED  BY RecordStays DEF CheckpointTurn, fileVars
      <3> QED  BY <3>1 DEF SequenceNext, EndProcess, StopScope, SealDrifts, sequenceVars, fileVars
    <2> QED  BY <2>1, <2>2, <2>3
  <1> QED  BY <1>1, SequenceHolds, PTL DEF SequenceSpec, StopsWinOverAcceptance
=============================================================================
