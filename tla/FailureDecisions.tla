-------------------------- MODULE FailureDecisions --------------------------
(***************************************************************************)
(* Durable failure decisions and the scopes they stop                      *)
(* (failure_recovery.py).  What a provider attempt did wrong is classified *)
(* by a closed matrix and recorded against the attempt; a security denial  *)
(* or a missing owner scope stops every later effect of the attempt's      *)
(* role.  Only the owner reopens a scope, with a command of its own kind   *)
(* for that denial, and may take the clearance back.  Every operation is   *)
(* one transaction; what it read earlier is read again in it.              *)
(***************************************************************************)
EXTENDS Naturals, Sequences, TLC

CONSTANTS Roles,            \* FailureRole: each has a scope of its own
          MaxTries,         \* bound: attempts per role
          NativeFailures,   \* terminal results of the SDK
          Observed,         \* other pairs <<failure class, evidence source>> to classify
          Seals,            \* candidates that are sealed one after the other
          DenialCommands,   \* identities of clearance and revocation commands
          Absent            \* no row

VARIABLES sealed,      \* candidate_seals
          admitted,    \* provider_failure_admissions: candidate per attempt
          records,     \* failure_recovery_records
          decided,     \* denial_clearance_decisions per record, in order
          commands,    \* denial_*_commands with their grants
          fallbacks,   \* recovery_route_authorizations
          inForce      \* (history) stops the owner has not lifted since

decisionVars == <<sealed, admitted, records, decided, commands, fallbacks, inForce>>

Tries == Roles \X (1..MaxTries)
Scope(a) == a[1]

(***************************************************************************)
(* Classification.                                                         *)
(***************************************************************************)
Contract(evidence, action, retryable, clearance) ==
    [evidence |-> evidence, action |-> action, retryable |-> retryable, clearance |-> clearance]

Unverified == {"model-self-report", "unavailable"}
Sources == {"verified-output", "verified-host", "verified-lifecycle", "verified-topology",
            "verified-service"} \cup Unverified

(* _FAILURE_COMPATIBILITY_MATRIX *)
Matrix ==
    [c \in {"partial-increment", "ordinary-review-handoff", "no-progress"} |->
        Contract({"verified-output"}, "continue-same-session", FALSE, FALSE)] @@
    [c \in {"validation-running"} |->
        Contract({"verified-lifecycle"}, "continue-same-session", FALSE, FALSE)] @@
    [c \in {"session-terminated"} |->
        Contract({"verified-lifecycle"}, "prebound-fallback", TRUE, FALSE)] @@
    [c \in {"format-invalid"} |->
        Contract({"verified-output"}, "prebound-fallback", TRUE, FALSE)] @@
    [c \in {"transient-service"} |->
        Contract({"verified-service"}, "prebound-fallback", TRUE, FALSE)] @@
    [c \in {"missing-output", "ambiguous-effect"} |->
        Contract({"verified-output"}, "reconcile", FALSE, FALSE)] @@
    [c \in {"topology-violation"} |->
        Contract({"verified-topology"}, "reconcile", FALSE, FALSE)] @@
    [c \in {"credential-failure"} |-> Contract({"verified-host"}, "reconcile", FALSE, TRUE)] @@
    [c \in {"budget-exhausted"} |-> Contract({"verified-service"}, "reconcile", FALSE, TRUE)] @@
    [c \in {"host-security-denial"} |-> Contract({"verified-host"}, "stop-scope", FALSE, TRUE)] @@
    [c \in {"missing-owner-scope"} |->
        Contract({"verified-lifecycle"}, "stop-scope", FALSE, TRUE)] @@
    [c \in {"unknown"} |-> Contract(Sources, "reconcile", FALSE, FALSE)]

(* native_failure_class *)
NativeFailureClass(native) ==
    CASE native = "sandbox-or-approval-denied" -> <<"host-security-denial", "verified-host">>
      [] native = "missing-owner-scope" -> <<"missing-owner-scope", "verified-lifecycle">>
      [] native = "provider-outage" -> <<"transient-service", "verified-service">>
      [] native = "auth-rejected" -> <<"credential-failure", "verified-host">>
      [] native = "rate-limited" -> <<"budget-exhausted", "verified-service">>
      [] OTHER -> <<"unknown", "unavailable">>

(* What is not verified, or not evidence of its class, is unknown. *)
Classify(failure, source) ==
    IF source \in Unverified \/ source \notin Matrix[failure].evidence THEN "unknown" ELSE failure

FailureRecord(a, failure, source) ==
    [attempt |-> a, candidate |-> admitted[a], failure |-> Classify(failure, source)]
Stops == {c \in DOMAIN Matrix : Matrix[c].action = "stop-scope"}
AllRecords == [attempt : Tries, candidate : Seals, failure : Stops]
Denials == records \cap AllRecords

(***************************************************************************)
(* Clearances.                                                             *)
(***************************************************************************)
(* _require_attempt_admission: the attempt was admitted for the record's
   candidate, and that candidate is sealed still. *)
AdmittedFor(r) == admitted[r.attempt] = r.candidate
SealedStill(r) == sealed = r.candidate
IsCurrent(r) == AdmittedFor(r) /\ SealedStill(r)

(* A command of the owner, under a grant for the sealed candidate. *)
DenialCommand(kind, r, clearance) ==
    [kind |-> kind, record |-> r, candidate |-> sealed, clearance |-> clearance]

(* _denial_command_receipt: the command is of this kind, for this denial,
   under a grant that stands for the sealed candidate; a revocation names
   the clearance it takes back. *)
CommandReceipt(r, k, kind, clearance) ==
    /\ commands[k] # Absent
    /\ commands[k] = DenialCommand(kind, r, clearance)

Kind(n) == IF n % 2 = 1 THEN "clear" ELSE "revoke"

(* _decision_history: every decision of the record alternates, and is
   authentic still. *)
Authentic(r) ==
    \A n \in DOMAIN decided[r] : CommandReceipt(r, decided[r][n], Kind(n), IF n % 2 = 0 THEN n - 1 ELSE 0)
Lifted(r) == Len(decided[r]) % 2 = 1

\* Mutant: one clearance opens the scope whatever was decided since.
EverLifted(r) == IsCurrent(r) /\ Authentic(r) /\ decided[r] # <<>>

Cleared(r) == IsCurrent(r) /\ Authentic(r) /\ Lifted(r)

(* require_scope_open *)
NoStopStands(s) == \A r \in Denials : Scope(r.attempt) = s => Cleared(r)

DecisionsInit ==
    /\ sealed \in Seals /\ admitted = [a \in Tries |-> Absent] /\ records = {}
    /\ decided = [r \in AllRecords |-> <<>>] /\ commands = [k \in DenialCommands |-> Absent]
    /\ fallbacks = {} /\ inForce = {}

(***************************************************************************)
(* Operations.                                                             *)
(***************************************************************************)
(* An attempt is dispatched while its scope is open, and admitted under
   the sealed candidate. *)
AdmitEffect(a) ==
    /\ admitted[a] = Absent /\ NoStopStands(Scope(a))
    /\ admitted' = [admitted EXCEPT ![a] = sealed]
    /\ UNCHANGED <<sealed, records, decided, commands, fallbacks, inForce>>

RecordFailure(a, failure, source) ==
    LET r == FailureRecord(a, failure, source)
    IN /\ admitted[a] # Absent /\ IsCurrent(r)
       /\ records' = records \cup {r}
       /\ inForce' = IF r \in AllRecords \ records THEN inForce \cup {r} ELSE inForce
       /\ UNCHANGED <<sealed, admitted, decided, commands, fallbacks>>

(* A command decides once: UNIQUE(task_id, command_kind, command_id). *)
Unused(k) == \A r \in AllRecords : \A n \in DOMAIN decided[r] : decided[r][n] # k

Decides(r, k, kind, clearance) == Authentic(r) /\ CommandReceipt(r, k, kind, clearance) /\ Unused(k)

(* record_durable_clearance *)
RecordClearance(r, k) ==
    /\ r \in Denials /\ IsCurrent(r)
    /\ ~Lifted(r) /\ Decides(r, k, "clear", 0)
    /\ decided' = [decided EXCEPT ![r] = Append(@, k)]
    /\ inForce' = inForce \ {r}
    /\ UNCHANGED <<sealed, admitted, records, commands, fallbacks>>

(* record_durable_clearance_revocation *)
RecordRevocation(r, k) ==
    /\ r \in Denials /\ IsCurrent(r)
    /\ Lifted(r) /\ Decides(r, k, "revoke", Len(decided[r]))
    /\ decided' = [decided EXCEPT ![r] = Append(@, k)]
    /\ inForce' = inForce \cup {r}
    /\ UNCHANGED <<sealed, admitted, records, commands, fallbacks>>

(* issue_durable_recovery_route_authorization: a malformed output is only
   corrected by the Supervisor profile that produced it. *)
Routable(r, same) ==
    /\ IsCurrent(r) /\ Matrix[r.failure].retryable
    /\ r.failure = "format-invalid" => Scope(r.attempt) = "supervisor" /\ same
RouteAuthorization(r, same) == [record |-> r, sameProfile |-> same]
IssueRoute(r, same) ==
    /\ r \in records /\ Routable(r, same)
    /\ fallbacks' = fallbacks \cup {RouteAuthorization(r, same)}
    /\ UNCHANGED <<sealed, admitted, records, decided, commands, inForce>>

(* The owner writes commands and withdraws grants; the seal moves. *)
Command(k, r, kind) ==
    /\ commands[k] = Absent /\ r \in Denials
    /\ commands' = [commands EXCEPT ![k] =
          DenialCommand(kind, r, IF kind = "clear" THEN 0 ELSE Len(decided[r]))]
    /\ UNCHANGED <<sealed, admitted, records, decided, fallbacks, inForce>>
WithdrawGrant(k) ==
    /\ commands[k] # Absent /\ ~Unused(k)
    /\ commands' = [commands EXCEPT ![k].candidate = Absent]
    /\ UNCHANGED <<sealed, admitted, records, decided, fallbacks, inForce>>
MoveSeal(s) ==
    /\ s # sealed /\ sealed' = s
    /\ UNCHANGED <<admitted, records, decided, commands, fallbacks, inForce>>

DecisionsNext ==
    \/ \E a \in Tries : \/ AdmitEffect(a)
                        \/ \E o \in Observed \cup {NativeFailureClass(n) : n \in NativeFailures} :
                              RecordFailure(a, o[1], o[2])
    \/ \E r \in Denials, k \in DenialCommands :
          \/ RecordClearance(r, k) \/ RecordRevocation(r, k)
          \/ \E kind \in {"clear", "revoke"} : Command(k, r, kind)
    \/ \E r \in records, same \in BOOLEAN : IssueRoute(r, same)
    \/ \E k \in DenialCommands : WithdrawGrant(k)
    \/ \E s \in Seals : MoveSeal(s)

DecisionsSpec == DecisionsInit /\ [][DecisionsNext]_decisionVars

-----------------------------------------------------------------------------
(* A scope opens only on the owner's last word: no attempt is admitted while
   a denial of its scope stands, was taken back, rests on a grant that was
   withdrawn or was given for another candidate than the sealed one
   (require_scope_open, _decision_history, _require_attempt_admission). *)
StopsHoldUntilLifted ==
    \A s \in Roles : NoStopStands(s) =>
        \A r \in Denials : Scope(r.attempt) = s =>
            /\ r \notin inForce /\ r.candidate = sealed
            /\ commands[decided[r][Len(decided[r])]].candidate = sealed
=============================================================================
