--------------------------- MODULE CanaryExecution ---------------------------
(***************************************************************************)
(* Bounded canary transitions (canary_policy.py, canary_execution.py).     *)
(* Callers share one orchestrator and its ledger.  A call authorises its   *)
(* request against the head of the receipt chain, reserves a record for    *)
(* that request and head, claims the owner host's fence for the head,      *)
(* dispatches through the broker, reads the target back and writes what it *)
(* saw.  The ledger's methods take its lock one by one, so calls           *)
(* interleave between them and around the broker, and what was dispatched  *)
(* may take effect at any later time, or never.  The process may die       *)
(* anywhere: its replacement hydrates the ledger's sealed state.           *)
(***************************************************************************)
EXTENDS Naturals, Sequences, FiniteSets

CONSTANTS Callers,      \* threads that call the orchestrator
          Resources,    \* branch and paths of a request
          Limit,        \* CanaryBudget.per_operation
          TotalCalls,   \* CanaryBudget.total_calls
          MaxRestarts,  \* bound
          Absent

Operations == {"create", "delete"}
CanaryRequests == [operation : Operations, resource : Resources]
Purposes == {"execute", "rollback", "cleanup"}
CanaryClaims == CanaryRequests \X (0..TotalCalls)

(* CanaryRecord: what reserve makes and update changes *)
CanaryRow == [purpose : Purposes, retried : BOOLEAN,
              state : {"claimed", "preserved", "quarantined", "retry", "verified"}]

ASSUME BudgetAssumption ==
    /\ Limit \in [Operations -> Nat \ {0}]
    /\ TotalCalls \in Nat \ {0}
    /\ TotalCalls <= Limit["create"] + Limit["delete"]
    /\ Absent \notin CanaryRequests /\ Absent \notin CanaryRow

VARIABLES chain,     \* the receipt chain after genesis: operation and claim of a link
          record,    \* _records by claim: request and chain head
          hydrated,  \* the ledger was hydrated
          standing,  \* the context grants standing authority and no kill switch
          fence,     \* the lease: the claim that owns a head's consumption key
          target,    \* the resources that exist
          dispatches, \* how often a claim was dispatched
          landed,    \* how often it took effect: the others are still under way
          missed,    \* history: the claims a read-back found absent
          calls,     \* the progress of a caller
          restarts

canaryVars ==
    <<chain, record, hydrated, standing, fence, target, dispatches, landed, missed, calls, restarts>>
ledger == <<chain, record, hydrated>>
outside == <<target, dispatches, landed, missed>>

CanaryInit ==
    /\ chain = <<>>
    /\ record = [k \in CanaryClaims |-> Absent]
    /\ hydrated = FALSE
    /\ standing = TRUE
    /\ fence = [n \in 0..TotalCalls |-> Absent]
    /\ target \in SUBSET Resources
    /\ dispatches = [k \in CanaryClaims |-> 0]
    /\ landed = [k \in CanaryClaims |-> 0]
    /\ missed = {}
    /\ calls = [c \in Callers |-> Absent]
    /\ restarts = 0

(***************************************************************************)
(* The policy.                                                             *)
(***************************************************************************)
Links == {chain[i].claim : i \in DOMAIN chain}

(* validate_canary_receipt_chain: a link follows the one before it.  Two   *)
(* updates of one claim may both append.                                    *)
ValidChain == \A i \in DOMAIN chain : chain[i].claim[2] = i - 1

(* How many links lead to the last receipt, which names its predecessor and *)
(* carries the counts of those links.                                       *)
ChainHead == IF chain = <<>> THEN 0 ELSE chain[Len(chain)].claim[2] + 1
Counted == {k \in Links : k[2] < ChainHead}
Count(operation) == Cardinality({k \in Counted : k[1].operation = operation})

(* CanaryBudget.limit_for *)
BelowLimit(operation) == Count(operation) < Limit[operation]

(* the counts of the head are below the limits *)
WithinBudget(request) ==
    /\ BelowLimit(request.operation)
    /\ Cardinality(Counted) < TotalCalls

(* CanaryAuthorityContext: standing authority, and no kill switch *)
StandingAuthority == standing

(* authorize_canary_request: counts come from the verified chain alone *)
Decision(request) == StandingAuthority /\ ValidChain /\ WithinBudget(request)

(* advance_canary_receipt on the present head, and the check of update that *)
(* the new link follows the head the claim was authorised for              *)
Advances(k) == WithinBudget(k[1]) /\ k[2] = ChainHead

CleanupOf(request) == [request EXCEPT !.operation = "delete"]

(***************************************************************************)
(* The ledger.                                                             *)
(***************************************************************************)
Matching(request, purpose) ==
    {k \in CanaryClaims : k[1] = request /\ record[k] # Absent /\ record[k].purpose = purpose}

(* predecessor: the one verified record that made the head; none or several *)
(* is an error                                                              *)
Predecessors ==
    {k \in CanaryClaims : /\ record[k] # Absent /\ record[k].state = "verified"
                    /\ chain # <<>> /\ chain[Len(chain)].claim = k}

NewRecord(purpose) == [purpose |-> purpose, state |-> "claimed", retried |-> FALSE]

(* sealed_state: the chain and the records *)
Kept == {k \in CanaryClaims : record[k] # Absent}

(* hydrate: the chain is valid, every link of it has its verified record,  *)
(* every record that is not verified was authorised at the present head,   *)
(* and a request has one record for a purpose                              *)
Hydratable ==
    LET verified == {k \in Kept : record[k].state = "verified"}
    IN /\ ValidChain /\ verified = Links
       /\ \A k \in Kept \ verified : k[2] = ChainHead
       /\ \A j, k \in Kept :
              (j[1] = k[1] /\ record[j].purpose = record[k].purpose) => j = k

(***************************************************************************)
(* The target and the broker.  A dispatch takes effect before it answers,   *)
(* after it failed or timed out, or never; a read-back tells the            *)
(* postcondition as it is then, or is ambiguous.                            *)
(***************************************************************************)
Effect(request) ==
    IF request.operation = "create" THEN target \cup {request.resource}
                                    ELSE target \ {request.resource}

SemanticReadback(request) == IF Effect(request) = target THEN "applied" ELSE "absent"

(***************************************************************************)
(* The orchestrator.  A caller holds the purpose and the request of its    *)
(* call, then the claim, then whether a retry is allowed, then what it     *)
(* read back.                                                              *)
(***************************************************************************)
CallAt(c, step) == calls[c] # Absent /\ calls[c].step = step
CallMoves(c, next) == calls' = [calls EXCEPT ![c] = next]
CallEnds(c) == calls' = [calls EXCEPT ![c] = Absent]

Working(step, k) == [step |-> step, claim |-> k]

(* _begin: matching; a request that has a record converges on it *)
Deliver(c, request, purpose) ==
    /\ calls[c] = Absent
    /\ Matching(request, purpose) = {}
    /\ CallMoves(c, [step |-> "matched", request |-> request, purpose |-> purpose])
    /\ UNCHANGED <<ledger, standing, fence, outside, restarts>>

(* rollback and cleanup exactly reverse the retained predecessor, whose    *)
(* effect the pre-read finds                                               *)
Reverses(request) ==
    \E k \in CanaryClaims : /\ Predecessors = {k}
                      /\ k[1].operation = "create" /\ request = CleanupOf(k[1])
                      /\ k[1].resource \in target

(* _decision, the predecessor and the pre-read *)
Decide(c) ==
    /\ CallAt(c, "matched")
    /\ Decision(calls[c].request)
    /\ calls[c].purpose # "execute" => Reverses(calls[c].request)
    /\ CallMoves(c, [step |-> "decided", purpose |-> calls[c].purpose,
                claim |-> <<calls[c].request, ChainHead>>])
    /\ UNCHANGED <<ledger, standing, fence, outside, restarts>>

DecideRefused(c) ==
    /\ CallAt(c, "matched")
    /\ CallEnds(c)
    /\ UNCHANGED <<ledger, standing, fence, outside, restarts>>

(* reserve: an existing record of the claim is returned or conflicts *)
ReserveRecord(c) ==
    /\ CallAt(c, "decided")
    /\ LET k == calls[c].claim
       IN IF record[k] = Absent
          THEN /\ record' = [record EXCEPT ![k] = NewRecord(calls[c].purpose)]
               /\ CallMoves(c, Working("reserved", k))
          ELSE CallEnds(c) /\ UNCHANGED record
    /\ UNCHANGED <<chain, hydrated, standing, fence, outside, restarts>>

(* CanaryOrchestratorLease.claim: the first claim of a head's key owns it *)
Granted(k) == fence[k[2]] \in {Absent, k[1]}
LeaseTaken(k) == Granted(k) /\ fence' = [fence EXCEPT ![k[2]] = k[1]]

(* claim refuses, or raises whether it took the key or not *)
LeaseFails(k) == UNCHANGED fence \/ LeaseTaken(k)

Preserve(k) == record' = [record EXCEPT ![k].state = "preserved"]

ClaimLease(c) ==
    /\ CallAt(c, "reserved")
    /\ LET k == calls[c].claim
       IN \/ LeaseTaken(k) /\ CallMoves(c, Working("claimed", k)) /\ UNCHANGED record
          \/ LeaseFails(k) /\ Preserve(k) /\ CallEnds(c)
    /\ UNCHANGED <<chain, hydrated, standing, outside, restarts>>

(* broker.dispatch: accepted, or refused or raised *)
DispatchCanary(c, accepted) ==
    /\ CallAt(c, "claimed")
    /\ LET k == calls[c].claim
       IN /\ dispatches' = [dispatches EXCEPT ![k] = @ + 1]
          /\ CallMoves(c, [step |-> "dispatched", claim |-> k, allow |-> ~accepted])
    /\ UNCHANGED <<ledger, standing, fence, target, landed, missed, restarts>>

(* What was dispatched takes effect. *)
CanaryLands(k) ==
    /\ landed[k] < dispatches[k]
    /\ landed' = [landed EXCEPT ![k] = @ + 1]
    /\ target' = Effect(k[1])
    /\ UNCHANGED <<ledger, standing, fence, dispatches, missed, calls, restarts>>

(* _readback, the broker's answer *)
ReadBackTarget(c, seen) ==
    /\ CallAt(c, "dispatched")
    /\ LET k == calls[c].claim
       IN /\ seen \in {"ambiguous", SemanticReadback(k[1])}
          /\ missed' = IF seen = "absent" THEN missed \cup {k} ELSE missed
          /\ CallMoves(c, [step |-> "read", claim |-> k, allow |-> calls[c].allow, seen |-> seen])
    /\ UNCHANGED <<ledger, standing, fence, target, dispatches, landed, restarts>>

\* Mutant: an ambiguous read-back permits the retry.
ReadingUnclear(k, seen, allow) ==
    IF seen = "applied" /\ Advances(k) THEN "verified"
    ELSE IF seen = "applied" THEN "quarantined"
    ELSE IF allow /\ ~record[k].retried THEN "retry" ELSE "preserved"

(* the state _readback writes for what was read *)
StateAfter(k, seen, allow) ==
    IF seen = "applied" /\ Advances(k) THEN "verified"
    ELSE IF seen \in {"applied", "ambiguous"} THEN "quarantined"
    ELSE IF allow /\ ~record[k].retried THEN "retry" ELSE "preserved"

(* _readback: the receipt is advanced from the head, the allowance is read. *)
(* Once a claim was appended twice, the head may be another receipt of the  *)
(* same claim.                                                              *)
ConcludeReading(c) ==
    /\ CallAt(c, "read")
    /\ LET k == calls[c].claim
           state == StateAfter(k, calls[c].seen, calls[c].allow)
       IN \E concluded \in {state} \cup IF state = "verified" /\ ~ValidChain THEN {"quarantined"} ELSE {} :
             CallMoves(c, [step |-> "concluded", claim |-> k, state |-> concluded])
    /\ UNCHANGED <<ledger, standing, fence, outside, restarts>>

(* update: whatever the record and the chain say by now; a verified record *)
(* only asks that its receipt follows the head it was authorised at        *)
WriteOutcome(c) ==
    /\ CallAt(c, "concluded")
    /\ LET k == calls[c].claim
       IN /\ record' = [record EXCEPT ![k].state = calls[c].state]
          /\ chain' = IF calls[c].state = "verified"
                      THEN Append(chain, [operation |-> k[1].operation, claim |-> k])
                      ELSE chain
    /\ CallEnds(c)
    /\ UNCHANGED <<hydrated, standing, fence, outside, restarts>>

(* the record is still authorised at the present head *)
Undrifted(k) == record[k] # Absent /\ Decision(k[1]) /\ k[2] = ChainHead

ReconcileRecord(c, k) ==
    /\ calls[c] = Absent
    /\ Undrifted(k)
    /\ record[k].state \in {"quarantined", "retry"}
    /\ CallMoves(c, [step |-> "dispatched", claim |-> k, allow |-> TRUE])
    /\ UNCHANGED <<ledger, standing, fence, outside, restarts>>

Retry(c, k) ==
    /\ calls[c] = Absent
    /\ Undrifted(k)
    /\ record[k].state = "retry"
    /\ CallMoves(c, Working("retrying", k))
    /\ UNCHANGED <<ledger, standing, fence, outside, restarts>>

(* A hydrated ledger proves the fence again. *)
RetryUnproven(c) ==
    /\ CallAt(c, "retrying")
    /\ hydrated
    /\ LeaseFails(calls[c].claim)
    /\ Preserve(calls[c].claim)
    /\ CallEnds(c)
    /\ UNCHANGED <<chain, hydrated, standing, outside, restarts>>

ConsumeRetry(c) ==
    /\ CallAt(c, "retrying")
    /\ LET k == calls[c].claim
       IN /\ IF hydrated THEN LeaseTaken(k) ELSE UNCHANGED fence
          /\ IF record[k].state = "retry" /\ ~record[k].retried
             THEN /\ record' = [record EXCEPT ![k].state = "claimed", ![k].retried = TRUE]
                  /\ CallMoves(c, Working("claimed", k))
             ELSE CallEnds(c) /\ UNCHANGED record
    /\ UNCHANGED <<chain, hydrated, standing, outside, restarts>>

(* The process dies; a replacement hydrates the sealed state, in a context *)
(* that may grant nothing.                                                 *)
Restart(granted) ==
    /\ restarts < MaxRestarts
    /\ Hydratable
    /\ restarts' = restarts + 1
    /\ hydrated' = TRUE /\ standing' = granted
    /\ calls' = [c \in Callers |-> Absent]
    /\ UNCHANGED <<chain, record, fence, outside>>

CanaryNext ==
    \/ \E c \in Callers, request \in CanaryRequests, purpose \in Purposes :
           Deliver(c, request, purpose)
    \/ \E c \in Callers : Decide(c)
    \/ \E c \in Callers : DecideRefused(c)
    \/ \E c \in Callers : ReserveRecord(c)
    \/ \E c \in Callers : ClaimLease(c)
    \/ \E c \in Callers, accepted \in BOOLEAN : DispatchCanary(c, accepted)
    \/ \E k \in CanaryClaims : CanaryLands(k)
    \/ \E c \in Callers, seen \in {"applied", "absent", "ambiguous"} : ReadBackTarget(c, seen)
    \/ \E c \in Callers : ConcludeReading(c)
    \/ \E c \in Callers : WriteOutcome(c)
    \/ \E c \in Callers, k \in CanaryClaims : ReconcileRecord(c, k)
    \/ \E c \in Callers, k \in CanaryClaims : Retry(c, k)
    \/ \E c \in Callers : RetryUnproven(c)
    \/ \E c \in Callers : ConsumeRetry(c)
    \/ \E granted \in BOOLEAN : Restart(granted)

CanarySpec == CanaryInit /\ [][CanaryNext]_canaryVars

(***************************************************************************)
(* Properties.                                                             *)
(***************************************************************************)
(* What took effect, by operation *)
Effective(operation) == {k \in CanaryClaims : landed[k] > 0 /\ k[1].operation = operation}

(* canary_execution.py:730-889: the budget is counted from verified links   *)
(* only, and a dispatch may land after a read-back missed it, yet what      *)
(* really took effect stays within it: a head is spent by one claim, which  *)
(* is dispatched once, and a second time only by its one retry, after a     *)
(* read-back found its effect absent.                                       *)
EffectsWithinBudget ==
    /\ \A operation \in Operations : Cardinality(Effective(operation)) <= Limit[operation]
    /\ Cardinality({k \in CanaryClaims : landed[k] > 0}) <= TotalCalls
    /\ \A j, k \in CanaryClaims : dispatches[j] > 0 /\ dispatches[k] > 0 /\ j[2] = k[2] => j = k
    /\ \A k \in CanaryClaims : dispatches[k] > 1 => dispatches[k] = 2 /\ record[k].retried /\ k \in missed

(* canary_execution.py:251-253: the ledger "retains a sealed, local-only   *)
(* snapshot that a replacement coordinator can validate".                  *)
SnapshotHydrates == Hydratable
=============================================================================
