-------------------------- MODULE DeploymentHandoff --------------------------
(***************************************************************************)
(* Deployment authority and the native host (deployment_handoff.py,        *)
(* native_host.py).  One canonical store holds the active receipt, the     *)
(* exclusive claim of one coordinator and the progress of a handoff; every *)
(* method of a coordinator runs under the store's lock.  A native host     *)
(* starts, renews, ends and recovers children, each through                *)
(* transition_if_authorized, so that the authority it was checked against  *)
(* holds while the child's row is written.  A coordinator or a host that   *)
(* dies is one that takes no further step; a host that comes back is       *)
(* installed again and knows nothing of its earlier children.              *)
(***************************************************************************)
EXTENDS Naturals, FiniteSets

CONSTANTS Coordinators,   \* sessions; each claims under its own fingerprint
          Receipts,
          IdentityOf,     \* the candidate and environment a receipt names
          ExpiryOf,       \* end of a receipt's validity window
          Handoffs,       \* handoff fingerprints
          Evidence,       \* stale-owner evidence fingerprints
          EvidenceFor,    \* how long such evidence is valid
          Children,       \* process identities
          LeaseFor, StaleAfter,
          MaxNow,         \* bound: the caller's clock
          Vacant

VARIABLES now,
          active,        \* the active receipt
          claim,         \* _claim_*: token, receipt and fingerprint
          generation,    \* _claim_generation, never cleared
          progress,      \* HandoffProgress
          handoffClaim,  \* _handoff_*: token, handoff, owner and generation
          revoked, consumed,
          evidence,      \* HandoffRecoveryClaims the external store reports
          metadata,      \* native_host_metadata: the installed receipt
          child,         \* native_host_process
          hosts,         \* the NativeHost object of a coordinator
          retired,       \* history: receipts whose handoff has begun
          tenure         \* history: how often the authority changed hands

authority == <<active, claim, generation, progress, handoffClaim, revoked, consumed, evidence>>
local == <<metadata, child, hosts>>
handoffVars == <<now, active, claim, generation, progress, handoffClaim, revoked, consumed,
                 evidence, metadata, child, hosts, retired, tenure>>

Identities == {IdentityOf[r] : r \in Receipts}

ClaimRow == [token : Coordinators, receipt : Receipts, owner : Coordinators]
ProgressRow == [handoff : Handoffs, old : Receipts, target : Identities,
                phase : {"stopping", "reconciled", "revoked"}, owner : Coordinators,
                generation : Nat]
EvidenceRow == [handoff : Handoffs, receipt : Receipts, owner : Coordinators, generation : Nat,
                replacement : Coordinators, observed : Nat, expires : Nat, about : Nat]
HostRow == [receipt : Receipts, state : {"idle", "running", "stopped"},
            process : Children \cup {Vacant}, used : SUBSET Children]

ASSUME WindowsAssumption ==
    /\ ExpiryOf \in [Receipts -> Nat]
    /\ {EvidenceFor, LeaseFor, StaleAfter, MaxNow} \subseteq Nat
    /\ Vacant \notin Receipts /\ Vacant \notin ClaimRow /\ Vacant \notin ProgressRow
    /\ Vacant \notin EvidenceRow /\ Vacant \notin HostRow

HandoffInit ==
    /\ now = 0
    /\ active = Vacant /\ claim = Vacant /\ generation = 0
    /\ progress = Vacant /\ handoffClaim = Vacant
    /\ revoked = {} /\ consumed = {}
    /\ evidence = [e \in Evidence |-> Vacant]
    /\ metadata = Vacant
    /\ child = [p \in Children |-> Vacant]
    /\ hosts = [c \in Coordinators |-> Vacant]
    /\ retired = {} /\ tenure = 0

(***************************************************************************)
(* What the store says.                                                    *)
(***************************************************************************)
(* _receipt_current *)
Current(r) == now < ExpiryOf[r]

HoldsClaim(c, r) == claim # Vacant /\ claim.token = c /\ claim.receipt = r

HoldsHandoff(c) ==
    /\ progress # Vacant /\ handoffClaim # Vacant
    /\ handoffClaim = [token |-> c, handoff |-> progress.handoff, owner |-> progress.owner,
                       generation |-> progress.generation]

\* Mutant: an open handoff does not block the old receipt.
AuthorizedInHandoff(c, r) ==
    /\ active = r /\ r \notin revoked
    /\ HoldsClaim(c, r)
    /\ Current(r)

(* _authorize_locked *)
Authorized(c, r) ==
    /\ progress = Vacant
    /\ active = r /\ r \notin revoked
    /\ HoldsClaim(c, r)
    /\ Current(r)

\* Mutant: the evidence's generation is not compared.
RecoveryMatchesOwner(e, h, r, owner, gen) ==
    /\ evidence[e] # Vacant /\ e \notin consumed
    /\ evidence[e].handoff = h /\ evidence[e].receipt = r
    /\ evidence[e].owner = owner
    /\ evidence[e].observed <= now /\ now < evidence[e].expires

(* _recovery_matches, and the evidence is not yet consumed *)
RecoveryMatches(e, h, r, owner, gen) ==
    /\ evidence[e] # Vacant /\ e \notin consumed
    /\ evidence[e].handoff = h /\ evidence[e].receipt = r
    /\ evidence[e].owner = owner /\ evidence[e].generation = gen
    /\ evidence[e].observed <= now /\ now < evidence[e].expires

(***************************************************************************)
(* The coordinator.                                                        *)
(***************************************************************************)
ActivateInitial(r) ==
    /\ active = Vacant /\ progress = Vacant
    /\ Current(r) /\ r \notin revoked
    /\ active' = r
    /\ claim' = Vacant /\ handoffClaim' = Vacant
    /\ UNCHANGED <<now, generation, progress, revoked, consumed, evidence, local, retired,
                   tenure>>

(* A second claim of the holder itself is accepted and changes nothing. *)
ClaimOrchestrator(c, r) ==
    /\ progress = Vacant
    /\ active = r /\ Current(r)
    /\ claim = Vacant
    /\ claim' = [token |-> c, receipt |-> r, owner |-> c]
    /\ generation' = generation + 1
    /\ tenure' = tenure + 1
    /\ UNCHANGED <<now, active, progress, handoffClaim, revoked, consumed, evidence, local,
                   retired>>

FreshOwner(c, r) == HoldsClaim(c, r) /\ Current(r)

(* HandoffProgress *)
NewProgress(h, r, target, owner, gen) ==
    [handoff |-> h, old |-> r, target |-> target, phase |-> "stopping", owner |-> owner,
     generation |-> gen]

(* The handoff belongs to the session that begins it, under the owner and   *)
(* generation given.                                                        *)
StartHandoff(c, r, target, h, owner, gen) ==
    /\ progress = Vacant /\ active = r
    /\ target # IdentityOf[r]
    /\ progress' = NewProgress(h, r, target, owner, gen)
    /\ handoffClaim' = [token |-> c, handoff |-> h, owner |-> owner, generation |-> gen]
    /\ retired' = retired \cup {r}
    /\ UNCHANGED <<now, active, claim, generation, revoked, evidence, local>>

(* begin_handoff by the fresh owner, which may bring no recovery evidence *)
BeginHandoff(c, r, target, h) ==
    /\ FreshOwner(c, r)
    /\ StartHandoff(c, r, target, h, claim.owner, generation)
    /\ UNCHANGED <<consumed, tenure>>

(* begin_handoff with recovery evidence about the claim's owner *)
BeginRecovered(c, r, target, h, e) ==
    /\ ~FreshOwner(c, r)
    /\ claim # Vacant
    /\ RecoveryMatches(e, h, r, claim.owner, generation)
    /\ StartHandoff(c, r, target, h, evidence[e].replacement, evidence[e].generation + 1)
    /\ consumed' = consumed \cup {e}
    /\ tenure' = tenure + 1

RecoverHandoff(c, e) ==
    /\ progress # Vacant
    /\ RecoveryMatches(e, progress.handoff, progress.old, progress.owner, progress.generation)
    /\ LET heir == [owner |-> evidence[e].replacement, generation |-> evidence[e].generation + 1]
       IN /\ progress' = [progress EXCEPT !.owner = heir.owner, !.generation = heir.generation]
          /\ handoffClaim' = [token |-> c, handoff |-> progress.handoff, owner |-> heir.owner,
                              generation |-> heir.generation]
    /\ consumed' = consumed \cup {e}
    /\ tenure' = tenure + 1
    /\ UNCHANGED <<now, active, claim, generation, revoked, evidence, local, retired>>

(* The evidence of reconcile is external: complete evidence is accepted. *)
ReconcileHandoff(c) ==
    /\ HoldsHandoff(c) /\ progress.phase = "stopping"
    /\ progress' = [progress EXCEPT !.phase = "reconciled"]
    /\ UNCHANGED <<now, active, claim, generation, handoffClaim, revoked, consumed, evidence,
                   local, retired, tenure>>

RevokeOldReceipt(c) ==
    /\ HoldsHandoff(c) /\ progress.phase = "reconciled"
    /\ active = progress.old
    /\ revoked' = revoked \cup {active}
    /\ active' = Vacant /\ claim' = Vacant
    /\ progress' = [progress EXCEPT !.phase = "revoked"]
    /\ UNCHANGED <<now, generation, handoffClaim, consumed, evidence, local, retired, tenure>>

(* Issuance and the transfer of the claim are one step. *)
IssueNewReceipt(c, r) ==
    /\ HoldsHandoff(c) /\ progress.phase = "revoked"
    /\ IdentityOf[r] = progress.target
    /\ Current(r) /\ r \notin revoked
    /\ active' = r
    /\ claim' = [token |-> c, receipt |-> r, owner |-> progress.owner]
    /\ generation' = progress.generation
    /\ handoffClaim' = Vacant /\ progress' = Vacant
    /\ UNCHANGED <<now, revoked, consumed, evidence, local, retired, tenure>>

CompleteTeardown(c) ==
    /\ HoldsHandoff(c) /\ progress.phase = "revoked" /\ active = Vacant
    /\ progress' = Vacant /\ handoffClaim' = Vacant
    /\ UNCHANGED <<now, active, claim, generation, revoked, consumed, evidence, local, retired,
                   tenure>>

(***************************************************************************)
(* Outside: the canonical store reports that the present owner is stale,   *)
(* naming a replacement; the clock moves.                                  *)
(***************************************************************************)
(* HandoffRecoveryClaim: valid for a while from its observation *)
StaleOwner(h, r, owner, gen, replacement) ==
    [handoff |-> h, receipt |-> r, owner |-> owner, generation |-> gen,
     replacement |-> replacement, observed |-> now, expires |-> now + EvidenceFor,
     about |-> tenure]

ObserveStaleOwner(e, h, replacement) ==
    /\ evidence[e] = Vacant
    /\ \/ /\ progress # Vacant /\ h = progress.handoff
          /\ evidence' = [evidence EXCEPT ![e] =
                 StaleOwner(h, progress.old, progress.owner, progress.generation, replacement)]
       \/ /\ progress = Vacant /\ claim # Vacant
          /\ evidence' = [evidence EXCEPT ![e] =
                 StaleOwner(h, active, claim.owner, generation, replacement)]
    /\ UNCHANGED <<now, active, claim, generation, progress, handoffClaim, revoked, consumed,
                   local, retired, tenure>>

Elapses ==
    /\ now < MaxNow
    /\ now' = now + 1
    /\ UNCHANGED <<authority, local, retired, tenure>>

(***************************************************************************)
(* The native host.                                                        *)
(***************************************************************************)
(* NativeHostControlStore._matches *)
Matches(host) == metadata = host.receipt

Running(p) == child[p] # Vacant /\ child[p].state = "running"

(* NativeHostControlStore.install: the database is new, or this receipt's. *)
Installable(r) == metadata \in {Vacant, r}

NewHost(r) == [receipt |-> r, state |-> "idle", process |-> Vacant, used |-> {}]

(* install_native_host into the user's one state database.  Whether the    *)
(* worktree's branch is at the receipt's candidate is outside.             *)
InstallNativeHost(c, r) ==
    /\ Authorized(c, r)
    /\ Installable(r)
    /\ metadata' = r
    /\ hosts' = [hosts EXCEPT ![c] = NewHost(r)]
    /\ UNCHANGED <<now, authority, child, retired, tenure>>

(* _run_authorized_transition of the coordinator's host *)
HostActs(c) ==
    /\ hosts[c] # Vacant
    /\ Authorized(c, hosts[c].receipt)
    /\ UNCHANGED <<now, authority, metadata, retired, tenure>>

(* run_once and request_scheduler_wake: _start, with admit *)
StartChild(c, p) ==
    /\ HostActs(c)
    /\ hosts[c].state = "idle" /\ p \notin hosts[c].used
    /\ Matches(hosts[c])
    /\ ~\E q \in Children : Running(q)
    /\ child[p] = Vacant
    /\ child' = [child EXCEPT ![p] = [receipt |-> hosts[c].receipt, state |-> "running",
                                      started |-> now, lease |-> now + LeaseFor]]
    /\ hosts' = [hosts EXCEPT ![c].state = "running", ![c].process = p,
                              ![c].used = @ \cup {p}]

(* NativeHostControlStore.finish and renew_lease, of the active child *)
OwnChild(c) == Matches(hosts[c]) /\ Running(hosts[c].process)
StoreFinish(c, state) == OwnChild(c) /\ child' = [child EXCEPT ![hosts[c].process].state = state]
StoreRenew(c) ==
    OwnChild(c) /\ child' = [child EXCEPT ![hosts[c].process].lease = now + LeaseFor]

(* complete and cancel of the active child; a second cancel changes nothing *)
Finish(c, state) ==
    /\ HostActs(c)
    /\ hosts[c].state = "running"
    /\ StoreFinish(c, state)
    /\ hosts' = [hosts EXCEPT ![c].state = "idle", ![c].process = Vacant]

RenewChildLease(c) ==
    /\ HostActs(c)
    /\ hosts[c].state = "running"
    /\ StoreRenew(c)
    /\ UNCHANGED hosts

(* NativeHostControlStore.recover_stale: too old, and its lease has run out *)
IsStale(p) ==
    Running(p) /\ now >= child[p].started + StaleAfter /\ now >= child[p].lease

RecoverStaleChild(c, p) ==
    /\ HostActs(c)
    /\ Matches(hosts[c])
    /\ IsStale(p)
    /\ child' = [child EXCEPT ![p].state = "recovered"]
    /\ hosts' = IF hosts[c].process = p
                THEN [hosts EXCEPT ![c].state = "idle", ![c].process = Vacant]
                ELSE hosts

(* stop asks no authority *)
Stop(c) ==
    /\ hosts[c] # Vacant /\ hosts[c].state = "idle"
    /\ hosts' = [hosts EXCEPT ![c].state = "stopped"]
    /\ UNCHANGED <<now, authority, metadata, child, retired, tenure>>

HandoffNext ==
    \/ \E r \in Receipts : ActivateInitial(r)
    \/ \E c \in Coordinators, r \in Receipts : ClaimOrchestrator(c, r)
    \/ \E c \in Coordinators, r \in Receipts, target \in Identities, h \in Handoffs :
           BeginHandoff(c, r, target, h)
    \/ \E c \in Coordinators, r \in Receipts, target \in Identities, h \in Handoffs,
          e \in Evidence : BeginRecovered(c, r, target, h, e)
    \/ \E c \in Coordinators, e \in Evidence : RecoverHandoff(c, e)
    \/ \E c \in Coordinators : ReconcileHandoff(c)
    \/ \E c \in Coordinators : RevokeOldReceipt(c)
    \/ \E c \in Coordinators, r \in Receipts : IssueNewReceipt(c, r)
    \/ \E c \in Coordinators : CompleteTeardown(c)
    \/ \E e \in Evidence, h \in Handoffs, c \in Coordinators : ObserveStaleOwner(e, h, c)
    \/ Elapses
    \/ \E c \in Coordinators, r \in Receipts : InstallNativeHost(c, r)
    \/ \E c \in Coordinators, p \in Children : StartChild(c, p)
    \/ \E c \in Coordinators, state \in {"completed", "cancelled"} : Finish(c, state)
    \/ \E c \in Coordinators : RenewChildLease(c)
    \/ \E c \in Coordinators, p \in Children : RecoverStaleChild(c, p)
    \/ \E c \in Coordinators : Stop(c)

HandoffSpec == HandoffInit /\ [][HandoffNext]_handoffVars

(***************************************************************************)
(* Properties.                                                             *)
(***************************************************************************)
(* Stale-owner evidence takes the authority only from the tenure it was    *)
(* observed about: evidence kept back while the handoff changed hands, even *)
(* back to the same claim fingerprint, displaces nobody.                   *)
EvidenceNamesTheOwner ==
    [][\A e \in consumed' \ consumed : evidence[e].about = tenure]_handoffVars

(* Once a handoff has begun, no host admits another child under the old    *)
(* receipt, neither while the handoff is open nor after it was torn down.  *)
RetiredReceiptsAdmitNothing ==
    [][\A c \in Coordinators :
           (hosts'[c] # hosts[c] /\ hosts'[c].state = "running") =>
                hosts'[c].receipt \notin retired]_handoffVars
=============================================================================
