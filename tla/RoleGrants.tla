----------------------------- MODULE RoleGrants -----------------------------
(***************************************************************************)
(* Role admission and the role budget (role_capability_policy.py).  The    *)
(* owner admits one dedicated role instance by a record in the accepted    *)
(* main commit.  A host seals an execution against that record, debits the *)
(* role's whole budget before an effect, and reads the record and the      *)
(* debit again just before the effect.  The budget ledger is a database    *)
(* of its own: it outlives processes and moves of main, and only a         *)
(* recovery that holds the product ledger may refund it.                   *)
(***************************************************************************)
EXTENDS Naturals, FiniteSets

CONSTANTS Hosts,           \* processes with their own sealed executions
          EffectRequests,  \* provider attempts, with their request material
          MaxMain,         \* bound: accepted main commits
          MaxTime,         \* bound: the clock, and the latest expiry
          Budget,          \* what a role may spend: the worst case of one effect
          NoGrant

ASSUME BudgetAssumption == Budget \in Nat

VARIABLES main,       \* refs/remotes/origin/main
          accepted,   \* the admission record of every commit so far
          clock,
          capsule,    \* SealedRoleExecution of a host: the commit it was sealed at
          launch,     \* TrustedProviderLaunchContext: the commit of its guidance
          held,       \* TrustedRoleEffectReservation of a host
          usage,      \* role_budget_usage
          owned,      \* requests with a durable provider attempt
          cleared,    \* the host's effect passed its last check, under this commit
          performed   \* (history) the ledger keys of the effects

hostVars == <<capsule, launch, held, cleared>>
grantVars == <<main, accepted, clock, capsule, launch, held, usage, owned, cleared, performed>>

(* RoleAdmissionExpectation and the record it pins: instance generation, expiry,
   revocation, and whether the scope holds the seam's capability and descriptors. *)
AdmissionRecord == [epoch : 1..MaxMain, until : 0..MaxTime, revoked : BOOLEAN, scoped : BOOLEAN]

(* RoleCapabilityGrant.receipt_digest: revocation is not part of the grant. *)
Grant(v) == [epoch |-> accepted[v].epoch, until |-> accepted[v].until,
             scoped |-> accepted[v].scoped]
(* ExecutionInstanceBinding.digest: the instance and the exact request. *)
Binding(v, q) == <<accepted[v].epoch, q>>
(* derive_and_require_execution_for_effect: the binding is derived again, from the
   capsule a host carries and the request it is about to make. *)
Derived(h, q) == Binding(capsule[h], q)
Key(v, q) == <<Grant(v), Binding(v, q)>>
Used(k) == IF k \in DOMAIN usage THEN usage[k] ELSE 0

GrantsInit ==
    /\ main = 1
    /\ accepted \in [{1} -> {r \in AdmissionRecord : r.epoch = 1}]
    /\ clock = 0
    /\ capsule = [h \in Hosts |-> NoGrant]
    /\ launch = [h \in Hosts |-> NoGrant]
    /\ held = [h \in Hosts |-> NoGrant]
    /\ cleared = [h \in Hosts |-> NoGrant]
    /\ usage = [k \in {} |-> 0]
    /\ owned = {} /\ performed = {}

(***************************************************************************)
(* The owner's side.                                                       *)
(***************************************************************************)
(* validate_instance_continuity: the same instance, or its fenced successor. *)
Continues(previous, current) == current.epoch \in {previous.epoch, previous.epoch + 1}

AcceptMain ==
    /\ main < MaxMain
    /\ main' = main + 1
    /\ \E r \in AdmissionRecord :
          /\ Continues(accepted[main], r)
          /\ accepted' = [v \in 1..(main + 1) |-> IF v = main + 1 THEN r ELSE accepted[v]]
    /\ UNCHANGED <<hostVars, clock, usage, owned, performed>>

Tick ==
    /\ clock < MaxTime
    /\ clock' = clock + 1
    /\ UNCHANGED <<hostVars, main, accepted, usage, owned, performed>>

(***************************************************************************)
(* Admission.                                                              *)
(***************************************************************************)
(* FileRoleAdmissionStore.read: the checkout must still be at the commit the store
   was resolved for. *)
StoreReads(v) == v = main

(* read_verified_admission *)
Verified(v) ==
    /\ StoreReads(v)
    /\ clock <= accepted[v].until
    /\ ~accepted[v].revoked

(* require_verified_role_admission, for the execution a host carries *)
RequireBeforeEffect(h) ==
    /\ capsule[h] # NoGrant
    /\ Verified(capsule[h])
    /\ accepted[capsule[h]].scoped

(* A host's composition: contract, guidance evidence and binding of one commit. *)
Compose(h) ==
    /\ Verified(main)
    /\ capsule' = [capsule EXCEPT ![h] = main]
    /\ launch' = [launch EXCEPT ![h] = NoGrant]
    /\ UNCHANGED <<main, accepted, clock, held, usage, owned, cleared, performed>>

Launch(h) ==
    /\ RequireBeforeEffect(h)
    /\ launch' = [launch EXCEPT ![h] = capsule[h]]
    /\ UNCHANGED <<main, accepted, clock, capsule, held, usage, owned, cleared, performed>>

(***************************************************************************)
(* The budget ledger.                                                      *)
(***************************************************************************)
Reservation(h, q) == [request |-> q, binding |-> Derived(h, q), key |-> Key(capsule[h], q)]

(* RoleBudget: calls, seconds and tokens are one number here. *)
WithinBudget(spent) == spent <= Budget

(* consume: one immediate transaction *)
Consume(k, exposure) ==
    /\ WithinBudget(Used(k) + exposure)
    /\ usage' = [j \in DOMAIN usage \cup {k} |-> IF j = k THEN Used(k) + exposure ELSE usage[j]]

(* reserve_role_effect: the role's whole budget *)
Reserve(h, q) ==
    /\ held[h] = NoGrant
    /\ RequireBeforeEffect(h)
    /\ Consume(Key(capsule[h], q), Budget)
    /\ held' = [held EXCEPT ![h] = Reservation(h, q)]
    /\ UNCHANGED <<main, accepted, clock, capsule, launch, owned, cleared, performed>>

Reserved(k) == Used(k) = Budget

(* recover_role_effect_reservation: the exact debit, without spending again *)
Recover(h, q) ==
    /\ held[h] = NoGrant
    /\ RequireBeforeEffect(h)
    /\ Reserved(Key(capsule[h], q))
    /\ held' = [held EXCEPT ![h] = Reservation(h, q)]
    /\ UNCHANGED <<main, accepted, clock, capsule, launch, usage, owned, cleared, performed>>

(* The attempt is admitted to the product ledger after its debit. *)
Admit(h) ==
    /\ held[h] # NoGrant
    /\ owned' = owned \cup {held[h].request}
    /\ UNCHANGED <<main, accepted, clock, hostVars, usage, performed>>

\* Mutant: the refund does not look for an attempt.
ReleaseOwned(h) ==
    /\ held[h] # NoGrant
    /\ Reserved(held[h].key)
    /\ usage' = [k \in DOMAIN usage \ {held[h].key} |-> usage[k]]
    /\ held' = [held EXCEPT ![h] = NoGrant]
    /\ UNCHANGED <<main, accepted, clock, capsule, launch, owned, cleared, performed>>

(* release_unused_provider_effect_reservation: no attempt owns the debit, which the
   product ledger's lock keeps so until the refund is written. *)
Release(h) ==
    /\ held[h] # NoGrant
    /\ held[h].request \notin owned
    /\ Reserved(held[h].key)
    /\ usage' = [k \in DOMAIN usage \ {held[h].key} |-> usage[k]]
    /\ held' = [held EXCEPT ![h] = NoGrant]
    /\ UNCHANGED <<main, accepted, clock, capsule, launch, owned, cleared, performed>>

(***************************************************************************)
(* The effect.                                                             *)
(***************************************************************************)
(* TrustedRoleEffectReservation.require_before_effect: the admission is read, the
   binding derived and the debit read back once more. *)
CheckEffect(h) ==
    /\ held[h] # NoGrant /\ launch[h] # NoGrant /\ cleared[h] = NoGrant
    /\ held[h].request \in owned
    /\ RequireBeforeEffect(h)
    /\ Derived(h, held[h].request) = held[h].binding
    /\ Reserved(held[h].key)
    /\ cleared' = [cleared EXCEPT ![h] = main]
    /\ UNCHANGED <<main, accepted, clock, capsule, launch, held, usage, owned, performed>>

(* TrustedProviderLaunchContext.verify: the context is the one that was sealed. *)
Perform(h) ==
    /\ cleared[h] # NoGrant
    /\ performed' = performed \cup {held[h].key}
    /\ cleared' = [cleared EXCEPT ![h] = NoGrant]
    /\ held' = [held EXCEPT ![h] = NoGrant]
    /\ UNCHANGED <<main, accepted, clock, capsule, launch, usage, owned>>

(* A process dies with everything it held in memory. *)
HostCrash(h) ==
    /\ capsule' = [capsule EXCEPT ![h] = NoGrant]
    /\ launch' = [launch EXCEPT ![h] = NoGrant]
    /\ held' = [held EXCEPT ![h] = NoGrant]
    /\ cleared' = [cleared EXCEPT ![h] = NoGrant]
    /\ UNCHANGED <<main, accepted, clock, usage, owned, performed>>

(* Between the check and the effect the host does nothing else. *)
HostStep(h) ==
    \/ /\ cleared[h] = NoGrant
       /\ \/ \E q \in EffectRequests : Reserve(h, q) \/ Recover(h, q)
          \/ Compose(h) \/ Launch(h) \/ Admit(h) \/ Release(h) \/ CheckEffect(h)
    \/ Perform(h)
    \/ HostCrash(h)

GrantsNext == AcceptMain \/ Tick \/ \E h \in Hosts : HostStep(h)
GrantsSpec == GrantsInit /\ [][GrantsNext]_grantVars

(***************************************************************************)
(* Properties.                                                             *)
(***************************************************************************)
(* The debit of an effect stays: no crash, restart, move of main or release by
   another process that recovered the same debit refunds what was spent. *)
EffectsStayDebited == \A k \in performed : Reserved(k)
=============================================================================
