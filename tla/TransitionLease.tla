--------------------------- MODULE TransitionLease ---------------------------
(***************************************************************************)
(* The repository's single writer lease (git_identity.py, and the lease    *)
(* check that state.py makes in every transaction).                        *)
(*                                                                         *)
(* One row of transition_leases, one row of transition_lease_generations,  *)
(* a clock in whole seconds, and processes that acquire, renew, use and    *)
(* release the lease.  A SQLite transaction is one action.  acquire and    *)
(* renew read the clock BEFORE their transaction begins and may wait for   *)
(* the database lock in between, so each of them is two actions: the clock *)
(* reading and the transaction.  A process may die at any point, and then  *)
(* its row stays.  Two processes may present the same owner token.         *)
(*                                                                         *)
(* Left out: the state identity of a lease, which is written once when the *)
(* database is created and is the same in every lease; token syntax.       *)
(***************************************************************************)
EXTENDS Naturals

CONSTANTS Processes,      \* operating system processes that use the database
          Owners,         \* lease owner tokens
          OwnerOf,        \* the owner token a process presents
          Repositories,   \* repository identities callers name
          Durations,      \* ttl_seconds values callers pass
          MaxTime,        \* bound: the clock stops here
          MaxGeneration   \* bound: leases taken in one behaviour

ASSUME LeaseAssumption ==
    /\ OwnerOf \in [Processes -> Owners]
    /\ Durations \subseteq Nat \ {0}
    /\ MaxTime \in Nat
    /\ MaxGeneration \in Nat

VARIABLES now,            \* int(time.time()) on the host
          row,            \* the transition_leases row, or NoLease
          generation,     \* the transition_lease_generations row (0: none)
          held,           \* held[p]: the TransitionLease value p has, or NoLease
          call,           \* call[p]: the acquire or renew p is inside, or Idle
          lastCommit,     \* generation and committer of the latest guarded
                          \* transaction (history of the guarded work)
          epochOwner      \* epochOwner[g]: who got generation g (history)

leaseVars == <<now, row, generation, held, call, lastCommit, epochOwner>>

(***************************************************************************)
(* Values.  NoLease is a record too, so that rows compare.                 *)
(***************************************************************************)
Lease == [repository : Repositories, owner : Owners,
          generation : Nat \ {0}, expires : Nat]

NoLease == [generation |-> 0]

Call == [op : {"acquire"}, repository : Repositories, ttl : Durations, observed : Nat]
        \cup [op : {"renew"}, ttl : Durations, observed : Nat]

Idle == [op |-> "idle"]

LeaseTypeOK ==
    /\ now \in Nat
    /\ row \in Lease \cup {NoLease}
    /\ generation \in Nat
    /\ held \in [Processes -> Lease \cup {NoLease}]
    /\ call \in [Processes -> Call \cup {Idle}]
    /\ lastCommit \in [owner : Owners, generation : Nat \ {0}] \cup {NoLease}
    /\ epochOwner \in [1..generation -> Owners]

LeaseInit ==
    /\ now = 0
    /\ row = NoLease
    /\ generation = 0
    /\ held = [p \in Processes |-> NoLease]
    /\ call = [p \in Processes |-> Idle]
    /\ lastCommit = NoLease
    /\ epochOwner = <<>>

(***************************************************************************)
(* The check every guarded transaction makes: the caller's lease value is  *)
(* the row, field by field, it names the repository, and it has not run    *)
(* out at the given clock reading.                                         *)
(***************************************************************************)
CurrentLease(lease, repository, clock) ==
    /\ row # NoLease
    /\ lease = row
    /\ lease.repository = repository
    /\ lease.expires > clock

(* What a process may do next while it is between calls. *)
Ready(p) == call[p] = Idle

(***************************************************************************)
(* acquire_transition_lease.                                               *)
(***************************************************************************)
BeginAcquire(p, repository, ttl) ==
    /\ Ready(p)
    /\ call' = [call EXCEPT ![p] = [op |-> "acquire", repository |-> repository,
                                    ttl |-> ttl, observed |-> now]]
    /\ UNCHANGED <<now, row, generation, held, lastCommit, epochOwner>>

(* No row: the stored generation advances and a row is inserted. *)
AcquireFree(p) ==
    /\ call[p].op = "acquire"
    /\ row = NoLease
    /\ generation < MaxGeneration
    /\ LET lease == [repository |-> call[p].repository, owner |-> OwnerOf[p],
                     generation |-> generation + 1,
                     expires |-> call[p].observed + call[p].ttl]
       IN /\ row' = lease
          /\ held' = [held EXCEPT ![p] = lease]
    /\ generation' = generation + 1
    /\ epochOwner' = [g \in 1..(generation + 1) |-> IF g = generation + 1 THEN OwnerOf[p]
                                                                          ELSE epochOwner[g]]
    /\ call' = [call EXCEPT ![p] = Idle]
    /\ UNCHANGED <<now, lastCommit>>

(* The row may be taken again by its own owner, before it expires. *)
MayReacquire(p) ==
    /\ row # NoLease
    /\ row.repository = call[p].repository
    /\ row.expires > call[p].observed
    /\ row.owner = OwnerOf[p]

Reacquire(p) ==
    /\ call[p].op = "acquire"
    /\ MayReacquire(p)
    /\ LET lease == [row EXCEPT !.expires = call[p].observed + call[p].ttl]
       IN /\ row' = lease
          /\ held' = [held EXCEPT ![p] = lease]
    /\ call' = [call EXCEPT ![p] = Idle]
    /\ UNCHANGED <<now, generation, lastCommit, epochOwner>>

(* Unverifiable, stale or conflicting: the call raises. *)
AcquireRefused(p) ==
    /\ call[p].op = "acquire"
    /\ row # NoLease
    /\ ~MayReacquire(p)
    /\ call' = [call EXCEPT ![p] = Idle]
    /\ UNCHANGED <<now, row, generation, held, lastCommit, epochOwner>>

(***************************************************************************)
(* renew_transition_lease.  The caller keeps its old value when it fails.  *)
(***************************************************************************)
BeginRenew(p, ttl) ==
    /\ Ready(p)
    /\ held[p] # NoLease
    /\ call' = [call EXCEPT ![p] = [op |-> "renew", ttl |-> ttl, observed |-> now]]
    /\ UNCHANGED <<now, row, generation, held, lastCommit, epochOwner>>

Renew(p) ==
    /\ call[p].op = "renew"
    /\ IF CurrentLease(held[p], held[p].repository, call[p].observed)
       THEN LET lease == [held[p] EXCEPT !.expires = call[p].observed + call[p].ttl]
            IN /\ row' = lease
               /\ held' = [held EXCEPT ![p] = lease]
       ELSE UNCHANGED <<row, held>>
    /\ call' = [call EXCEPT ![p] = Idle]
    /\ UNCHANGED <<now, generation, lastCommit, epochOwner>>

(***************************************************************************)
(* release_transition_lease reads the clock inside its transaction.  The   *)
(* transition_lease context manager calls it on the way out: whether or    *)
(* not it succeeds, the process no longer uses the lease.                  *)
(***************************************************************************)
Release(p) ==
    /\ Ready(p)
    /\ held[p] # NoLease
    /\ row' = IF CurrentLease(held[p], held[p].repository, now) THEN NoLease ELSE row
    /\ held' = [held EXCEPT ![p] = NoLease]
    /\ UNCHANGED <<now, generation, call, lastCommit, epochOwner>>

(* Mutant: the guarded transaction trusts the lease value it was given. *)
GuardedByTrust(p, repository) ==
    /\ Ready(p)
    /\ held[p] # NoLease
    /\ held[p].repository = repository
    /\ lastCommit' = [owner |-> OwnerOf[p], generation |-> held[p].generation]
    /\ UNCHANGED <<now, row, generation, held, call, epochOwner>>

(* A guarded transaction of p on the given repository commits. *)
Guarded(p, repository) ==
    /\ Ready(p)
    /\ held[p] # NoLease
    /\ CurrentLease(held[p], repository, now)
    /\ lastCommit' = [owner |-> OwnerOf[p], generation |-> held[p].generation]
    /\ UNCHANGED <<now, row, generation, held, call, epochOwner>>

(* The process dies; the database keeps what was committed. *)
Crash(p) ==
    /\ held' = [held EXCEPT ![p] = NoLease]
    /\ call' = [call EXCEPT ![p] = Idle]
    /\ UNCHANGED <<now, row, generation, lastCommit, epochOwner>>

Tick ==
    /\ now < MaxTime
    /\ now' = now + 1
    /\ UNCHANGED <<row, generation, held, call, lastCommit, epochOwner>>

(* Every step of the lease itself; the guarded work is added by its users. *)
LeaseStep(p) ==
    \/ \E repository \in Repositories, ttl \in Durations : BeginAcquire(p, repository, ttl)
    \/ AcquireFree(p)
    \/ Reacquire(p)
    \/ AcquireRefused(p)
    \/ \E ttl \in Durations : BeginRenew(p, ttl)
    \/ Renew(p)
    \/ Release(p)
    \/ Crash(p)

LeaseNext ==
    \/ Tick
    \/ \E p \in Processes : LeaseStep(p)
    \/ \E p \in Processes, repository \in Repositories : Guarded(p, repository)

LeaseSpec == LeaseInit /\ [][LeaseNext]_leaseVars

-----------------------------------------------------------------------------
(***************************************************************************)
(* Properties.                                                             *)
(***************************************************************************)

(* A generation number names one owner and one repository: whatever        *)
(* processes did, died or overlapped, every lease value of a generation,   *)
(* in the table, in any process or behind a commit, belongs to the process *)
(* owner that first got it, and they differ only in their expiry           *)
(* (acquire_transition_lease keeps the generation only for the row's       *)
(* owner and repository).                                                  *)
OneOwnerPerGeneration ==
    LET leases == ({row} \cup {held[p] : p \in Processes}) \ {NoLease}
    IN /\ \A a \in leases \cup ({lastCommit} \ {NoLease}) :
             a.owner = epochOwner[a.generation]
       /\ \A a, b \in leases :
             a.generation = b.generation => a.repository = b.repository

(* Fencing: guarded commits happen in generation order, so after the first *)
(* commit under a new lease no commit under an older one can follow, even  *)
(* from a process that still holds its old lease value.                    *)
CommitsAreFenced ==
    [][lastCommit' # lastCommit => lastCommit'.generation >= lastCommit.generation]_leaseVars

(* Fail closed: while the row is expired nobody else gets it. Whatever     *)
(* waits on the database lock, the row is neither deleted nor given to     *)
(* another owner or generation ("stale and requires owner recovery").      *)
StaleRowIsNotTakenOver ==
    [][row # NoLease /\ row.expires <= now =>
         row' # NoLease /\ row'.owner = row.owner /\ row'.generation = row.generation]_leaseVars

(***************************************************************************)
(* The lease implements the fenced epochs of FencedLease.                  *)
(***************************************************************************)
Fenced == INSTANCE FencedLease WITH
    epoch <- generation,
    ticket <- [p \in Processes |-> held[p].generation],
    lastCommit <- lastCommit.generation

(* Every lease step is a step of the abstract fenced lease or a stutter.   *)
ImplementsFencedLease == Fenced!FencedSpec
==============================================================================
