------------------------ MODULE TransitionLease_proof ------------------------
(***************************************************************************)
(* The transition lease, proved for every set of processes, owners,        *)
(* repositories and durations, and every bound.                            *)
(***************************************************************************)
EXTENDS TransitionLease, TLAPS

(***************************************************************************)
(* The inductive invariant.  OneOwnerPerGeneration is not inductive: that  *)
(* a re-acquisition keeps the owner needs the row to carry the LATEST      *)
(* generation, and a new generation is fresh only if no value anywhere has *)
(* a larger one.                                                           *)
(***************************************************************************)
Issued(lease) ==
    /\ lease.generation <= generation
    /\ lease.owner = epochOwner[lease.generation]

RowIsLatest ==
    row # NoLease => row.generation = generation /\ Issued(row)

HeldIsIssued ==
    \A p \in Processes : held[p] # NoLease => Issued(held[p]) /\ held[p].owner = OwnerOf[p]

CommitIsIssued == lastCommit # NoLease => Issued(lastCommit)

SameRepository ==
    /\ \A p, q \in Processes :
          /\ held[p] # NoLease
          /\ held[q] # NoLease
          /\ held[p].generation = held[q].generation
          => held[p].repository = held[q].repository
    /\ \A p \in Processes :
          /\ held[p] # NoLease
          /\ row # NoLease
          /\ held[p].generation = row.generation
          => held[p].repository = row.repository

RenewHasLease == \A p \in Processes : call[p].op = "renew" => held[p] # NoLease

LeaseInv ==
    /\ LeaseTypeOK
    /\ RowIsLatest
    /\ HeldIsIssued
    /\ CommitIsIssued
    /\ SameRepository
    /\ RenewHasLease

-----------------------------------------------------------------------------
(* The null value is no lease: its generation is 0.                        *)
LEMMA NoLeaseFacts ==
    /\ NoLease.generation = 0
    /\ NoLease \notin Lease
    /\ NoLease \notin [owner : Owners, generation : Nat \ {0}]
  BY DEF NoLease, Lease

(* An idle process is in no call, and the fields of a call are typed.      *)
LEMMA CallFacts ==
    /\ Idle.op = "idle"
    /\ \A c \in Call \cup {Idle} :
          /\ c.op = "acquire" => /\ c.repository \in Repositories
                                 /\ c.ttl \in Durations
                                 /\ c.observed \in Nat
          /\ c.op = "renew" => c.ttl \in Durations /\ c.observed \in Nat
  BY DEF Idle, Call

(* The initial state satisfies the inductive invariant.                    *)
LEMMA LeaseInvInit == LeaseInit => LeaseInv
  BY NoLeaseFacts, CallFacts
  DEF LeaseInit, LeaseInv, LeaseTypeOK, RowIsLatest, HeldIsIssued, CommitIsIssued,
      SameRepository, RenewHasLease

(* The first free acquisition is typed and fresh.                          *)
LEMMA AcquireFreeInv ==
    ASSUME LeaseInv, NEW p \in Processes, AcquireFree(p)
    PROVE  LeaseInv'
  <1>1. /\ call[p].repository \in Repositories
        /\ call[p].observed + call[p].ttl \in Nat
    <2>1. call[p] \in Call \cup {Idle} /\ call[p].op = "acquire"
      BY DEF LeaseInv, LeaseTypeOK, AcquireFree
    <2>2. call[p].repository \in Repositories /\ call[p].ttl \in Nat /\ call[p].observed \in Nat
      BY <2>1, CallFacts, LeaseAssumption
    <2> QED
      BY <2>2
  <1>2. PICK new \in Lease :
          /\ row' = new
          /\ held' = [held EXCEPT ![p] = new]
          /\ new.generation = generation + 1
          /\ new.owner = OwnerOf[p]
          /\ new # NoLease
    <2> DEFINE lease == [repository |-> call[p].repository, owner |-> OwnerOf[p],
                         generation |-> generation + 1,
                         expires |-> call[p].observed + call[p].ttl]
    <2>1. lease \in Lease
      BY <1>1, LeaseAssumption DEF LeaseInv, LeaseTypeOK, Lease
    <2>2. row' = lease /\ held' = [held EXCEPT ![p] = lease]
      BY DEF AcquireFree
    <2> QED
      BY <2>1, <2>2, NoLeaseFacts
  <1>4. /\ generation \in Nat
        /\ generation' = generation + 1
        /\ call' = [call EXCEPT ![p] = Idle]
        /\ lastCommit' = lastCommit /\ now' = now
        /\ epochOwner' = [g \in 1..(generation + 1) |->
                             IF g = generation + 1 THEN OwnerOf[p] ELSE epochOwner[g]]
    BY DEF AcquireFree, LeaseInv, LeaseTypeOK
  <1>5. LeaseTypeOK'
    <2>1. epochOwner' \in [1..generation' -> Owners]
      <3>1. \A g \in 1..(generation + 1) : g # generation + 1 => g \in 1..generation
        BY <1>4
      <3>2. OwnerOf[p] \in Owners /\ epochOwner \in [1..generation -> Owners]
        BY LeaseAssumption DEF LeaseInv, LeaseTypeOK
      <3>3. \A g \in 1..(generation + 1) :
               (IF g = generation + 1 THEN OwnerOf[p] ELSE epochOwner[g]) \in Owners
        BY <3>1, <3>2
      <3> QED
        BY <1>4, <3>3
    <2>2. held' \in [Processes -> Lease \cup {NoLease}]
      BY <1>2 DEF LeaseInv, LeaseTypeOK
    <2>3. call' \in [Processes -> Call \cup {Idle}]
      BY <1>4 DEF LeaseInv, LeaseTypeOK
    <2> QED
      BY <1>2, <1>4, <2>1, <2>2, <2>3 DEF LeaseInv, LeaseTypeOK
  <1>6. \A lease : lease # NoLease /\ lease.generation \in Nat \ {0} /\ Issued(lease) => Issued(lease)'
    BY <1>2, <1>4 DEF Issued
  <1>7. Issued(new)'
    BY <1>2, <1>4 DEF Issued
  <1>8. \A q \in Processes : held[q] # NoLease =>
            /\ held[q].generation \in Nat \ {0}
            /\ held[q].generation <= generation
    BY DEF LeaseInv, LeaseTypeOK, Lease, HeldIsIssued, Issued
  <1>9. RowIsLatest'
    BY <1>2, <1>4, <1>7 DEF RowIsLatest
  <1>10. HeldIsIssued'
    BY <1>2, <1>4, <1>6, <1>7, <1>8 DEF HeldIsIssued, LeaseInv, LeaseTypeOK
  <1>11. CommitIsIssued'
    BY <1>4, <1>6 DEF CommitIsIssued, LeaseInv, LeaseTypeOK
  <1>12. SameRepository'
    BY <1>2, <1>4, <1>8 DEF SameRepository, LeaseInv, LeaseTypeOK
  <1>13. RenewHasLease'
    BY <1>2, <1>4, CallFacts DEF RenewHasLease, LeaseInv, LeaseTypeOK
  <1> QED
    BY <1>5, <1>9, <1>10, <1>11, <1>12, <1>13 DEF LeaseInv

(* A lease value that only moves the expiry of the row keeps its identity. *)
LEMMA ExtendInv ==
    ASSUME LeaseInv, NEW p \in Processes, NEW expiry \in Nat,
           row # NoLease, row.owner = OwnerOf[p],
           row' = [row EXCEPT !.expires = expiry],
           held' = [held EXCEPT ![p] = [row EXCEPT !.expires = expiry]],
           call' = [call EXCEPT ![p] = Idle],
           UNCHANGED <<now, generation, lastCommit, epochOwner>>
    PROVE  LeaseInv'
  <1>1. row \in Lease
    BY DEF LeaseInv, LeaseTypeOK
  <1>2. PICK new \in Lease :
          /\ row' = new
          /\ held' = [held EXCEPT ![p] = new]
          /\ new.generation = row.generation
          /\ new.owner = row.owner
          /\ new.repository = row.repository
    <2> DEFINE lease == [row EXCEPT !.expires = expiry]
    <2>1. /\ lease \in Lease
          /\ lease.generation = row.generation
          /\ lease.owner = row.owner
          /\ lease.repository = row.repository
      BY <1>1 DEF Lease
    <2> QED
      BY <2>1
  <1>3. new # NoLease
    BY NoLeaseFacts
  <1>5. LeaseTypeOK'
    BY <1>2 DEF LeaseInv, LeaseTypeOK
  <1>6. RowIsLatest'
    BY <1>2 DEF RowIsLatest, LeaseInv, Issued
  <1>7. HeldIsIssued'
    BY <1>2 DEF HeldIsIssued, RowIsLatest, LeaseInv, LeaseTypeOK, Issued
  <1>8. CommitIsIssued'
    BY DEF CommitIsIssued, LeaseInv, Issued
  <1>9. SameRepository'
    BY <1>2 DEF SameRepository, LeaseInv, LeaseTypeOK
  <1>10. RenewHasLease'
    BY <1>2, <1>3, CallFacts DEF RenewHasLease, LeaseInv, LeaseTypeOK
  <1> QED
    BY <1>5, <1>6, <1>7, <1>8, <1>9, <1>10 DEF LeaseInv

(* Every step of the lease, guarded commits included, keeps the invariant. *)
LEMMA LeaseInvNext == LeaseInv /\ [LeaseNext]_leaseVars => LeaseInv'
  <1> SUFFICES ASSUME LeaseInv, [LeaseNext]_leaseVars PROVE LeaseInv'
    OBVIOUS
  <1>1. ASSUME NEW p \in Processes, NEW repository \in Repositories, NEW ttl \in Durations,
               BeginAcquire(p, repository, ttl)
        PROVE  LeaseInv'
    <2>1. [op |-> "acquire", repository |-> repository, ttl |-> ttl, observed |-> now]
             \in Call
      BY <1>1 DEF Call, LeaseInv, LeaseTypeOK
    <2>2. call' \in [Processes -> Call \cup {Idle}]
      BY <1>1, <2>1 DEF BeginAcquire, LeaseInv, LeaseTypeOK
    <2>3. \A q \in Processes : call'[q].op = "renew" => call[q].op = "renew"
      BY <1>1 DEF BeginAcquire, LeaseInv, LeaseTypeOK
    <2> QED
      BY <1>1, <2>2, <2>3
      DEF BeginAcquire, LeaseInv, LeaseTypeOK, RowIsLatest, HeldIsIssued, CommitIsIssued,
          SameRepository, RenewHasLease, Issued
  <1>2. ASSUME NEW p \in Processes, AcquireFree(p)
        PROVE  LeaseInv'
    BY <1>2, AcquireFreeInv
  <1>3. ASSUME NEW p \in Processes, Reacquire(p)
        PROVE  LeaseInv'
    <2>1. call[p].observed + call[p].ttl \in Nat
      <3>1. call[p] \in Call \cup {Idle} /\ call[p].op = "acquire"
        BY <1>3 DEF LeaseInv, LeaseTypeOK, Reacquire
      <3>2. call[p].ttl \in Nat /\ call[p].observed \in Nat
        BY <3>1, CallFacts, LeaseAssumption
      <3> QED
        BY <3>2
    <2> QED
      BY <1>3, <2>1, ExtendInv DEF Reacquire, MayReacquire
  <1>4. ASSUME NEW p \in Processes, AcquireRefused(p)
        PROVE  LeaseInv'
    <2>1. \A q \in Processes : call'[q].op = "renew" => call[q].op = "renew"
      BY <1>4, CallFacts DEF AcquireRefused, LeaseInv, LeaseTypeOK
    <2> QED
      BY <1>4, <2>1
      DEF AcquireRefused, LeaseInv, LeaseTypeOK, RowIsLatest, HeldIsIssued, CommitIsIssued,
          SameRepository, RenewHasLease, Issued
  <1>5. ASSUME NEW p \in Processes, NEW ttl \in Durations, BeginRenew(p, ttl)
        PROVE  LeaseInv'
    <2>1. [op |-> "renew", ttl |-> ttl, observed |-> now] \in Call
      BY <1>5 DEF Call, LeaseInv, LeaseTypeOK
    <2>2. call' \in [Processes -> Call \cup {Idle}]
      BY <1>5, <2>1 DEF BeginRenew, LeaseInv, LeaseTypeOK
    <2>3. \A q \in Processes : call'[q].op = "renew" => held[q] # NoLease
      BY <1>5 DEF BeginRenew, LeaseInv, LeaseTypeOK, RenewHasLease
    <2> QED
      BY <1>5, <2>2, <2>3
      DEF BeginRenew, LeaseInv, LeaseTypeOK, RowIsLatest, HeldIsIssued, CommitIsIssued,
          SameRepository, RenewHasLease, Issued
  <1>6. ASSUME NEW p \in Processes, Renew(p)
        PROVE  LeaseInv'
    <2>1. CASE CurrentLease(held[p], held[p].repository, call[p].observed)
      <3>1. call[p].observed + call[p].ttl \in Nat
        <4>1. call[p] \in Call \cup {Idle} /\ call[p].op = "renew"
          BY <1>6 DEF LeaseInv, LeaseTypeOK, Renew
        <4>2. call[p].ttl \in Nat /\ call[p].observed \in Nat
          BY <4>1, CallFacts, LeaseAssumption
        <4> QED
          BY <4>2
      <3>2. row # NoLease /\ held[p] = row /\ row.owner = OwnerOf[p]
        BY <2>1 DEF CurrentLease, LeaseInv, HeldIsIssued
      <3> QED
        BY <1>6, <2>1, <3>1, <3>2, ExtendInv DEF Renew
    <2>2. CASE ~CurrentLease(held[p], held[p].repository, call[p].observed)
      <3>1. \A q \in Processes : call'[q].op = "renew" => call[q].op = "renew"
        BY <1>6, CallFacts DEF Renew, LeaseInv, LeaseTypeOK
      <3> QED
        BY <1>6, <2>2, <3>1
        DEF Renew, LeaseInv, LeaseTypeOK, RowIsLatest, HeldIsIssued, CommitIsIssued,
            SameRepository, RenewHasLease, Issued
    <2> QED
      BY <2>1, <2>2
  <1>7. ASSUME NEW p \in Processes, Release(p)
        PROVE  LeaseInv'
    <2>1. \A q \in Processes : held'[q] # NoLease => q # p /\ held'[q] = held[q]
      BY <1>7 DEF Release, LeaseInv, LeaseTypeOK
    <2>2. row' # NoLease => row' = row
      BY <1>7 DEF Release
    <2>3. LeaseTypeOK'
      BY <1>7 DEF Release, LeaseInv, LeaseTypeOK
    <2>4. RenewHasLease'
      BY <1>7, CallFacts DEF Release, Ready, LeaseInv, LeaseTypeOK, RenewHasLease
    <2>5. generation' = generation /\ lastCommit' = lastCommit /\ epochOwner' = epochOwner
      BY <1>7 DEF Release
    <2> QED
      BY <2>1, <2>2, <2>3, <2>4, <2>5
      DEF LeaseInv, RowIsLatest, HeldIsIssued, CommitIsIssued, SameRepository, Issued
  <1>8. ASSUME NEW p \in Processes, Crash(p)
        PROVE  LeaseInv'
    <2>1. \A q \in Processes : held'[q] # NoLease => q # p /\ held'[q] = held[q]
      BY <1>8 DEF Crash, LeaseInv, LeaseTypeOK
    <2>2. LeaseTypeOK'
      BY <1>8 DEF Crash, LeaseInv, LeaseTypeOK
    <2>3. RenewHasLease'
      BY <1>8, CallFacts DEF Crash, LeaseInv, LeaseTypeOK, RenewHasLease
    <2>4. UNCHANGED <<row, generation, lastCommit, epochOwner>>
      BY <1>8 DEF Crash
    <2> QED
      BY <2>1, <2>2, <2>3, <2>4
      DEF LeaseInv, RowIsLatest, HeldIsIssued, CommitIsIssued, SameRepository, Issued
  <1>9. ASSUME NEW p \in Processes, NEW repository \in Repositories, Guarded(p, repository)
        PROVE  LeaseInv'
    <2> DEFINE commit == [owner |-> OwnerOf[p], generation |-> held[p].generation]
    <2>1. /\ held[p] \in Lease
          /\ Issued(held[p])
          /\ held[p].owner = OwnerOf[p]
      BY <1>9 DEF Guarded, LeaseInv, LeaseTypeOK, HeldIsIssued
    <2>2. commit \in [owner : Owners, generation : Nat \ {0}]
      BY <2>1 DEF Lease
    <2>3. Issued(commit)
      BY <2>1 DEF Issued
    <2>4. lastCommit' = commit /\ UNCHANGED <<now, row, generation, held, call, epochOwner>>
      BY <1>9 DEF Guarded
    <2> QED
      BY <2>2, <2>3, <2>4
      DEF LeaseInv, LeaseTypeOK, RowIsLatest, HeldIsIssued, CommitIsIssued,
          SameRepository, RenewHasLease, Issued
  <1>10. CASE Tick
    BY <1>10
    DEF Tick, LeaseInv, LeaseTypeOK, RowIsLatest, HeldIsIssued, CommitIsIssued,
        SameRepository, RenewHasLease, Issued
  <1>11. CASE UNCHANGED leaseVars
    BY <1>11
    DEF leaseVars, LeaseInv, LeaseTypeOK, RowIsLatest, HeldIsIssued, CommitIsIssued,
        SameRepository, RenewHasLease, Issued
  <1> QED
    BY <1>1, <1>2, <1>3, <1>4, <1>5, <1>6, <1>7, <1>8, <1>9, <1>10, <1>11
    DEF LeaseNext, LeaseStep

-----------------------------------------------------------------------------
(* The inductive invariant holds in every reachable state.                 *)
THEOREM LeaseInvariant == LeaseSpec => []LeaseInv
  <1>1. LeaseInit => LeaseInv
    BY LeaseInvInit
  <1>2. LeaseInv /\ [LeaseNext]_leaseVars => LeaseInv'
    BY LeaseInvNext
  <1> QED
    BY <1>1, <1>2, PTL DEF LeaseSpec

(* A generation belongs to one owner and one repository: every lease value *)
(* acquire_transition_lease and renew_transition_lease ever return for it  *)
(* differs only in its expiry.                                             *)
THEOREM GenerationsHaveOneOwner == LeaseSpec => []OneOwnerPerGeneration
  <1>1. LeaseInv => OneOwnerPerGeneration
    BY DEF LeaseInv, RowIsLatest, HeldIsIssued, CommitIsIssued, SameRepository, Issued,
           OneOwnerPerGeneration
  <1> QED
    BY <1>1, LeaseInvariant, PTL

(* Guarded transactions commit in generation order: a holder of an old     *)
(* lease value never commits after a newer generation has.                 *)
THEOREM Fencing == LeaseSpec => CommitsAreFenced
  <1>1. LeaseInv /\ [LeaseNext]_leaseVars
          => [lastCommit' # lastCommit => lastCommit'.generation >= lastCommit.generation]_leaseVars
    <2> SUFFICES ASSUME LeaseInv, LeaseNext, lastCommit' # lastCommit
                 PROVE  lastCommit'.generation >= lastCommit.generation
      BY DEF leaseVars
    <2>1. PICK p \in Processes, repository \in Repositories : Guarded(p, repository)
      BY DEF LeaseNext, LeaseStep, Tick, BeginAcquire, AcquireFree, Reacquire, AcquireRefused,
             BeginRenew, Renew, Release, Crash
    <2>2. lastCommit'.generation = generation
      BY <2>1 DEF Guarded, CurrentLease, LeaseInv, RowIsLatest
    <2>3. lastCommit.generation <= generation /\ lastCommit.generation \in Nat
      BY NoLeaseFacts DEF LeaseInv, LeaseTypeOK, CommitIsIssued, Issued
    <2> QED
      BY <2>2, <2>3 DEF LeaseInv, LeaseTypeOK
  <1> QED
    BY <1>1, LeaseInvariant, PTL DEF LeaseSpec, CommitsAreFenced

(* An expired row is never deleted and never changes owner or generation,  *)
(* although acquire and renew may judge it by an old clock reading.        *)
THEOREM StaleRowStays == LeaseSpec => StaleRowIsNotTakenOver
  <1>1. LeaseInv /\ [LeaseNext]_leaseVars
          => [row # NoLease /\ row.expires <= now =>
                row' # NoLease /\ row'.owner = row.owner
                /\ row'.generation = row.generation]_leaseVars
    <2> SUFFICES ASSUME LeaseInv, LeaseNext, row # NoLease, row.expires <= now
                 PROVE  /\ row' # NoLease
                        /\ row'.owner = row.owner
                        /\ row'.generation = row.generation
      BY DEF leaseVars
    <2>1. row \in Lease /\ now \in Nat /\ row.expires \in Nat
      BY DEF LeaseInv, LeaseTypeOK, Lease
    <2>2. \A expiry : LET lease == [row EXCEPT !.expires = expiry]
                      IN /\ lease.owner = row.owner
                         /\ lease.generation = row.generation
                         /\ lease # NoLease
      BY <2>1, NoLeaseFacts DEF Lease
    <2>3. CASE row' = row
      BY <2>3
    <2>4. CASE \E p \in Processes : Reacquire(p)
      BY <2>2, <2>4 DEF Reacquire
    <2>5. CASE \E p \in Processes : Renew(p)
      <3>1. PICK p \in Processes : Renew(p)
        BY <2>5
      <3>2. row' = row \/ (held[p] = row
                           /\ row' = [row EXCEPT !.expires = call[p].observed + call[p].ttl])
        BY <3>1 DEF Renew, CurrentLease
      <3> QED
        BY <2>2, <3>2
    <2>6. CASE \E p \in Processes : Release(p)
      <3>1. ASSUME NEW p \in Processes PROVE ~CurrentLease(held[p], held[p].repository, now)
        BY <2>1 DEF CurrentLease
      <3> QED
        BY <2>6, <3>1 DEF Release
    <2> QED
      BY <2>3, <2>4, <2>5, <2>6
      DEF LeaseNext, LeaseStep, Tick, BeginAcquire, AcquireFree, AcquireRefused, BeginRenew,
          Crash, Guarded
  <1> QED
    BY <1>1, LeaseInvariant, PTL DEF LeaseSpec, StaleRowIsNotTakenOver

(* TransitionLease implements FencedLease: its rows, races and crashes are *)
(* invisible to guarded transactions except as epochs that each belong to  *)
(* one owner.                                                              *)
THEOREM LeaseRefinesFencedLease == LeaseSpec => ImplementsFencedLease
  <1> DEFINE tickets == [p \in Processes |-> held[p].generation]
  <1>1. LeaseInit => Fenced!FencedInit
    BY NoLeaseFacts DEF LeaseInit, Fenced!FencedInit
  <1>2. LeaseInv /\ [LeaseNext]_leaseVars => [Fenced!FencedNext]_Fenced!fencedVars
    <2> SUFFICES ASSUME LeaseInv, [LeaseNext]_leaseVars
                 PROVE  [Fenced!FencedNext]_Fenced!fencedVars
      OBVIOUS
    <2>1. ASSUME NEW p \in Processes, AcquireFree(p)
          PROVE  Fenced!Take(p)
      <3>1. tickets' = [tickets EXCEPT ![p] = generation + 1]
        BY <2>1 DEF AcquireFree, LeaseInv, LeaseTypeOK
      <3> QED
        BY <2>1, <3>1 DEF AcquireFree, Fenced!Take
    <2>2. ASSUME NEW p \in Processes, NEW lease, held' = [held EXCEPT ![p] = lease],
                 row # NoLease, row.owner = OwnerOf[p], lease.generation = row.generation,
                 UNCHANGED <<generation, lastCommit, epochOwner>>
          PROVE  Fenced!Share(p)
      <3>1. /\ row.generation = generation
            /\ epochOwner[generation] = OwnerOf[p]
            /\ generation > 0
        BY <2>2 DEF LeaseInv, LeaseTypeOK, RowIsLatest, Issued, Lease
      <3>2. tickets' = [tickets EXCEPT ![p] = generation]
        BY <2>2, <3>1 DEF LeaseInv, LeaseTypeOK
      <3> QED
        BY <2>2, <3>1, <3>2 DEF Fenced!Share
    <2>3. ASSUME NEW p \in Processes, Reacquire(p)
          PROVE  Fenced!Share(p)
      <3>1. row \in Lease
        BY <2>3 DEF Reacquire, MayReacquire, LeaseInv, LeaseTypeOK
      <3>2. [row EXCEPT !.expires = call[p].observed + call[p].ttl].generation = row.generation
        BY <3>1 DEF Lease
      <3> QED
        BY <2>2, <2>3, <3>2 DEF Reacquire, MayReacquire
    <2>4. ASSUME NEW p \in Processes, Renew(p)
          PROVE  Fenced!Share(p) \/ UNCHANGED Fenced!fencedVars
      <3>1. CASE CurrentLease(held[p], held[p].repository, call[p].observed)
        <4>1. held[p] = row /\ row # NoLease /\ row \in Lease /\ row.owner = OwnerOf[p]
          BY <3>1 DEF CurrentLease, LeaseInv, LeaseTypeOK, HeldIsIssued
        <4>2. [row EXCEPT !.expires = call[p].observed + call[p].ttl].generation = row.generation
          BY <4>1 DEF Lease
        <4> QED
          BY <2>2, <2>4, <3>1, <4>1, <4>2 DEF Renew
      <3>2. CASE ~CurrentLease(held[p], held[p].repository, call[p].observed)
        BY <2>4, <3>2 DEF Renew, Fenced!fencedVars
      <3> QED
        BY <3>1, <3>2
    <2>5. ASSUME NEW p \in Processes, Release(p) \/ Crash(p)
          PROVE  Fenced!Drop(p)
      <3>1. tickets' = [tickets EXCEPT ![p] = 0]
        BY <2>5, NoLeaseFacts DEF Release, Crash, LeaseInv, LeaseTypeOK
      <3> QED
        BY <2>5, <3>1 DEF Release, Crash, Fenced!Drop
    <2>6. ASSUME NEW p \in Processes, NEW repository \in Repositories, Guarded(p, repository)
          PROVE  Fenced!FencedCommit(p)
      <3>1. /\ held[p].generation = generation
            /\ generation > 0
        BY <2>6 DEF Guarded, CurrentLease, LeaseInv, LeaseTypeOK, RowIsLatest, Lease
      <3>2. tickets[p] = generation /\ tickets' = tickets
        BY <2>6, <3>1 DEF Guarded
      <3>3. lastCommit'.generation = generation
        BY <2>6, <3>1 DEF Guarded
      <3> QED
        BY <2>6, <3>1, <3>2, <3>3 DEF Guarded, Fenced!FencedCommit
    <2>7. CASE UNCHANGED <<generation, held, lastCommit, epochOwner>>
      BY <2>7 DEF Fenced!fencedVars
    <2> QED
      BY <2>1, <2>3, <2>4, <2>5, <2>6, <2>7
      DEF LeaseNext, LeaseStep, leaseVars, Tick, BeginAcquire, AcquireRefused, BeginRenew,
          Fenced!FencedNext
  <1> QED
    BY <1>1, <1>2, LeaseInvariant, PTL
    DEF LeaseSpec, ImplementsFencedLease, Fenced!FencedSpec
==============================================================================
