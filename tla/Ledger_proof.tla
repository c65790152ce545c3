---------------------------- MODULE Ledger_proof ----------------------------
(***************************************************************************)
(* The task ledger, its schema migrations and the sources its tasks come   *)
(* from, for every set of identities, digests, fingerprints and            *)
(* classifications, every ledger of an earlier release and every feed.     *)
(***************************************************************************)
EXTENDS TaskLifecycle, StateMigrations, SourceIngestion, TLAPS, FiniteSetTheorems,
        SequenceTheorems

-----------------------------------------------------------------------------
(***************************************************************************)
(* The task ledger.                                                        *)
(***************************************************************************)
(***************************************************************************)
(* Where a task stands when detours through "blocked" are ignored, and the *)
(* reviews its ledger must show by then.  ReadyWasReviewed speaks of the   *)
(* last state only; StagesWereReviewed is its inductive form.              *)
(***************************************************************************)
Stage(t) == IF state[t] = "blocked" THEN blockedFrom[t] ELSE state[t]

Passed(t, i, from, to) == events[t][i].from = from /\ events[t][i].to = to

StagesWereReviewed ==
    \A t \in TaskIds :
       /\ Stage(t) = "plan-review" =>
             \E i \in 1..Len(events[t]) : Passed(t, i, "planning", "plan-review")
       /\ Stage(t) = "implementing" =>
             \E i, j \in 1..Len(events[t]) :
                /\ i < j
                /\ Passed(t, i, "planning", "plan-review")
                /\ Passed(t, j, "plan-review", "implementing")
       /\ Stage(t) \in {"diff-review", "ready-for-owner"} =>
             \E i, j, k \in 1..Len(events[t]) :
                /\ i < j /\ j < k
                /\ Passed(t, i, "planning", "plan-review")
                /\ Passed(t, j, "plan-review", "implementing")
                /\ Passed(t, k, "implementing", "diff-review")

LedgerInv ==
    /\ TaskTypeOK
    /\ LedgerIsPath
    /\ RecoveryReturnsWhereItBlocked
    /\ StagesWereReviewed
    /\ EvidenceIsSpentOnce

-----------------------------------------------------------------------------
(* The components of a presented identity lie in the derived sets.         *)
LEMMA IdentityFields ==
    ASSUME NEW id \in Identities
    PROVE  /\ id.task \in TaskIds
           /\ id.source \in SourceIds
           /\ id.repository \in RepositoryIds
           /\ id.branch \in Branches
           /\ KeyOf[id.worktree] \in WorktreeKeys
  BY DEF TaskIds, SourceIds, RepositoryIds, Branches, Worktrees, WorktreeKeys

(* The empty ledger satisfies the inductive invariant.                     *)
LEMMA LedgerInvInit == TaskInit => LedgerInv
  <1> SUFFICES ASSUME TaskInit PROVE LedgerInv
    OBVIOUS
  <1>1. TaskTypeOK
    BY DEF TaskInit, TaskTypeOK
  <1>2. \A t \in TaskIds : events[t] = <<>> /\ state[t] = None /\ tasks[t] = None
                           /\ blockedFrom[t] = None
    BY DEF TaskInit
  <1>3. None # "blocked" /\ None \notin {"plan-review", "implementing", "diff-review", "ready-for-owner"}
    BY TaskAssumption DEF LifecycleStates
  <1>4. LedgerIsPath
    BY <1>2 DEF LedgerIsPath
  <1>5. RecoveryReturnsWhereItBlocked
    BY <1>2, <1>3 DEF RecoveryReturnsWhereItBlocked
  <1>6. StagesWereReviewed
    BY <1>2, <1>3 DEF StagesWereReviewed, Stage
  <1>7. EvidenceIsSpentOnce
    BY <1>2 DEF EvidenceIsSpentOnce
  <1> QED
    BY <1>1, <1>4, <1>5, <1>6, <1>7 DEF LedgerInv

(* Steps that leave the ledger's own columns alone keep its invariant.     *)
LEMMA LedgerUntouched ==
    ASSUME LedgerInv, TaskTypeOK', UNCHANGED <<tasks, state, blockedFrom, events>>
    PROVE  LedgerInv'
  BY DEF LedgerInv, LedgerIsPath, RecoveryReturnsWhereItBlocked, StagesWereReviewed, Stage,
         Passed, EvidenceIsSpentOnce

(* Admission starts an empty ledger in "queued".                           *)
LEMMA AdmitInv ==
    ASSUME LedgerInv, NEW id \in Identities, NEW digest \in Digests, AdmitTask(id, digest)
    PROVE  LedgerInv'
  <1> DEFINE t == id.task
  <1>1. t \in TaskIds
    BY IdentityFields
  <1>2. /\ tasks[t] = None
        /\ tasks' = [tasks EXCEPT ![t] = id]
        /\ state' = [state EXCEPT ![t] = "queued"]
        /\ UNCHANGED <<blockedFrom, events>>
    BY DEF AdmitTask
  <1>3. TaskTypeOK'
    <2>1. sources' \in [SourceIds -> [repository : RepositoryIds, digest : Digests] \cup {None}]
      BY IdentityFields DEF AdmitTask, LedgerInv, TaskTypeOK
    <2>2. branchOwner' \in [Branches -> TaskIds \cup {None}]
      BY IdentityFields DEF AdmitTask, LedgerInv, TaskTypeOK
    <2>3. worktreeOwner' \in [WorktreeKeys -> TaskIds \cup {None}]
      BY IdentityFields DEF AdmitTask, LedgerInv, TaskTypeOK
    <2>4. tasks' \in [TaskIds -> Identities \cup {None}]
          /\ state' \in [TaskIds -> LifecycleStates \cup {None}]
      BY <1>1, <1>2 DEF LedgerInv, TaskTypeOK, LifecycleStates
    <2> QED
      BY <2>1, <2>2, <2>3, <2>4 DEF AdmitTask, LedgerInv, TaskTypeOK
  <1>4. events[t] = <<>> /\ state[t] = None /\ id # None
    BY <1>1, <1>2, TaskAssumption DEF LedgerInv, LedgerIsPath
  <1>5. blockedFrom[t] = None
    BY <1>1, <1>4, TaskAssumption DEF LedgerInv, RecoveryReturnsWhereItBlocked, LifecycleStates
  <1>6. \A u \in TaskIds : u # t => tasks'[u] = tasks[u] /\ state'[u] = state[u]
    BY <1>2 DEF LedgerInv, TaskTypeOK
  <1>7. tasks'[t] = id /\ state'[t] = "queued"
    BY <1>1, <1>2 DEF LedgerInv, TaskTypeOK
  <1> HIDE DEF t
  <1>8. LedgerIsPath'
    BY <1>2, <1>4, <1>6, <1>7 DEF LedgerInv, LedgerIsPath
  <1>9. RecoveryReturnsWhereItBlocked'
    BY <1>2, <1>5, <1>6, <1>7 DEF LedgerInv, RecoveryReturnsWhereItBlocked
  <1>10. StagesWereReviewed'
    BY <1>2, <1>6, <1>7 DEF LedgerInv, StagesWereReviewed, Stage, Passed
  <1>11. EvidenceIsSpentOnce'
    BY <1>2 DEF LedgerInv, EvidenceIsSpentOnce
  <1> QED
    BY <1>3, <1>8, <1>9, <1>10, <1>11 DEF LedgerInv

(* A committed transition extends the path by one fresh, allowed edge.     *)
LEMMA CommitInv ==
    ASSUME LedgerInv, NEW id \in Identities, NEW expected \in LifecycleStates,
           NEW next \in LifecycleStates, NEW fingerprint \in Fingerprints,
           CommitTransition(id, expected, next, fingerprint)
    PROVE  LedgerInv'
  <1> DEFINE t == id.task
             log == events[t]
             event == [from |-> expected, to |-> next, evidence |-> fingerprint]
  <1>1. t \in TaskIds /\ tasks[t] = id /\ id # None
    BY IdentityFields, TaskAssumption DEF CommitTransition, MatchingTask
  <1>2. log \in Seq(Event) /\ event \in Event
    BY <1>1 DEF LedgerInv, TaskTypeOK, Event
  <1>3. /\ state[t] = expected
        /\ state' = [state EXCEPT ![t] = next]
        /\ blockedFrom' = [blockedFrom EXCEPT ![t] = IF next = "blocked" THEN expected ELSE None]
        /\ events' = [events EXCEPT ![t] = Append(log, event)]
        /\ tasks' = tasks
        /\ TransitionIsAllowed(expected, next, blockedFrom[t])
        /\ EvidenceIsFresh(t, fingerprint)
    BY DEF CommitTransition
  <1>4. /\ state'[t] = next
        /\ blockedFrom'[t] = IF next = "blocked" THEN expected ELSE None
        /\ events'[t] = Append(log, event)
        /\ \A u \in TaskIds : u # t => /\ state'[u] = state[u]
                                      /\ blockedFrom'[u] = blockedFrom[u]
                                      /\ events'[u] = events[u]
    BY <1>1, <1>3 DEF LedgerInv, TaskTypeOK
  <1>5. /\ Len(events'[t]) = Len(log) + 1
        /\ Len(log) \in Nat
        /\ events'[t] # <<>>
        /\ \A i \in 1..Len(log) : events'[t][i] = log[i]
        /\ events'[t][Len(log) + 1] = event
    BY <1>2, <1>4
  <1>6. /\ log = <<>> => expected = "queued"
        /\ log # <<>> => Len(log) >= 1 /\ expected = log[Len(log)].to
    BY <1>1, <1>2, <1>3 DEF LedgerInv, LedgerIsPath
  <1>7. event.from = expected /\ event.to = next /\ event.evidence = fingerprint
    OBVIOUS
  <1>8. TaskTypeOK'
    <2>1. events' \in [TaskIds -> Seq(Event)]
      BY <1>1, <1>2, <1>3 DEF LedgerInv, TaskTypeOK
    <2>2. state' \in [TaskIds -> LifecycleStates \cup {None}]
          /\ blockedFrom' \in [TaskIds -> LifecycleStates \cup {None}]
      BY <1>1, <1>3 DEF LedgerInv, TaskTypeOK
    <2>3. blockers' \in [TaskIds -> [BlockerClasses -> BlockerRow \cup {None}]]
      <3>1. blockers[t] \in [BlockerClasses -> BlockerRow \cup {None}]
        BY <1>1 DEF LedgerInv, TaskTypeOK
      <3>2. ResolvedBlockers(t, fingerprint) \in [BlockerClasses -> BlockerRow \cup {None}]
        BY <3>1 DEF ResolvedBlockers, BlockerRow
      <3> QED
        BY <1>1, <3>2 DEF CommitTransition, LedgerInv, TaskTypeOK
    <2>4. nextAction' \in [TaskIds -> ActionRow \cup {None}]
      <3>1. nextAction[t] \in ActionRow \cup {None}
        BY <1>1 DEF LedgerInv, TaskTypeOK
      <3>2. ResolvedAction(t, fingerprint) \in ActionRow \cup {None}
        BY <3>1 DEF ResolvedAction, ActionRow
      <3> QED
        BY <1>1, <3>2 DEF CommitTransition, LedgerInv, TaskTypeOK
    <2> QED
      BY <2>1, <2>2, <2>3, <2>4 DEF CommitTransition, LedgerInv, TaskTypeOK
  <1> HIDE DEF t, log, event
  <1>9. LedgerIsPath'
    <2> SUFFICES ASSUME NEW u \in TaskIds
                 PROVE  /\ state'[u] = IF tasks'[u] = None THEN None
                                       ELSE IF events'[u] = <<>> THEN "queued"
                                            ELSE events'[u][Len(events'[u])].to
                        /\ tasks'[u] = None => events'[u] = <<>>
                        /\ events'[u] # <<>> => events'[u][1].from = "queued"
                        /\ \A i \in 2..Len(events'[u]) :
                              events'[u][i].from = events'[u][i - 1].to
      BY DEF LedgerIsPath
    <2>1. CASE u # t
      BY <1>3, <1>4, <2>1 DEF LedgerInv, LedgerIsPath
    <2>2. CASE u = t
      <3>1. state'[u] = events'[u][Len(events'[u])].to
        BY <1>4, <1>5, <1>7, <2>2
      <3>2. events'[u][1].from = "queued"
        <4>1. CASE log = <<>>
          BY <1>5, <1>6, <1>7, <2>2, <4>1
        <4>2. CASE log # <<>>
          BY <1>1, <1>5, <1>6, <2>2, <4>2 DEF LedgerInv, LedgerIsPath, log
        <4> QED
          BY <4>1, <4>2
      <3>3. ASSUME NEW i \in 2..Len(events'[u])
            PROVE  events'[u][i].from = events'[u][i - 1].to
        <4>1. CASE i = Len(log) + 1
          <5>1. log # <<>> /\ i - 1 = Len(log) /\ i - 1 \in 1..Len(log)
            BY <1>2, <1>5, <2>2, <3>3, <4>1
          <5> QED
            BY <1>5, <1>6, <1>7, <2>2, <4>1, <5>1
        <4>2. CASE i # Len(log) + 1
          <5>1. i \in 2..Len(log) /\ i \in 1..Len(log) /\ i - 1 \in 1..Len(log)
            BY <1>5, <2>2, <3>3, <4>2
          <5>2. log[i].from = log[i - 1].to
            BY <1>1, <5>1 DEF LedgerInv, LedgerIsPath, log
          <5> QED
            BY <1>5, <2>2, <5>1, <5>2
        <4> QED
          BY <4>1, <4>2
      <3> QED
        BY <1>1, <1>3, <1>5, <2>2, <3>1, <3>2, <3>3
    <2> QED
      BY <2>1, <2>2
  <1>10. expected = "blocked" => /\ Len(log) >= 1
                                 /\ blockedFrom[t] = log[Len(log)].from
                                 /\ next = log[Len(log)].from
    BY <1>1, <1>3, <1>6 DEF LedgerInv, RecoveryReturnsWhereItBlocked, TransitionIsAllowed, log
  <1>11. RecoveryReturnsWhereItBlocked'
    <2> SUFFICES ASSUME NEW u \in TaskIds
                 PROVE  /\ \A i \in 1..Len(events'[u]) : events'[u][i].from = "blocked" =>
                              i > 1 /\ events'[u][i].to = events'[u][i - 1].from
                        /\ blockedFrom'[u] = IF state'[u] = "blocked"
                                             THEN events'[u][Len(events'[u])].from ELSE None
      BY DEF RecoveryReturnsWhereItBlocked
    <2>1. CASE u # t
      BY <1>4, <2>1 DEF LedgerInv, RecoveryReturnsWhereItBlocked
    <2>2. CASE u = t
      <3>1. blockedFrom'[u] = IF state'[u] = "blocked" THEN events'[u][Len(events'[u])].from
                                                      ELSE None
        BY <1>4, <1>5, <1>7, <2>2
      <3>2. ASSUME NEW i \in 1..Len(events'[u]), events'[u][i].from = "blocked"
            PROVE  i > 1 /\ events'[u][i].to = events'[u][i - 1].from
        <4>1. CASE i = Len(log) + 1
          <5>1. expected = "blocked"
            BY <1>5, <1>7, <2>2, <3>2, <4>1
          <5>2. Len(log) >= 1 /\ i - 1 = Len(log) /\ i - 1 \in 1..Len(log) /\ i > 1
            BY <1>5, <1>10, <4>1, <5>1
          <5> QED
            BY <1>5, <1>7, <1>10, <2>2, <4>1, <5>1, <5>2
        <4>2. CASE i # Len(log) + 1
          <5>1. i \in 1..Len(log)
            BY <1>5, <2>2, <3>2, <4>2
          <5>2. i > 1 /\ log[i].to = log[i - 1].from
            BY <1>1, <1>5, <2>2, <3>2, <5>1 DEF LedgerInv, RecoveryReturnsWhereItBlocked, log
          <5>3. i - 1 \in 1..Len(log)
            BY <1>5, <5>1, <5>2
          <5> QED
            BY <1>5, <2>2, <5>1, <5>2, <5>3
        <4> QED
          BY <4>1, <4>2
      <3> QED
        BY <3>1, <3>2
    <2> QED
      BY <2>1, <2>2
  <1>12. EvidenceIsSpentOnce'
    <2> SUFFICES ASSUME NEW u \in TaskIds, NEW i \in 1..Len(events'[u]),
                        NEW j \in 1..Len(events'[u]),
                        events'[u][i].evidence = events'[u][j].evidence
                 PROVE  i = j
      BY DEF EvidenceIsSpentOnce
    <2>1. CASE u # t
      BY <1>4, <2>1 DEF LedgerInv, EvidenceIsSpentOnce
    <2>2. CASE u = t
      <3>1. \A k \in 1..Len(log) : log[k].evidence # fingerprint
        BY <1>3 DEF EvidenceIsFresh, log
      <3>2. \A k, l \in 1..Len(log) : log[k].evidence = log[l].evidence => k = l
        BY <1>1 DEF LedgerInv, EvidenceIsSpentOnce, log
      <3>3. \A k \in 1..Len(events'[u]) : k = Len(log) + 1 \/ k \in 1..Len(log)
        BY <1>5, <2>2
      <3> QED
        BY <1>5, <1>7, <2>2, <3>1, <3>2, <3>3
    <2> QED
      BY <2>1, <2>2
  <1>13. StagesWereReviewed'
    <2> SUFFICES ASSUME NEW u \in TaskIds
                 PROVE  /\ Stage(u)' = "plan-review" =>
                              \E i \in 1..Len(events'[u]) : Passed(u, i, "planning", "plan-review")'
                        /\ Stage(u)' = "implementing" =>
                              \E i, j \in 1..Len(events'[u]) :
                                 /\ i < j
                                 /\ Passed(u, i, "planning", "plan-review")'
                                 /\ Passed(u, j, "plan-review", "implementing")'
                        /\ Stage(u)' \in {"diff-review", "ready-for-owner"} =>
                              \E i, j, k \in 1..Len(events'[u]) :
                                 /\ i < j /\ j < k
                                 /\ Passed(u, i, "planning", "plan-review")'
                                 /\ Passed(u, j, "plan-review", "implementing")'
                                 /\ Passed(u, k, "implementing", "diff-review")'
      BY DEF StagesWereReviewed
    <2>1. CASE u # t
      <3>1. events'[u] = events[u] /\ Stage(u)' = Stage(u)
        BY <1>4, <2>1 DEF Stage
      <3>2. \A i, from, to : Passed(u, i, from, to) => Passed(u, i, from, to)'
        BY <3>1 DEF Passed
      <3>3. StagesWereReviewed
        BY <1>1 DEF LedgerInv
      <3>4. CASE Stage(u) = "plan-review"
        BY <3>1, <3>2, <3>3, <3>4 DEF StagesWereReviewed
      <3>5. CASE Stage(u) = "implementing"
        BY <3>1, <3>2, <3>3, <3>5 DEF StagesWereReviewed
      <3>6. CASE Stage(u) \in {"diff-review", "ready-for-owner"}
        BY <3>1, <3>2, <3>3, <3>6 DEF StagesWereReviewed
      <3> QED
        BY <3>1, <3>4, <3>5, <3>6
    <2>2. CASE u = t
      <3>0. PICK n \in Nat : n = Len(log)
        BY <1>5
      <3>1. \A i \in 1..n : \A from, to :
               Passed(u, i, from, to) => i \in 1..Len(events'[u]) /\ Passed(u, i, from, to)'
        BY <1>5, <2>2, <3>0 DEF Passed, log
      <3>2. \A from, to : expected = from /\ next = to =>
               Passed(u, n + 1, from, to)' /\ n + 1 \in 1..Len(events'[u])
        BY <1>5, <1>7, <2>2, <3>0 DEF Passed
      <3>3. \/ Stage(u)' = Stage(u)
            \/ /\ Stage(u) = expected /\ Stage(u)' = next
               /\ <<expected, next>> \in
                    {<<"queued", "planning">>, <<"planning", "plan-review">>,
                     <<"plan-review", "planning">>, <<"plan-review", "implementing">>,
                     <<"implementing", "diff-review">>, <<"diff-review", "implementing">>,
                     <<"diff-review", "ready-for-owner">>}
        <4>1. expected = "blocked" \/ next = "blocked" \/
              <<expected, next>> \in
                    {<<"queued", "planning">>, <<"planning", "plan-review">>,
                     <<"plan-review", "planning">>, <<"plan-review", "implementing">>,
                     <<"implementing", "diff-review">>, <<"diff-review", "implementing">>,
                     <<"diff-review", "ready-for-owner">>}
          BY <1>3 DEF TransitionIsAllowed, AllowedTransitions
        <4>2. ~(expected = "blocked" /\ next = "blocked")
          BY <1>3 DEF TransitionIsAllowed, AllowedTransitions
        <4>3. CASE expected = "blocked"
          BY <1>3, <1>4, <2>2, <4>2, <4>3 DEF Stage, TransitionIsAllowed
        <4>4. CASE next = "blocked"
          BY <1>3, <1>4, <2>2, <4>2, <4>4 DEF Stage
        <4>5. CASE expected # "blocked" /\ next # "blocked"
          BY <1>3, <1>4, <2>2, <4>1, <4>5 DEF Stage
        <4> QED
          BY <4>3, <4>4, <4>5
      <3>4. /\ Stage(u) = "plan-review" =>
                  \E i \in 1..n : Passed(u, i, "planning", "plan-review")
            /\ Stage(u) = "implementing" =>
                  \E i, j \in 1..n :
                     /\ i < j
                     /\ Passed(u, i, "planning", "plan-review")
                     /\ Passed(u, j, "plan-review", "implementing")
            /\ Stage(u) \in {"diff-review", "ready-for-owner"} =>
                  \E i, j, k \in 1..n :
                     /\ i < j /\ j < k
                     /\ Passed(u, i, "planning", "plan-review")
                     /\ Passed(u, j, "plan-review", "implementing")
                     /\ Passed(u, k, "implementing", "diff-review")
        BY <2>2, <3>0 DEF LedgerInv, StagesWereReviewed, log
      <3>5. \A i \in 1..n : i < n + 1
        OBVIOUS
      <3>6. CASE Stage(u)' = Stage(u)
        BY <3>1, <3>4, <3>6
      <3>7. CASE Stage(u) = "planning" /\ Stage(u)' = "plan-review"
                 /\ expected = "planning" /\ next = "plan-review"
        BY <3>2, <3>7
      <3>8. CASE Stage(u) = "plan-review" /\ Stage(u)' = "implementing"
                 /\ expected = "plan-review" /\ next = "implementing"
        BY <3>1, <3>2, <3>4, <3>5, <3>8
      <3>9. CASE Stage(u) = "implementing" /\ Stage(u)' = "diff-review"
                 /\ expected = "implementing" /\ next = "diff-review"
        BY <3>1, <3>2, <3>4, <3>5, <3>9
      <3>10. CASE Stage(u) = "diff-review" /\ Stage(u)' \in {"implementing", "ready-for-owner"}
        BY <3>1, <3>4, <3>10
      <3>11. CASE Stage(u)' = "planning"
        BY <3>11
      <3> QED
        BY <3>3, <3>6, <3>7, <3>8, <3>9, <3>10, <3>11
    <2> QED
      BY <2>1, <2>2
  <1> QED
    BY <1>8, <1>9, <1>11, <1>12, <1>13 DEF LedgerInv

(* Annotations are typed.                                                  *)
LEMMA AnnotateInv ==
    ASSUME LedgerInv, NEW id \in Identities,
           \/ Annotate(id)
           \/ \E kind \in ArtifactKinds, fingerprint \in Fingerprints :
                 RecordArtifact(id, kind, fingerprint)
    PROVE  LedgerInv'
  <1>1. id.task \in TaskIds
    BY IdentityFields
  <1>2. TaskTypeOK'
    <2>1. ASSUME NEW class \in BlockerClasses, SetBlocker(id, class)
          PROVE  TaskTypeOK'
      <3>1. blockers[id.task] \in [BlockerClasses -> BlockerRow \cup {None}]
            /\ [resolution |-> None] \in BlockerRow
        BY <1>1 DEF LedgerInv, TaskTypeOK, BlockerRow
      <3>2. blockers' \in [TaskIds -> [BlockerClasses -> BlockerRow \cup {None}]]
        BY <1>1, <2>1, <3>1 DEF SetBlocker, LedgerInv, TaskTypeOK
      <3> QED
        BY <2>1, <3>2 DEF SetBlocker, LedgerInv, TaskTypeOK
    <2>2. ASSUME NEW kind \in NextActionKinds, SetNextAction(id, kind)
          PROVE  TaskTypeOK'
      BY <1>1, <2>2 DEF SetNextAction, LedgerInv, TaskTypeOK, ActionRow
    <2>3. ASSUME NEW kind \in ArtifactKinds, NEW fingerprint \in Fingerprints,
                 RecordArtifact(id, kind, fingerprint)
          PROVE  TaskTypeOK'
      BY <1>1, <2>3 DEF RecordArtifact, LedgerInv, TaskTypeOK
    <2> QED
      BY <2>1, <2>2, <2>3 DEF Annotate
  <1>3. UNCHANGED <<tasks, state, blockedFrom, events>>
    BY DEF Annotate, SetBlocker, SetNextAction, RecordArtifact
  <1> QED
    BY <1>2, <1>3, LedgerUntouched

(* Every step of the ledger keeps the inductive invariant.                 *)
LEMMA LedgerInvNext == LedgerInv /\ [TaskNext]_taskVars => LedgerInv'
  <1> SUFFICES ASSUME LedgerInv, [TaskNext]_taskVars PROVE LedgerInv'
    OBVIOUS
  <1>1. ASSUME NEW id \in Identities, NEW fingerprint \in Fingerprints, Advance(id, fingerprint)
        PROVE  LedgerInv'
    <2>1. "diff-review" \in LifecycleStates /\ "ready-for-owner" \in LifecycleStates
      BY DEF LifecycleStates
    <2> QED
      BY <1>1, <2>1, CommitInv DEF Advance, TransitionTask, TransitionReadyForOwner
  <1>2. CASE UNCHANGED taskVars
    <2>1. TaskTypeOK' /\ UNCHANGED <<tasks, state, blockedFrom, events>>
      BY <1>2 DEF taskVars, LedgerInv, TaskTypeOK
    <2> QED
      BY <2>1, LedgerUntouched
  <1> QED
    BY <1>1, <1>2, AdmitInv, AnnotateInv DEF TaskNext

-----------------------------------------------------------------------------
(* The ledger's inductive invariant holds in every reachable state.        *)
THEOREM LedgerInvariant == TaskSpec => []LedgerInv
  <1> QED
    BY LedgerInvInit, LedgerInvNext, PTL DEF TaskSpec

(* Every table of the ledger stays well typed.                             *)
THEOREM TaskTypes == TaskSpec => []TaskTypeOK
  <1>1. LedgerInv => TaskTypeOK
    BY DEF LedgerInv
  <1> QED
    BY <1>1, LedgerInvariant, PTL

(* The committed events of every task are one path from "queued" to its    *)
(* current state (_commit_transition's compare-and-set on tasks.state).    *)
THEOREM LedgersArePaths == TaskSpec => []LedgerIsPath
  <1>1. LedgerInv => LedgerIsPath
    BY DEF LedgerInv
  <1> QED
    BY <1>1, LedgerInvariant, PTL

(* Recovery out of "blocked" returns to the state the task was blocked in. *)
THEOREM RecoveriesReturn == TaskSpec => []RecoveryReturnsWhereItBlocked
  <1>1. LedgerInv => RecoveryReturnsWhereItBlocked
    BY DEF LedgerInv
  <1> QED
    BY <1>1, LedgerInvariant, PTL

(* No fingerprint proves two transitions of a task.                        *)
THEOREM EvidenceSpentOnce == TaskSpec => []EvidenceIsSpentOnce
  <1>1. LedgerInv => EvidenceIsSpentOnce
    BY DEF LedgerInv
  <1> QED
    BY <1>1, LedgerInvariant, PTL

(* A task ready for its owner went through plan review, implementation and *)
(* diff review in that order, whatever detours it took.                    *)
THEOREM ReadyTasksWereReviewed == TaskSpec => []ReadyWasReviewed
  <1>1. LedgerInv => ReadyWasReviewed
    <2> SUFFICES ASSUME LedgerInv, NEW t \in TaskIds, state[t] = "ready-for-owner"
                 PROVE  \E i, j, k \in 1..Len(events[t]) :
                           /\ i < j /\ j < k
                           /\ Passed(t, i, "planning", "plan-review")
                           /\ Passed(t, j, "plan-review", "implementing")
                           /\ Passed(t, k, "implementing", "diff-review")
      BY DEF ReadyWasReviewed, Passed
    <2>1. Stage(t) = "ready-for-owner"
      BY DEF Stage
    <2> QED
      BY <2>1 DEF LedgerInv, StagesWereReviewed
  <1> QED
    BY <1>1, LedgerInvariant, PTL

-----------------------------------------------------------------------------
(* OwnershipIsExclusive with the fact that makes it inductive: a row is    *)
(* stored under its own task identity.                                     *)
OwnershipInv ==
    /\ TaskTypeOK
    /\ \A t \in TaskIds : tasks[t] # None => tasks[t].task = t
    /\ OwnershipIsExclusive

(* Admission takes a branch and a worktree key that nobody else owns.      *)
LEMMA OwnershipNext == OwnershipInv /\ TaskTypeOK' /\ [TaskNext]_taskVars => OwnershipInv'
  <1> SUFFICES ASSUME OwnershipInv, TaskTypeOK', [TaskNext]_taskVars
               PROVE  OwnershipInv'
    OBVIOUS
  <1>1. CASE UNCHANGED <<tasks, branchOwner, worktreeOwner>>
    BY <1>1 DEF OwnershipInv, OwnershipIsExclusive, MatchingTask
  <1>2. ASSUME NEW id \in Identities, NEW digest \in Digests, AdmitTask(id, digest)
        PROVE  OwnershipInv'
    <2> DEFINE key == KeyOf[id.worktree]
    <2>1. /\ id.task \in TaskIds /\ id.branch \in Branches /\ key \in WorktreeKeys
          /\ None \notin TaskIds /\ id # None
      BY IdentityFields, TaskAssumption
    <2>2. /\ tasks'[id.task] = id
          /\ branchOwner'[id.branch] = id.task
          /\ worktreeOwner'[key] = id.task
          /\ \A u \in TaskIds : u # id.task => tasks'[u] = tasks[u]
          /\ \A b \in Branches : b # id.branch => branchOwner'[b] = branchOwner[b]
          /\ \A k \in WorktreeKeys : k # key => worktreeOwner'[k] = worktreeOwner[k]
      BY <1>2, <2>1 DEF AdmitTask, OwnershipInv, TaskTypeOK
    <2>3. ASSUME NEW u \in TaskIds, tasks[u] # None, u # id.task
          PROVE  /\ tasks[u].task = u
                 /\ tasks[u].branch \in Branches /\ KeyOf[tasks[u].worktree] \in WorktreeKeys
                 /\ branchOwner[tasks[u].branch] = u /\ worktreeOwner[KeyOf[tasks[u].worktree]] = u
                 /\ tasks[u].branch # id.branch /\ KeyOf[tasks[u].worktree] # key
      <3>1. tasks[u] \in Identities
        BY <2>3 DEF OwnershipInv, TaskTypeOK
      <3>2. /\ tasks[u].task = u
            /\ branchOwner[tasks[u].branch] = u
            /\ worktreeOwner[KeyOf[tasks[u].worktree]] = u
        BY <2>3 DEF OwnershipInv, OwnershipIsExclusive, MatchingTask
      <3>3. u # None
        BY <2>1
      <3>4. branchOwner[id.branch] # u /\ worktreeOwner[key] # u
        BY <1>2, <2>3, <3>3 DEF AdmitTask, OwnershipIsFree
      <3> QED
        BY <3>1, <3>2, <3>4, IdentityFields
    <2> HIDE DEF key
    <2>4. \A t \in TaskIds : tasks'[t] # None => tasks'[t].task = t
      BY <2>2, <2>3
    <2>5. ASSUME NEW t \in TaskIds, tasks'[t] # None
          PROVE  MatchingTask(tasks[t])'
      <3>1. CASE t = id.task
        BY <2>1, <2>2, <3>1 DEF MatchingTask, key
      <3>2. CASE t # id.task
        BY <2>1, <2>2, <2>3, <2>5, <3>2 DEF MatchingTask, key
      <3> QED
        BY <3>1, <3>2
    <2>6. \A t, u \in TaskIds :
             tasks'[t] # None /\ tasks'[u] # None /\ t # u =>
                /\ tasks'[t].branch # tasks'[u].branch
                /\ KeyOf[tasks'[t].worktree] # KeyOf[tasks'[u].worktree]
      BY <2>2, <2>3 DEF key, OwnershipInv, OwnershipIsExclusive
    <2> QED
      BY <2>4, <2>5, <2>6 DEF OwnershipInv, OwnershipIsExclusive
  <1>3. ASSUME NEW id \in Identities, NEW fingerprint \in Fingerprints, Advance(id, fingerprint)
        PROVE  UNCHANGED <<tasks, branchOwner, worktreeOwner>>
    BY <1>3 DEF Advance, TransitionTask, TransitionReadyForOwner, CommitTransition
  <1>4. ASSUME NEW id \in Identities, NEW kind, NEW fingerprint,
               Annotate(id) \/ RecordArtifact(id, kind, fingerprint)
        PROVE  UNCHANGED <<tasks, branchOwner, worktreeOwner>>
    BY <1>4 DEF Annotate, SetBlocker, SetNextAction, RecordArtifact
  <1>5. CASE UNCHANGED taskVars
    BY <1>1, <1>5 DEF taskVars
  <1> QED
    BY <1>1, <1>2, <1>3, <1>4, <1>5 DEF TaskNext

(* A branch and a worktree belong to one task for ever, however many tasks *)
(* and spellings of paths are presented.                                   *)
THEOREM OwnershipStaysExclusive == TaskSpec => []OwnershipIsExclusive
  <1>1. TaskInit => OwnershipInv
    BY LedgerInvInit DEF TaskInit, OwnershipInv, OwnershipIsExclusive, LedgerInv
  <1>2. OwnershipInv => OwnershipIsExclusive
    BY DEF OwnershipInv
  <1> QED
    BY <1>1, <1>2, OwnershipNext, TaskTypes, PTL DEF TaskSpec

-----------------------------------------------------------------------------
(***************************************************************************)
(* The schema migrations.  Each property compares the ledger before an     *)
(* upgrade with the ledger after it; between the two lie up to 84 steps of *)
(* one transaction.  InWork says, version by version, what those steps     *)
(* have made of each table so far, in terms of the committed ledger alone, *)
(* and MigrationInv that the open transaction stands there.                *)
(***************************************************************************)
(* The tables of a database. *)
LedgerTables == {"version", "history", "id", "tasks", "branches", "keys", "items", "objectives",
           "records", "stage", "receipt", "evidence", "reviews", "coordinates", "digests",
           "generic", "seal", "reviewed", "dispatches"}

(* What an earlier release leaves, and what a commit leaves again. *)
LedgerOK(d) ==
    /\ DOMAIN d = LedgerTables
    /\ d.version \in Nat
    /\ \A t, u \in d.tasks : t.task = u.task => t = u
    /\ d.stage = {}
    /\ d.version < 65 => d.objectives \subseteq ObjectiveRows
    /\ d.records \subseteq ObjectiveRows
    /\ d.version >= 63 => \A r \in d.records : r.retry = r.attempt
    /\ d.version < 73 => d.reviews \in Seq(ReviewRows)
    /\ d.reviewed \subseteq DependencyRows

(* The objectives that version 65 has to carry over, and those that need nothing. *)
CarriedOver(d) == d.objectives \cup LegacyRecords(d)
LaterRecords(d) == d.records \ LegacyRecords(d)

(* What no migration changes. *)
SameRest(d, w) ==
    /\ w.history = d.history /\ w.id = d.id /\ w.tasks = d.tasks
    /\ w.branches = d.branches /\ w.keys = d.keys /\ w.items = d.items
    /\ w.evidence = d.evidence /\ w.seal = d.seal

SameObjectives(d, w) ==
    /\ w.objectives = d.objectives /\ w.stage = d.stage
    /\ w.records = d.records /\ w.receipt = d.receipt

(* The objectives of d in the working copy w of its upgrade. *)
ObjectivesInWork(d, w) ==
    /\ w.version < 62 \/ (d.version >= 62 /\ w.version < 65) \/ d.version >= 65 =>
          SameObjectives(d, w)
    /\ d.version < 62 /\ w.version \in 62..64 =>
          w.objectives = {} /\ w.stage = CarriedOver(d) /\ w.records = {}
    /\ d.version = 62 /\ w.version > 62 => d.records = {}
    /\ d.version < 65 /\ w.version >= 65 =>
          /\ w.stage = {}
          /\ w.records = LaterRecords(d) \cup {Reconstructed(o) : o \in CarriedOver(d)}
          /\ w.receipt = Cardinality(CarriedOver(d))
          /\ \A o \in CarriedOver(d) : Supported(d, o)

(* Its reviews. *)
ReviewsInWork(d, w) ==
    /\ w.version < 71 \/ d.version >= 71 => w.reviews = d.reviews
    /\ d.version < 71 /\ w.version >= 71 => w.reviews = SplitPositions(d).reviews
    /\ d.version < 73 /\ w.version >= 73 => Increasing(Coordinates(d))
    /\ w.version < 81 => w.generic = d.generic

(* Its dependency reviews. *)
DependenciesInWork(d, w) ==
    /\ w.version < 84 \/ d.version >= 84 =>
          w.reviewed = d.reviewed /\ w.dispatches = d.dispatches
    /\ d.version < 84 /\ w.version >= 84 =>
          /\ w.reviewed = {Admitted(d, r) : r \in d.reviewed}
          /\ w.dispatches = {r.attempt : r \in {x \in d.reviewed : x.accepted}}

InWork(d, w) ==
    /\ DOMAIN w = LedgerTables
    /\ w.version \in d.version..Latest
    /\ SameRest(d, w)
    /\ ObjectivesInWork(d, w)
    /\ ReviewsInWork(d, w)
    /\ DependenciesInWork(d, w)

MigrationSteps == {"idle", "looked", "connected", "migrating", "committed"}
MigrationResults == {"none", "refused", "busy", "healthy", "incompatible"}

MigrationInv ==
    /\ file # "db" => db = NoRows
    /\ LedgerOK(db)
    /\ at \in [Processes -> MigrationSteps]
    /\ outcome \in [Processes -> MigrationResults]
    /\ \A p \in Processes : at[p] = "migrating" => lock = p
    /\ lock # Nobody =>
          HistoryIsCanonical(db) /\ SchemaIsCanonical(db) /\ InWork(db, work)

-----------------------------------------------------------------------------
(* The empty database, and every database, has these tables. *)
LEMMA EveryTable ==
    /\ DOMAIN NoRows = LedgerTables
    /\ \A d \in Database : DOMAIN d = LedgerTables
  BY DEF NoRows, Database, LedgerTables

(* What one migration does to each table. *)
LEMMA Migrating ==
    ASSUME NEW d, DOMAIN d = LedgerTables, NEW v
    PROVE  LET w == Migrated(d, v)
           IN /\ DOMAIN w = LedgerTables /\ w.version = v /\ SameRest(d, w)
              /\ v \notin {62, 65} => SameObjectives(d, w)
              /\ v = 62 => /\ w.objectives = {} /\ w.stage = d.objectives \cup LegacyRecords(d)
                           /\ w.records = d.records \ LegacyRecords(d)
              /\ v = 65 => /\ w.stage = {}
                           /\ w.records = d.records \cup {Reconstructed(o) : o \in LegacyRows(d)}
                           /\ w.receipt = Cardinality(LegacyRows(d))
              /\ v # 71 => w.reviews = d.reviews
              /\ v = 71 => w.reviews = SplitPositions(d).reviews
              /\ v # 81 => w.generic = d.generic
              /\ v # 84 => w.reviewed = d.reviewed /\ w.dispatches = d.dispatches
              /\ v = 84 => /\ w.reviewed = {Admitted(d, r) : r \in d.reviewed}
                           /\ w.dispatches = {r.attempt : r \in {x \in d.reviewed : x.accepted}}
  <1> DEFINE Rest(m) == m.reviewed = d.reviewed /\ m.dispatches = d.dispatches
  <1>1. ASSUME NEW m, DOMAIN m = LedgerTables
        PROVE  LET w == [m EXCEPT !.version = v]
               IN /\ DOMAIN w = LedgerTables /\ w.version = v
                  /\ \A t \in LedgerTables \ {"version"} : w[t] = m[t]
    BY <1>1 DEF LedgerTables
  <1>2. CASE v = 62
    <2>1. PICK m : m = StageLegacy(d)
      OBVIOUS
    <2>2. /\ DOMAIN m = LedgerTables
          /\ m.objectives = {} /\ m.stage = d.objectives \cup LegacyRecords(d)
          /\ m.records = d.records \ LegacyRecords(d)
          /\ SameRest(d, m) /\ m.reviews = d.reviews /\ m.generic = d.generic /\ Rest(m)
      BY <2>1 DEF StageLegacy, LedgerTables, SameRest
    <2>3. Migrated(d, v) = [m EXCEPT !.version = v]
      BY <1>2, <2>1 DEF Migrated
    <2> QED
      BY <1>1, <1>2, <2>2, <2>3 DEF LedgerTables, SameRest
  <1>3. CASE v = 65
    <2>1. PICK m : m = MigrateObjectives(d)
      OBVIOUS
    <2>2. /\ DOMAIN m = LedgerTables
          /\ m.stage = {}
          /\ m.records = d.records \cup {Reconstructed(o) : o \in LegacyRows(d)}
          /\ m.receipt = Cardinality(LegacyRows(d))
          /\ SameRest(d, m) /\ m.reviews = d.reviews /\ m.generic = d.generic /\ Rest(m)
      BY <2>1 DEF MigrateObjectives, LedgerTables, SameRest
    <2>3. Migrated(d, v) = [m EXCEPT !.version = v]
      BY <1>3, <2>1 DEF Migrated
    <2> QED
      BY <1>1, <1>3, <2>2, <2>3 DEF LedgerTables, SameRest
  <1>4. CASE v = 71
    <2>1. PICK m : m = SplitPositions(d)
      OBVIOUS
    <2>2. /\ DOMAIN m = LedgerTables
          /\ SameRest(d, m) /\ SameObjectives(d, m) /\ m.generic = d.generic /\ Rest(m)
      BY <2>1 DEF SplitPositions, LedgerTables, SameRest, SameObjectives
    <2>3. Migrated(d, v) = [m EXCEPT !.version = v]
      BY <1>4, <2>1 DEF Migrated
    <2> QED
      BY <1>1, <1>4, <2>1, <2>2, <2>3 DEF LedgerTables, SameRest, SameObjectives
  <1>5. CASE v \in {73, 80, 81}
    <2>1. PICK m : m = CASE v = 73 -> MigrateCoordinates(d)
                         [] v = 80 -> MigrateDigests(d)
                         [] v = 81 -> MigratePositions(d)
      OBVIOUS
    <2>2. /\ DOMAIN m = LedgerTables
          /\ SameRest(d, m) /\ SameObjectives(d, m) /\ m.reviews = d.reviews /\ Rest(m)
          /\ v # 81 => m.generic = d.generic
      BY <1>5, <2>1 DEF MigrateCoordinates, MigrateDigests, MigratePositions, LedgerTables, SameRest,
                        SameObjectives
    <2>3. Migrated(d, v) = [m EXCEPT !.version = v]
      BY <1>5, <2>1 DEF Migrated
    <2> QED
      BY <1>1, <1>5, <2>2, <2>3 DEF LedgerTables, SameRest, SameObjectives
  <1>6. CASE v = 84
    <2>1. PICK m : m = MigrateEvidence(d)
      OBVIOUS
    <2>2. /\ DOMAIN m = LedgerTables
          /\ SameRest(d, m) /\ SameObjectives(d, m) /\ m.reviews = d.reviews
          /\ m.generic = d.generic
          /\ m.reviewed = {Admitted(d, r) : r \in d.reviewed}
          /\ m.dispatches = {r.attempt : r \in {x \in d.reviewed : x.accepted}}
      BY <2>1 DEF MigrateEvidence, LedgerTables, SameRest, SameObjectives
    <2>3. Migrated(d, v) = [m EXCEPT !.version = v]
      BY <1>6, <2>1 DEF Migrated
    <2> QED
      BY <1>1, <1>6, <2>2, <2>3 DEF LedgerTables, SameRest, SameObjectives
  <1>7. CASE v \notin {62, 65, 71, 73, 80, 81, 84}
    <2>1. Migrated(d, v) = [d EXCEPT !.version = v]
      BY <1>7 DEF Migrated
    <2> QED
      BY <1>1, <1>7, <2>1 DEF LedgerTables, SameRest, SameObjectives
  <1> QED
    BY <1>2, <1>3, <1>4, <1>5, <1>6, <1>7

(* The columns of rows. *)
LEMMA MigratedRows ==
    /\ \A o \in ObjectiveRows : /\ Reconstructed(o) \in ObjectiveRows
                                /\ Objective(Reconstructed(o)) = Objective(o)
                                /\ Reconstructed(o).retry = Reconstructed(o).attempt
    /\ \A r \in ReviewRows : /\ r.epoch \in Nat /\ r.round \in Nat /\ r.position \in Nat
                             /\ r.format \in Nat /\ r.within \in Nat
    /\ \A r \in ReviewRows : [r EXCEPT !.position = r.within, !.format = 0] \in ReviewRows
  <1>1. ASSUME NEW o \in ObjectiveRows
        PROVE  /\ Reconstructed(o) \in ObjectiveRows
               /\ Objective(Reconstructed(o)) = Objective(o)
               /\ Reconstructed(o).retry = Reconstructed(o).attempt
    BY DEF ObjectiveRows, Reconstructed, Objective
  <1>2. ASSUME NEW r \in ReviewRows
        PROVE  /\ r.epoch \in Nat /\ r.round \in Nat /\ r.position \in Nat
               /\ r.format \in Nat /\ r.within \in Nat
               /\ [r EXCEPT !.position = r.within, !.format = 0] \in ReviewRows
    BY DEF ReviewRows
  <1> QED
    BY <1>1, <1>2

(* What becomes of one dependency review. *)
LEMMA AdmittedRow ==
    ASSUME NEW d, NEW r \in DependencyRows, NEW a, a = Admitted(d, r)
    PROVE  /\ a \in DependencyRows
           /\ a.attempt = r.attempt /\ a.candidate = r.candidate /\ a.accepted = r.accepted
           /\ a # r => r.accepted /\ r.candidate = d.seal
  <1>1. PICK e : e = [r EXCEPT !.admission = "exact"]
    OBVIOUS
  <1>2. /\ e \in DependencyRows /\ e.attempt = r.attempt /\ e.candidate = r.candidate
        /\ e.accepted = r.accepted
    BY <1>1 DEF DependencyRows
  <1>3. \/ a = r
        \/ a = e /\ r.accepted /\ r.candidate = d.seal
    BY <1>1 DEF Admitted, HistoricalOnly
  <1> QED
    BY <1>2, <1>3

(* A function on 1..n has n places. *)
LEMMA FunctionPlaces ==
    ASSUME NEW n \in Nat, NEW s, NEW S, s \in [1..n -> S]
    PROVE  s \in Seq(S) /\ Len(s) = n
  BY SeqDef, LenProperties

(* The reviews as version 71 leaves them. *)
LEMMA SplitReviews ==
    ASSUME NEW d, DOMAIN d = LedgerTables, d.reviews \in Seq(ReviewRows)
    PROVE  /\ SplitPositions(d).reviews \in Seq(ReviewRows)
           /\ Len(SplitPositions(d).reviews) = Len(d.reviews)
  <1>1. SplitPositions(d).reviews
           = [i \in DOMAIN d.reviews |-> [d.reviews[i] EXCEPT !.position = d.reviews[i].within,
                                                             !.format = 0]]
    BY DEF SplitPositions, LedgerTables
  <1>2. /\ Len(d.reviews) \in Nat /\ DOMAIN d.reviews = 1..Len(d.reviews)
        /\ \A i \in 1..Len(d.reviews) : d.reviews[i] \in ReviewRows
    BY LenProperties, ElementOfSeq
  <1>3. SplitPositions(d).reviews \in [1..Len(d.reviews) -> ReviewRows]
    BY <1>1, <1>2, MigratedRows
  <1> QED
    BY <1>2, <1>3, FunctionPlaces

(* What version 73 lets pass is in the order of its coordinates. *)
LEMMA InOrder ==
    ASSUME NEW R, R \in Seq(ReviewRows),
           \A i \in 2..Len(R) : TransitionIsValid(R[i-1], R[i])
    PROVE  Increasing([i \in DOMAIN R |-> Coordinate(R[i])])
  <1> DEFINE c == [i \in DOMAIN R |-> Coordinate(R[i])]
  <1>1. /\ Len(R) \in Nat /\ DOMAIN R = 1..Len(R)
        /\ \A i \in 1..Len(R) : R[i] \in ReviewRows
    BY LenProperties, ElementOfSeq
  <1>2. Len(c) = Len(R)
    <2>1. c \in [1..Len(R) -> {Coordinate(R[i]) : i \in 1..Len(R)}]
      BY <1>1
    <2> HIDE DEF c
    <2> QED
      BY <1>1, <2>1, FunctionPlaces
  <1>3. ASSUME NEW i \in 1..(Len(R) - 1)
        PROVE  \E k \in 1..4 : c[i][k] < c[i+1][k] /\ \A j \in 1..(k - 1) : c[i][j] = c[i+1][j]
    <2>1. i \in 1..Len(R) /\ i + 1 \in 2..Len(R) /\ i + 1 \in 1..Len(R) /\ (i + 1) - 1 = i
      BY <1>1
    <2>2. PICK r \in ReviewRows : r = R[i]
      BY <1>1, <2>1
    <2>3. PICK s \in ReviewRows : s = R[i+1]
      BY <1>1, <2>1
    <2>4. TransitionIsValid(r, s)
      BY <2>1, <2>2, <2>3
    <2>5. /\ c[i] = <<r.epoch, r.round, r.position, r.format>>
          /\ c[i+1] = <<s.epoch, s.round, s.position, s.format>>
      BY <1>1, <2>1, <2>2, <2>3 DEF Coordinate
    <2>6. /\ r.epoch \in Nat /\ r.round \in Nat /\ r.position \in Nat /\ r.format \in Nat
          /\ s.epoch \in Nat /\ s.round \in Nat /\ s.position \in Nat /\ s.format \in Nat
      BY MigratedRows
    <2> HIDE DEF c
    <2>7. CASE s.epoch = r.epoch + 1
      <3>1. c[i][1] < c[i+1][1] /\ \A j \in 1..(1 - 1) : c[i][j] = c[i+1][j]
        BY <2>5, <2>6, <2>7
      <3> QED
        BY <3>1
    <2>8. CASE s.epoch = r.epoch /\ s.round = r.round + 1
      <3>1. c[i][2] < c[i+1][2] /\ \A j \in 1..(2 - 1) : c[i][j] = c[i+1][j]
        <4>1. \A j \in 1..(2 - 1) : j = 1
          OBVIOUS
        <4> QED
          BY <4>1, <2>5, <2>6, <2>8
      <3> QED
        BY <3>1
    <2>9. CASE s.epoch = r.epoch /\ s.round = r.round /\ s.position = r.position + 1
      <3>1. c[i][3] < c[i+1][3] /\ \A j \in 1..(3 - 1) : c[i][j] = c[i+1][j]
        <4>1. \A j \in 1..(3 - 1) : j = 1 \/ j = 2
          OBVIOUS
        <4> QED
          BY <4>1, <2>5, <2>6, <2>9
      <3> QED
        BY <3>1
    <2>10. CASE /\ s.epoch = r.epoch /\ s.round = r.round /\ s.position = r.position
                /\ s.format = r.format + 1
      <3>1. c[i][4] < c[i+1][4] /\ \A j \in 1..(4 - 1) : c[i][j] = c[i+1][j]
        <4>1. \A j \in 1..(4 - 1) : j = 1 \/ j = 2 \/ j = 3
          OBVIOUS
        <4> QED
          BY <4>1, <2>5, <2>6, <2>10
      <3> QED
        BY <3>1
    <2> QED
      BY <2>4, <2>7, <2>8, <2>9, <2>10 DEF TransitionIsValid
  <1> QED
    BY <1>2, <1>3 DEF Increasing

(* One migration of the working copy. *)
LEMMA MigratesInWork ==
    ASSUME NEW d, NEW w, LedgerOK(d), InWork(d, w), w.version < Latest,
           Migrates(w, w.version + 1, d.version)
    PROVE  InWork(d, Migrated(w, w.version + 1))
  <1>1. PICK v : v = w.version + 1
    OBVIOUS
  <1>2. PICK n : n = Migrated(w, v)
    OBVIOUS
  <1>3. /\ DOMAIN w = LedgerTables /\ w.version \in d.version..Latest /\ d.version \in Nat
        /\ w.version \in Nat /\ v \in Nat /\ v \in 1..Latest /\ v = w.version + 1
        /\ v \in (d.version + 1)..Latest
    <2>1. d.version \in Nat /\ DOMAIN w = LedgerTables /\ w.version \in d.version..Latest
      BY DEF InWork, LedgerOK
    <2>2. PICK from : from = d.version
      OBVIOUS
    <2>3. PICK x : x = w.version
      OBVIOUS
    <2>4. /\ from \in Nat /\ x \in from..84 /\ x < 84 /\ v = x + 1
      BY <2>1, <2>2, <2>3, <1>1 DEF Latest
    <2>5. x \in Nat /\ v \in Nat /\ v \in 1..84 /\ v \in (from + 1)..84
      BY <2>4
    <2> QED
      BY <2>1, <2>2, <2>3, <2>4, <2>5 DEF Latest
  <1>4. /\ DOMAIN n = LedgerTables /\ n.version = v /\ SameRest(w, n)
        /\ v \notin {62, 65} => SameObjectives(w, n)
        /\ v = 62 => /\ n.objectives = {} /\ n.stage = w.objectives \cup LegacyRecords(w)
                     /\ n.records = w.records \ LegacyRecords(w)
        /\ v = 65 => /\ n.stage = {}
                     /\ n.records = w.records \cup {Reconstructed(o) : o \in LegacyRows(w)}
                     /\ n.receipt = Cardinality(LegacyRows(w))
        /\ v # 71 => n.reviews = w.reviews
        /\ v = 71 => n.reviews = SplitPositions(w).reviews
        /\ v # 81 => n.generic = w.generic
        /\ v # 84 => n.reviewed = w.reviewed /\ n.dispatches = w.dispatches
        /\ v = 84 => /\ n.reviewed = {Admitted(w, r) : r \in w.reviewed}
                     /\ n.dispatches = {r.attempt : r \in {x \in w.reviewed : x.accepted}}
    BY <1>2, <1>3, Migrating
  <1>5. SameRest(d, w) /\ SameRest(d, n)
    BY <1>4 DEF InWork, SameRest
  <1>6. Migrates(w, v, d.version)
    BY <1>1
  <1>7. ObjectivesInWork(d, n)
    <2>0. ObjectivesInWork(d, w)
      BY DEF InWork
    <2>1. CASE v < 62
      BY <2>0, <2>1, <1>3, <1>4 DEF ObjectivesInWork, SameObjectives
    <2>2. CASE v = 62
      <3>1. SameObjectives(d, w)
        BY <2>0, <2>2, <1>3 DEF ObjectivesInWork
      <3>2. /\ n.objectives = {} /\ n.stage = CarriedOver(d) /\ n.records = {}
        BY <3>1, <2>2, <1>3, <1>4 DEF SameObjectives, CarriedOver, LegacyRecords
      <3> QED
        BY <3>2, <2>2, <1>3, <1>4 DEF ObjectivesInWork
    <2>3. CASE v = 63
      <3>1. w.records = {}
        BY <2>3, <1>6 DEF Migrates, UpgradeGuardPasses
      <3>2. d.version = 62 => d.records = {}
        BY <3>1, <2>0, <2>3, <1>3 DEF ObjectivesInWork, SameObjectives
      <3> QED
        BY <3>2, <2>0, <2>3, <1>3, <1>4 DEF ObjectivesInWork, SameObjectives
    <2>4. CASE v = 64
      BY <2>0, <2>4, <1>3, <1>4 DEF ObjectivesInWork, SameObjectives
    <2>5. CASE v = 65
      <3>1. /\ LegacyRows(w) = CarriedOver(d) /\ w.records = LaterRecords(d)
            /\ d.version = 62 => d.records = {}
        <4>1. CASE d.version < 62
          BY <4>1, <2>0, <2>5, <1>3 DEF ObjectivesInWork, LegacyRows, LaterRecords, LegacyRecords
        <4>2. CASE d.version \in 62..64
          BY <4>2, <2>0, <2>5, <1>3
             DEF ObjectivesInWork, LegacyRows, LaterRecords, LegacyRecords, SameObjectives, CarriedOver, LedgerOK
        <4> QED
          BY <4>1, <4>2, <2>5, <1>3
      <3>2. \A o \in CarriedOver(d) : Supported(w, o)
        BY <3>1, <2>5, <1>6 DEF Migrates, ObjectivesMigrate
      <3>3. \A o \in CarriedOver(d) : Supported(d, o)
        BY <3>2, <1>5 DEF SameRest, Supported, EvidenceOf
      <3> QED
        BY <3>1, <3>3, <2>5, <1>3, <1>4 DEF ObjectivesInWork
    <2>6. CASE v > 65
      BY <2>0, <2>6, <1>3, <1>4 DEF ObjectivesInWork, SameObjectives
    <2> QED
      BY <2>1, <2>2, <2>3, <2>4, <2>5, <2>6, <1>3
  <1>8. ReviewsInWork(d, n)
    <2>0. ReviewsInWork(d, w)
      BY DEF InWork
    <2>1. CASE v = 71
      <3>1. w.reviews = d.reviews /\ n.reviews = SplitPositions(w).reviews
        BY <2>0, <2>1, <1>3, <1>4 DEF ReviewsInWork
      <3>2. SplitPositions(w).reviews = SplitPositions(d).reviews
        BY <3>1, <1>3 DEF SplitPositions, LedgerOK, LedgerTables
      <3> QED
        BY <3>1, <3>2, <2>0, <2>1, <1>3, <1>4 DEF ReviewsInWork
    <2>2. CASE v = 73
      <3>1. PICK R : R = w.reviews
        OBVIOUS
      <3>2. /\ R = IF d.version < 71 THEN SplitPositions(d).reviews ELSE d.reviews
            /\ d.version < 73
        BY <3>1, <2>0, <2>2, <1>3 DEF ReviewsInWork
      <3>3. R \in Seq(ReviewRows)
        BY <3>2, SplitReviews DEF LedgerOK
      <3>4. \A i \in 2..Len(R) : TransitionIsValid(R[i-1], R[i])
        BY <3>1, <2>2, <1>6 DEF Migrates, CoordinatesMigrate
      <3>5. Increasing(Coordinates(d))
        <4>1. Coordinates(d) = [i \in DOMAIN R |-> Coordinate(R[i])]
          BY <3>2 DEF Coordinates
        <4> QED
          BY <4>1, <3>3, <3>4, InOrder
      <3> QED
        BY <3>5, <2>0, <2>2, <1>3, <1>4 DEF ReviewsInWork
    <2> QED
      BY <2>0, <2>1, <2>2, <1>3, <1>4 DEF ReviewsInWork
  <1>9. DependenciesInWork(d, n)
    <2>0. DependenciesInWork(d, w)
      BY DEF InWork
    <2>1. CASE v = 84
      <3>1. w.reviewed = d.reviewed /\ w.seal = d.seal
        BY <2>0, <2>1, <1>3, <1>5 DEF DependenciesInWork, SameRest
      <3>2. \A r : Admitted(w, r) = Admitted(d, r)
        BY <3>1 DEF Admitted, HistoricalOnly
      <3> QED
        BY <3>1, <3>2, <2>1, <1>3, <1>4 DEF DependenciesInWork
    <2>2. CASE v # 84
      BY <2>0, <2>2, <1>3, <1>4 DEF DependenciesInWork, Latest
    <2> QED
      BY <2>1, <2>2
  <1> QED
    BY <1>1, <1>2, <1>3, <1>4, <1>5, <1>7, <1>8, <1>9 DEF InWork

(* What the end of a transaction adds: ownership rows and an identity. *)
FinishedUpgrade(w) == EnsureIdentity(Backfilled(w))

LEMMA FinishingKeeps ==
    ASSUME NEW w, DOMAIN w = LedgerTables
    PROVE  /\ DOMAIN FinishedUpgrade(w) = LedgerTables
           /\ \A t \in LedgerTables \ {"id", "branches", "keys"} : FinishedUpgrade(w)[t] = w[t]
  <1>1. PICK b : b = Backfilled(w)
    OBVIOUS
  <1>2. DOMAIN b = LedgerTables /\ \A t \in LedgerTables \ {"branches", "keys"} : b[t] = w[t]
    BY <1>1 DEF Backfilled, LedgerTables
  <1>3. EnsureIdentity(b) = b \/ EnsureIdentity(b) = [b EXCEPT !.id = 1]
    BY DEF EnsureIdentity
  <1> QED
    BY <1>1, <1>2, <1>3 DEF FinishedUpgrade, LedgerTables

(* A finished upgrade is a ledger again, of the last version. *)
LEMMA FinishedLedger ==
    ASSUME NEW d, NEW w, LedgerOK(d), InWork(d, w), w.version = Latest
    PROVE  LedgerOK(FinishedUpgrade(w)) /\ FinishedUpgrade(w).version = Latest
  <1>1. PICK n : n = FinishedUpgrade(w)
    OBVIOUS
  <1>2. /\ DOMAIN w = LedgerTables /\ SameRest(d, w) /\ ObjectivesInWork(d, w)
        /\ DependenciesInWork(d, w) /\ d.version \in Nat
    BY DEF InWork, LedgerOK
  <1>3. /\ DOMAIN n = LedgerTables
        /\ n.version = Latest /\ n.tasks = w.tasks /\ n.stage = w.stage
        /\ n.objectives = w.objectives /\ n.records = w.records /\ n.reviewed = w.reviewed
    BY <1>1, <1>2, FinishingKeeps DEF LedgerTables
  <1>4. n.tasks = d.tasks
    BY <1>2, <1>3 DEF SameRest
  <1>5. n.stage = {} /\ n.records \subseteq ObjectiveRows /\ \A r \in n.records : r.retry = r.attempt
    <2>1. CASE d.version >= 65
      BY <2>1, <1>2, <1>3 DEF ObjectivesInWork, SameObjectives, LedgerOK
    <2>2. CASE d.version < 65
      <3>1. n.stage = {} /\ n.records = LaterRecords(d) \cup {Reconstructed(o) : o \in CarriedOver(d)}
        BY <2>2, <1>2, <1>3 DEF ObjectivesInWork, Latest
      <3>2. CarriedOver(d) \subseteq ObjectiveRows /\ LaterRecords(d) \subseteq ObjectiveRows
        BY <2>2, <1>2 DEF CarriedOver, LaterRecords, LegacyRecords, LedgerOK
      <3>3. \A r \in LaterRecords(d) : r.retry = r.attempt
        BY <1>2 DEF LaterRecords, LegacyRecords, LedgerOK
      <3> QED
        BY <3>1, <3>2, <3>3, MigratedRows
    <2> QED
      BY <2>1, <2>2, <1>2
  <1>6. n.reviewed \subseteq DependencyRows
    <2>1. d.reviewed \subseteq DependencyRows
      BY DEF LedgerOK
    <2>2. w.reviewed = d.reviewed \/ w.reviewed = {Admitted(d, r) : r \in d.reviewed}
      BY <1>2 DEF DependenciesInWork, Latest
    <2>3. \A r \in d.reviewed : Admitted(d, r) \in DependencyRows
      BY <2>1, AdmittedRow
    <2> QED
      BY <1>3, <2>1, <2>2, <2>3
  <1> QED
    BY <1>1, <1>3, <1>4, <1>5, <1>6 DEF LedgerOK, Latest

(* A process that moves on, or returns. *)
LEMMA MigrationMoves ==
    ASSUME at \in [Processes -> MigrationSteps], outcome \in [Processes -> MigrationResults],
           NEW p \in Processes
    PROVE  /\ \A x \in MigrationSteps : Goto(p, x) =>
                 /\ at' \in [Processes -> MigrationSteps] /\ at'[p] = x
                 /\ \A q \in Processes \ {p} : at'[q] = at[q]
           /\ \A x \in MigrationResults : Return(p, x) =>
                 /\ at' \in [Processes -> MigrationSteps] /\ at'[p] = "idle"
                 /\ \A q \in Processes \ {p} : at'[q] = at[q]
                 /\ outcome' \in [Processes -> MigrationResults] /\ outcome'[p] = x
                 /\ \A q \in Processes \ {p} : outcome'[q] = outcome[q]
  <1>1. "idle" \in MigrationSteps
    BY DEF MigrationSteps
  <1> QED
    BY <1>1 DEF Goto, Return

(* The working copy of a transaction that begins is what is there. *)
LEMMA Begins ==
    ASSUME LedgerOK(db), HistoryIsCanonical(db)
    PROVE  InWork(db, db)
  <1>1. db.version \in Nat /\ db.version <= Latest /\ DOMAIN db = LedgerTables
    BY DEF LedgerOK, HistoryIsCanonical
  <1>2. db.version \in db.version..Latest
    BY <1>1 DEF Latest
  <1>3. ObjectivesInWork(db, db)
    BY <1>1 DEF ObjectivesInWork, SameObjectives
  <1>4. ReviewsInWork(db, db) /\ DependenciesInWork(db, db) /\ SameRest(db, db)
    BY <1>1 DEF ReviewsInWork, DependenciesInWork, SameRest
  <1> QED
    BY <1>1, <1>2, <1>3, <1>4 DEF InWork

LEMMA MigrationStart == MigrationInit => MigrationInv
  <1> SUFFICES ASSUME MigrationInit PROVE MigrationInv
    OBVIOUS
  <1>1. LedgerOK(NoRows)
    BY EveryTable, EmptySeq DEF NoRows, LedgerOK
  <1>2. ASSUME NEW d \in Ledgers PROVE LedgerOK(d)
    <2>1. /\ d.version \in Nat /\ DOMAIN d = LedgerTables
          /\ d.objectives \subseteq ObjectiveRows /\ d.records \subseteq ObjectiveRows
          /\ d.reviews \in Seq(ReviewRows) /\ d.reviewed \subseteq DependencyRows
      BY LedgerAssumption, EveryTable DEF Database
    <2> QED
      BY <2>1, LedgerAssumption DEF LedgerOK
  <1>3. LedgerOK(db) /\ (file # "db" => db = NoRows)
    BY <1>1, <1>2 DEF MigrationInit
  <1>4. /\ at \in [Processes -> MigrationSteps] /\ outcome \in [Processes -> MigrationResults]
        /\ \A p \in Processes : at[p] # "migrating"
        /\ lock = Nobody
    BY DEF MigrationInit, MigrationSteps, MigrationResults
  <1> QED
    BY <1>3, <1>4 DEF MigrationInv

(* Every step of initialize, and its end, keeps the working copy the upgrade of the ledger. *)
LEMMA MigrationStep == MigrationInv /\ [MigrationNext]_migrationVars => MigrationInv'
  <1> SUFFICES ASSUME MigrationInv, [MigrationNext]_migrationVars PROVE MigrationInv'
    OBVIOUS
  <1>0. /\ at \in [Processes -> MigrationSteps] /\ outcome \in [Processes -> MigrationResults]
        /\ Nobody \notin Processes
    BY MigrationAssumption DEF MigrationInv
  <1>1. CASE UNCHANGED migrationVars
    BY <1>1 DEF migrationVars, MigrationInv
  <1>2. ASSUME NEW p \in Processes, Look(p) \/ Connect(p) \/ Unrecognized(p) \/ Busy(p) \/ CheckDatabase(p)
        PROVE  MigrationInv'
    <2>1. /\ UNCHANGED <<db, lock, work>>
          /\ file' = file \/ (file # "db" /\ file' # "db")
      BY <1>2 DEF Look, Connect, Unrecognized, Busy, CheckDatabase
    <2>2. /\ \/ /\ \E x \in {"looked", "connected"} : Goto(p, x)
                /\ UNCHANGED outcome
             \/ \E x \in {"refused", "busy", "healthy", "incompatible"} : Return(p, x)
      BY <1>2 DEF Look, Connect, Unrecognized, Busy, CheckDatabase
    <2>3. /\ at' \in [Processes -> MigrationSteps] /\ outcome' \in [Processes -> MigrationResults]
          /\ at'[p] # "migrating" /\ \A q \in Processes \ {p} : at'[q] = at[q]
      BY <2>2, <1>0, MigrationMoves DEF MigrationSteps, MigrationResults
    <2> QED
      BY <2>1, <2>3 DEF MigrationInv
  <1>3. ASSUME NEW p \in Processes, Begin(p) PROVE MigrationInv'
    <2>1. /\ lock = Nobody /\ lock' = p /\ work' = db /\ UNCHANGED <<file, db, outcome>>
          /\ Goto(p, "migrating") /\ MayBegin(p)
      BY <1>3 DEF Begin
    <2>2. HistoryIsCanonical(db) /\ SchemaIsCanonical(db)
      <3>1. CASE file = "db"
        BY <2>1, <3>1 DEF MayBegin
      <3>2. CASE file # "db"
        BY <3>2 DEF MigrationInv, NoRows, HistoryIsCanonical, SchemaIsCanonical, Latest
      <3> QED
        BY <3>1, <3>2
    <2>3. InWork(db, db)
      BY <2>2, Begins DEF MigrationInv
    <2>4. \A q \in Processes : at[q] # "migrating"
      BY <2>1, <1>0 DEF MigrationInv
    <2>5. /\ at' \in [Processes -> MigrationSteps] /\ \A q \in Processes \ {p} : at'[q] = at[q]
      BY <2>1, <1>0, MigrationMoves DEF MigrationSteps, MigrationResults
    <2> QED
      BY <2>1, <2>2, <2>3, <2>4, <2>5 DEF MigrationInv
  <1>4. ASSUME NEW p \in Processes, Migrate(p) PROVE MigrationInv'
    <2>1. /\ lock = p /\ lock # Nobody /\ InWork(db, work) /\ LedgerOK(db)
      BY <1>4, <1>0 DEF Migrate, MigrationInv
    <2>2. InWork(db, work')
      BY <2>1, <1>4, MigratesInWork DEF Migrate
    <2> QED
      BY <2>1, <2>2, <1>4 DEF Migrate, MigrationInv
  <1>5. ASSUME NEW p \in Processes, Commit(p) PROVE MigrationInv'
    <2>1. /\ lock = p /\ lock # Nobody /\ InWork(db, work) /\ LedgerOK(db)
          /\ work.version = Latest /\ db' = FinishedUpgrade(work) /\ file' = "db"
          /\ lock' = Nobody /\ Goto(p, "committed") /\ UNCHANGED outcome
      BY <1>5, <1>0 DEF Commit, MigrationInv, FinishedUpgrade
    <2>2. LedgerOK(db')
      BY <2>1, FinishedLedger
    <2>3. /\ at' \in [Processes -> MigrationSteps] /\ at'[p] # "migrating"
          /\ \A q \in Processes \ {p} : at'[q] = at[q]
      BY <2>1, <1>0, MigrationMoves DEF MigrationSteps, MigrationResults
    <2>4. \A q \in Processes : at'[q] # "migrating"
      BY <2>1, <2>3 DEF MigrationInv
    <2> QED
      BY <2>1, <2>2, <2>3, <2>4 DEF MigrationInv
  <1>6. ASSUME NEW p \in Processes, Rollback(p) \/ Crash(p) PROVE MigrationInv'
    <2>1. /\ UNCHANGED <<file, db>>
          /\ \/ lock' = Nobody /\ lock = p
             \/ lock # p /\ UNCHANGED <<lock, work>>
          /\ \E x \in {"refused", "none"} : Return(p, x)
      BY <1>6, <1>0 DEF Rollback, Crash, MigrationInv
    <2>2. /\ at' \in [Processes -> MigrationSteps] /\ at'[p] # "migrating"
          /\ outcome' \in [Processes -> MigrationResults]
          /\ \A q \in Processes \ {p} : at'[q] = at[q]
      BY <2>1, <1>0, MigrationMoves DEF MigrationSteps, MigrationResults
    <2>3. \A q \in Processes : at'[q] = "migrating" => lock' = q
      BY <2>1, <2>2 DEF MigrationInv
    <2> QED
      BY <2>1, <2>2, <2>3 DEF MigrationInv
  <1> QED
    BY <1>1, <1>2, <1>3, <1>4, <1>5, <1>6 DEF MigrationNext, Initialize

(* The inductive invariant of initialize: the working copy of an open
   transaction is the upgrade, so far, of the ledger that is committed. *)
LEMMA MigrationInvariant == MigrationSpec => []MigrationInv
  BY MigrationStart, MigrationStep, PTL DEF MigrationSpec

(* The database changes only when an upgrade of it is committed. *)
LEMMA OnlyCommits ==
    ASSUME MigrationInv, [MigrationNext]_migrationVars, db' # db
    PROVE  \E p \in Processes :
              /\ Commit(p) /\ Completes(p) /\ db' = FinishedUpgrade(work)
              /\ HistoryIsCanonical(db) /\ SchemaIsCanonical(db)
              /\ LedgerOK(db) /\ InWork(db, work) /\ work.version = Latest
  <1>1. PICK p \in Processes : Commit(p)
    BY DEF MigrationNext, Initialize, migrationVars, Look, Connect, Begin, Unrecognized, Busy, Migrate,
           Rollback, CheckDatabase, Crash
  <1>2. lock # Nobody
    BY <1>1, MigrationAssumption DEF Commit, MigrationInv
  <1> QED
    BY <1>1, <1>2 DEF Commit, MigrationInv, FinishedUpgrade

(* _migrate_dependency_review_evidence_bindings mints no authority: an upgrade
   of any ledger, by any number of processes, admits only accepted reviews of
   the candidate that is sealed, and keeps their dispatches. *)
THEOREM AuthorityIsNotManufactured == MigrationSpec => NoAuthorityIsManufactured
  <1> DEFINE Kept == \A r \in db'.reviewed : r.admission = "exact" /\ r \notin db.reviewed =>
                        /\ r.accepted /\ r.candidate = db.seal
                        /\ r.attempt \in db'.dispatches
  <1>1. ASSUME MigrationInv, [MigrationNext]_migrationVars PROVE [Kept]_db
    <2> SUFFICES ASSUME db' # db PROVE Kept
      OBVIOUS
    <2>1. /\ db' = FinishedUpgrade(work) /\ LedgerOK(db) /\ InWork(db, work) /\ work.version = 84
          /\ DOMAIN work = LedgerTables
      BY <1>1, OnlyCommits DEF Latest, InWork
    <2>2. db'.reviewed = work.reviewed /\ db'.dispatches = work.dispatches
      BY <2>1, FinishingKeeps DEF LedgerTables
    <2>3. CASE db.version >= 84
      BY <2>1, <2>2, <2>3 DEF InWork, DependenciesInWork
    <2>4. CASE db.version < 84
      <3>1. /\ work.reviewed = {Admitted(db, r) : r \in db.reviewed}
            /\ work.dispatches = {r.attempt : r \in {x \in db.reviewed : x.accepted}}
        BY <2>1, <2>4 DEF InWork, DependenciesInWork
      <3>2. ASSUME NEW a \in work.reviewed, a \notin db.reviewed
            PROVE  a.accepted /\ a.candidate = db.seal /\ a.attempt \in work.dispatches
        <4>1. PICK r \in db.reviewed : a = Admitted(db, r)
          BY <3>1, <3>2
        <4>2. r \in DependencyRows /\ a # r
          BY <2>1, <3>2 DEF LedgerOK
        <4>3. /\ a.attempt = r.attempt /\ a.candidate = r.candidate /\ a.accepted = r.accepted
              /\ r.accepted /\ r.candidate = db.seal
          BY <4>1, <4>2, AdmittedRow
        <4>4. r.attempt \in work.dispatches
          BY <3>1, <4>3
        <4> QED
          BY <4>3, <4>4
      <3>3. Kept
        BY <2>2, <3>2
      <3> QED
        BY <3>3
    <2> QED
      BY <2>1, <2>3, <2>4 DEF LedgerOK
  <1> QED
    BY <1>1, MigrationInvariant, PTL DEF MigrationSpec, NoAuthorityIsManufactured

(* _stage_legacy_worker_objectives and _migrate_legacy_worker_objectives lose
   and invent no objective, whatever an earlier release left in both tables. *)
THEOREM ObjectivesAreCarriedOver == MigrationSpec => ObjectivesSurvive
  <1> DEFINE Kept == db.version \in 58..64 /\ db'.version = Latest =>
                       /\ {Objective(o) : o \in db'.records}
                            = {Objective(o) : o \in db.objectives \cup db.records}
                       /\ \A o \in db'.records : o.retry = o.attempt
                       /\ db'.receipt = Cardinality(db.objectives \cup LegacyRecords(db))
  <1>1. ASSUME MigrationInv, [MigrationNext]_migrationVars PROVE [Kept]_db
    <2> SUFFICES ASSUME db' # db, db.version \in 58..64 PROVE Kept
      OBVIOUS
    <2>1. /\ db' = FinishedUpgrade(work) /\ LedgerOK(db) /\ InWork(db, work) /\ work.version = Latest
          /\ DOMAIN work = LedgerTables
      BY <1>1, OnlyCommits DEF InWork
    <2>2. db'.records = work.records /\ db'.receipt = work.receipt
      BY <2>1, FinishingKeeps DEF LedgerTables
    <2>3. /\ work.records = LaterRecords(db) \cup {Reconstructed(o) : o \in CarriedOver(db)}
          /\ work.receipt = Cardinality(CarriedOver(db))
      BY <2>1 DEF InWork, ObjectivesInWork, Latest
    <2>4. \A o \in db'.records : o.retry = o.attempt
      <3>1. LedgerOK(db') /\ db'.version = Latest
        BY <2>1, FinishedLedger
      <3> QED
        BY <3>1 DEF LedgerOK, Latest
    <2>5. LaterRecords(db) \cup CarriedOver(db) = db.objectives \cup db.records
      BY DEF LaterRecords, CarriedOver, LegacyRecords
    <2>6. \A o \in CarriedOver(db) : Objective(Reconstructed(o)) = Objective(o)
      <3>1. db.version < 65 /\ CarriedOver(db) \subseteq ObjectiveRows
        BY <2>1 DEF CarriedOver, LegacyRecords, LedgerOK
      <3> QED
        BY <3>1, MigratedRows
    <2>7. {Objective(o) : o \in db'.records} = {Objective(o) : o \in db.objectives \cup db.records}
      BY <2>2, <2>3, <2>5, <2>6
    <2> QED
      BY <2>2, <2>3, <2>4, <2>7 DEF CarriedOver
  <1> QED
    BY <1>1, MigrationInvariant, PTL DEF MigrationSpec, ObjectivesSurvive

(* _apply_migrations fails closed: what is committed is the upgrade of a
   ledger whose rows agree with each other. *)
THEOREM UpgradedLedgersAreConsistent == MigrationSpec => OnlyConsistentLedgersUpgrade
  <1> DEFINE Kept == db # NoRows /\ db' # db => Consistent(db)
  <1>1. ASSUME MigrationInv, [MigrationNext]_migrationVars PROVE [Kept]_db
    <2> SUFFICES ASSUME db' # db PROVE Consistent(db)
      OBVIOUS
    <2>1. PICK p \in Processes :
              /\ Completes(p) /\ HistoryIsCanonical(db) /\ SchemaIsCanonical(db)
              /\ LedgerOK(db) /\ InWork(db, work) /\ work.version = Latest
      BY <1>1, OnlyCommits
    <2>2. work.tasks = db.tasks /\ work.id = db.id /\ db.version \in Nat
      BY <2>1 DEF InWork, SameRest, LedgerOK
    <2>3. IdentityIsReadable(db)
      BY <2>1, <2>2 DEF Completes, IdentityIsReadable, Malformed
    <2>4. ASSUME NEW t \in db.tasks, NEW u \in db.tasks, t.branch = u.branch \/ Key(t) = Key(u)
          PROVE  t = u
      <3>1. OwnershipFits(work)
        BY <2>1 DEF Completes
      <3>2. /\ t.branch = u.branch => u.task = t.task
            /\ Key(t) = Key(u) => u.task = t.task
        <4>1. \A o \in {<<x.branch, x.task>> : x \in work.tasks} : o[1] = t.branch => o[2] = t.task
          BY <2>2, <3>1 DEF OwnershipFits
        <4>2. \A o \in {<<Key(x), x.task>> : x \in work.tasks} : o[1] = Key(t) => o[2] = t.task
          BY <2>2, <3>1 DEF OwnershipFits
        <4>3. /\ <<u.branch, u.task>> \in {<<x.branch, x.task>> : x \in work.tasks}
              /\ <<Key(u), u.task>> \in {<<Key(x), x.task>> : x \in work.tasks}
          BY <2>2
        <4> QED
          BY <4>1, <4>2, <4>3
      <3> QED
        BY <2>1, <2>4, <3>2 DEF LedgerOK
    <2>5. db.version < 65 => \A o \in db.objectives \cup LegacyRecords(db) : Supported(db, o)
      BY <2>1 DEF InWork, ObjectivesInWork, CarriedOver, Latest
    <2>6. db.version < 73 => Increasing(Coordinates(db))
      BY <2>1 DEF InWork, ReviewsInWork, Latest
    <2> QED
      BY <2>1, <2>3, <2>4, <2>5, <2>6 DEF Consistent
  <1> QED
    BY <1>1, MigrationInvariant, PTL DEF MigrationSpec, OnlyConsistentLedgersUpgrade

(* A ledger that holds nothing but objectives. *)
LEMMA PopulatedTables ==
    ASSUME NEW d, Populated(d)
    PROVE  /\ d.version \in 58..62 /\ d.history = "canonical" /\ d.id # 0 /\ IdentityIsReadable(d)
           /\ d.tasks = {} /\ d.branches = {} /\ d.keys = {} /\ d.items = FALSE /\ d.stage = {}
           /\ d.reviews = <<>> /\ d.generic = {} /\ d.reviewed = {}
  <1>1. PICK v, i, e, o, r : /\ v = d.version /\ i = d.id /\ e = d.evidence
                            /\ o = d.objectives /\ r = d.records
    OBVIOUS
  <1>2. d = [NoRows EXCEPT !.version = v, !.id = i, !.evidence = e, !.objectives = o, !.records = r]
    BY <1>1 DEF Populated
  <1>3. PICK n : n = NoRows
    OBVIOUS
  <1>4. /\ d.history = "canonical" /\ d.tasks = {} /\ d.branches = {} /\ d.keys = {}
        /\ d.items = FALSE /\ d.stage = {} /\ d.reviews = <<>> /\ d.generic = {} /\ d.reviewed = {}
    BY <1>2 DEF NoRows
  <1> QED
    BY <1>4 DEF Populated

(* Such a ledger passes every migration, but for version 63 when records remain. *)
LEMMA PopulatedLedgerMigrates ==
    ASSUME NEW d, NEW w, LedgerOK(d), InWork(d, w), Populated(d),
           d.version = 62 => d.records = {}
    PROVE  /\ w.version < Latest => Migrates(w, w.version + 1, d.version)
           /\ OwnershipFits(w) /\ OwnershipIsValid(Backfilled(w))
           /\ w.id # 0 /\ IdentityIsReadable(w)
  <1>1. /\ d.version \in 58..62 /\ d.id # 0 /\ IdentityIsReadable(d)
        /\ d.tasks = {} /\ d.branches = {} /\ d.keys = {} /\ d.items = FALSE /\ d.stage = {}
        /\ d.reviews = <<>> /\ d.generic = {} /\ d.reviewed = {}
    BY PopulatedTables
  <1>2. /\ DOMAIN w = LedgerTables /\ w.version \in d.version..84
        /\ SameRest(d, w) /\ ObjectivesInWork(d, w) /\ ReviewsInWork(d, w) /\ DependenciesInWork(d, w)
    BY DEF InWork, Latest
  <1>3. /\ w.tasks = {} /\ w.branches = {} /\ w.keys = {} /\ w.items = FALSE
        /\ w.id = d.id /\ w.evidence = d.evidence
    BY <1>1, <1>2 DEF SameRest
  <1>4. /\ \A o \in d.objectives \cup d.records : Supported(d, o)
        /\ \A o, r \in d.objectives \cup d.records : o.id = r.id \/ o.attempt = r.attempt => o = r
        /\ d.objectives \cap d.records = {}
    BY DEF Populated
  <1>5. OwnershipFits(w) /\ OwnershipIsValid(Backfilled(w))
    <2>1. PICK b : b = Backfilled(w)
      OBVIOUS
    <2>2. b.tasks = {} /\ b.branches = {} /\ b.keys = {}
      BY <2>1, <1>2, <1>3 DEF Backfilled, LedgerTables
    <2>3. OwnershipFits(w)
      BY <1>3 DEF OwnershipFits
    <2> QED
      BY <2>1, <2>2, <2>3 DEF OwnershipIsValid
  <1>6. w.id # 0 /\ IdentityIsReadable(w)
    BY <1>1, <1>3 DEF IdentityIsReadable, Malformed
  <1>7. ASSUME w.version = 61 PROVE GuardPasses(w)
    <2>1. w.objectives = d.objectives /\ w.records = d.records /\ LegacyRecords(w) = d.records
      BY <1>7, <1>1, <1>2 DEF ObjectivesInWork, SameObjectives, LegacyRecords
    <2>2. Stageable(w)
      BY <2>1, <1>4 DEF Stageable
    <2>3. StageLegacy(w).objectives = {}
      BY <1>2 DEF StageLegacy, LedgerTables
    <2> QED
      BY <2>2, <2>3, <1>3 DEF GuardPasses
  <1>8. ASSUME w.version = 62 PROVE UpgradeGuardPasses(w)
    BY <1>8, <1>1, <1>2 DEF UpgradeGuardPasses, ObjectivesInWork, SameObjectives
  <1>9. ASSUME w.version = 64 PROVE ObjectivesMigrate(w)
    <2>1. w.records = {} /\ LegacyRows(w) = d.objectives \cup d.records
      <3>1. CASE d.version < 62
        BY <3>1, <1>9, <1>1, <1>2
           DEF ObjectivesInWork, LegacyRows, CarriedOver, LegacyRecords
      <3>2. CASE d.version = 62
        BY <3>2, <1>9, <1>1, <1>2 DEF ObjectivesInWork, SameObjectives, LegacyRows
      <3> QED
        BY <3>1, <3>2, <1>1
    <2>2. \A o : Supported(w, o) <=> Supported(d, o)
      BY <1>3 DEF Supported, EvidenceOf
    <2> QED
      BY <2>1, <2>2, <1>4 DEF ObjectivesMigrate, FitsRecords
  <1>10. ASSUME w.version \in 71..80
         PROVE  DOMAIN w.reviews = {} /\ Len(w.reviews) = 0
    <2>1. PICK R : R = w.reviews
      OBVIOUS
    <2>2. R = SplitPositions(d).reviews
      BY <2>1, <1>10, <1>1, <1>2 DEF ReviewsInWork
    <2>3. R \in Seq(ReviewRows) /\ Len(R) = Len(d.reviews)
      <3>1. DOMAIN d = LedgerTables /\ d.reviews \in Seq(ReviewRows)
        BY <1>1 DEF LedgerOK
      <3> QED
        BY <2>2, <3>1, SplitReviews
    <2>4. Len(R) = 0
      BY <2>3, <1>1, EmptySeq
    <2>5. DOMAIN R = 1..Len(R)
      BY <2>3, LenProperties
    <2> QED
      BY <2>1, <2>4, <2>5
  <1>11. w.version = 72 => CoordinatesMigrate(w)
    BY <1>10 DEF CoordinatesMigrate
  <1>12. w.version = 79 => DigestsMigrate(w)
    BY <1>10 DEF DigestsMigrate
  <1>13. w.version = 80 => PositionsMigrate(w)
    BY <1>1, <1>2 DEF ReviewsInWork, PositionsMigrate, Unplaced
  <1>14. w.version = 83 => w.reviewed = {}
    BY <1>1, <1>2 DEF DependenciesInWork
  <1>15. ASSUME w.version < Latest PROVE Migrates(w, w.version + 1, d.version)
    <2>1. PICK v : v = w.version + 1
      OBVIOUS
    <2>2. w.version \in Nat
      BY <1>1, <1>2
    <2>3. /\ v = 62 => GuardPasses(w)
          /\ v = 63 => UpgradeGuardPasses(w)
          /\ v = 65 => ObjectivesMigrate(w)
          /\ v = 73 => CoordinatesMigrate(w)
          /\ v = 80 => DigestsMigrate(w)
          /\ v = 81 => PositionsMigrate(w)
          /\ v = 84 => w.reviewed = {}
      BY <2>1, <2>2, <1>7, <1>8, <1>9, <1>11, <1>12, <1>13, <1>14
    <2>4. Migrates(w, v, d.version)
      BY <2>3 DEF Migrates
    <2> QED
      BY <2>1, <2>4
  <1> QED
    BY <1>5, <1>6, <1>15

(* "Carry populated v58-v62 objective rows past their historical empty
   guards": no ledger of nothing but supported objectives is refused.  The
   hypothesis sets aside the ledgers of version 62 that hold records: the guard
   of version 63 refuses them, which the run migration_objectives shows. *)
THEOREM PopulatedLedgersAreUpgraded ==
    ASSUME \A d \in Ledgers : Populated(d) /\ d.version = 62 => d.records = {}
    PROVE  MigrationSpec => []PopulatedLedgersUpgrade
  <1> DEFINE Clear == /\ Populated(db) /\ db.version = 62 => db.records = {}
                      /\ PopulatedLedgersUpgrade
  <1>1. MigrationInit => Clear
    <2> SUFFICES ASSUME MigrationInit PROVE Clear
      OBVIOUS
    <2>1. \A p \in Processes : outcome[p] = "none"
      BY DEF MigrationInit
    <2>2. ~Populated(NoRows)
      BY DEF Populated, NoRows
    <2> QED
      BY <2>1, <2>2 DEF MigrationInit, PopulatedLedgersUpgrade
  <1>2. MigrationInv /\ Clear /\ [MigrationNext]_migrationVars => Clear'
    <2> SUFFICES ASSUME MigrationInv, Clear, [MigrationNext]_migrationVars PROVE Clear'
      OBVIOUS
    <2>1. CASE db' # db
      <3>1. db'.version = 84
        <4>1. db' = FinishedUpgrade(work) /\ LedgerOK(db) /\ InWork(db, work) /\ work.version = Latest
          BY <2>1, OnlyCommits
        <4> QED
          BY <4>1, FinishedLedger DEF Latest
      <3>2. ~Populated(db')
        <4>1. PICK n : n = db'
          OBVIOUS
        <4>2. n.version = 84
          BY <3>1, <4>1
        <4>3. ASSUME Populated(n) PROVE n.version \in 58..62
          BY <4>3 DEF Populated
        <4>4. ~(84 \in 58..62)
          OBVIOUS
        <4>5. ~Populated(n)
          BY <4>2, <4>3, <4>4
        <4> QED
          BY <4>1, <4>5
      <3> QED
        BY <3>2 DEF PopulatedLedgersUpgrade
    <2>2. CASE db' = db
      <3>1. SUFFICES ASSUME Populated(db), NEW p \in Processes, outcome'[p] = "refused" PROVE FALSE
        BY <2>2 DEF PopulatedLedgersUpgrade
      <3>2. /\ db.version \in 58..62 /\ db.history = "canonical"
        BY <3>1, PopulatedTables
      <3>3. file = "db" /\ outcome[p] # "refused"
        BY <3>1, <3>2 DEF MigrationInv, NoRows, PopulatedLedgersUpgrade
      <3>4. Unrecognized(p) \/ Rollback(p)
        <4>1. outcome \in [Processes -> MigrationResults]
          BY DEF MigrationInv
        <4>2. PICK q \in Processes : Initialize(q) \/ Crash(q)
          BY <3>1, <3>3 DEF MigrationNext, migrationVars
        <4>3. \E x \in MigrationResults : Return(q, x)
          BY <4>2, <3>1, <3>3 DEF Initialize, Look, Connect, Begin, Unrecognized, Busy, Migrate, Commit,
                Rollback, CheckDatabase, Crash, MigrationResults
        <4>4. q = p
          BY <4>1, <4>3, <3>1, <3>3 DEF Return
        <4>5. ~Return(p, "none") /\ ~Return(p, "busy") /\ ~Return(p, "healthy") /\ ~Return(p, "incompatible")
          BY <4>1, <3>1 DEF Return
        <4> QED
          BY <4>2, <4>4, <4>5, <3>1, <3>3
             DEF Initialize, Look, Connect, Begin, Busy, Migrate, Commit, CheckDatabase, Crash
      <3>5. CASE Unrecognized(p)
        BY <3>5, <3>2, <3>3 DEF Unrecognized, MayBegin, HistoryIsCanonical, SchemaIsCanonical, Latest
      <3>6. CASE Rollback(p)
        <4>1. lock # Nobody /\ InWork(db, work) /\ LedgerOK(db)
          BY <3>6, MigrationAssumption DEF Rollback, MigrationInv
        <4>2. /\ work.version < Latest => Migrates(work, work.version + 1, db.version)
              /\ OwnershipFits(work) /\ OwnershipIsValid(Backfilled(work))
              /\ work.id # 0 /\ IdentityIsReadable(work)
          BY <4>1, <3>1, PopulatedLedgerMigrates
        <4>3. work.version < Latest \/ work.version = Latest
          BY <4>1, <3>2 DEF InWork, Latest
        <4> QED
          BY <3>6, <4>2, <4>3 DEF Rollback, Refused, Completes
      <3> QED
        BY <3>4, <3>5, <3>6
    <2> QED
      BY <2>1, <2>2
  <1>3. Clear => PopulatedLedgersUpgrade
    OBVIOUS
  <1> QED
    BY <1>1, <1>2, <1>3, MigrationInvariant, PTL DEF MigrationSpec

-----------------------------------------------------------------------------
(***************************************************************************)
(* Source ingestion.  SourceInv says what a scan has read, and that every  *)
(* terminal projection was computed from the receipts and the graph it     *)
(* names.                                                                  *)
(***************************************************************************)
(* What the two properties say of one terminal projection. *)
SoundRoots(e) ==
    \A n \in e.result.runnable :
        GraphRequired =>
            /\ <<n.member, n.content>> \in e.request.graph.members
            /\ ~ \E d \in e.request.graph.edges : d[1] = n.member

SoundIdentities(e) ==
    \A n \in e.result.runnable, x \in Everything(e) :
        \/ x.member # n.member /\ x.content # n.content /\ x.mechanical # n.mechanical
        \/ x.member = n.member /\ x.content = n.content /\ x.mechanical = n.mechanical

ScanRow == [at : 1..(Len(Sources) + 1), cursor : Cursors, seen : SUBSET Cursors, pages : Nat,
            collected : Seq(PageItems)]

SourceTypes ==
    /\ feed \in Feeds /\ scan \in ScanRow
    /\ observed \in Seq(Seq(PageItems)) /\ reads \in Seq(Names \X Cursors)

(* The receipt of the inputs is the owner's state of the admission. *)
ReceiptInv ==
    /\ pc \in {"scanning", "executed"} /\ ~ownerMoved => owner.sealed /\ Receipt = inputs.receipt
    /\ pc = "executed" /\ result.runnable # {} => inputs.receipt = {}

SelectionInv ==
    /\ pc = "executed" => SoundRoots(TerminalProjection) /\ SoundIdentities(TerminalProjection)
    /\ \A e \in evidence : SoundRoots(e) /\ SoundIdentities(e)

(* The source a scan is at. *)
LEMMA SourceFacts ==
  /\ Len(Sources) \in Nat \ {0} /\ DOMAIN Sources = 1..Len(Sources)
  /\ \A i \in 1..Len(Sources) : Sources[i] \in Names
  /\ First \in Cursors /\ Last \in Cursors
  BY SourceAssumption DEF Names, Cursors

(* A page holds items, and leads elsewhere than to the first one. *)
LEMMA PageFacts ==
  ASSUME feed \in Feeds, scan \in ScanRow, scan.at <= Len(Sources), PageIsThere
  PROVE  Page \in Pages /\ Page.items \in Seq(PageItems) /\ Page.next \in Cursors
         /\ Page.next # First /\ Source \in Names
  <1>1. scan.at \in DOMAIN Sources BY SourceFacts DEF ScanRow
  <1>2. Page \in Pages BY <1>1 DEF Pages, Page, PageIsThere, PageAnswers, Source
  <1> QED BY <1>1, <1>2, SourceAssumption DEF Cursors, Source, Names

(* Two distinct things are two. *)
LEMMA PairHasTwo ==
  ASSUME NEW a, NEW b, a # b
  PROVE  Cardinality({a, b}) = 2
  <1>1. Cardinality({b}) = 1 /\ IsFiniteSet({b}) /\ a \notin {b}  BY FS_Singleton
  <1>2. Cardinality({b} \cup {a}) = 2  BY <1>1, FS_AddElement
  <1>3. {b} \cup {a} = {a, b}  OBVIOUS
  <1> QED  BY <1>2, <1>3

(* The image of a finite set is finite. *)
LEMMA ImageIsFinite ==
  ASSUME NEW S, IsFiniteSet(S), NEW f, f = [x \in S |-> f[x]]
  PROVE  IsFiniteSet({f[x] : x \in S})
  <1> DEFINE T == {f[x] : x \in S}
  <1>1. f \in Surjection(S, T)
    <2>1. f \in [S -> T] OBVIOUS
    <2>2. \A t \in T : \E x \in S : f[x] = t OBVIOUS
    <2> QED BY <2>1, <2>2 DEF Surjection
  <1> QED BY <1>1, FS_Surjection

(* A scan has seen finitely many cursors. *)
LEMMA SeenIsFinite ==
  ASSUME observed \in Seq(Seq(PageItems))
  PROVE  IsFiniteSet(Seen)
  <1> DEFINE Of(i) == {[source |-> Sources[i], item |-> observed[i][j]] : j \in DOMAIN observed[i]}
  <1>1. ASSUME NEW i \in DOMAIN observed PROVE IsFiniteSet(Of(i))
    <2>1. observed[i] \in Seq(PageItems) OBVIOUS
    <2>2. DOMAIN observed[i] = 1..Len(observed[i]) /\ Len(observed[i]) \in Nat BY <2>1
    <2>3. IsFiniteSet(DOMAIN observed[i]) BY <2>2, FS_Interval
    <2> DEFINE f == [j \in DOMAIN observed[i] |-> [source |-> Sources[i], item |-> observed[i][j]]]
    <2>4. f = [j \in DOMAIN observed[i] |-> f[j]] OBVIOUS
    <2>5. Of(i) = {f[j] : j \in DOMAIN observed[i]} OBVIOUS
    <2> HIDE DEF f, Of
    <2> QED BY <2>3, <2>4, <2>5, ImageIsFinite
  <1>2. IsFiniteSet(DOMAIN observed)
    <2>1. DOMAIN observed = 1..Len(observed) /\ Len(observed) \in Nat OBVIOUS
    <2> QED BY <2>1, FS_Interval
  <1>3. IsFiniteSet({Of(i) : i \in DOMAIN observed})
    <2> DEFINE f == [i \in DOMAIN observed |-> Of(i)]
    <2>1. f = [i \in DOMAIN observed |-> f[i]] OBVIOUS
    <2>2. {Of(i) : i \in DOMAIN observed} = {f[i] : i \in DOMAIN observed} OBVIOUS
    <2>3. IsFiniteSet({f[i] : i \in DOMAIN observed})
      <3> HIDE DEF f
      <3> QED BY <1>2, <2>1, ImageIsFinite
    <2> QED BY <2>2, <2>3
  <1>4. \A T \in {Of(i) : i \in DOMAIN observed} : IsFiniteSet(T) BY <1>1
  <1>5. IsFiniteSet(UNION {Of(i) : i \in DOMAIN observed}) BY <1>3, <1>4, FS_UNION
  <1>6. IsFiniteSet(Records) BY <1>5 DEF Records
  <1> DEFINE g == [q \in Records |-> q.item]
  <1>7. g = [q \in Records |-> g[q]] OBVIOUS
  <1>8. Seen = {g[q] : q \in Records} BY DEF Seen
  <1> HIDE DEF g
  <1> QED BY <1>6, <1>7, <1>8, ImageIsFinite

(* What the projection demands of runnable work. *)
LEMMA RunnableFacts ==
  ASSUME NEW n \in Runnable
  PROVE  /\ \E x \in Seen : n = NormalizedItem(x) /\ ~Ambiguous(x)
         /\ ~(Cardinality(OfMember(n)) > 1) /\ inputs.receipt = {}
         /\ GraphRequired => InGraph(n) /\ ~Depends(n)
  <1>1. n \in Inventory /\ ~Blocked(n) BY DEF Runnable
  <1>2. PICK x \in Seen : n = NormalizedItem(x) BY <1>1 DEF Inventory
  <1>3. n.ambiguous = Ambiguous(x) BY <1>2 DEF NormalizedItem
  <1> QED BY <1>1, <1>2, <1>3 DEF Blocked

(* Work that may run has no double among what was read. *)
LEMMA RunnableIsAlone ==
  ASSUME observed \in Seq(Seq(PageItems)), NEW n \in Runnable, NEW y \in Seen
  PROVE  \/ y.member # n.member /\ y.content # n.content /\ y.mechanical # n.mechanical
         \/ y.member = n.member /\ y.content = n.content /\ y.mechanical = n.mechanical
  <1>1. PICK x \in Seen : n = NormalizedItem(x) /\ ~Ambiguous(x) BY RunnableFacts
  <1>2. n.member = x.member /\ n.content = x.content /\ n.mechanical = x.mechanical
    BY <1>1 DEF NormalizedItem
  <1>3. /\ \A z \in Seen : z.mechanical = x.mechanical => z.member = x.member
        /\ \A z \in Seen : z.content = x.content => z.mechanical = x.mechanical
    BY <1>1 DEF Ambiguous, Alike, Same
  <1>4. CASE y.member # n.member BY <1>2, <1>3, <1>4
  <1>5. CASE y.member = n.member
    <2>1. NormalizedItem(y) \in Inventory /\ NormalizedItem(y).member = y.member
          /\ NormalizedItem(y).content = y.content /\ NormalizedItem(y).mechanical = y.mechanical
      BY DEF Inventory, NormalizedItem
    <2>2. NormalizedItem(y) \in OfMember(n) /\ n \in OfMember(n)
      BY <1>5, <2>1 DEF OfMember, Runnable
    <2>3. IsFiniteSet(OfMember(n))
      <3> DEFINE g == [z \in Seen |-> NormalizedItem(z)]
      <3>0. g = [z \in Seen |-> g[z]] /\ Inventory = {g[z] : z \in Seen} BY DEF Inventory
      <3>00. IsFiniteSet(Seen) BY SeenIsFinite
      <3>1. IsFiniteSet(Inventory)
        <4> HIDE DEF g
        <4> QED BY <3>0, <3>00, ImageIsFinite
      <3> QED BY <3>1, FS_Subset DEF OfMember
    <2>4. NormalizedItem(y) = n
      <3>1. SUFFICES ASSUME NormalizedItem(y) # n PROVE FALSE OBVIOUS
      <3>2. {NormalizedItem(y), n} \subseteq OfMember(n) BY <2>2
      <3>3. Cardinality({NormalizedItem(y), n}) = 2  BY <3>1, PairHasTwo
      <3>4. Cardinality({NormalizedItem(y), n}) <= Cardinality(OfMember(n)) BY <2>3, <3>2, FS_Subset
      <3>5. Cardinality(OfMember(n)) \in Nat BY <2>3, FS_CardinalityType
      <3> QED BY <3>3, <3>4, <3>5, RunnableFacts
    <2> QED BY <1>5, <2>1, <2>4
  <1> QED BY <1>4, <1>5

(* What the scan has asked for. *)
ScanInv ==
    /\ Len(observed) = scan.at - 1
    /\ \A i \in DOMAIN reads : \E k \in 1..Len(Sources) : k <= scan.at /\ reads[i][1] = Sources[k]
    /\ scan.at <= Len(Sources) =>
          /\ scan.pages < MaxPages[Source] /\ Cardinality(PagesAskedOf(Source)) = scan.pages
          /\ scan.cursor \in scan.seen \cup {First}
          /\ \A i \in DOMAIN reads : reads[i][1] = Source =>
                reads[i][2] \in scan.seen \cup {First} /\ reads[i][2] # scan.cursor

BoundsInv == ReadsStayInBounds /\ Len(observed) <= Len(Sources) /\ (pc = "scanning" => ScanInv)

SourceInv == SourceTypes /\ ReceiptInv /\ SelectionInv /\ BoundsInv

(* A projection is computed from what it records. *)
LEMMA SelectKeeps ==
  ASSUME SourceInv, Select
  PROVE  ReceiptInv' /\ SelectionInv'
  <1>1. /\ pc = "scanning" /\ pc' = "executed" /\ result'.runnable = Runnable
        /\ UNCHANGED <<ownerMoved, owner, inputs, observed, evidence>>
    BY DEF Select, worldVars
  <1>2. ReceiptInv' BY <1>1, RunnableFacts DEF SourceInv, ReceiptInv, Receipt
  <1>3. SoundRoots(TerminalProjection)'
    BY <1>1, RunnableFacts DEF SoundRoots, TerminalProjection, Request, InGraph, Depends
  <1>4. SoundIdentities(TerminalProjection)'
    <2>1. TerminalProjection'.result.runnable = Runnable /\ TerminalProjection'.observed = observed
      BY <1>1 DEF TerminalProjection
    <2>2. Everything(TerminalProjection)' \subseteq Seen
      <3>1. Everything(TerminalProjection)'
              = UNION {{observed[i][j] : j \in DOMAIN observed[i]} : i \in DOMAIN observed}
        BY <1>1, <2>1 DEF Everything
      <3>2. ASSUME NEW i \in DOMAIN observed, NEW j \in DOMAIN observed[i]
            PROVE  observed[i][j] \in Seen
        <4>1. [source |-> Sources[i], item |-> observed[i][j]] \in Records BY DEF Records
        <4>2. [source |-> Sources[i], item |-> observed[i][j]].item = observed[i][j] OBVIOUS
        <4> QED BY <4>1, <4>2 DEF Seen
      <3> QED BY <3>1, <3>2
    <2> QED BY <2>1, <2>2, RunnableIsAlone DEF SoundIdentities, SourceInv, SourceTypes
  <1>5. \A e \in evidence' : SoundRoots(e) /\ SoundIdentities(e) BY <1>1 DEF SourceInv, SelectionInv
  <1>6. SelectionInv' BY <1>3, <1>4, <1>5 DEF SelectionInv, SoundRoots, SoundIdentities, Everything
  <1> QED BY <1>2, <1>6

(* A scan asks for finitely many pages. *)
LEMMA AskedFinite ==
  ASSUME reads \in Seq(Names \X Cursors), NEW s
  PROVE  IsFiniteSet(PagesAskedOf(s)) /\ Cardinality(PagesAskedOf(s)) \in Nat
  <1>1. DOMAIN reads = 1..Len(reads) /\ Len(reads) \in Nat OBVIOUS
  <1>2. IsFiniteSet(DOMAIN reads) BY <1>1, FS_Interval
  <1>3. IsFiniteSet(PagesAskedOf(s)) BY <1>2, FS_Subset DEF PagesAskedOf
  <1> QED BY <1>3, FS_CardinalityType

(* One page more is asked of its source, and none of another. *)
LEMMA AskedGrows ==
  ASSUME reads \in Seq(Names \X Cursors), NEW s \in Names, NEW c \in Cursors,
         reads' = Append(reads, <<s, c>>)
  PROVE  /\ reads' \in Seq(Names \X Cursors)
         /\ DOMAIN reads' = DOMAIN reads \cup {Len(reads) + 1}
         /\ \A i \in DOMAIN reads : reads'[i] = reads[i] /\ i # Len(reads) + 1
         /\ reads'[Len(reads) + 1] = <<s, c>>
         /\ Cardinality(PagesAskedOf(s)') = Cardinality(PagesAskedOf(s)) + 1
         /\ \A z \in Names : z # s => PagesAskedOf(z)' = PagesAskedOf(z)
  <1>1. Len(reads) \in Nat /\ DOMAIN reads = 1..Len(reads) OBVIOUS
  <1>2. /\ reads' \in Seq(Names \X Cursors)
        /\ DOMAIN reads' = DOMAIN reads \cup {Len(reads) + 1}
        /\ \A i \in DOMAIN reads : reads'[i] = reads[i] /\ i # Len(reads) + 1
        /\ reads'[Len(reads) + 1] = <<s, c>>
    BY <1>1
  <1>3. PagesAskedOf(s)' = PagesAskedOf(s) \cup {Len(reads) + 1} BY <1>2 DEF PagesAskedOf
  <1>4. Len(reads) + 1 \notin PagesAskedOf(s) BY <1>1 DEF PagesAskedOf
  <1>5. Cardinality(PagesAskedOf(s)') = Cardinality(PagesAskedOf(s)) + 1
    BY <1>3, <1>4, AskedFinite, FS_AddElement
  <1>6. ASSUME NEW z \in Names, z # s PROVE PagesAskedOf(z)' = PagesAskedOf(z)
    BY <1>2, <1>6 DEF PagesAskedOf
  <1> QED BY <1>2, <1>5, <1>6

(* A page is asked for within the bounds, and for the first time. *)
LEMMA AskedKeeps ==
  ASSUME SourceTypes, BoundsInv, pc = "scanning", scan.at <= Len(Sources), Asked
  PROVE  /\ reads' \in Seq(Names \X Cursors)
         /\ \A i \in DOMAIN Sources : Cardinality(PagesAskedOf(Sources[i])') <= MaxPages[Sources[i]]
         /\ \A i, j \in DOMAIN reads' : reads'[i] = reads'[j] => i = j
  <1>1. PICK s, c : s = Source /\ c = scan.cursor OBVIOUS
  <1>2. scan.at \in DOMAIN Sources /\ s \in Names /\ c \in Cursors
    BY <1>1, SourceFacts DEF SourceTypes, ScanRow, Source
  <1>3. reads' = Append(reads, <<s, c>>) BY <1>1 DEF Asked
  <1>4. /\ scan.pages < MaxPages[s] /\ Cardinality(PagesAskedOf(s)) = scan.pages
        /\ \A i \in DOMAIN reads : reads[i][1] = s => reads[i][2] # c
    BY <1>1 DEF BoundsInv, ScanInv
  <1>5. MaxPages[s] \in Nat /\ scan.pages \in Nat BY <1>2, SourceAssumption DEF SourceTypes, ScanRow
  <1>6. reads \in Seq(Names \X Cursors) BY DEF SourceTypes
  <1>7. /\ reads' \in Seq(Names \X Cursors)
        /\ DOMAIN reads' = DOMAIN reads \cup {Len(reads) + 1}
        /\ \A i \in DOMAIN reads : reads'[i] = reads[i] /\ i # Len(reads) + 1
        /\ reads'[Len(reads) + 1] = <<s, c>>
        /\ Cardinality(PagesAskedOf(s)') = Cardinality(PagesAskedOf(s)) + 1
        /\ \A z \in Names : z # s => PagesAskedOf(z)' = PagesAskedOf(z)
    BY <1>2, <1>3, <1>6, AskedGrows
  <1>8. ASSUME NEW i \in DOMAIN Sources
        PROVE  Cardinality(PagesAskedOf(Sources[i])') <= MaxPages[Sources[i]]
    <2>1. CASE Sources[i] = s BY <1>4, <1>5, <1>7, <2>1
    <2>2. CASE Sources[i] # s
      <3>1. Sources[i] \in Names BY DEF Names
      <3>2. PagesAskedOf(Sources[i])' = PagesAskedOf(Sources[i]) BY <1>7, <2>2, <3>1
      <3> QED BY <3>2 DEF BoundsInv, ReadsStayInBounds
    <2> QED BY <2>1, <2>2
  <1>9. \A i \in DOMAIN reads : reads[i] # <<s, c>> BY <1>4
  <1>10. \A i, j \in DOMAIN reads' : reads'[i] = reads'[j] => i = j
    BY <1>7, <1>9 DEF BoundsInv, ReadsStayInBounds
  <1> QED BY <1>7, <1>8, <1>10

(* A page that leads on. *)
LEMMA ReadPageKeeps ==
  ASSUME SourceInv, ReadPage
  PROVE  SourceInv'
  <1>1. /\ pc = "scanning" /\ scan.at <= Len(Sources) /\ PageIsThere /\ WithinBounds /\ Page.next # Last
        /\ CursorIsSafe /\ Asked
        /\ scan' = [scan EXCEPT !.cursor = Page.next, !.seen = @ \cup {Page.next},
                                !.pages = @ + 1, !.collected = Collected]
        /\ UNCHANGED <<feed, owner, ownerMoved, pc, inputs, observed, result, evidence>>
    BY DEF ReadPage, PageIsTaken, worldVars
  <1>2. SourceTypes /\ BoundsInv /\ ScanInv BY <1>1 DEF SourceInv, BoundsInv
  <1>3. /\ Page.items \in Seq(PageItems) /\ Page.next \in Cursors /\ Page.next # First
        /\ Source \in Names
    BY <1>1, <1>2, PageFacts DEF SourceTypes
  <1>4. scan \in ScanRow /\ Collected \in Seq(PageItems) BY <1>2, <1>3 DEF SourceTypes, Collected, ScanRow
  <1>5. scan' \in ScanRow /\ scan'.at = scan.at /\ scan'.cursor = Page.next
        /\ scan'.seen = scan.seen \cup {Page.next} /\ scan'.pages = scan.pages + 1
    <2>1. scan.pages + 1 \in Nat /\ scan.seen \cup {Page.next} \in SUBSET Cursors
      BY <1>3, <1>4 DEF ScanRow
    <2> QED BY <1>1, <1>3, <1>4, <2>1 DEF ScanRow
  <1>6. /\ reads' \in Seq(Names \X Cursors)
        /\ \A i \in DOMAIN Sources : Cardinality(PagesAskedOf(Sources[i])') <= MaxPages[Sources[i]]
        /\ \A i, j \in DOMAIN reads' : reads'[i] = reads'[j] => i = j
    BY <1>1, <1>2, AskedKeeps
  <1>7. SourceTypes' BY <1>1, <1>2, <1>5, <1>6 DEF SourceTypes
  <1>8. ReadsStayInBounds'
    BY <1>1, <1>2, <1>6 DEF ReadsStayInBounds, BoundsInv
  <1>9. ScanInv'
    <2>1. PICK s, c : s = Source /\ s = Source' /\ c = scan.cursor BY <1>5 DEF Source
    <2>2. s \in Names /\ c \in Cursors /\ reads \in Seq(Names \X Cursors) /\ reads' = Append(reads, <<s, c>>)
      BY <1>1, <1>2, <1>3, <1>4, <2>1 DEF SourceTypes, ScanRow, Asked
    <2>3. /\ DOMAIN reads' = DOMAIN reads \cup {Len(reads) + 1}
          /\ \A i \in DOMAIN reads : reads'[i] = reads[i] /\ i # Len(reads) + 1
          /\ reads'[Len(reads) + 1] = <<s, c>>
          /\ Cardinality(PagesAskedOf(s)') = Cardinality(PagesAskedOf(s)) + 1
      BY <2>2, AskedGrows
    <2>4. /\ Cardinality(PagesAskedOf(s)) = scan.pages /\ c \in scan.seen \cup {First}
          /\ \A i \in DOMAIN reads : reads[i][1] = s => reads[i][2] \in scan.seen \cup {First}
      BY <1>1, <1>2, <2>1 DEF ScanInv
    <2>5. scan.pages + 1 < MaxPages[s] BY <1>1, <2>1 DEF WithinBounds
    <2>6. Page.next \notin scan.seen \cup {First} BY <1>1, <1>3 DEF CursorIsSafe
    <2>7. \A i \in DOMAIN reads' : reads'[i][1] = s =>
            reads'[i][2] \in scan'.seen \cup {First} /\ reads'[i][2] # scan'.cursor
      BY <1>5, <2>3, <2>4, <2>6
    <2>8. \A i \in DOMAIN reads' : \E k \in 1..Len(Sources) : k <= scan'.at /\ reads'[i][1] = Sources[k]
      <3>1. scan.at \in 1..Len(Sources) /\ s = Sources[scan.at] /\ scan.at <= scan'.at
        BY <1>1, <1>4, <1>5, <2>1, SourceFacts DEF ScanRow, Source
      <3> QED BY <1>2, <1>5, <2>3, <3>1 DEF ScanInv
    <2>9. Cardinality(PagesAskedOf(Source))' = scan'.pages
      <3>1. PagesAskedOf(Source)' = PagesAskedOf(s)' BY <2>1
      <3> QED BY <1>5, <2>3, <2>4, <3>1
    <2>10. scan'.pages < MaxPages[Source'] /\ scan'.cursor \in scan'.seen \cup {First}
      BY <1>5, <2>1, <2>5
    <2>11. Len(observed') = scan'.at - 1 BY <1>1, <1>2, <1>5 DEF ScanInv
    <2>12. \A i \in DOMAIN reads' : reads'[i][1] = Source' =>
            reads'[i][2] \in scan'.seen \cup {First} /\ reads'[i][2] # scan'.cursor
      BY <2>1, <2>7
    <2> QED BY <2>8, <2>9, <2>10, <2>11, <2>12 DEF ScanInv
  <1>10. BoundsInv' BY <1>1, <1>2, <1>8, <1>9 DEF BoundsInv
  <1>11. ReceiptInv' BY <1>1 DEF SourceInv, ReceiptInv, Receipt
  <1>12. SelectionInv' BY <1>1 DEF SourceInv, SelectionInv
  <1> QED BY <1>7, <1>10, <1>11, <1>12 DEF SourceInv

(* The last page of a source. *)
LEMMA ReadLastPageKeeps ==
  ASSUME SourceInv, ReadLastPage
  PROVE  SourceInv'
  <1>1. /\ pc = "scanning" /\ scan.at <= Len(Sources) /\ PageIsThere /\ WithinBounds /\ Asked
        /\ observed' = Append(observed, Collected)
        /\ scan' = [NoScan EXCEPT !.at = scan.at + 1]
        /\ UNCHANGED <<feed, owner, ownerMoved, pc, inputs, result, evidence>>
    BY DEF ReadLastPage, PageIsTaken, worldVars
  <1>2. SourceTypes /\ BoundsInv /\ ScanInv BY <1>1 DEF SourceInv, BoundsInv
  <1>3. Page.items \in Seq(PageItems) /\ Source \in Names
    BY <1>1, <1>2, PageFacts DEF SourceTypes
  <1>4. scan \in ScanRow /\ Collected \in Seq(PageItems) /\ observed \in Seq(Seq(PageItems))
    BY <1>2, <1>3 DEF SourceTypes, Collected, ScanRow
  <1>5. scan' \in ScanRow /\ scan'.at = scan.at + 1 /\ scan'.cursor = First
        /\ scan'.seen = {} /\ scan'.pages = 0
    <2>1. scan' = [at |-> scan.at + 1, cursor |-> First, seen |-> {}, pages |-> 0, collected |-> <<>>]
      BY <1>1 DEF NoScan
    <2>2. scan.at + 1 \in 1..(Len(Sources) + 1) BY <1>1, <1>4, SourceFacts DEF ScanRow
    <2>3. First \in Cursors /\ {} \in SUBSET Cursors /\ <<>> \in Seq(PageItems) /\ 0 \in Nat
      BY SourceFacts
    <2> QED BY <2>1, <2>2, <2>3 DEF ScanRow
  <1>6. /\ reads' \in Seq(Names \X Cursors)
        /\ \A i \in DOMAIN Sources : Cardinality(PagesAskedOf(Sources[i])') <= MaxPages[Sources[i]]
        /\ \A i, j \in DOMAIN reads' : reads'[i] = reads'[j] => i = j
    BY <1>1, <1>2, AskedKeeps
  <1>7. /\ observed' \in Seq(Seq(PageItems)) /\ Len(observed') = Len(observed) + 1
        /\ DOMAIN observed' = DOMAIN observed \cup {Len(observed) + 1}
        /\ observed'[Len(observed) + 1] = Collected
        /\ \A i \in DOMAIN observed : observed'[i] = observed[i]
    BY <1>1, <1>4
  <1>8. SourceTypes' BY <1>1, <1>2, <1>5, <1>6, <1>7 DEF SourceTypes
  <1>9. scan.at \in 1..Len(Sources) /\ Len(observed) = scan.at - 1 /\ Len(observed) \in Nat
    BY <1>1, <1>2, <1>4, SourceFacts DEF ScanRow, ScanInv
  <1>10. \A i \in DOMAIN observed' : Len(observed'[i]) <= MaxItems[Sources[i]]
    <2>1. Len(Collected) <= MaxItems[Sources[Len(observed) + 1]]
      <3>1. Len(observed) + 1 = scan.at BY <1>4, <1>9 DEF ScanRow
      <3> QED BY <1>1, <3>1 DEF WithinBounds, Source
    <2> QED BY <1>2, <1>7, <2>1 DEF BoundsInv, ReadsStayInBounds
  <1>11. ReadsStayInBounds' BY <1>6, <1>10 DEF ReadsStayInBounds
  <1>12. ScanInv'
    <2>1. PICK s, c : s = Source /\ c = scan.cursor OBVIOUS
    <2>2. s \in Names /\ c \in Cursors /\ reads \in Seq(Names \X Cursors) /\ reads' = Append(reads, <<s, c>>)
      BY <1>1, <1>2, <1>3, <1>4, <2>1 DEF SourceTypes, ScanRow, Asked
    <2>3. /\ DOMAIN reads' = DOMAIN reads \cup {Len(reads) + 1}
          /\ \A i \in DOMAIN reads : reads'[i] = reads[i]
          /\ reads'[Len(reads) + 1] = <<s, c>>
      BY <2>2, AskedGrows
    <2>4. s = Sources[scan.at] BY <2>1 DEF Source
    <2>5. \A i \in DOMAIN reads' : \E k \in 1..Len(Sources) : k <= scan.at /\ reads'[i][1] = Sources[k]
      BY <1>2, <1>9, <2>3, <2>4 DEF ScanInv
    <2>6. \A i \in DOMAIN reads' : \E k \in 1..Len(Sources) : k <= scan'.at /\ reads'[i][1] = Sources[k]
      BY <1>5, <1>9, <2>5, SourceFacts
    <2>7. ASSUME scan'.at <= Len(Sources)
          PROVE  \A i \in DOMAIN reads' : reads'[i][1] # Source'
      <3>1. scan.at + 1 \in DOMAIN Sources /\ Source' = Sources[scan.at + 1]
        BY <1>5, <1>9, <2>7, SourceFacts DEF Source
      <3>2. \A k \in 1..Len(Sources) : k <= scan.at => Sources[k] # Sources[scan.at + 1]
        BY <1>9, <3>1, SourceFacts, SourceAssumption
      <3> QED BY <2>5, <3>1, <3>2
    <2>8. ASSUME scan'.at <= Len(Sources)
          PROVE  /\ scan'.pages < MaxPages[Source'] /\ Cardinality(PagesAskedOf(Source))' = scan'.pages
      <3>1. PagesAskedOf(Source)' = {} BY <2>7, <2>8 DEF PagesAskedOf
      <3>2. Cardinality(PagesAskedOf(Source)') = 0 BY <3>1, FS_EmptySet
      <3>3. Source' \in Names
        <4>1. scan.at + 1 \in 1..Len(Sources) BY <1>5, <1>9, <2>8, SourceFacts
        <4> QED BY <1>5, <4>1, SourceFacts DEF Source
      <3> QED BY <1>5, <3>2, <3>3, SourceAssumption
    <2>9. Len(observed') = scan'.at - 1 BY <1>5, <1>7, <1>9
    <2> QED BY <1>5, <2>6, <2>7, <2>8, <2>9 DEF ScanInv
  <1>13. Len(observed') <= Len(Sources) BY <1>7, <1>9, SourceFacts
  <1>14. BoundsInv' BY <1>11, <1>12, <1>13 DEF BoundsInv
  <1>15. ReceiptInv' BY <1>1 DEF SourceInv, ReceiptInv, Receipt
  <1>16. SelectionInv' BY <1>1 DEF SourceInv, SelectionInv
  <1> QED BY <1>8, <1>14, <1>15, <1>16 DEF SourceInv

(* A scan that is refused. *)
LEMMA RefuseReadKeeps ==
  ASSUME SourceInv, RefuseRead
  PROVE  SourceInv'
  <1>1. /\ pc = "scanning" /\ scan.at <= Len(Sources) /\ Asked /\ pc' = "idle"
        /\ UNCHANGED <<feed, scan, observed, evidence>>
    BY DEF RefuseRead, worldVars
  <1>2. SourceTypes /\ BoundsInv BY DEF SourceInv
  <1>3. /\ reads' \in Seq(Names \X Cursors)
        /\ \A i \in DOMAIN Sources : Cardinality(PagesAskedOf(Sources[i])') <= MaxPages[Sources[i]]
        /\ \A i, j \in DOMAIN reads' : reads'[i] = reads'[j] => i = j
    BY <1>1, <1>2, AskedKeeps
  <1>4. SourceTypes' BY <1>1, <1>2, <1>3 DEF SourceTypes
  <1>5. ReadsStayInBounds' BY <1>1, <1>2, <1>3 DEF BoundsInv, ReadsStayInBounds
  <1>6. BoundsInv' BY <1>1, <1>2, <1>5 DEF BoundsInv
  <1> QED BY <1>1, <1>4, <1>6 DEF SourceInv, ReceiptInv, SelectionInv

(* Selected work is executed. *)
LEMMA ExecuteKeeps ==
  ASSUME SourceInv, NEW q \in requests, Execute(q)
  PROVE  SourceInv'
  <1>1. /\ OwnerVerified /\ pc' = "scanning"
        /\ scan' = NoScan /\ observed' = <<>> /\ reads' = <<>>
        /\ UNCHANGED <<feed, owner, inputs, evidence>>
    BY DEF Execute
  <1>2. SourceTypes' BY <1>1, SourceFacts DEF SourceInv, SourceTypes, ScanRow, NoScan
  <1>3. ReceiptInv' BY <1>1 DEF ReceiptInv, OwnerVerified, Receipt
  <1>4. SelectionInv' BY <1>1 DEF SourceInv, SelectionInv
  <1>5. \A s : PagesAskedOf(s)' = {} /\ Cardinality(PagesAskedOf(s)') = 0
    <2>1. \A s : PagesAskedOf(s)' = {} BY <1>1 DEF PagesAskedOf
    <2> QED BY <2>1, FS_EmptySet
  <1>6. ReadsStayInBounds' BY <1>1, <1>5, SourceAssumption, SourceFacts DEF ReadsStayInBounds
  <1>7. ScanInv'
    <2>1. scan'.at = 1 /\ scan'.pages = 0 /\ scan'.cursor = First BY <1>1 DEF NoScan
    <2>2. PICK s : s = Source' /\ s \in Names BY <2>1, SourceFacts DEF Source
    <2>3. Cardinality(PagesAskedOf(s)') = 0 BY <1>5
    <2>4. PagesAskedOf(Source)' = PagesAskedOf(s)' BY <2>2
    <2>5. MaxPages[Source'] \in Nat \ {0} BY <2>2, SourceAssumption
    <2>6. Cardinality(PagesAskedOf(Source))' = scan'.pages BY <2>1, <2>3, <2>4
    <2>7. scan'.pages < MaxPages[Source'] BY <2>1, <2>5
    <2> QED BY <1>1, <2>1, <2>6, <2>7 DEF ScanInv
  <1>8. BoundsInv' BY <1>1, <1>6, <1>7, SourceFacts DEF BoundsInv
  <1> QED BY <1>2, <1>3, <1>4, <1>8 DEF SourceInv

(* The other steps do not touch the scan. *)
LEMMA AsideKeeps ==
  ASSUME SourceInv, UNCHANGED <<scan, observed, reads>>, feed' \in Feeds,
         pc' = "scanning" => pc = "scanning"
  PROVE  SourceTypes' /\ BoundsInv'
  <1>1. SourceTypes' BY DEF SourceInv, SourceTypes
  <1>2. ReadsStayInBounds' BY DEF SourceInv, BoundsInv, ReadsStayInBounds, PagesAskedOf
  <1>3. pc' = "scanning" => ScanInv' BY DEF SourceInv, BoundsInv, ScanInv, PagesAskedOf, Source
  <1> QED BY <1>1, <1>2, <1>3 DEF SourceInv, BoundsInv

(* One step per operation of source ingestion. *)
LEMMA SourceInductive ==
  ASSUME SourceInv, [SourceNext]_sourceVars
  PROVE  SourceInv'
  <1> USE DEF worldVars
  <1>1. CASE UNCHANGED sourceVars
    <2>1. SourceTypes' /\ BoundsInv' BY <1>1, AsideKeeps DEF sourceVars, SourceInv, SourceTypes
    <2>2. ReceiptInv' /\ SelectionInv'
      BY <1>1 DEF sourceVars, SourceInv, ReceiptInv, SelectionInv, Receipt, TerminalProjection, Request,
                  SoundRoots, SoundIdentities, Everything
    <2> QED BY <2>1, <2>2 DEF SourceInv
  <1>2. CASE ReadOwnerState \/ RefuseReceipt \/ \E b \in BOOLEAN : Prepare(b) \/ RefusePreparation(b)
    <2>1. /\ pc' \in {"idle", "preparing"} /\ UNCHANGED <<feed, scan, observed, reads, evidence>>
      BY <1>2 DEF ReadOwnerState, RefuseReceipt, Prepare, RefusePreparation, Reject
    <2>2. SourceTypes' /\ BoundsInv' BY <2>1, AsideKeeps DEF SourceInv, SourceTypes
    <2> QED BY <2>1, <2>2 DEF SourceInv, ReceiptInv, SelectionInv
  <1>3. CASE \E q \in requests : Execute(q) BY <1>3, ExecuteKeeps
  <1>4. CASE \E q \in requests : RefuseExecution(q)
    <2>1. /\ pc' = "idle" /\ UNCHANGED <<feed, scan, observed, reads, evidence>>
      BY <1>4 DEF RefuseExecution, Reject
    <2>2. SourceTypes' /\ BoundsInv' BY <2>1, AsideKeeps DEF SourceInv, SourceTypes
    <2> QED BY <2>1, <2>2 DEF SourceInv, ReceiptInv, SelectionInv
  <1>5. CASE Select
    <2>1. SourceTypes' /\ BoundsInv' BY <1>5, AsideKeeps DEF Select, SourceInv, SourceTypes
    <2> QED BY <1>5, <2>1, SelectKeeps DEF SourceInv
  <1>6. CASE Project
    <2>1. SourceTypes' /\ BoundsInv' BY <1>6, AsideKeeps DEF Project, SourceInv, SourceTypes
    <2>2. ReceiptInv' BY <1>6 DEF Project, ReceiptInv
    <2>3. \A e \in evidence' : SoundRoots(e) /\ SoundIdentities(e)
      BY <1>6 DEF Project, SourceInv, SelectionInv
    <2>4. SelectionInv' BY <1>6, <2>3 DEF Project, SelectionInv
    <2> QED BY <2>1, <2>2, <2>4 DEF SourceInv
  <1>7. CASE Record
    <2>1. UNCHANGED <<feed, owner, ownerMoved, pc, inputs, scan, observed, reads, result, evidence>>
      BY <1>7 DEF Record
    <2>2. SourceTypes' /\ BoundsInv' BY <2>1, AsideKeeps DEF SourceInv, SourceTypes
    <2>3. ReceiptInv' /\ SelectionInv'
      BY <2>1 DEF SourceInv, ReceiptInv, SelectionInv, Receipt, TerminalProjection, Request,
                  SoundRoots, SoundIdentities, Everything
    <2> QED BY <2>2, <2>3 DEF SourceInv
  <1>8. CASE World
    <2>1. /\ UNCHANGED <<pc, inputs, scan, observed, reads, result, evidence>> /\ feed' \in Feeds
          /\ ownerMoved' \/ UNCHANGED <<owner, ownerMoved>>
      BY <1>8 DEF World, IssueMoves, OwnerMoves, GraphMoves, LocalUnchanged, SourceInv, SourceTypes
    <2>2. SourceTypes' /\ BoundsInv' BY <2>1, AsideKeeps
    <2>3. ReceiptInv' BY <2>1 DEF SourceInv, ReceiptInv, Receipt
    <2>4. SelectionInv'
      BY <2>1 DEF SourceInv, SelectionInv, TerminalProjection, Request,
                  SoundRoots, SoundIdentities, Everything
    <2> QED BY <2>2, <2>3, <2>4 DEF SourceInv
  <1> QED BY <1>1, <1>2, <1>3, <1>4, <1>5, <1>6, <1>7, <1>8,
             ReadPageKeeps, ReadLastPageKeeps, RefuseReadKeeps DEF SourceNext, Scan

(* Nothing is read at first. *)
LEMMA SourceStarts ==
  ASSUME SourceInit
  PROVE  SourceInv
  <1>1. SourceTypes BY SourceFacts DEF SourceInit, SourceTypes, ScanRow, NoScan
  <1>2. \A s : PagesAskedOf(s) = {} BY DEF SourceInit, PagesAskedOf
  <1>3. \A s : Cardinality(PagesAskedOf(s)) = 0 BY <1>2, FS_EmptySet
  <1>4. BoundsInv BY <1>3, SourceFacts, SourceAssumption DEF SourceInit, BoundsInv, ReadsStayInBounds
  <1>5. ReceiptInv /\ SelectionInv BY DEF SourceInit, ReceiptInv, SelectionInv
  <1> QED BY <1>1, <1>4, <1>5 DEF SourceInv

(* SourceInv holds of every behaviour. *)
LEMMA SourceAlways == SourceSpec => []SourceInv
  <1>1. SourceInit => SourceInv BY SourceStarts
  <1>2. SourceInv /\ [SourceNext]_sourceVars => SourceInv' BY SourceInductive
  <1> QED BY <1>1, <1>2, PTL DEF SourceSpec

(* No item that was read shares the mechanical identity, the member or the
   content of work that may run without being it, for every feed
   (_normalize, select_runnable_work). *)
THEOREM SelectedWorkIsUnambiguous == SourceSpec => []RunnableWorkIsUnambiguous
  <1>1. SourceInv => RunnableWorkIsUnambiguous
    BY DEF SourceInv, SelectionInv, SoundIdentities, RunnableWorkIsUnambiguous
  <1> QED BY <1>1, SourceAlways, PTL

(* Where a graph is required, work that may run is a member of the accepted
   graph with the content that was read, and depends on nothing in it. *)
THEOREM SelectedWorkIsARoot == SourceSpec => []RunnableWorkIsARoot
  <1>1. SourceInv => RunnableWorkIsARoot
    BY DEF SourceInv, SelectionInv, SoundRoots, RunnableWorkIsARoot
  <1> QED BY <1>1, SourceAlways, PTL

(* Unless the owner's state moves while the sources are read, no work is
   selected under a pending blocker or an unsealed candidate
   (verify_owner_blocker_state). *)
THEOREM SelectionFollowsTheOwner == SourceSpec => []SelectionSeesTheOwner
  <1>1. SourceInv => SelectionSeesTheOwner
    BY DEF SourceInv, ReceiptInv, Receipt, SelectionSeesTheOwner
  <1> QED BY <1>1, SourceAlways, PTL

(* A scan asks for no page past max_pages, for none twice, and takes no
   more than max_items from a source, whatever cursors the pages name
   (scan_configured_sources). *)
THEOREM ScansStayInBounds == SourceSpec => []ReadsStayInBounds
  <1>1. SourceInv => ReadsStayInBounds BY DEF SourceInv, BoundsInv
  <1> QED BY <1>1, SourceAlways, PTL
=============================================================================
