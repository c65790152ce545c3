---------------------------- MODULE TaskLifecycle ----------------------------
(***************************************************************************)
(* The task ledger of state.py: admission, lifecycle transitions and the   *)
(* annotations (blockers, next action, artifacts) of the tasks of one      *)
(* database.                                                               *)
(*                                                                         *)
(* Every operation is one BEGIN IMMEDIATE transaction that first checks    *)
(* the caller's transition lease, so an action here is a transaction that  *)
(* passed that check and committed; one that raises rolls back and is no   *)
(* step.  Who may pass the check, and when, is TransitionLease.            *)
(*                                                                         *)
(* An operation names a task by its whole identity.  Fingerprints, commit  *)
(* names and digests are only compared.  The final transition needs a PASS *)
(* of the gates, which CandidateGates models; here the gates' answer is    *)
(* the environment's choice.                                               *)
(***************************************************************************)
EXTENDS Naturals, Sequences

CONSTANTS Identities,     \* TaskIdentity values callers present
          Digests,        \* source digests callers present
          Fingerprints,   \* evidence fingerprints
          KeyOf,          \* _canonical_worktree_key: spelling -> ownership key
          BlockerClasses, NextActionKinds, ArtifactKinds,
          None            \* SQL NULL, or no row

TaskIds == {id.task : id \in Identities}
SourceIds == {id.source : id \in Identities}
RepositoryIds == {id.repository : id \in Identities}
Branches == {id.branch : id \in Identities}
Worktrees == {id.worktree : id \in Identities}
WorktreeKeys == {KeyOf[w] : w \in Worktrees}

LifecycleStates == {"queued", "planning", "plan-review", "implementing", "diff-review",
                    "ready-for-owner", "blocked"}

ASSUME TaskAssumption ==
    /\ Identities \subseteq [task : TaskIds, source : SourceIds, repository : RepositoryIds,
                             branch : Branches, worktree : Worktrees,
                             base : {id.base : id \in Identities}]
    /\ None \notin Identities /\ None \notin TaskIds
    /\ None \notin Fingerprints /\ None \notin LifecycleStates

(* Mutant: no transition table. *)
AnyTransition == LifecycleStates \X LifecycleStates

(* _ALLOWED_TRANSITIONS, as a set of edges. *)
AllowedTransitions ==
    {<<"queued", "planning">>, <<"planning", "plan-review">>,
     <<"plan-review", "planning">>, <<"plan-review", "implementing">>,
     <<"implementing", "diff-review">>, <<"diff-review", "implementing">>,
     <<"diff-review", "ready-for-owner">>}
    \cup {<<s, "blocked">> : s \in LifecycleStates \ {"ready-for-owner", "blocked"}}
    \cup {<<"blocked", s>> : s \in LifecycleStates \ {"ready-for-owner", "blocked"}}

VARIABLES sources,        \* source_snapshots: source -> [repository, digest] or None
          tasks,          \* tasks: the identity a task was admitted with, or None
          state,          \* tasks.state, None before admission
          blockedFrom,    \* tasks.blocked_from_state
          branchOwner,    \* task_branch_ownership
          worktreeOwner,  \* task_worktree_ownership
          events,         \* transition_events of each task, in sequence order
          blockers,       \* blockers: task -> class -> row or None
          nextAction,     \* next_actions: the one row of a task, or None
          artifacts       \* artifact_references of each task

taskVars == <<sources, tasks, state, blockedFrom, branchOwner, worktreeOwner, events,
              blockers, nextAction, artifacts>>

Event == [from : LifecycleStates, to : LifecycleStates, evidence : Fingerprints]

(* A row is open until a recovery out of "blocked" stamps its resolution. *)
BlockerRow == [resolution : Fingerprints \cup {None}]
ActionRow == [kind : NextActionKinds, resolution : Fingerprints \cup {None}]

TaskTypeOK ==
    /\ sources \in [SourceIds -> [repository : RepositoryIds, digest : Digests] \cup {None}]
    /\ tasks \in [TaskIds -> Identities \cup {None}]
    /\ state \in [TaskIds -> LifecycleStates \cup {None}]
    /\ blockedFrom \in [TaskIds -> LifecycleStates \cup {None}]
    /\ branchOwner \in [Branches -> TaskIds \cup {None}]
    /\ worktreeOwner \in [WorktreeKeys -> TaskIds \cup {None}]
    /\ events \in [TaskIds -> Seq(Event)]
    /\ blockers \in [TaskIds -> [BlockerClasses -> BlockerRow \cup {None}]]
    /\ nextAction \in [TaskIds -> ActionRow \cup {None}]
    /\ artifacts \in [TaskIds -> SUBSET (ArtifactKinds \X Fingerprints)]

TaskInit ==
    /\ sources = [s \in SourceIds |-> None]
    /\ tasks = [t \in TaskIds |-> None]
    /\ state = [t \in TaskIds |-> None]
    /\ blockedFrom = [t \in TaskIds |-> None]
    /\ branchOwner = [b \in Branches |-> None]
    /\ worktreeOwner = [k \in WorktreeKeys |-> None]
    /\ events = [t \in TaskIds |-> <<>>]
    /\ blockers = [t \in TaskIds |-> [c \in BlockerClasses |-> None]]
    /\ nextAction = [t \in TaskIds |-> None]
    /\ artifacts = [t \in TaskIds |-> {}]

-----------------------------------------------------------------------------
(***************************************************************************)
(* admit_task.                                                             *)
(***************************************************************************)

(* The snapshot is new, and its (repository, digest) pair too, or it is an *)
(* exact replay of the stored one.                                         *)
SourceAdmissible(id, digest) ==
    LET snapshot == [repository |-> id.repository, digest |-> digest]
    IN \/ sources[id.source] = snapshot
       \/ sources[id.source] = None /\ \A s \in SourceIds : sources[s] # snapshot

(* No other task has the branch or the worktree, in any spelling. *)
OwnershipIsFree(id) ==
    /\ branchOwner[id.branch] \in {None, id.task}
    /\ \A t \in TaskIds \ {id.task} : tasks[t] # None => tasks[t].branch # id.branch
    /\ worktreeOwner[KeyOf[id.worktree]] \in {None, id.task}

AdmitTask(id, digest) ==
    /\ SourceAdmissible(id, digest)
    /\ OwnershipIsFree(id)
    /\ tasks[id.task] = None
    /\ sources' = [sources EXCEPT ![id.source] =
                      [repository |-> id.repository, digest |-> digest]]
    /\ tasks' = [tasks EXCEPT ![id.task] = id]
    /\ state' = [state EXCEPT ![id.task] = "queued"]
    /\ branchOwner' = [branchOwner EXCEPT ![id.branch] = id.task]
    /\ worktreeOwner' = [worktreeOwner EXCEPT ![KeyOf[id.worktree]] = id.task]
    /\ UNCHANGED <<blockedFrom, events, blockers, nextAction, artifacts>>

-----------------------------------------------------------------------------
(***************************************************************************)
(* Transitions.                                                            *)
(***************************************************************************)

(* _require_matching_task: the presented identity is the stored one and    *)
(* the ownership rows still name the task.                                 *)
MatchingTask(id) ==
    /\ tasks[id.task] = id
    /\ branchOwner[id.branch] = id.task
    /\ worktreeOwner[KeyOf[id.worktree]] = id.task

(* _transition_is_allowed: out of "blocked" only back to where it was.     *)
TransitionIsAllowed(current, next, from) ==
    /\ <<current, next>> \in AllowedTransitions
    /\ current = "blocked" => from = next

EvidenceIsFresh(t, evidence) ==
    \A i \in 1..Len(events[t]) : events[t][i].evidence # evidence

Resolves(expected) == expected = "blocked"

(* Leaving "blocked" resolves every open blocker and the open next action. *)
ResolvedBlockers(t, evidence) ==
    [c \in BlockerClasses |->
        IF blockers[t][c] # None /\ blockers[t][c].resolution = None
        THEN [resolution |-> evidence] ELSE blockers[t][c]]

ResolvedAction(t, evidence) ==
    IF nextAction[t] # None /\ nextAction[t].resolution = None
    THEN [nextAction[t] EXCEPT !.resolution = evidence] ELSE nextAction[t]

(* _commit_transition, after the gates' answer. *)
CommitTransition(id, expected, next, evidence) ==
    LET t == id.task IN
    /\ MatchingTask(id)
    /\ state[t] = expected
    /\ TransitionIsAllowed(expected, next, blockedFrom[t])
    /\ EvidenceIsFresh(t, evidence)
    /\ state' = [state EXCEPT ![t] = next]
    /\ blockedFrom' = [blockedFrom EXCEPT ![t] = IF next = "blocked" THEN expected ELSE None]
    /\ IF Resolves(expected)
       THEN /\ blockers' = [blockers EXCEPT ![t] = ResolvedBlockers(t, evidence)]
            /\ nextAction' = [nextAction EXCEPT ![t] = ResolvedAction(t, evidence)]
       ELSE UNCHANGED <<blockers, nextAction>>
    /\ events' = [events EXCEPT ![t] =
                     Append(@, [from |-> expected, to |-> next, evidence |-> evidence])]
    /\ UNCHANGED <<sources, tasks, branchOwner, worktreeOwner, artifacts>>

(* transition_task: everything except the final transition. *)
TransitionTask(id, expected, next, evidence) ==
    /\ <<expected, next>> # <<"diff-review", "ready-for-owner">>
    /\ CommitTransition(id, expected, next, evidence)

(* The final transition, when the gates answered PASS (CandidateGates). *)
TransitionReadyForOwner(id, evidence) ==
    CommitTransition(id, "diff-review", "ready-for-owner", evidence)

-----------------------------------------------------------------------------
(***************************************************************************)
(* Annotations, accepted in every state.                                   *)
(***************************************************************************)

(* set_blocker re-opens the class if it was resolved. *)
SetBlocker(id, class) ==
    /\ MatchingTask(id)
    /\ blockers' = [blockers EXCEPT ![id.task][class] = [resolution |-> None]]
    /\ UNCHANGED <<sources, tasks, state, blockedFrom, branchOwner, worktreeOwner, events,
                   nextAction, artifacts>>

(* set_next_action replaces the one row. *)
SetNextAction(id, kind) ==
    /\ MatchingTask(id)
    /\ nextAction' = [nextAction EXCEPT ![id.task] = [kind |-> kind, resolution |-> None]]
    /\ UNCHANGED <<sources, tasks, state, blockedFrom, branchOwner, worktreeOwner, events,
                   blockers, artifacts>>

RecordArtifact(id, kind, fingerprint) ==
    /\ MatchingTask(id)
    /\ artifacts' = [artifacts EXCEPT ![id.task] = @ \cup {<<kind, fingerprint>>}]
    /\ UNCHANGED <<sources, tasks, state, blockedFrom, branchOwner, worktreeOwner, events,
                   blockers, nextAction>>

Annotate(id) ==
    \/ \E class \in BlockerClasses : SetBlocker(id, class)
    \/ \E kind \in NextActionKinds : SetNextAction(id, kind)

Advance(id, evidence) ==
    \/ \E expected, next \in LifecycleStates : TransitionTask(id, expected, next, evidence)
    \/ TransitionReadyForOwner(id, evidence)

TaskNext ==
    \E id \in Identities :
       \/ \E digest \in Digests : AdmitTask(id, digest)
       \/ \E evidence \in Fingerprints : Advance(id, evidence)
       \/ Annotate(id)
       \/ \E kind \in ArtifactKinds, fingerprint \in Fingerprints :
             RecordArtifact(id, kind, fingerprint)

TaskSpec == TaskInit /\ [][TaskNext]_taskVars

-----------------------------------------------------------------------------
(***************************************************************************)
(* Properties.                                                             *)
(***************************************************************************)

(* The ledger tells how the task got where it is: the committed events     *)
(* form one path from "queued" to the current state, each a different      *)
(* pair of states, and an unadmitted task has no history.                  *)
LedgerIsPath ==
    \A t \in TaskIds :
       LET log == events[t] IN
       /\ state[t] = IF tasks[t] = None THEN None
                     ELSE IF log = <<>> THEN "queued" ELSE log[Len(log)].to
       /\ tasks[t] = None => log = <<>>
       /\ log # <<>> => log[1].from = "queued"
       /\ \A i \in 2..Len(log) : log[i].from = log[i - 1].to

(* Blocking loses no progress and skips none: every recovery returns to    *)
(* the very state the task was blocked in, and blocked_from_state is set   *)
(* exactly while the task is blocked.                                      *)
RecoveryReturnsWhereItBlocked ==
    \A t \in TaskIds :
       LET log == events[t] IN
       /\ \A i \in 1..Len(log) : log[i].from = "blocked" => i > 1 /\ log[i].to = log[i - 1].from
       /\ blockedFrom[t] = IF state[t] = "blocked" THEN log[Len(log)].from ELSE None

(* No review is skipped on the way to the owner, whatever detours through  *)
(* "blocked", repairs and re-planning the task took.                       *)
ReadyWasReviewed ==
    \A t \in TaskIds :
       LET log == events[t]
           Passed(i, from, to) == log[i].from = from /\ log[i].to = to
       IN state[t] = "ready-for-owner" =>
            \E i, j, k \in 1..Len(log) :
               /\ i < j /\ j < k
               /\ Passed(i, "planning", "plan-review")
               /\ Passed(j, "plan-review", "implementing")
               /\ Passed(k, "implementing", "diff-review")

(* One fingerprint proves one step of a task.                              *)
EvidenceIsSpentOnce ==
    \A t \in TaskIds : \A i, j \in 1..Len(events[t]) :
       events[t][i].evidence = events[t][j].evidence => i = j

(* A branch and a worktree, however its path is spelled, belong to one     *)
(* task, and the ownership tables say so for every admitted task.          *)
OwnershipIsExclusive ==
    /\ \A t \in TaskIds : tasks[t] # None => MatchingTask(tasks[t])
    /\ \A t, u \in TaskIds :
          tasks[t] # None /\ tasks[u] # None /\ t # u =>
             /\ tasks[t].branch # tasks[u].branch
             /\ KeyOf[tasks[t].worktree] # KeyOf[tasks[u].worktree]
==============================================================================
