--------------------------- MODULE CandidateGates ---------------------------
(***************************************************************************)
(* One task's candidate on its way to the owner: sealing (git_identity.py),*)
(* gate evidence and its context (gates.py) and the final transition       *)
(* (gates.py, state.py), for processes that share the database under the   *)
(* transition lease while the worktree changes underneath them.            *)
(*                                                                         *)
(* Every SQLite transaction is one action.  An operation that reads the    *)
(* live worktree and then writes, or that runs several transactions, is    *)
(* one action per read or transaction, and the process remembers in        *)
(* work[p] where it is.  Between two of them anything may happen: a commit *)
(* or an edit in the worktree, another process's whole operation, the loss *)
(* of the lease.  An operation that raises simply ends (Abandon).          *)
(*                                                                         *)
(* The lease is FencedLease's: a process passes the check only while its   *)
(* ticket is of the current epoch.  A live check (worktree binding, status *)
(* and HEAD) reads the worktree at one instant; `fit' is FALSE when the    *)
(* worktree is dirty or fails revalidation, which the code treats alike.   *)
(* Left out: runtime bindings, the base commit and the task identity,      *)
(* which are fixed for a task; review-limit receipts and review items.     *)
(***************************************************************************)
EXTENDS FencedLease, GateDecision

CONSTANTS Commits,        \* commits the task branch may reach
          Policies,       \* trusted policy receipts callers may present
          ActivatedAt,    \* activation instant of a receipt
          Reports,        \* gate evidence callers may present
          IsolatedValues, \* isolated_local_task values callers present
          MaxLineage,     \* bound: dependency reviews of the task
          SourceCount,    \* number of sources of each dependency-review lineage
          MaxEpoch,       \* bound: lease epochs in one behaviour
          MaxGraph,       \* bound: graph versions accepted in one behaviour
          None            \* no row

(* One gate report: GateEvidence without the identities it is stored under. *)
Report == [gate : Gates, evaluator : Nat, fingerprint : Nat, outcome : Outcomes, at : Nat,
           followUp : BOOLEAN, justified : BOOLEAN]

ASSUME CandidateAssumption ==
    /\ ActivatedAt \in [Policies -> Nat]
    /\ Reports \subseteq Report
    /\ IsolatedValues \subseteq BOOLEAN
    /\ MaxLineage \in Nat
    /\ SourceCount \in [0..MaxLineage -> Nat \ {0}]
    /\ MaxEpoch \in Nat /\ MaxGraph \in Nat

Lineages == 0..MaxLineage

VARIABLES head, fit,      \* the live worktree
          state,          \* tasks.state
          seal,           \* candidate_seals: the sealed commit, or None
          bound,          \* candidate_evidence: <<commit, fingerprint>> rows
          rows,           \* gate_evidence rows
          contexts,       \* gate_contexts: commit -> context row or None
          lineage,        \* the task's terminal dependency review, 0: none
          graph,          \* the accepted dependency graph, or None
          handles,        \* seal values seal_candidate has returned so far
          work,           \* work[p]: the operation process p is inside
          handoff         \* what the final transition committed (history)

gateVars == <<head, fit, state, seal, bound, rows, contexts, lineage, graph, handles, work,
              handoff>>
vars == <<fencedVars, gateVars>>

(* A context as a caller presents it, and as the table keeps it. *)
Context == [sources : Nat \ {0}, isolated : BOOLEAN, policy : Policies, graph : 0..MaxGraph]
ContextRow == [presented : Context, lineage : Lineages]

(* A recorded report, with the context it was recorded under (history). *)
Row == [commit : Commits, under : Context, report : Report]

(* An accepted dependency graph. *)
Graph == [version : 1..MaxGraph, commit : Commits, policy : Policies, lineage : Lineages]

ASSUME NoRowAssumption == None \notin Commits \cup ContextRow \cup Graph

(* Where a process can be inside an operation. *)
Idle == [step |-> "idle"]

Recording == [step : {"bind", "record"}, commit : Commits, context : Context, report : Report]

Finishing(steps, rounds) == [step : steps, round : rounds, commit : Commits, context : Context]

Work == {Idle} \cup [step : {"invalidate"}] \cup [step : {"seal"}, commit : Commits]
        \cup Recording
        \cup Finishing({"sealed"}, 1..3) \cup Finishing({"live"}, 1..2)
        \cup Finishing({"context"}, {1}) \cup Finishing({"decide"}, {2})
        \cup Finishing({"commit"}, {3})

GateInit ==
    /\ FencedInit
    /\ head \in Commits
    /\ fit = TRUE
    /\ state = "implementing"
    /\ seal = None
    /\ bound = {}
    /\ rows = {}
    /\ contexts = [c \in Commits |-> None]
    /\ lineage = 0
    /\ graph = None
    /\ handles = {}
    /\ work = [p \in Processes |-> Idle]
    /\ handoff = None

-----------------------------------------------------------------------------
(***************************************************************************)
(* The lease, the worktree and the dependency review, which move by        *)
(* themselves.  A process keeps its lease value during an operation.       *)
(***************************************************************************)
Ready(p) == work[p] = Idle
At(p, step) == work[p].step = step
Holds(p) == epoch > 0 /\ ticket[p] = epoch
Goto(p, step) == work' = [work EXCEPT ![p].step = step]
Finish(p) == work' = [work EXCEPT ![p] = Idle]

Lease(p) ==
    /\ Ready(p)
    /\ (epoch < MaxEpoch /\ Take(p)) \/ Share(p) \/ Drop(p)
    /\ UNCHANGED gateVars

(* The operation raises or the process dies; what it committed stays. *)
Abandon(p) ==
    /\ ~Ready(p)
    /\ Finish(p)
    /\ UNCHANGED <<fencedVars, head, fit, state, seal, bound, rows, contexts, lineage, graph,
                   handles, handoff>>

CommitInWorktree(c) ==
    /\ head' = c
    /\ UNCHANGED <<fencedVars, fit, state, seal, bound, rows, contexts, lineage, graph, handles,
                   work, handoff>>

EditWorktree ==
    /\ fit' = ~fit
    /\ UNCHANGED <<fencedVars, head, state, seal, bound, rows, contexts, lineage, graph, handles,
                   work, handoff>>

ReviewDependencies(l) ==
    /\ l > lineage
    /\ lineage' = l
    /\ UNCHANGED <<fencedVars, head, fit, state, seal, bound, rows, contexts, graph, handles,
                   work, handoff>>

GraphVersion == IF graph = None THEN 0 ELSE graph.version

AcceptGraph(c, policy) ==
    /\ lineage > 0
    /\ GraphVersion < MaxGraph
    /\ graph' = [version |-> GraphVersion + 1, commit |-> c, policy |-> policy, lineage |-> lineage]
    /\ UNCHANGED <<fencedVars, head, fit, state, seal, bound, rows, contexts, lineage, handles,
                   work, handoff>>

(* transition_task between the two working states. *)
MoveTask(p) ==
    /\ Ready(p)
    /\ FencedCommit(p)
    /\ \/ state = "implementing" /\ state' = "diff-review"
       \/ state = "diff-review" /\ state' = "implementing"
    /\ UNCHANGED <<head, fit, seal, bound, rows, contexts, lineage, graph, handles, work, handoff>>

-----------------------------------------------------------------------------
(***************************************************************************)
(* Sealing.                                                                *)
(***************************************************************************)

(* The reads of an operation change nothing but the process. *)
ReadOnly == UNCHANGED <<fencedVars, head, fit, state, seal, bound, rows, contexts, lineage, graph,
                        handles, handoff>>

(* _require_live_candidate: on drift the next step deletes the candidate. *)
LiveCheck(p, commit, then) ==
    /\ Holds(p)
    /\ work' = [work EXCEPT ![p] = IF fit /\ head = commit THEN then ELSE [step |-> "invalidate"]]
    /\ ReadOnly

(* _invalidate_candidate. *)
Invalidate(p) ==
    /\ At(p, "invalidate")
    /\ FencedCommit(p)
    /\ seal' = None
    /\ bound' = {}
    /\ rows' = {}
    /\ contexts' = [c \in Commits |-> None]
    /\ Finish(p)
    /\ UNCHANGED <<head, fit, state, lineage, graph, handles, handoff>>

(* seal_candidate reads HEAD, then writes the seal in a transaction. *)
BeginSeal(p) ==
    /\ Ready(p)
    /\ LiveCheck(p, head, [step |-> "seal", commit |-> head])

CommitSeal(p) ==
    /\ At(p, "seal")
    /\ FencedCommit(p)
    /\ seal' = work[p].commit
    /\ IF seal \in {None, work[p].commit}
       THEN UNCHANGED <<bound, rows, contexts>>
       ELSE bound' = {} /\ rows' = {} /\ contexts' = [c \in Commits |-> None]
    /\ handles' = handles \cup {work[p].commit}
    /\ Finish(p)
    /\ UNCHANGED <<head, fit, state, lineage, graph, handoff>>

-----------------------------------------------------------------------------
(***************************************************************************)
(* record_gate_evidence: a live check, the transaction of                  *)
(* bind_candidate_evidence, and its own transaction.                       *)
(***************************************************************************)
BeginRecord(p, commit, context, report) ==
    /\ Ready(p)
    /\ LiveCheck(p, commit, [step |-> "bind", commit |-> commit, context |-> context,
                             report |-> report])

(* Mutant: the seal is not looked at again. *)
BindWithoutSeal(p) ==
    /\ At(p, "bind")
    /\ FencedCommit(p)
    /\ bound' = bound \cup {<<work[p].commit, work[p].report.fingerprint>>}
    /\ Goto(p, "record")
    /\ UNCHANGED <<head, fit, state, seal, rows, contexts, lineage, graph, handles, handoff>>

BindEvidence(p) ==
    /\ At(p, "bind")
    /\ FencedCommit(p)
    /\ seal = work[p].commit
    /\ bound' = bound \cup {<<seal, work[p].report.fingerprint>>}
    /\ Goto(p, "record")
    /\ UNCHANGED <<head, fit, state, seal, rows, contexts, lineage, graph, handles, handoff>>

(* _require_current_dependency_graph. *)
GraphIsCurrent(commit, context, fingerprint) ==
    /\ context.sources > 1
    /\ graph # None
    /\ graph = [version |-> context.graph, commit |-> commit, policy |-> context.policy,
                lineage |-> lineage]
    /\ fingerprint = graph.version

ClaimsGraph(report) == report.gate = GraphGate /\ report.outcome = "PASS"

(* A different context replaces the stored one only when the sources or    *)
(* the graph moved under the same policy, or the policy receipt is newer.  *)
MayRebind(old, new, report) ==
    LET sameTrust == old.policy = new.policy
        sourceRebound == sameTrust /\ old.sources # new.sources
        graphMoved == sameTrust /\ old.sources = new.sources /\ old.isolated = new.isolated
    IN /\ sourceRebound /\ new.sources > 1 => ClaimsGraph(report)
       /\ sourceRebound \/ graphMoved \/ ActivatedAt[new.policy] > ActivatedAt[old.policy]

(* The columns that name a report of a candidate. *)
Key(report) == <<report.gate, report.evaluator, report.fingerprint>>

(* Mutant: the latest report replaces the row. *)
RecordedLatest(kept, commit, context, report) ==
    {r \in kept : r.commit # commit \/ Key(r.report) # Key(report)}
    \cup {[commit |-> commit, under |-> context, report |-> report]}

(* The report joins the rows; a replay that differs in anything, even in   *)
(* when it was evaluated, turns the row into a conflict.                   *)
Recorded(kept, commit, context, report) ==
    LET same == {r \in kept : r.commit = commit /\ Key(r.report) = Key(report)}
    IN IF same = {} THEN kept \cup {[commit |-> commit, under |-> context, report |-> report]}
       ELSE (kept \ same) \cup
            {IF r.report = report THEN r ELSE [r EXCEPT !.report.outcome = "CONFLICT"] : r \in same}

(* What a new context leaves of the rows, and of the bound evidence. *)
OtherRows(commit) == {r \in rows : r.commit # commit}
OtherBound(commit) == {b \in bound : b[1] # commit}

RecordEvidence(p) ==
    LET commit == work[p].commit
        context == work[p].context
        report == work[p].report
        stored == contexts[commit]
        fact == <<commit, report.fingerprint>>
    IN /\ At(p, "record")
       /\ FencedCommit(p)
       /\ seal = commit
       /\ context.sources = SourceCount[lineage]
       /\ ClaimsGraph(report) => GraphIsCurrent(commit, context, report.fingerprint)
       /\ \/ /\ stored = None
             /\ contexts' = [contexts EXCEPT ![commit] = [presented |-> context, lineage |-> lineage]]
             /\ rows' = Recorded(rows, commit, context, report)
             /\ bound' = bound \cup {fact}
          \/ /\ stored # None /\ stored.presented # context
             /\ MayRebind(stored.presented, context, report)
             /\ contexts' = [contexts EXCEPT ![commit] = [presented |-> context, lineage |-> lineage]]
             /\ rows' = Recorded(OtherRows(commit), commit, context, report)
             /\ bound' = OtherBound(commit) \cup {fact}
          \/ /\ stored # None /\ stored.presented = context /\ stored.lineage = lineage
             /\ rows' = Recorded(rows, commit, context, report)
             /\ bound' = bound \cup {fact}
             /\ UNCHANGED contexts
          \/ /\ stored # None /\ stored.presented = context /\ stored.lineage # lineage
             /\ rows' = OtherRows(commit)
             /\ bound' = OtherBound(commit)
             /\ UNCHANGED contexts
       /\ Finish(p)
       /\ UNCHANGED <<head, fit, state, seal, lineage, graph, handles, handoff>>

-----------------------------------------------------------------------------
(***************************************************************************)
(* _decision_from_connection, for whatever seal is current.                *)
(***************************************************************************)
GateAnswer ==
    IF seal = None \/ contexts[seal] = None THEN "BLOCKED"
    ELSE LET context == contexts[seal].presented
             evidence == {r.report : r \in {x \in rows :
                            x.commit = seal /\ <<seal, x.report.fingerprint>> \in bound}}
             answer == DecideGates(context, evidence)
         IN IF \/ contexts[seal].lineage # lineage
               \/ context.sources # SourceCount[lineage]
               \/ /\ answer = "PASS" /\ context.sources > 1
                  /\ ~\E r \in evidence : /\ ClaimsGraph(r)
                                           /\ GraphIsCurrent(seal, context, r.fingerprint)
            THEN "BLOCKED" ELSE answer

(***************************************************************************)
(* transition_ready_for_owner: three rounds of a live check and a look at  *)
(* the seal (candidate_evidence); after the first the stored context is    *)
(* compared, after the second the gates are asked, after the third the     *)
(* transaction commits.  It asks the gates again but does not look at the  *)
(* worktree, nor at the seal and the context its caller had in mind.       *)
(***************************************************************************)
AfterSeal == <<"context", "decide", "commit">>

BeginFinal(p, commit, context) ==
    /\ Ready(p)
    /\ LiveCheck(p, commit, [step |-> "sealed", round |-> 1, commit |-> commit,
                             context |-> context])

CheckSeal(p) ==
    /\ At(p, "sealed")
    /\ seal = work[p].commit
    /\ Goto(p, AfterSeal[work[p].round])
    /\ ReadOnly

CheckContext(p) ==
    /\ At(p, "context")
    /\ contexts[work[p].commit] # None
    /\ contexts[work[p].commit].presented = work[p].context
    /\ Goto(p, "live")
    /\ ReadOnly

CheckDecision(p) ==
    /\ At(p, "decide")
    /\ GateAnswer = "PASS"
    /\ Goto(p, "live")
    /\ ReadOnly

CheckLive(p) ==
    /\ At(p, "live")
    /\ LiveCheck(p, work[p].commit, [step |-> "sealed", round |-> work[p].round + 1,
                                     commit |-> work[p].commit, context |-> work[p].context])

CommitFinal(p) ==
    /\ At(p, "commit")
    /\ FencedCommit(p)
    /\ state = "diff-review"
    /\ GateAnswer = "PASS"
    /\ state' = "ready-for-owner"
    /\ handoff' = [asked |-> work[p].commit, askedUnder |-> work[p].context, sealed |-> seal,
                   under |-> contexts[seal].presented, live |-> fit /\ head = seal]
    /\ Finish(p)
    /\ UNCHANGED <<head, fit, seal, bound, rows, contexts, lineage, graph, handles>>

-----------------------------------------------------------------------------
(* The contexts a caller can present: it counts the sources of some        *)
(* lineage and names no graph or the current one.                          *)
PresentableContexts ==
    [sources : {SourceCount[l] : l \in Lineages}, isolated : IsolatedValues,
     policy : Policies, graph : {0, GraphVersion}]

ProcessStep(p) ==
    \/ Lease(p) \/ Abandon(p) \/ MoveTask(p)
    \/ Invalidate(p) \/ BeginSeal(p) \/ CommitSeal(p)
    \/ BindEvidence(p) \/ RecordEvidence(p)
    \/ CheckSeal(p) \/ CheckContext(p) \/ CheckDecision(p) \/ CheckLive(p)
    \/ CommitFinal(p)
    \/ \E commit \in handles, context \in PresentableContexts :
          \/ BeginFinal(p, commit, context)
          \/ \E report \in Reports : BeginRecord(p, commit, context, report)

Environment ==
    \/ \E c \in Commits : CommitInWorktree(c)
    \/ EditWorktree
    \/ \E l \in Lineages : ReviewDependencies(l)
    \/ \E c \in Commits, policy \in Policies : AcceptGraph(c, policy)

GateNext == Environment \/ \E p \in Processes : ProcessStep(p)

GateSpec == GateInit /\ [][GateNext]_vars

-----------------------------------------------------------------------------
(***************************************************************************)
(* Properties.                                                             *)
(***************************************************************************)

GateTypeOK ==
    /\ head \in Commits
    /\ fit \in BOOLEAN
    /\ state \in {"implementing", "diff-review", "ready-for-owner"}
    /\ seal \in Commits \cup {None}
    /\ bound \subseteq Commits \X Nat
    /\ rows \subseteq Row
    /\ contexts \in [Commits -> ContextRow \cup {None}]
    /\ lineage \in Lineages
    /\ graph \in Graph \cup {None}
    /\ handles \subseteq Commits
    /\ work \in [Processes -> Work]

(* Evidence never outlives its candidate: every evidence row, gate row and *)
(* context belongs to the sealed commit, and every gate row is bound to    *)
(* it, although each operation validates the worktree before its           *)
(* transactions and the seal may move in between.                          *)
EvidenceBelongsToSeal ==
    /\ \A b \in bound : b[1] = seal
    /\ \A r \in rows : r.commit = seal /\ <<r.commit, r.report.fingerprint>> \in bound
    /\ \A c \in Commits : contexts[c] # None => c = seal

(* No mixing of authorities: all gate rows that count were recorded under  *)
(* the context the table holds, so a PASS is never assembled from evidence *)
(* of an old policy, source count or graph.                                *)
EvidenceSharesContext ==
    \A r \in rows : contexts[r.commit] # None /\ contexts[r.commit].presented = r.under

(* The task is handed over for the very candidate and context its caller   *)
(* validated, although the committing transaction decides on whatever seal *)
(* and context are current: the lease keeps every other owner out.         *)
HandoffIsWhatWasValidated ==
    handoff # None => handoff.sealed = handoff.asked /\ handoff.under = handoff.askedUnder

(* A blocking report cannot be voted down: while the seal, the context and *)
(* the dependency review stay, no further evidence turns BLOCKED into      *)
(* PASS (record_gate_evidence only adds rows or marks conflicts).          *)
BlockIsNotOutvoted ==
    [][/\ GateAnswer = "BLOCKED"
       /\ UNCHANGED <<seal, contexts, lineage, graph>>
       => GateAnswer' # "PASS"]_vars
=============================================================================
