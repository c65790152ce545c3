------------------------ MODULE CandidateGates_proof ------------------------
(***************************************************************************)
(* For any number of processes, commits, policies and reports: gate        *)
(* evidence belongs to the sealed candidate and shares one context.        *)
(*                                                                         *)
(* GateTypeOK types the memory of the processes too, so it is inductive by *)
(* itself; given it, each of the two properties is inductive.  The reason  *)
(* in both cases is what a transaction checks again after the live check:  *)
(* the seal is compared inside it, and rows go whenever a seal or context  *)
(* replaces another.                                                       *)
(*                                                                         *)
(* That a handoff writes what was validated rests on the lease: what a     *)
(* process read stays right only while its own ticket is the last one      *)
(* (TicketsInv), for only the holder replaces the seal and the context     *)
(* (ValidatedInv).  That no blocking row is outvoted rests on the rows     *)
(* themselves, and on a row that claims a graph having been recorded while *)
(* that graph was the accepted one (GraphClaimsInv).                       *)
(***************************************************************************)
EXTENDS CandidateGates, TLAPS

EvidenceVars == <<seal, bound, rows, contexts>>

(* What a process remembers about the evidence it is recording. *)
LEMMA RecordingWork ==
  ASSUME NEW w \in Work, w.step \in {"bind", "record"}
  PROVE  /\ w.commit \in Commits /\ w.context \in Context /\ w.report \in Report
         /\ w.report.fingerprint \in Nat
         /\ w \in Recording
  BY DEF Work, Idle, Recording, Finishing, Report

\* What a process remembers while it seals: its work is typed.
LEMMA SealingWork ==
  ASSUME NEW w \in Work, w.step = "seal"
  PROVE  w.commit \in Commits
  BY DEF Work, Idle, Recording, Finishing

\* What a process remembers while it finishes a task: its work is typed.
LEMMA FinishingWork ==
  ASSUME NEW w \in Work
  PROVE  /\ w.step = "sealed" => w \in Finishing({"sealed"}, 1..3)
         /\ w.step = "live" => w \in Finishing({"live"}, 1..2)
         /\ w.step = "context" => w \in Finishing({"context"}, {1})
         /\ w.step = "decide" => w \in Finishing({"decide"}, {2})
  BY DEF Work, Idle, Recording, Finishing

(* The contexts callers present are contexts. *)
LEMMA PresentedContexts ==
  ASSUME GateTypeOK
  PROVE  PresentableContexts \subseteq Context
  <1>1. GraphVersion \in 0..MaxGraph
    BY CandidateAssumption DEF GateTypeOK, Graph, GraphVersion
  <1>2. \A l \in Lineages : SourceCount[l] \in Nat \ {0}
    BY CandidateAssumption DEF Lineages
  <1>3. 0 \in 0..MaxGraph
    BY CandidateAssumption
  <1> QED
    BY <1>1, <1>2, <1>3, CandidateAssumption DEF PresentableContexts, Context

(* Adding a report to typed rows gives typed rows; every row of the result *)
(* has the commit, fingerprint and context of an old row or of the report. *)
LEMMA RecordedRows ==
  ASSUME NEW kept \in SUBSET Row, NEW commit \in Commits, NEW context \in Context,
         NEW report \in Report, NEW r \in Recorded(kept, commit, context, report)
  PROVE  /\ r \in Row
         /\ \/ r.commit = commit /\ r.under = context
               /\ r.report.fingerprint = report.fingerprint
            \/ \E k \in kept : /\ r.commit = k.commit /\ r.under = k.under
                               /\ r.report.fingerprint = k.report.fingerprint
  <1> DEFINE new == [commit |-> commit, under |-> context, report |-> report]
             same == {k \in kept : k.commit = commit /\ Key(k.report) = Key(report)}
             Marked(k) == IF k.report = report THEN k ELSE [k EXCEPT !.report.outcome = "CONFLICT"]
  <1>1. new \in Row /\ new.commit = commit /\ new.under = context /\ new.report = report
    BY DEF Row
  <1>2. ASSUME NEW k \in kept
        PROVE  /\ Marked(k) \in Row /\ Marked(k).commit = k.commit /\ Marked(k).under = k.under
               /\ Marked(k).report.fingerprint = k.report.fingerprint
    <2>1. k \in Row /\ k.report \in Report
      BY DEF Row
    <2>2. [k.report EXCEPT !.outcome = "CONFLICT"] \in Report
          /\ [k.report EXCEPT !.outcome = "CONFLICT"].fingerprint = k.report.fingerprint
      BY <2>1 DEF Report, Outcomes
    <2>3. [k EXCEPT !.report.outcome = "CONFLICT"]
             = [k EXCEPT !.report = [k.report EXCEPT !.outcome = "CONFLICT"]]
      BY <2>1 DEF Row
    <2> QED
      BY <2>1, <2>2, <2>3 DEF Row
  <1>3. r = new \/ (\E k \in kept : r = k) \/ (\E k \in same : r = Marked(k))
    BY DEF Recorded
  <1> QED
    BY <1>1, <1>2, <1>3

-----------------------------------------------------------------------------
(* The initial states are typed. *)
LEMMA TypeInit == GateInit => GateTypeOK
  BY CandidateAssumption DEF GateInit, GateTypeOK, Lineages, Work, Idle

(* The steps of the process that change nothing but its memory. *)
LEMMA TypeWork ==
  ASSUME GateTypeOK, NEW p \in Processes, NEW w \in Work,
         work' = [work EXCEPT ![p] = w],
         UNCHANGED <<head, fit, state, seal, bound, rows, contexts, lineage, graph, handles>>
  PROVE  GateTypeOK'
  BY DEF GateTypeOK

(* A live check leads to the given step or to invalidation. *)
LEMMA TypeLiveCheck ==
  ASSUME GateTypeOK, NEW p \in Processes, NEW commit, NEW then \in Work,
         LiveCheck(p, commit, then)
  PROVE  GateTypeOK'
  <1> DEFINE w == IF fit /\ head = commit THEN then ELSE [step |-> "invalidate"]
  <1>1. w \in Work
    BY DEF Work
  <1> QED
    BY <1>1, TypeWork DEF LiveCheck, ReadOnly

(* The transaction of record_gate_evidence keeps the tables typed. *)
LEMMA TypeRecord ==
  ASSUME GateTypeOK, NEW p \in Processes, RecordEvidence(p)
  PROVE  GateTypeOK'
  <1> DEFINE commit == work[p].commit
             context == work[p].context
             report == work[p].report
             stored == [presented |-> context, lineage |-> lineage]
  <1>1. work[p] \in Work /\ work[p].step = "record"
    BY DEF RecordEvidence, At, GateTypeOK
  <1>2. /\ commit \in Commits /\ context \in Context /\ report \in Report
        /\ report.fingerprint \in Nat
    BY <1>1, RecordingWork
  <1>3. stored \in ContextRow
    BY <1>2 DEF ContextRow, GateTypeOK
  <1>4. /\ Recorded(rows, commit, context, report) \subseteq Row
        /\ Recorded(OtherRows(commit), commit, context, report) \subseteq Row
        /\ OtherRows(commit) \subseteq Row
    BY <1>2, RecordedRows DEF OtherRows, GateTypeOK
  <1>5. /\ bound \cup {<<commit, report.fingerprint>>} \subseteq Commits \X Nat
        /\ OtherBound(commit) \cup {<<commit, report.fingerprint>>} \subseteq Commits \X Nat
        /\ OtherBound(commit) \subseteq Commits \X Nat
    BY <1>2 DEF OtherBound, GateTypeOK
  <1>6. work' = [work EXCEPT ![p] = Idle] /\ Idle \in Work
    BY DEF RecordEvidence, Finish, Work
  <1>7. UNCHANGED <<head, fit, state, seal, lineage, graph, handles>>
    BY DEF RecordEvidence
  <1>8. rows' \subseteq Row /\ bound' \subseteq Commits \X Nat
    BY <1>4, <1>5 DEF RecordEvidence
  <1>9. contexts' \in [Commits -> ContextRow \cup {None}]
    BY <1>2, <1>3 DEF RecordEvidence, GateTypeOK
  <1> QED
    BY <1>6, <1>7, <1>8, <1>9 DEF GateTypeOK

(* Types are kept by every step of a process. *)
LEMMA TypeProcess ==
  ASSUME GateTypeOK, NEW p \in Processes, ProcessStep(p)
  PROVE  GateTypeOK'
  <1> work[p] \in Work /\ Idle \in Work /\ [step |-> "invalidate"] \in Work
    BY DEF GateTypeOK, Work
  <1>1. CASE Lease(p)
    BY <1>1 DEF Lease, gateVars, GateTypeOK
  <1>2. CASE Abandon(p)
    BY <1>2, TypeWork DEF Abandon, Finish
  <1>3. CASE MoveTask(p)
    BY <1>3 DEF MoveTask, GateTypeOK
  <1>4. CASE Invalidate(p)
    BY <1>4 DEF Invalidate, Finish, GateTypeOK
  <1>5. CASE BeginSeal(p)
    <2>1. [step |-> "seal", commit |-> head] \in Work
      BY DEF Work, GateTypeOK
    <2> QED
      BY <1>5, <2>1, TypeLiveCheck DEF BeginSeal
  <1>6. CASE CommitSeal(p)
    <2>1. work[p].commit \in Commits
      BY <1>6, SealingWork DEF CommitSeal, At
    <2>2. work' \in [Processes -> Work]
      BY <1>6 DEF CommitSeal, Finish, GateTypeOK
    <2> QED
      BY <1>6, <2>1, <2>2 DEF CommitSeal, GateTypeOK
  <1>7. CASE BindEvidence(p)
    <2>1. /\ work[p].commit \in Commits /\ work[p].report.fingerprint \in Nat
          /\ work[p] \in Recording
      BY <1>7, RecordingWork DEF BindEvidence, At
    <2>2. [work[p] EXCEPT !.step = "record"] \in Work
      BY <2>1 DEF Recording, Work
    <2>3. work' \in [Processes -> Work]
      BY <1>7, <2>2 DEF BindEvidence, Goto, GateTypeOK
    <2> QED
      BY <1>7, <2>1, <2>3 DEF BindEvidence, GateTypeOK
  <1>8. CASE RecordEvidence(p)
    BY <1>8, TypeRecord
  <1>9. CASE CheckSeal(p)
    <2>1. work[p] \in Finishing({"sealed"}, 1..3)
      BY <1>9, FinishingWork DEF CheckSeal, At
    <2>2. [work[p] EXCEPT !.step = AfterSeal[work[p].round]] \in Work
      <3>1. work[p].round \in 1..3
        BY <2>1 DEF Finishing
      <3>2. CASE work[p].round = 1
        BY <2>1, <3>2 DEF Finishing, Work, AfterSeal
      <3>3. CASE work[p].round = 2
        BY <2>1, <3>3 DEF Finishing, Work, AfterSeal
      <3>4. CASE work[p].round = 3
        BY <2>1, <3>4 DEF Finishing, Work, AfterSeal
      <3> QED
        BY <3>1, <3>2, <3>3, <3>4
    <2>3. work' = [work EXCEPT ![p] = [work[p] EXCEPT !.step = AfterSeal[work[p].round]]]
      BY <1>9 DEF CheckSeal, Goto
    <2> QED
      BY <1>9, <2>2, <2>3, TypeWork DEF CheckSeal, ReadOnly
  <1>10. CASE CheckContext(p)
    <2>1. work[p] \in Finishing({"context"}, {1})
      BY <1>10, FinishingWork DEF CheckContext, At
    <2>2. [work[p] EXCEPT !.step = "live"] \in Work
      BY <2>1 DEF Finishing, Work
    <2>3. work' = [work EXCEPT ![p] = [work[p] EXCEPT !.step = "live"]]
      BY <1>10 DEF CheckContext, Goto
    <2> QED
      BY <1>10, <2>2, <2>3, TypeWork DEF CheckContext, ReadOnly
  <1>11. CASE CheckDecision(p)
    <2>1. work[p] \in Finishing({"decide"}, {2})
      BY <1>11, FinishingWork DEF CheckDecision, At
    <2>2. [work[p] EXCEPT !.step = "live"] \in Work
      BY <2>1 DEF Finishing, Work
    <2>3. work' = [work EXCEPT ![p] = [work[p] EXCEPT !.step = "live"]]
      BY <1>11 DEF CheckDecision, Goto
    <2> QED
      BY <1>11, <2>2, <2>3, TypeWork DEF CheckDecision, ReadOnly
  <1>12. CASE CheckLive(p)
    <2>1. work[p] \in Finishing({"live"}, 1..2)
      BY <1>12, FinishingWork DEF CheckLive, At
    <2>2. /\ work[p].round + 1 \in 1..3
          /\ work[p].commit \in Commits /\ work[p].context \in Context
      BY <2>1 DEF Finishing
    <2>3. [step |-> "sealed", round |-> work[p].round + 1, commit |-> work[p].commit,
           context |-> work[p].context] \in Work
      BY <2>2 DEF Finishing, Work
    <2> QED
      BY <1>12, <2>3, TypeLiveCheck DEF CheckLive
  <1>13. CASE CommitFinal(p)
    BY <1>13 DEF CommitFinal, Finish, GateTypeOK
  <1>14. ASSUME NEW commit \in handles, NEW context \in PresentableContexts,
                \/ BeginFinal(p, commit, context)
                \/ \E report \in Reports : BeginRecord(p, commit, context, report)
         PROVE  GateTypeOK'
    <2>1. commit \in Commits /\ context \in Context
      BY PresentedContexts DEF GateTypeOK
    <2>2. CASE BeginFinal(p, commit, context)
      <3>1. [step |-> "sealed", round |-> 1, commit |-> commit, context |-> context] \in Work
        BY <2>1 DEF Work, Finishing
      <3> QED
        BY <2>2, <3>1, TypeLiveCheck DEF BeginFinal
    <2>3. ASSUME NEW report \in Reports, BeginRecord(p, commit, context, report)
          PROVE  GateTypeOK'
      <3>1. [step |-> "bind", commit |-> commit, context |-> context, report |-> report] \in Work
        BY <2>1, CandidateAssumption DEF Work, Recording
      <3> QED
        BY <2>3, <3>1, TypeLiveCheck DEF BeginRecord
    <2> QED
      BY <1>14, <2>2, <2>3
  <1> QED
    BY <1>1, <1>2, <1>3, <1>4, <1>5, <1>6, <1>7, <1>8, <1>9, <1>10, <1>11, <1>12, <1>13, <1>14
       DEF ProcessStep

\* Every step keeps the variables and the memory of the processes typed.
LEMMA TypeNext == GateTypeOK /\ [GateNext]_vars => GateTypeOK'
  <1> SUFFICES ASSUME GateTypeOK, [GateNext]_vars PROVE GateTypeOK'
    OBVIOUS
  <1>1. ASSUME NEW p \in Processes, ProcessStep(p) PROVE GateTypeOK'
    BY <1>1, TypeProcess
  <1>2. ASSUME NEW c \in Commits, CommitInWorktree(c) PROVE GateTypeOK'
    BY <1>2 DEF CommitInWorktree, GateTypeOK
  <1>3. CASE EditWorktree
    BY <1>3 DEF EditWorktree, GateTypeOK
  <1>4. ASSUME NEW l \in Lineages, ReviewDependencies(l) PROVE GateTypeOK'
    BY <1>4 DEF ReviewDependencies, GateTypeOK
  <1>5. ASSUME NEW c \in Commits, NEW policy \in Policies, AcceptGraph(c, policy)
        PROVE  GateTypeOK'
    <2>1. GraphVersion \in 0..MaxGraph /\ GraphVersion + 1 \in 1..MaxGraph
      BY <1>5, CandidateAssumption DEF AcceptGraph, GateTypeOK, Graph, GraphVersion
    <2>2. graph' \in Graph
      BY <1>5, <2>1 DEF AcceptGraph, GateTypeOK, Graph
    <2> QED
      BY <1>5, <2>2 DEF AcceptGraph, GateTypeOK
  <1>6. CASE UNCHANGED vars
    BY <1>6 DEF vars, gateVars, GateTypeOK
  <1> QED
    BY <1>1, <1>2, <1>3, <1>4, <1>5, <1>6 DEF GateNext, Environment

(* Every reachable candidate is well typed, and so is what a process       *)
(* remembers between the steps of sealing, recording and handing over.     *)
THEOREM GateTypes == GateSpec => []GateTypeOK
  BY TypeInit, TypeNext, PTL DEF GateSpec

-----------------------------------------------------------------------------
(* Steps that leave the four tables alone. *)
LEMMA EvidenceUntouched ==
  ASSUME UNCHANGED EvidenceVars
  PROVE  /\ EvidenceBelongsToSeal => EvidenceBelongsToSeal'
         /\ EvidenceSharesContext => EvidenceSharesContext'
  BY DEF EvidenceVars, EvidenceBelongsToSeal, EvidenceSharesContext

(* Only four actions touch them. *)
LEMMA WritersOfEvidence ==
  ASSUME [GateNext]_vars
  PROVE  \/ UNCHANGED EvidenceVars
         \/ \E p \in Processes : \/ Invalidate(p) \/ CommitSeal(p)
                                 \/ BindEvidence(p) \/ RecordEvidence(p)
  <1> SUFFICES ASSUME GateNext PROVE UNCHANGED EvidenceVars
                 \/ \E p \in Processes : \/ Invalidate(p) \/ CommitSeal(p)
                                         \/ BindEvidence(p) \/ RecordEvidence(p)
    BY DEF vars, gateVars, EvidenceVars
  <1>1. CASE Environment
    BY <1>1 DEF Environment, CommitInWorktree, EditWorktree, ReviewDependencies, AcceptGraph,
                EvidenceVars
  <1>2. ASSUME NEW p \in Processes, ProcessStep(p),
               ~(Invalidate(p) \/ CommitSeal(p) \/ BindEvidence(p) \/ RecordEvidence(p))
        PROVE  UNCHANGED EvidenceVars
    <2>1. Lease(p) => UNCHANGED EvidenceVars
      BY DEF Lease, gateVars, EvidenceVars
    <2>2. Abandon(p) \/ MoveTask(p) \/ CommitFinal(p) => UNCHANGED EvidenceVars
      BY DEF Abandon, MoveTask, CommitFinal, EvidenceVars
    <2>3. CheckSeal(p) \/ CheckContext(p) \/ CheckDecision(p) => UNCHANGED EvidenceVars
      BY DEF CheckSeal, CheckContext, CheckDecision, ReadOnly, EvidenceVars
    <2>4. ASSUME NEW commit, NEW then, LiveCheck(p, commit, then) PROVE UNCHANGED EvidenceVars
      BY <2>4 DEF LiveCheck, ReadOnly, EvidenceVars
    <2>5. BeginSeal(p) \/ CheckLive(p) => UNCHANGED EvidenceVars
      BY <2>4 DEF BeginSeal, CheckLive
    <2>6. ASSUME NEW commit \in handles, NEW context \in PresentableContexts,
                 \/ BeginFinal(p, commit, context)
                 \/ \E report \in Reports : BeginRecord(p, commit, context, report)
          PROVE  UNCHANGED EvidenceVars
      BY <2>4, <2>6 DEF BeginFinal, BeginRecord
    <2> QED
      BY <1>2, <2>1, <2>2, <2>3, <2>5, <2>6 DEF ProcessStep
  <1> QED
    BY <1>1, <1>2 DEF GateNext

(* What the transaction of record_gate_evidence leaves in the tables. *)
Outcome(commit, context, report) ==
    /\ seal = commit /\ seal' = seal
    /\ \/ /\ contexts[commit] = None \/ contexts[commit].presented # context
          /\ contexts' = [contexts EXCEPT ![commit] =
                             [presented |-> context, lineage |-> lineage]]
          /\ \/ /\ contexts[commit] = None
                /\ rows' = Recorded(rows, commit, context, report)
                /\ bound' = bound \cup {<<commit, report.fingerprint>>}
             \/ /\ rows' = Recorded(OtherRows(commit), commit, context, report)
                /\ bound' = OtherBound(commit) \cup {<<commit, report.fingerprint>>}
       \/ /\ contexts[commit] # None /\ contexts[commit].presented = context
          /\ contexts' = contexts
          /\ \/ /\ rows' = Recorded(rows, commit, context, report)
                /\ bound' = bound \cup {<<commit, report.fingerprint>>}
             \/ rows' = OtherRows(commit) /\ bound' = OtherBound(commit)

\* What recording an observation leaves of the evidence.
LEMMA RecordOutcome ==
  ASSUME GateTypeOK, NEW p \in Processes, RecordEvidence(p)
  PROVE  \E commit \in Commits, context \in Context, report \in Report :
            Outcome(commit, context, report)
  <1>1. work[p] \in Work /\ work[p].step = "record"
    BY DEF RecordEvidence, At, GateTypeOK
  <1>2. work[p].commit \in Commits /\ work[p].context \in Context /\ work[p].report \in Report
    BY <1>1, RecordingWork
  <1>3. Outcome(work[p].commit, work[p].context, work[p].report)
    BY DEF RecordEvidence, Outcome
  <1> QED
    BY <1>2, <1>3

(* Evidence stays with its candidate: although record_gate_evidence and    *)
(* bind_candidate_evidence look at the worktree long before they write,    *)
(* every row belongs to the commit that is sealed.                         *)
THEOREM EvidenceStaysWithSeal == GateSpec => []EvidenceBelongsToSeal
  <1>1. GateInit => EvidenceBelongsToSeal
    BY DEF GateInit, EvidenceBelongsToSeal
  <1>2. ASSUME GateTypeOK, EvidenceBelongsToSeal, [GateNext]_vars
        PROVE  EvidenceBelongsToSeal'
    <2>1. ASSUME NEW p \in Processes, Invalidate(p) PROVE EvidenceBelongsToSeal'
      BY <2>1 DEF Invalidate, EvidenceBelongsToSeal
    <2>2. ASSUME NEW p \in Processes, CommitSeal(p) PROVE EvidenceBelongsToSeal'
      <3>1. CASE seal = None
        <4>1. \A b \in bound : b[1] \in Commits
          BY <1>2 DEF GateTypeOK
        <4>2. \A r \in rows : r.commit \in Commits
          BY <1>2 DEF GateTypeOK, Row
        <4>3. bound = {} /\ rows = {}
          BY <1>2, <3>1, <4>1, <4>2, NoRowAssumption DEF EvidenceBelongsToSeal
        <4>4. \A c \in Commits : contexts[c] = None
          BY <1>2, <3>1, NoRowAssumption DEF EvidenceBelongsToSeal
        <4> QED
          BY <2>2, <3>1, <4>3, <4>4 DEF CommitSeal, EvidenceBelongsToSeal
      <3>2. CASE seal = work[p].commit
        BY <1>2, <2>2, <3>2 DEF CommitSeal, EvidenceBelongsToSeal
      <3>3. CASE seal \notin {None, work[p].commit}
        BY <2>2, <3>3 DEF CommitSeal, EvidenceBelongsToSeal
      <3> QED
        BY <3>1, <3>2, <3>3
    <2>3. ASSUME NEW p \in Processes, BindEvidence(p) PROVE EvidenceBelongsToSeal'
      BY <1>2, <2>3 DEF BindEvidence, EvidenceBelongsToSeal
    <2>4. ASSUME NEW p \in Processes, RecordEvidence(p) PROVE EvidenceBelongsToSeal'
      <3>1. PICK commit \in Commits, context \in Context, report \in Report :
               Outcome(commit, context, report)
        BY <1>2, <2>4, RecordOutcome
      <3>2. OtherRows(commit) = {} /\ OtherBound(commit) = {}
        BY <1>2, <3>1 DEF Outcome, OtherRows, OtherBound, EvidenceBelongsToSeal
      <3>3. rows \subseteq Row /\ {} \subseteq Row
        BY <1>2 DEF GateTypeOK
      <3>4. \A c \in Commits : contexts'[c] # None => c = seal'
        BY <1>2, <3>1 DEF Outcome, EvidenceBelongsToSeal, GateTypeOK
      <3>5. CASE /\ rows' = Recorded(rows, commit, context, report)
                 /\ bound' = bound \cup {<<commit, report.fingerprint>>}
        <4>1. ASSUME NEW r \in rows'
              PROVE  r.commit = seal /\ <<r.commit, r.report.fingerprint>> \in bound'
          BY <1>2, <3>1, <3>3, <3>5, <4>1, RecordedRows DEF Outcome, EvidenceBelongsToSeal
        <4> QED
          BY <1>2, <3>1, <3>4, <3>5, <4>1 DEF Outcome, EvidenceBelongsToSeal
      <3>6. CASE /\ rows' = Recorded({}, commit, context, report)
                 /\ bound' = {} \cup {<<commit, report.fingerprint>>}
        <4>1. ASSUME NEW r \in rows'
              PROVE  r.commit = seal /\ <<r.commit, r.report.fingerprint>> \in bound'
          BY <1>2, <3>1, <3>3, <3>6, <4>1, RecordedRows DEF Outcome
        <4> QED
          BY <3>1, <3>4, <3>6, <4>1 DEF Outcome, EvidenceBelongsToSeal
      <3>7. CASE rows' = {} /\ bound' = {}
        BY <3>4, <3>7 DEF EvidenceBelongsToSeal
      <3> QED
        BY <3>1, <3>2, <3>5, <3>6, <3>7 DEF Outcome
    <2> QED
      BY <1>2, <2>1, <2>2, <2>3, <2>4, WritersOfEvidence, EvidenceUntouched
  <1> QED
    BY <1>1, <1>2, GateTypes, PTL DEF GateSpec

(* All gate rows share the stored context: a PASS that                     *)
(* transition_ready_for_owner relies on is never put together from         *)
(* evidence recorded under another policy, source count or graph.          *)
THEOREM EvidenceKeepsContext == GateSpec => []EvidenceSharesContext
  <1>1. GateInit => EvidenceSharesContext
    BY DEF GateInit, EvidenceSharesContext
  <1>2. ASSUME GateTypeOK, EvidenceSharesContext, [GateNext]_vars
        PROVE  EvidenceSharesContext'
    <2>1. ASSUME NEW p \in Processes, Invalidate(p) PROVE EvidenceSharesContext'
      BY <2>1 DEF Invalidate, EvidenceSharesContext
    <2>2. ASSUME NEW p \in Processes, CommitSeal(p) PROVE EvidenceSharesContext'
      BY <1>2, <2>2 DEF CommitSeal, EvidenceSharesContext
    <2>3. ASSUME NEW p \in Processes, BindEvidence(p) PROVE EvidenceSharesContext'
      BY <1>2, <2>3 DEF BindEvidence, EvidenceSharesContext
    <2>4. ASSUME NEW p \in Processes, RecordEvidence(p) PROVE EvidenceSharesContext'
      <3>1. PICK commit \in Commits, context \in Context, report \in Report :
               Outcome(commit, context, report)
        BY <1>2, <2>4, RecordOutcome
      <3>2. \A r \in rows : r.commit \in Commits
        BY <1>2 DEF GateTypeOK, Row
      <3>3. rows \in SUBSET Row /\ OtherRows(commit) \in SUBSET Row
        BY <1>2 DEF GateTypeOK, OtherRows
      <3>4. CASE /\ contexts[commit] = None \/ contexts[commit].presented # context
                 /\ contexts' = [contexts EXCEPT ![commit] =
                                    [presented |-> context, lineage |-> lineage]]
        <4>1. /\ contexts'[commit] = [presented |-> context, lineage |-> lineage]
              /\ \A c \in Commits \ {commit} : contexts'[c] = contexts[c]
          BY <1>2, <3>4 DEF GateTypeOK
        <4>2. contexts'[commit] # None /\ contexts'[commit].presented = context
          BY <1>2, <4>1, NoRowAssumption DEF GateTypeOK, ContextRow
        <4>3. contexts[commit] = None => OtherRows(commit) = rows
          BY <1>2 DEF OtherRows, EvidenceSharesContext
        <4>4. rows' = Recorded(OtherRows(commit), commit, context, report)
          BY <3>1, <3>4, <4>3 DEF Outcome
        <4>5. ASSUME NEW k \in OtherRows(commit)
              PROVE  contexts'[k.commit] # None /\ contexts'[k.commit].presented = k.under
          BY <1>2, <3>2, <4>1, <4>5 DEF OtherRows, EvidenceSharesContext
        <4>6. ASSUME NEW r \in rows'
              PROVE  contexts'[r.commit] # None /\ contexts'[r.commit].presented = r.under
          BY <3>3, <4>2, <4>4, <4>5, <4>6, RecordedRows
        <4> QED
          BY <4>6 DEF EvidenceSharesContext
      <3>5. CASE /\ contexts[commit] # None /\ contexts[commit].presented = context
                 /\ contexts' = contexts
        <4>1. ASSUME NEW r \in rows'
              PROVE  contexts[r.commit] # None /\ contexts[r.commit].presented = r.under
          <5>1. CASE rows' = Recorded(rows, commit, context, report)
            BY <1>2, <3>3, <3>5, <4>1, <5>1, RecordedRows DEF EvidenceSharesContext
          <5>2. CASE rows' = OtherRows(commit)
            BY <1>2, <4>1, <5>2 DEF OtherRows, EvidenceSharesContext
          <5> QED
            BY <3>1, <3>5, <5>1, <5>2 DEF Outcome
        <4> QED
          BY <3>5, <4>1 DEF EvidenceSharesContext
      <3> QED
        BY <3>1, <3>4, <3>5 DEF Outcome
    <2> QED
      BY <1>2, <2>1, <2>2, <2>3, <2>4, WritersOfEvidence, EvidenceUntouched
  <1> QED
    BY <1>1, <1>2, GateTypes, PTL DEF GateSpec

-----------------------------------------------------------------------------
(* Every ticket is of an epoch of its owner. *)
TicketsInv ==
    /\ epoch \in Nat
    /\ ticket \in [Processes -> 0..epoch]
    /\ \A p \in Processes : ticket[p] > 0 => epochOwner[ticket[p]] = OwnerOf[p]

(* What p has checked and still holds, if its lease is the current one. *)
CheckedSeal(w) == \/ w.step \in {"context", "decide", "live", "commit"}
                  \/ w.step = "sealed" /\ w.round > 1
CheckedContext(w) == CheckedSeal(w) /\ w.step # "context"

(* While p's ticket is the last one, what it checked is what is recorded. *)
ValidatedInv ==
    \A p \in Processes : ticket[p] = epoch =>
        /\ CheckedSeal(work[p]) => seal = work[p].commit
        /\ CheckedContext(work[p]) => /\ contexts[work[p].commit] # None
                                      /\ contexts[work[p].commit].presented = work[p].context

(* The lease as every process has it, whatever the process is doing. *)
LEMMA LeaseSteps ==
  ASSUME [GateNext]_vars
  PROVE  \/ \E p \in Processes : Ready(p) /\ (Take(p) \/ Share(p) \/ Drop(p)) /\ UNCHANGED gateVars
         \/ UNCHANGED <<epoch, epochOwner, ticket>>
  <1>1. CASE Environment
    BY <1>1 DEF Environment, CommitInWorktree, EditWorktree, ReviewDependencies, AcceptGraph,
                fencedVars
  <1>2. ASSUME NEW p \in Processes, ProcessStep(p), ~Lease(p)
        PROVE  UNCHANGED <<epoch, epochOwner, ticket>>
    <2>1. ASSUME NEW commit, NEW then, LiveCheck(p, commit, then)
          PROVE  UNCHANGED <<epoch, epochOwner, ticket>>
      BY <2>1 DEF LiveCheck, ReadOnly, fencedVars
    <2>2. MoveTask(p) \/ Invalidate(p) \/ CommitSeal(p) \/ BindEvidence(p) \/ RecordEvidence(p)
             \/ CommitFinal(p)
          => UNCHANGED <<epoch, epochOwner, ticket>>
      BY DEF MoveTask, Invalidate, CommitSeal, BindEvidence, RecordEvidence, CommitFinal,
             FencedCommit
    <2>3. Abandon(p) \/ CheckSeal(p) \/ CheckContext(p) \/ CheckDecision(p)
          => UNCHANGED <<epoch, epochOwner, ticket>>
      BY DEF Abandon, CheckSeal, CheckContext, CheckDecision, ReadOnly, fencedVars
    <2>4. BeginSeal(p) \/ CheckLive(p) => UNCHANGED <<epoch, epochOwner, ticket>>
      BY <2>1 DEF BeginSeal, CheckLive
    <2>5. ASSUME NEW commit \in handles, NEW context \in PresentableContexts,
                 \/ BeginFinal(p, commit, context)
                 \/ \E report \in Reports : BeginRecord(p, commit, context, report)
          PROVE  UNCHANGED <<epoch, epochOwner, ticket>>
      BY <2>1, <2>5 DEF BeginFinal, BeginRecord
    <2> QED
      BY <1>2, <2>2, <2>3, <2>4, <2>5 DEF ProcessStep
  <1>3. CASE UNCHANGED vars
    BY <1>3 DEF vars, fencedVars
  <1> QED
    BY <1>1, <1>2, <1>3 DEF GateNext, Lease

\* Every step keeps what the tickets say of their processes.
LEMMA TicketsStep == TicketsInv /\ [GateNext]_vars => TicketsInv'
  <1> SUFFICES ASSUME TicketsInv, [GateNext]_vars PROVE TicketsInv'
    OBVIOUS
  <1>1. ASSUME NEW p \in Processes, Take(p) PROVE TicketsInv'
    <2>1. epoch' \in Nat /\ epoch' = epoch + 1 /\ ticket' \in [Processes -> 0..epoch']
      BY <1>1 DEF Take, TicketsInv
    <2>2. ASSUME NEW q \in Processes, ticket'[q] > 0 PROVE epochOwner'[ticket'[q]] = OwnerOf[q]
      <3>1. \A n \in 1..(epoch + 1) :
               epochOwner'[n] = IF n = epoch + 1 THEN OwnerOf[p] ELSE epochOwner[n]
        BY <1>1 DEF Take
      <3>2. CASE q = p
        BY <1>1, <2>1, <3>1, <3>2 DEF Take, TicketsInv
      <3>3. CASE q # p
        <4>1. ticket'[q] = ticket[q] /\ ticket[q] \in 1..epoch
          BY <1>1, <2>2, <3>3 DEF Take, TicketsInv
        <4>2. ticket[q] \in 1..(epoch + 1) /\ ticket[q] # epoch + 1
          BY <4>1 DEF TicketsInv
        <4> QED
          BY <3>1, <4>1, <4>2, <2>2 DEF TicketsInv
      <3> QED
        BY <3>2, <3>3
    <2> QED
      BY <2>1, <2>2 DEF TicketsInv
  <1>2. ASSUME NEW p \in Processes, Share(p) PROVE TicketsInv'
    BY <1>2 DEF Share, TicketsInv
  <1>3. ASSUME NEW p \in Processes, Drop(p) PROVE TicketsInv'
    BY <1>3 DEF Drop, TicketsInv
  <1>4. UNCHANGED <<epoch, epochOwner, ticket>> => TicketsInv'
    BY DEF TicketsInv
  <1> QED
    BY <1>1, <1>2, <1>3, <1>4, LeaseSteps

(* Whoever writes a seal or a context holds the only current ticket. *)
LEMMA LoneHolder ==
  ASSUME \A p, q \in Processes : OwnerOf[p] = OwnerOf[q] => p = q, TicketsInv,
         NEW p \in Processes, NEW q \in Processes, ticket[p] = epoch, FencedCommit(q)
  PROVE  p = q
  BY DEF FencedCommit, TicketsInv

(* A step at which q leaves the tables of the candidate alone: what the    *)
(* others have checked stays checked; q itself is looked at separately.    *)
LEMMA OthersStayValidated ==
  ASSUME ValidatedInv, NEW q \in Processes, NEW w, GateTypeOK,
         work' = [work EXCEPT ![q] = w],
         UNCHANGED <<epoch, ticket, seal, contexts>>,
         ticket[q] = epoch =>
            /\ CheckedSeal(w) => seal = w.commit
            /\ CheckedContext(w) => contexts[w.commit] # None /\ contexts[w.commit].presented = w.context
  PROVE  ValidatedInv'
  BY DEF ValidatedInv, CheckedSeal, CheckedContext, GateTypeOK


(* The step of a live check starts an operation or goes on with it. *)
LEMMA LiveCheckKeepsValidated ==
  ASSUME GateTypeOK, ValidatedInv, NEW q \in Processes, NEW commit, NEW then,
         LiveCheck(q, commit, then),
         \/ ~CheckedSeal(then)
         \/ /\ CheckedContext(work[q])
            /\ then.commit = work[q].commit /\ then.context = work[q].context
  PROVE  ValidatedInv'
  <1> DEFINE w == IF fit /\ head = commit THEN then ELSE [step |-> "invalidate"]
  <1>1. work' = [work EXCEPT ![q] = w] /\ UNCHANGED <<epoch, ticket, seal, contexts>>
    BY DEF LiveCheck, ReadOnly, fencedVars
  <1>2. CheckedSeal(w) => w = then /\ CheckedContext(work[q]) /\ CheckedSeal(work[q])
                          /\ then.commit = work[q].commit /\ then.context = work[q].context
    BY DEF CheckedSeal, CheckedContext
  <1>3. ticket[q] = epoch =>
            /\ CheckedSeal(w) => seal = w.commit
            /\ CheckedContext(w) => contexts[w.commit] # None /\ contexts[w.commit].presented = w.context
    BY <1>2 DEF ValidatedInv, CheckedContext
  <1> HIDE DEF w
  <1> QED
    BY <1>1, <1>3, OthersStayValidated

(* A transaction of q that ends its operation or goes on recording: the    *)
(* other processes do not hold the lease.                                  *)
LEMMA CommitKeepsValidated ==
  ASSUME \A p, q \in Processes : OwnerOf[p] = OwnerOf[q] => p = q,
         GateTypeOK, TicketsInv, NEW q \in Processes, NEW w,
         FencedCommit(q), work' = [work EXCEPT ![q] = w], ~CheckedSeal(w)
  PROVE  ValidatedInv'
  <1> SUFFICES ASSUME NEW p \in Processes, ticket'[p] = epoch'
               PROVE  ~CheckedSeal(work[p])'
    BY DEF ValidatedInv, CheckedContext
  <1>1. ticket[p] = epoch
    BY DEF FencedCommit
  <1>2. p = q
    BY <1>1, LoneHolder
  <1>3. work'[q] = w
    BY DEF GateTypeOK
  <1> QED
    BY <1>2, <1>3 DEF CheckedSeal

(* Every step keeps what a holder of the lease has checked. *)
LEMMA ValidatedStep ==
  ASSUME \A p, q \in Processes : OwnerOf[p] = OwnerOf[q] => p = q,
         GateTypeOK, TicketsInv, ValidatedInv, [GateNext]_vars
  PROVE  ValidatedInv'
  <1>0. UNCHANGED <<epoch, ticket, seal, contexts, work>> => ValidatedInv'
    BY DEF ValidatedInv, CheckedSeal, CheckedContext
  <1>1. CASE Environment
    <2>1. UNCHANGED <<epoch, ticket, seal, contexts, work>>
      BY <1>1 DEF Environment, CommitInWorktree, EditWorktree, ReviewDependencies, AcceptGraph,
                  fencedVars
    <2> QED
      BY <1>0, <2>1
  <1>2. ASSUME NEW q \in Processes, ProcessStep(q) PROVE ValidatedInv'
    <2> ~CheckedSeal(Idle) /\ work[q] \in Work
      BY DEF CheckedSeal, Idle, GateTypeOK
    <2>1. CASE Lease(q)
      <3>1. /\ UNCHANGED <<seal, contexts, work>>
            /\ ~CheckedSeal(work[q])
        BY <2>1 DEF Lease, Ready, gateVars
      <3>2. ASSUME NEW p \in Processes, p # q, ticket'[p] = epoch' PROVE ticket[p] = epoch
        BY <2>1, <3>2 DEF Lease, Take, Share, Drop, TicketsInv
      <3>3. ASSUME NEW p \in Processes, ticket'[p] = epoch', CheckedSeal(work[p])
            PROVE  p # q /\ ticket[p] = epoch
        BY <3>1, <3>2, <3>3
      <3> QED
        BY <3>1, <3>3 DEF ValidatedInv, CheckedSeal, CheckedContext
    <2>2. CASE Abandon(q)
      BY <2>2, OthersStayValidated DEF Abandon, Finish, fencedVars, CheckedContext
    <2>3. CASE MoveTask(q)
      BY <2>3, <1>0 DEF MoveTask, FencedCommit
    <2>4. CASE Invalidate(q) \/ CommitSeal(q) \/ RecordEvidence(q) \/ CommitFinal(q)
      BY <2>4, CommitKeepsValidated DEF Invalidate, CommitSeal, RecordEvidence, CommitFinal, Finish
    <2>5. CASE BindEvidence(q)
      <3> DEFINE w == [work[q] EXCEPT !.step = "record"]
      <3>1. work[q] \in Recording
        BY <2>5, RecordingWork DEF BindEvidence, At
      <3>2. w.step = "record"
        BY <3>1 DEF Recording
      <3>3. work' = [work EXCEPT ![q] = w] /\ FencedCommit(q)
        BY <2>5 DEF BindEvidence, Goto
      <3> HIDE DEF w
      <3> QED
        BY <3>2, <3>3, CommitKeepsValidated DEF CheckedSeal
    <2>6. CASE BeginSeal(q)
      BY <2>6, LiveCheckKeepsValidated DEF BeginSeal, CheckedSeal
    <2>7. CASE CheckSeal(q)
      <3> DEFINE w == [work[q] EXCEPT !.step = AfterSeal[work[q].round]]
      <3>1. work[q] \in Finishing({"sealed"}, 1..3)
        BY <2>7, FinishingWork DEF CheckSeal, At
      <3>2. w.commit = work[q].commit /\ w.context = work[q].context
            /\ w.step = AfterSeal[work[q].round] /\ work[q].step = "sealed"
            /\ work[q].round \in 1..3
        BY <3>1 DEF Finishing
      <3>3. work[q].round = 1 => w.step = "context"
        BY <3>2 DEF AfterSeal
      <3>4. CheckedContext(w) => CheckedContext(work[q])
        BY <3>2, <3>3 DEF CheckedContext, CheckedSeal
      <3>5. work' = [work EXCEPT ![q] = w] /\ seal = work[q].commit
            /\ UNCHANGED <<epoch, ticket, seal, contexts>>
        BY <2>7 DEF CheckSeal, Goto, ReadOnly, fencedVars
      <3> HIDE DEF w
      <3> QED
        BY <3>2, <3>4, <3>5, OthersStayValidated DEF ValidatedInv
    <2>8. CASE CheckContext(q)
      <3> DEFINE w == [work[q] EXCEPT !.step = "live"]
      <3>1. work[q] \in Finishing({"context"}, {1})
        BY <2>8, FinishingWork DEF CheckContext, At
      <3>2. w.commit = work[q].commit /\ w.context = work[q].context /\ work[q].step = "context"
        BY <3>1 DEF Finishing
      <3>3. ticket[q] = epoch => seal = work[q].commit
        BY <3>2 DEF ValidatedInv, CheckedSeal
      <3>4. /\ work' = [work EXCEPT ![q] = w]
            /\ contexts[work[q].commit] # None
            /\ contexts[work[q].commit].presented = work[q].context
            /\ UNCHANGED <<epoch, ticket, seal, contexts>>
        BY <2>8 DEF CheckContext, Goto, ReadOnly, fencedVars
      <3> HIDE DEF w
      <3> QED
        BY <3>2, <3>3, <3>4, OthersStayValidated
    <2>9. CASE CheckDecision(q)
      <3> DEFINE w == [work[q] EXCEPT !.step = "live"]
      <3>1. work[q] \in Finishing({"decide"}, {2})
        BY <2>9, FinishingWork DEF CheckDecision, At
      <3>2. w.commit = work[q].commit /\ w.context = work[q].context /\ work[q].step = "decide"
        BY <3>1 DEF Finishing
      <3>3. CheckedSeal(work[q]) /\ CheckedContext(work[q])
        BY <3>2 DEF CheckedSeal, CheckedContext
      <3>4. work' = [work EXCEPT ![q] = w] /\ UNCHANGED <<epoch, ticket, seal, contexts>>
        BY <2>9 DEF CheckDecision, Goto, ReadOnly, fencedVars
      <3> HIDE DEF w
      <3> QED
        BY <3>2, <3>3, <3>4, OthersStayValidated DEF ValidatedInv
    <2>10. CASE CheckLive(q)
      <3>1. CheckedContext(work[q])
        BY <2>10 DEF CheckLive, At, CheckedContext, CheckedSeal
      <3> QED
        BY <2>10, <3>1, LiveCheckKeepsValidated DEF CheckLive
    <2>11. ASSUME NEW commit \in handles, NEW context \in PresentableContexts,
                  \/ BeginFinal(q, commit, context)
                  \/ \E report \in Reports : BeginRecord(q, commit, context, report)
           PROVE  ValidatedInv'
      <3>1. CASE BeginFinal(q, commit, context)
        BY <3>1, LiveCheckKeepsValidated DEF BeginFinal, CheckedSeal
      <3>2. ASSUME NEW report \in Reports, BeginRecord(q, commit, context, report)
            PROVE  ValidatedInv'
        BY <3>2, LiveCheckKeepsValidated DEF BeginRecord, CheckedSeal
      <3> QED
        BY <2>11, <3>1, <3>2
    <2> QED
      BY <1>2, <2>1, <2>2, <2>3, <2>4, <2>5, <2>6, <2>7, <2>8, <2>9, <2>10, <2>11 DEF ProcessStep
  <1>3. CASE UNCHANGED vars
    BY <1>0, <1>3 DEF vars, fencedVars, gateVars
  <1> QED
    BY <1>1, <1>2, <1>3 DEF GateNext

(* The hand-over is the one its caller validated: for any number of        *)
(* processes with owner tokens of their own, transition_ready_for_owner    *)
(* commits for the candidate and the context it compared two transactions  *)
(* earlier, although the committing one compares neither.                  *)
THEOREM HandoffIsValidated ==
  ASSUME \A p, q \in Processes : OwnerOf[p] = OwnerOf[q] => p = q
  PROVE  GateSpec => []HandoffIsWhatWasValidated
  <1> DEFINE Inv == GateTypeOK /\ TicketsInv /\ ValidatedInv /\ HandoffIsWhatWasValidated
  <1>1. GateInit => Inv
    <2> SUFFICES ASSUME GateInit PROVE Inv
      OBVIOUS
    <2>1. TicketsInv
      BY DEF GateInit, FencedInit, TicketsInv
    <2>2. ValidatedInv
      BY DEF GateInit, ValidatedInv, CheckedContext, CheckedSeal, Idle
    <2>3. HandoffIsWhatWasValidated
      BY DEF GateInit, HandoffIsWhatWasValidated
    <2> QED
      BY <2>1, <2>2, <2>3, TypeInit
  <1>2. Inv /\ [GateNext]_vars => Inv'
    <2> SUFFICES ASSUME Inv, [GateNext]_vars PROVE Inv'
      OBVIOUS
    <2>1. GateTypeOK' /\ TicketsInv' /\ ValidatedInv'
      BY TypeNext, TicketsStep, ValidatedStep
    <2>2. ASSUME NEW p \in Processes, CommitFinal(p) PROVE HandoffIsWhatWasValidated'
      <3>1. ticket[p] = epoch /\ CheckedSeal(work[p]) /\ CheckedContext(work[p])
        BY <2>2 DEF CommitFinal, At, FencedCommit, CheckedSeal, CheckedContext
      <3>2. seal = work[p].commit /\ contexts[seal].presented = work[p].context
        BY <3>1 DEF ValidatedInv
      <3> QED
        BY <2>2, <3>2 DEF CommitFinal, HandoffIsWhatWasValidated
    <2>3. (\E p \in Processes : CommitFinal(p)) \/ UNCHANGED handoff
      <3>1. Environment => UNCHANGED handoff
        BY DEF Environment, CommitInWorktree, EditWorktree, ReviewDependencies, AcceptGraph
      <3>2. ASSUME NEW p \in Processes, ProcessStep(p), ~CommitFinal(p) PROVE UNCHANGED handoff
        <4>1. ASSUME NEW commit, NEW then, LiveCheck(p, commit, then) PROVE UNCHANGED handoff
          BY <4>1 DEF LiveCheck, ReadOnly
        <4>2. BeginSeal(p) \/ CheckLive(p) => UNCHANGED handoff
          BY <4>1 DEF BeginSeal, CheckLive
        <4>3. ASSUME NEW commit \in handles, NEW context \in PresentableContexts,
                     \/ BeginFinal(p, commit, context)
                     \/ \E report \in Reports : BeginRecord(p, commit, context, report)
              PROVE  UNCHANGED handoff
          BY <4>1, <4>3 DEF BeginFinal, BeginRecord
        <4>4. Lease(p) \/ Abandon(p) \/ MoveTask(p) \/ Invalidate(p) \/ CommitSeal(p)
                 \/ BindEvidence(p) \/ RecordEvidence(p) => UNCHANGED handoff
          BY DEF Lease, gateVars, Abandon, MoveTask, Invalidate, CommitSeal, BindEvidence,
                 RecordEvidence
        <4>5. CheckSeal(p) \/ CheckContext(p) \/ CheckDecision(p) => UNCHANGED handoff
          BY DEF CheckSeal, CheckContext, CheckDecision, ReadOnly
        <4> QED
          BY <3>2, <4>2, <4>3, <4>4, <4>5 DEF ProcessStep
      <3> QED
        BY <3>1, <3>2 DEF GateNext, vars, gateVars
    <2>4. UNCHANGED handoff => HandoffIsWhatWasValidated'
      BY DEF HandoffIsWhatWasValidated
    <2> QED
      BY <2>1, <2>2, <2>3, <2>4
  <1>3. Inv => HandoffIsWhatWasValidated
    OBVIOUS
  <1> QED
    BY <1>1, <1>2, <1>3, PTL DEF GateSpec


-----------------------------------------------------------------------------
(* A row that claims the graph was recorded while the claimed graph was    *)
(* the accepted one; as versions only grow, either it still is, or the     *)
(* version the row's context names has passed for good.                    *)
GraphClaimsInv ==
    \A r \in rows : ClaimsGraph(r.report) =>
        /\ r.report.fingerprint = r.under.graph
        /\ r.under.graph <= GraphVersion
        /\ r.under.graph = GraphVersion =>
              graph = [version |-> r.under.graph, commit |-> r.commit, policy |-> r.under.policy,
                       lineage |-> contexts[r.commit].lineage]

(* What recording a report does to the other rows: nothing, or a conflict. *)
LEMMA RecordedReports ==
  ASSUME NEW kept \in SUBSET Row, NEW commit \in Commits, NEW context \in Context,
         NEW report \in Report, NEW r \in Recorded(kept, commit, context, report)
  PROVE  \/ r = [commit |-> commit, under |-> context, report |-> report]
         \/ r \in kept
         \/ r.report.outcome = "CONFLICT"
  <1> DEFINE same == {k \in kept : k.commit = commit /\ Key(k.report) = Key(report)}
             Marked(k) == IF k.report = report THEN k ELSE [k EXCEPT !.report.outcome = "CONFLICT"]
  <1>1. ASSUME NEW k \in kept PROVE Marked(k) = k \/ Marked(k).report.outcome = "CONFLICT"
    <2>1. k \in Row /\ k.report \in Report
      BY DEF Row
    <2>2. [k EXCEPT !.report.outcome = "CONFLICT"].report = [k.report EXCEPT !.outcome = "CONFLICT"]
      BY <2>1 DEF Row
    <2>3. [k.report EXCEPT !.outcome = "CONFLICT"].outcome = "CONFLICT"
      BY <2>1 DEF Report
    <2> QED
      BY <2>2, <2>3
  <1>2. \/ r = [commit |-> commit, under |-> context, report |-> report]
        \/ r \in kept
        \/ \E k \in same : r = Marked(k)
    BY DEF Recorded
  <1> QED
    BY <1>1, <1>2

(* No row is lost: it stays as it is, or it becomes a conflict. *)
LEMMA RecordedKeeps ==
  ASSUME NEW kept \in SUBSET Row, NEW commit \in Commits, NEW context \in Context,
         NEW report \in Report, NEW k \in kept
  PROVE  \E r \in Recorded(kept, commit, context, report) :
            \/ r = k
            \/ r.report.gate = k.report.gate /\ r.report.outcome = "CONFLICT"
  <1> DEFINE same == {x \in kept : x.commit = commit /\ Key(x.report) = Key(report)}
             Marked(x) == IF x.report = report THEN x ELSE [x EXCEPT !.report.outcome = "CONFLICT"]
             new == [commit |-> commit, under |-> context, report |-> report]
  <1>1. \/ Marked(k) = k
        \/ Marked(k).report.gate = k.report.gate /\ Marked(k).report.outcome = "CONFLICT"
    <2>1. k \in Row /\ k.report \in Report
      BY DEF Row
    <2>2. [k EXCEPT !.report.outcome = "CONFLICT"].report = [k.report EXCEPT !.outcome = "CONFLICT"]
      BY <2>1 DEF Row
    <2>3. /\ [k.report EXCEPT !.outcome = "CONFLICT"].outcome = "CONFLICT"
          /\ [k.report EXCEPT !.outcome = "CONFLICT"].gate = k.report.gate
      BY <2>1 DEF Report
    <2> QED
      BY <2>2, <2>3
  <1>2. Recorded(kept, commit, context, report)
           = IF same = {} THEN kept \cup {new} ELSE (kept \ same) \cup {Marked(x) : x \in same}
    BY DEF Recorded
  <1>3. \/ k \in Recorded(kept, commit, context, report)
        \/ k \in same /\ Marked(k) \in Recorded(kept, commit, context, report)
    BY <1>2
  <1> QED
    BY <1>1, <1>3

(* The rows that count, when every row is bound and of the sealed commit. *)
Counted == {r.report : r \in rows}

\* A gate whose rows all pass is one no row blocks.
LEMMA AllRowsCount ==
  ASSUME EvidenceBelongsToSeal
  PROVE  {r.report : r \in {x \in rows : x.commit = seal /\ <<seal, x.report.fingerprint>> \in bound}}
            = Counted
  BY DEF EvidenceBelongsToSeal, Counted

(* What an answer says about the rows. *)
LEMMA AnswerSays ==
  ASSUME EvidenceBelongsToSeal
  PROVE  /\ GateAnswer = "PASS" =>
              /\ seal # None /\ contexts[seal] # None
              /\ contexts[seal].lineage = lineage
              /\ contexts[seal].presented.sources = SourceCount[lineage]
              /\ DecideGates(contexts[seal].presented, Counted) = "PASS"
              /\ contexts[seal].presented.sources > 1 =>
                    \E r \in Counted : /\ ClaimsGraph(r)
                                       /\ GraphIsCurrent(seal, contexts[seal].presented, r.fingerprint)
         /\ GateAnswer = "BLOCKED" =>
              \/ seal = None \/ contexts[seal] = None
              \/ contexts[seal].lineage # lineage
              \/ contexts[seal].presented.sources # SourceCount[lineage]
              \/ DecideGates(contexts[seal].presented, Counted) = "BLOCKED"
              \/ /\ DecideGates(contexts[seal].presented, Counted) = "PASS"
                 /\ contexts[seal].presented.sources > 1
                 /\ ~\E r \in Counted : /\ ClaimsGraph(r)
                                        /\ GraphIsCurrent(seal, contexts[seal].presented, r.fingerprint)
  BY AllRowsCount DEF GateAnswer

(* More evidence that loses nothing cannot make a blocked gate pass. *)
LEMMA MoreEvidence ==
  ASSUME NEW context, NEW old, NEW new,
         \A e \in old : \E f \in new : f = e \/ (f.gate = e.gate /\ f.outcome = "CONFLICT"),
         DecideGates(context, new) = "PASS"
  PROVE  DecideGates(context, old) # "BLOCKED"
  <1>1. ASSUME NEW g \in Gates
        PROVE  GatePasses(context, g, Entries(old, g)) \/ Entries(old, g) = {}
    <2> SUFFICES ASSUME Entries(old, g) # {} PROVE GatePasses(context, g, Entries(old, g))
      OBVIOUS
    <2>1. GatePasses(context, g, Entries(new, g))
      BY DEF DecideGates
    <2>2. \A f \in Entries(new, g) : f.outcome \in {"PASS", "NOT_APPLICABLE"}
      BY <2>1 DEF GatePasses, Agree
    <2>3. Entries(old, g) \subseteq Entries(new, g)
      BY <2>2 DEF Entries
    <2> QED
      BY <2>1, <2>3 DEF GatePasses, Agree
  <1> QED
    BY <1>1 DEF DecideGates, GateWaits


\* Every step keeps the claims of graphs.
LEMMA GraphClaimsStep ==
  ASSUME GateTypeOK, EvidenceBelongsToSeal, EvidenceSharesContext, GraphClaimsInv, [GateNext]_vars
  PROVE  GraphClaimsInv'
  <1>0. rows \subseteq Row
    BY DEF GateTypeOK
  <1>1. ASSUME NEW c \in Commits, NEW policy \in Policies, AcceptGraph(c, policy)
        PROVE  GraphClaimsInv'
    <2>1. /\ GraphVersion \in 0..MaxGraph /\ GraphVersion + 1 \in 1..MaxGraph
          /\ graph' = [version |-> GraphVersion + 1, commit |-> c, policy |-> policy,
                       lineage |-> lineage]
          /\ UNCHANGED rows
      BY <1>1, CandidateAssumption DEF AcceptGraph, GateTypeOK, Graph, GraphVersion
    <2>2. graph' # None
      BY <2>1, NoRowAssumption DEF Graph, GateTypeOK
    <2>3. GraphVersion' = GraphVersion + 1
      BY <2>1, <2>2 DEF GraphVersion
    <2>4. \A r \in rows : r.under.graph \in Nat
      BY <1>0, CandidateAssumption DEF Row, Context
    <2>5. GraphVersion \in Nat
      BY <2>1, CandidateAssumption
    <2>6. \A r \in rows : ClaimsGraph(r.report) =>
             /\ r.report.fingerprint = r.under.graph
             /\ r.under.graph < GraphVersion'
      BY <2>3, <2>4, <2>5 DEF GraphClaimsInv
    <2>7. GraphVersion' \in Nat
      BY <2>3, <2>5
    <2> QED
      BY <2>1, <2>4, <2>6, <2>7 DEF GraphClaimsInv, ClaimsGraph
  <1>2. ASSUME NEW p \in Processes, Invalidate(p) PROVE GraphClaimsInv'
    BY <1>2 DEF Invalidate, GraphClaimsInv
  <1>3. ASSUME UNCHANGED <<rows, contexts, graph>> PROVE GraphClaimsInv'
    BY <1>3 DEF GraphClaimsInv, ClaimsGraph, GraphVersion
  <1>4. ASSUME NEW p \in Processes, CommitSeal(p) PROVE GraphClaimsInv'
    <2>1. CASE seal \in {None, work[p].commit}
      BY <1>3, <1>4, <2>1 DEF CommitSeal
    <2>2. CASE seal \notin {None, work[p].commit}
      BY <1>4, <2>2 DEF CommitSeal, GraphClaimsInv
    <2> QED
      BY <2>1, <2>2
  <1>5. ASSUME NEW p \in Processes, BindEvidence(p) PROVE GraphClaimsInv'
    BY <1>3, <1>5 DEF BindEvidence
  <1>6. ASSUME NEW p \in Processes, RecordEvidence(p) PROVE GraphClaimsInv'
    <2>1. PICK commit, context, report :
             /\ commit = work[p].commit /\ context = work[p].context /\ report = work[p].report
      OBVIOUS
    <2>2. commit \in Commits /\ context \in Context /\ report \in Report
      BY <1>6, <2>1, RecordingWork DEF RecordEvidence, At, GateTypeOK
    <2>3. seal = commit /\ UNCHANGED <<graph, lineage>>
          /\ (ClaimsGraph(report) => GraphIsCurrent(commit, context, report.fingerprint))
      BY <1>6, <2>1 DEF RecordEvidence
    <2>4. \/ /\ contexts' = [contexts EXCEPT ![commit] = [presented |-> context, lineage |-> lineage]]
             /\ rows' = Recorded({}, commit, context, report)
          \/ /\ contexts' = contexts /\ contexts[commit].lineage = lineage
             /\ rows' = Recorded(rows, commit, context, report)
          \/ contexts' = contexts /\ rows' = {}
      <3>1. OtherRows(commit) = {}
        BY <2>3 DEF OtherRows, EvidenceBelongsToSeal
      <3>2. contexts[commit] = None => rows = {}
        BY <2>3 DEF EvidenceBelongsToSeal, EvidenceSharesContext
      <3> QED
        BY <1>6, <2>1, <3>1, <3>2 DEF RecordEvidence
    <2>5. contexts'[commit].lineage = lineage \/ rows' = {}
      BY <2>2, <2>4 DEF GateTypeOK
    <2> DEFINE new == [commit |-> commit, under |-> context, report |-> report]
    <2>6. \A r \in rows' : ClaimsGraph(r.report) => r = new \/ (r \in rows /\ contexts' = contexts)
      <3>1. \A r \in Recorded(rows, commit, context, report) :
               ClaimsGraph(r.report) => r = new \/ r \in rows
        BY <1>0, <2>2, RecordedReports DEF ClaimsGraph
      <3>2. \A r \in Recorded({}, commit, context, report) :
               ClaimsGraph(r.report) => r = new \/ r \in {}
        BY <2>2, RecordedReports DEF ClaimsGraph
      <3> QED
        BY <2>4, <3>1, <3>2
    <2>7. ASSUME NEW r \in rows', ClaimsGraph(r.report)
          PROVE  /\ r.report.fingerprint = r.under.graph
                 /\ r.under.graph <= GraphVersion
                 /\ r.under.graph = GraphVersion =>
                       graph = [version |-> r.under.graph, commit |-> r.commit,
                                policy |-> r.under.policy, lineage |-> contexts'[r.commit].lineage]
      <3>1. CASE r \in rows /\ contexts' = contexts
        BY <2>7, <3>1 DEF GraphClaimsInv
      <3>2. CASE r = new
        <4>1. /\ graph # None
              /\ graph = [version |-> context.graph, commit |-> commit,
                          policy |-> context.policy, lineage |-> lineage]
              /\ report.fingerprint = graph.version
          BY <2>3, <2>7, <3>2 DEF GraphIsCurrent
        <4>2. GraphVersion = context.graph /\ report.fingerprint = context.graph
          BY <4>1 DEF GraphVersion
        <4>3. context.graph \in Nat
          BY <2>2, CandidateAssumption DEF Context
        <4>4. contexts'[commit].lineage = lineage
          BY <2>5, <2>7
        <4>5. r.commit = commit /\ r.under = context /\ r.report = report
          BY <3>2
        <4> QED
          BY <4>1, <4>2, <4>3, <4>4, <4>5
      <3> QED
        BY <2>6, <2>7, <3>1, <3>2
    <2> QED
      BY <2>3, <2>7 DEF GraphClaimsInv, ClaimsGraph, GraphVersion
  <1>7. (\E c \in Commits, policy \in Policies : AcceptGraph(c, policy)) \/ UNCHANGED graph
    <2>1. CASE Environment
      BY <2>1 DEF Environment, CommitInWorktree, EditWorktree, ReviewDependencies
    <2>2. ASSUME NEW p \in Processes, ProcessStep(p) PROVE UNCHANGED graph
      <3>1. ASSUME NEW commit, NEW then, LiveCheck(p, commit, then) PROVE UNCHANGED graph
        BY <3>1 DEF LiveCheck, ReadOnly
      <3>2. BeginSeal(p) \/ CheckLive(p) => UNCHANGED graph
        BY <3>1 DEF BeginSeal, CheckLive
      <3>3. ASSUME NEW commit \in handles, NEW context \in PresentableContexts,
                   \/ BeginFinal(p, commit, context)
                   \/ \E report \in Reports : BeginRecord(p, commit, context, report)
            PROVE  UNCHANGED graph
        BY <3>1, <3>3 DEF BeginFinal, BeginRecord
      <3>4. Lease(p) \/ Abandon(p) \/ MoveTask(p) \/ Invalidate(p) \/ CommitSeal(p)
               \/ BindEvidence(p) \/ RecordEvidence(p) \/ CommitFinal(p) => UNCHANGED graph
        BY DEF Lease, gateVars, Abandon, MoveTask, Invalidate, CommitSeal, BindEvidence,
               RecordEvidence, CommitFinal
      <3>5. CheckSeal(p) \/ CheckContext(p) \/ CheckDecision(p) => UNCHANGED graph
        BY DEF CheckSeal, CheckContext, CheckDecision, ReadOnly
      <3> QED
        BY <2>2, <3>2, <3>3, <3>4, <3>5 DEF ProcessStep
    <2> QED
      BY <2>1, <2>2 DEF GateNext, vars, gateVars
  <1> QED
    BY <1>1, <1>2, <1>3, <1>4, <1>5, <1>6, <1>7, WritersOfEvidence DEF EvidenceVars

(* A blocked answer that only more evidence could change stays no PASS. *)
LEMMA BlockedStays ==
  ASSUME GateTypeOK, EvidenceBelongsToSeal, EvidenceSharesContext, GraphClaimsInv,
         EvidenceBelongsToSeal', [GateNext]_vars, UNCHANGED <<seal, contexts, lineage, graph>>,
         GateAnswer = "BLOCKED"
  PROVE  GateAnswer' # "PASS"
  <1> SUFFICES ASSUME GateAnswer' = "PASS" PROVE FALSE
    OBVIOUS
  <1> DEFINE context == contexts[seal].presented
  <1>1. /\ seal # None /\ contexts[seal] # None
        /\ contexts[seal].lineage = lineage
        /\ context.sources = SourceCount[lineage]
        /\ DecideGates(context, Counted') = "PASS"
        /\ context.sources > 1 =>
              \E r \in Counted' : ClaimsGraph(r) /\ GraphIsCurrent(seal, context, r.fingerprint)
    <2>1. (EvidenceBelongsToSeal /\ GateAnswer = "PASS" =>
              /\ seal # None /\ contexts[seal] # None
              /\ contexts[seal].lineage = lineage
              /\ contexts[seal].presented.sources = SourceCount[lineage]
              /\ DecideGates(contexts[seal].presented, Counted) = "PASS"
              /\ contexts[seal].presented.sources > 1 =>
                    \E r \in Counted : /\ ClaimsGraph(r)
                                       /\ GraphIsCurrent(seal, contexts[seal].presented, r.fingerprint))'
      BY AnswerSays, PTL
    <2> QED
      BY <2>1 DEF DecideGates, GraphIsCurrent, ClaimsGraph
  <1>2. \/ DecideGates(context, Counted) = "BLOCKED"
        \/ /\ DecideGates(context, Counted) = "PASS"
           /\ context.sources > 1
           /\ ~\E r \in Counted : ClaimsGraph(r) /\ GraphIsCurrent(seal, context, r.fingerprint)
    BY <1>1, AnswerSays
  <1>3. rows \subseteq Row
    BY DEF GateTypeOK
  <1>4. \A k \in rows : \E r \in rows' :
           r = k \/ (r.report.gate = k.report.gate /\ r.report.outcome = "CONFLICT")
    <2>1. CASE rows' = rows
      BY <2>1
    <2>2. ASSUME NEW p \in Processes, RecordEvidence(p)
          PROVE  \E commit \in Commits, ctx \in Context, report \in Report :
                    rows' = Recorded(rows, commit, ctx, report)
      <3>1. work[p].commit \in Commits /\ work[p].context \in Context /\ work[p].report \in Report
        BY <2>2, RecordingWork DEF RecordEvidence, At, GateTypeOK
      <3>2. work[p].commit = seal
        BY <2>2 DEF RecordEvidence
      <3>3. contexts[work[p].commit].lineage = lineage /\ contexts[work[p].commit] # None
        BY <1>1, <3>2
      <3>4. [presented |-> work[p].context, lineage |-> lineage].presented = work[p].context
        OBVIOUS
      <3>5. contexts'[work[p].commit] = contexts[work[p].commit]
        OBVIOUS
      <3>6. contexts' = [contexts EXCEPT ![work[p].commit] =
                            [presented |-> work[p].context, lineage |-> lineage]]
            => contexts[work[p].commit].presented = work[p].context
        BY <3>1, <3>4, <3>5 DEF GateTypeOK
      <3>7. rows' = Recorded(rows, work[p].commit, work[p].context, work[p].report)
        BY <2>2, <3>3, <3>6 DEF RecordEvidence
      <3> QED
        BY <3>1, <3>7
    <2>3. ASSUME NEW p \in Processes, Invalidate(p) PROVE FALSE
      BY <1>1, <2>3 DEF Invalidate
    <2>4. ASSUME NEW p \in Processes, CommitSeal(p) PROVE rows' = rows
      BY <2>4, <1>1 DEF CommitSeal
    <2>5. ASSUME NEW p \in Processes, BindEvidence(p) PROVE rows' = rows
      BY <2>5 DEF BindEvidence
    <2> QED
      BY <1>3, <2>1, <2>2, <2>3, <2>4, <2>5, WritersOfEvidence, RecordedKeeps DEF EvidenceVars
  <1>5. \A e \in Counted : \E f \in Counted' :
           f = e \/ (f.gate = e.gate /\ f.outcome = "CONFLICT")
    BY <1>4 DEF Counted
  <1>6. DecideGates(context, Counted) = "PASS" /\ context.sources > 1
    BY <1>1, <1>2, <1>5, MoreEvidence
  <1>7. PICK k \in rows : ClaimsGraph(k.report)
    <2>1. GatePasses(context, GraphGate, Entries(Counted, GraphGate))
      BY <1>6, GateAssumption DEF DecideGates
    <2>2. context.sources # 1
      BY <1>6
    <2>3. Agree(Entries(Counted, GraphGate), "PASS")
      BY <2>1, <2>2 DEF GatePasses
    <2> QED
      BY <2>3 DEF Agree, Entries, Counted, ClaimsGraph
  <1>8. k.commit = seal /\ k.under = context
    BY DEF EvidenceBelongsToSeal, EvidenceSharesContext
  <1>9. ~GraphIsCurrent(seal, context, k.report.fingerprint)
    BY <1>2, <1>6, <1>7 DEF Counted
  <1>10. PICK e \in Counted' : GraphIsCurrent(seal, context, e.fingerprint)
    BY <1>1, <1>6
  <1>11. /\ graph # None
         /\ graph = [version |-> context.graph, commit |-> seal, policy |-> context.policy,
                     lineage |-> lineage]
         /\ GraphVersion = context.graph
    BY <1>10 DEF GraphIsCurrent, GraphVersion
  <1>12. k.report.fingerprint = context.graph
    BY <1>7, <1>8 DEF GraphClaimsInv
  <1> QED
    BY <1>6, <1>9, <1>11, <1>12 DEF GraphIsCurrent

(* A blocking report is never voted down: while the seal, the context and  *)
(* the dependency review stay, no step of record_gate_evidence, or of      *)
(* anybody, turns BLOCKED into PASS.                                       *)
THEOREM BlocksAreNotOutvoted == GateSpec => BlockIsNotOutvoted
  <1> DEFINE Blocks == GateAnswer = "BLOCKED" /\ UNCHANGED <<seal, contexts, lineage, graph>>
                       => GateAnswer' # "PASS"
  <1>1. GateInit => GraphClaimsInv
    BY DEF GateInit, GraphClaimsInv
  <1>2. GateTypeOK /\ EvidenceBelongsToSeal /\ EvidenceSharesContext /\ GraphClaimsInv
        /\ [GateNext]_vars => GraphClaimsInv'
    BY GraphClaimsStep
  <1>3. /\ GateTypeOK /\ EvidenceBelongsToSeal /\ EvidenceSharesContext /\ GraphClaimsInv
        /\ EvidenceBelongsToSeal' /\ [GateNext]_vars
        => [Blocks]_vars
    BY BlockedStays
  <1> QED
    BY <1>1, <1>2, <1>3, GateTypes, EvidenceStaysWithSeal, EvidenceKeepsContext, PTL
       DEF GateSpec, BlockIsNotOutvoted

=============================================================================
