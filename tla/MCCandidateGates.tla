-------------------------- MODULE MCCandidateGates --------------------------
(***************************************************************************)
(* Small candidates.  MCSpec follows two processes with owners of their    *)
(* own that race over two commits of a task with one source, and one       *)
(* process that follows policies, sources and graphs for one commit.       *)
(***************************************************************************)
EXTENDS CandidateGates, TLC

CONSTANTS p1, p2, ann, bob, c1, c2

RivalOwners == (p1 :> ann) @@ (p2 :> bob)
OneOwner == (p1 :> ann)

(* By one evaluator, at one time, with nothing left to follow up. *)
Verdict(gate, fingerprint, outcome) ==
    [gate |-> gate, evaluator |-> 1, fingerprint |-> fingerprint, outcome |-> outcome, at |-> 1,
     followUp |-> FALSE, justified |-> outcome = "NOT_APPLICABLE"]

(* Enough for a local task: its only gate is waived. *)
WaivedGraph == {Verdict("dependency-graph", 1, "NOT_APPLICABLE")}

(* The graph gate passes with the decision digest of graph 1 or is waived; *)
(* the CI gate passes or fails under one fingerprint.                      *)
MixedReports ==
    {Verdict("dependency-graph", 1, "PASS"), Verdict("dependency-graph", 1, "NOT_APPLICABLE"),
     Verdict("ci", 1, "PASS"), Verdict("ci", 1, "FINDINGS")}

AlwaysOneSource == (0 :> 1)
OneThenTwoSources == <<2, 2>> @@ (0 :> 1)

LaterReceipt == [policy \in Policies |-> IF policy = "new" THEN 2 ELSE 1]

(* Commits are only compared. *)
AnyCommit == Permutations(Commits)

Described(w) == "context" \in DOMAIN w
Reported(w) == "report" \in DOMAIN w

(* The race: nothing is reviewed, and what is reported passes. *)
Rivals ==
    /\ lineage = 0
    /\ \A p \in Processes :
          /\ Described(work[p]) => work[p].context.sources = SourceCount[0]
          /\ Reported(work[p]) => work[p].report \in WaivedGraph \cup {Verdict("ci", 1, "PASS")}

(* The contexts: the second process has not come, nor a second commit. *)
Contexts ==
    /\ epoch <= 1
    /\ ticket[p2] = 0 /\ work[p2] = Idle
    /\ handles \cup ({seal} \ {None}) \subseteq {head}
    /\ graph # None => graph.commit = head

(* What follows the hand-over is not followed, but for edits. *)
MCNext == GateNext /\ (handoff # None => EditWorktree) /\ (Rivals \/ Contexts)'

MCSpec == GateInit /\ [][MCNext]_vars
=============================================================================
