---------------------------- MODULE GateDecision ----------------------------
(***************************************************************************)
(* decide_gates of gates.py: the pure aggregation of recorded evidence     *)
(* into PASS, PENDING or BLOCKED.                                          *)
(*                                                                         *)
(* An entry is one row of gate evidence that is bound to the candidate,    *)
(* reduced to what the decision looks at: its gate, its outcome, whether a *)
(* follow-up of it is unresolved, and whether a "not applicable" names the *)
(* boundary and the reason that justify it.  Unsupported keys and          *)
(* malformed rows cannot be recorded and are left out.                     *)
(***************************************************************************)
EXTENDS Naturals

CONSTANTS Gates,          \* keys of GATE_REGISTRY
          LocalGates,     \* those that permit the isolated-local NOT_APPLICABLE
          GraphGate       \* the dependency graph gate

ASSUME GateAssumption == LocalGates \subseteq Gates /\ GraphGate \in Gates

Outcomes == {"PASS", "NOT_APPLICABLE", "PENDING", "STALE", "FINDINGS", "BLOCKED", "UNKNOWN",
             "CONFLICT"}

(***************************************************************************)
(* A context says how many sources the task has, whether it is an isolated *)
(* local task and whether it names an accepted dependency graph.  The      *)
(* entries of one gate pass it when they agree on an acceptable outcome    *)
(* and leave no follow-up open; they leave it waiting when there are none  *)
(* or they agree that the work is not done; otherwise they block it.       *)
(***************************************************************************)
Entries(evidence, gate) == {e \in evidence : e.gate = gate}

Agree(entries, outcome) ==
    /\ entries # {}
    /\ \A e \in entries : e.outcome = outcome /\ ~e.followUp

GatePasses(context, gate, entries) ==
    \/ /\ Agree(entries, "PASS")
       /\ gate = GraphGate /\ context.sources > 1 => context.graph > 0
    \/ /\ Agree(entries, "NOT_APPLICABLE")
       /\ gate \in LocalGates
       /\ context.sources = 1 /\ context.isolated
       /\ \A e \in entries : e.justified

GateWaits(entries) ==
    entries = {} \/ Agree(entries, "PENDING") \/ Agree(entries, "STALE")

DecideGates(context, evidence) ==
    IF \A g \in Gates : GatePasses(context, g, Entries(evidence, g)) THEN "PASS"
    ELSE IF \A g \in Gates : \/ GatePasses(context, g, Entries(evidence, g))
                            \/ GateWaits(Entries(evidence, g)) THEN "PENDING"
    ELSE "BLOCKED"
=============================================================================
