----------------------------- MODULE MCEffects -----------------------------
(***************************************************************************)
(* What acts on the outside: the GitHub broker, the canaries, the coding   *)
(* Worker, the Supervisor's sequence of turns and the deployment's native  *)
(* host.  They keep separate ledgers; a behaviour follows one of them      *)
(* while the others stay in their initial state.  Canaries come in two     *)
(* slices of their state space: callers of one process that race for the   *)
(* whole budget, with one claim's effect outstanding at a time; and a      *)
(* process that is replaced, whose callers race at the first head and      *)
(* follow each other at the next.                                          *)
(***************************************************************************)
EXTENDS MutationBroker, CanaryExecution, CodingWorker, SupervisorSequence, DeploymentHandoff, TLC

CONSTANTS i1, i2, k1, r1, r2, y1, y2

OneCreate == [o \in Operations |-> IF o = "create" THEN 1 ELSE 2]
SharedKey == (i1 :> k1) @@ (i2 :> k1)
Expiries == (r1 :> 1) @@ (r2 :> 2)
NamedBy == (r1 :> y1) @@ (r2 :> y2)

(* Actors are shared by the parts, of which one moves. *)
Anonymous == Permutations(Workers) \cup Permutations(Intents)

VARIABLE part  \* the part that moves

(* The parts with several initial states rest in one of them. *)
BrokerRests == part # "broker" => kind = [k \in Keys |-> "allocating"]
CanaryRests == part # "replaced" => target = {}
CodingRests == part # "coding" => ~stopped

OneLate ==
    \A j, k \in CanaryClaims : landed[j] < dispatches[j] /\ landed[k] < dispatches[k] => j = k
Racing == restarts = 0 /\ OneLate
AtFirstHead == \A k \in CanaryClaims : k[2] > 0 => record[k] = Absent
OneAtATime == \A c, d \in Callers : calls[c] # Absent /\ calls[d] # Absent => c = d
Replaced == AtFirstHead \/ OneAtATime

EffectsInit ==
    /\ part \in {"broker", "racing", "replaced", "coding", "sequence", "handoff"}
    /\ Init /\ CanaryInit /\ CodingInit /\ SequenceInit /\ HandoffInit
    /\ BrokerRests /\ CanaryRests /\ CodingRests

EffectsNext ==
    \/ /\ part = "broker" /\ Next
       /\ UNCHANGED <<part, canaryVars, workerVars, sequenceVars, handoffVars>>
    \/ /\ part = "racing" /\ CanaryNext /\ Racing'
       /\ UNCHANGED <<part, vars, workerVars, sequenceVars, handoffVars>>
    \/ /\ part = "replaced" /\ CanaryNext /\ Replaced'
       /\ UNCHANGED <<part, vars, workerVars, sequenceVars, handoffVars>>
    \/ /\ part = "coding" /\ CodingNext
       /\ UNCHANGED <<part, vars, canaryVars, sequenceVars, handoffVars>>
    \/ /\ part = "sequence" /\ SequenceNext
       /\ UNCHANGED <<part, vars, canaryVars, workerVars, handoffVars>>
    \/ /\ part = "handoff" /\ HandoffNext
       /\ UNCHANGED <<part, vars, canaryVars, workerVars, sequenceVars>>

EffectsSpec ==
    EffectsInit
    /\ [][EffectsNext]_<<part, vars, canaryVars, workerVars, sequenceVars, handoffVars>>
=============================================================================
