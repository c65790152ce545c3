---------------------------- MODULE MCAdmission ----------------------------
(***************************************************************************)
(* What lets work start: the reviewed dependency graph, the health of the   *)
(* providers, the grants of a role and the decisions on failures.  They     *)
(* keep separate ledgers; a behaviour follows one of them while the others  *)
(* stay in their initial state.                                             *)
(***************************************************************************)
EXTENDS DependencyReview, ProviderHealth, RoleGrants, FailureDecisions, TLC

CONSTANTS t1, t2

TwoPairs == (t1 :> {1, 2}) @@ (t2 :> {3, 4})
Ordered(pairs) == [pairs |-> pairs, disposition |-> "auto", trusted |-> TRUE]
EdgesAndCircle == {Ordered({<<1, 2>>}), Ordered({<<1, 2>>, <<2, 1>>}), Ordered({<<3, 4>>})}

FormatAndSelfReport ==
    {<<"format-invalid", "verified-output">>, <<"host-security-denial", "model-self-report">>}

(* Actors are shared by the parts, of which one moves. *)
Anonymous ==
    Permutations(DepHosts) \cup Permutations(DepAttempts) \cup Permutations(DepCandidates)

VARIABLE part  \* the part that moves

(* The parts with several initial states rest in one of them. *)
HealthRests == part # "health" => pinned = CHOOSE c \in Configurations : TRUE
GrantsRest == part # "grants" => accepted[1] = CHOOSE r \in AdmissionRecord : r.epoch = 1
DecisionsRest == part # "decisions" => sealed = 1

AdmissionInit ==
    /\ part \in {"graph", "health", "grants", "decisions"}
    /\ DepInit /\ HealthInit /\ GrantsInit /\ DecisionsInit
    /\ HealthRests /\ GrantsRest /\ DecisionsRest

AdmissionNext ==
    \/ /\ part = "graph" /\ DepNext
       /\ UNCHANGED <<part, healthVars, grantVars, decisionVars>>
    \/ /\ part = "health" /\ HealthNext
       /\ UNCHANGED <<part, depVars, grantVars, decisionVars>>
    \/ /\ part = "grants" /\ GrantsNext
       /\ UNCHANGED <<part, depVars, healthVars, decisionVars>>
    \/ /\ part = "decisions" /\ DecisionsNext
       /\ UNCHANGED <<part, depVars, healthVars, grantVars>>

AdmissionSpec ==
    AdmissionInit /\ [][AdmissionNext]_<<part, depVars, healthVars, grantVars, decisionVars>>
=============================================================================
