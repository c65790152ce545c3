------------------------------ MODULE MCLedger ------------------------------
(***************************************************************************)
(* The task ledger: how the database of an earlier release is upgraded,    *)
(* which work its sources offer and what becomes of a task.  A behaviour   *)
(* follows one of the three while the others stay in their initial state.  *)
(***************************************************************************)
EXTENDS MCTaskLifecycle, MCStateMigrations, MCSourceIngestion

VARIABLE part  \* the part that moves

(* The parts with several initial states rest in one of them. *)
MigrationsRest == part # "migrations" => file = "absent"
SourcesRest ==
    part # "sources" =>
        feed = (CHOOSE f \in Feeds : TRUE) /\ owner.items = {} /\ graph = NoGraph

LedgerInit ==
    /\ part \in {"tasks", "migrations", "sources"}
    /\ TaskInit
    /\ MigrationInit /\ MigrationsRest
    /\ SourceInit /\ SourcesRest

LedgerNext ==
    \/ /\ part = "tasks" /\ MCNext
       /\ UNCHANGED <<part, migrationVars, sourceVars>>
    \/ /\ part = "migrations" /\ MigrationNext
       /\ UNCHANGED <<part, taskVars, sourceVars>>
    \/ /\ part = "sources" /\ SourceNext
       /\ UNCHANGED <<part, taskVars, migrationVars>>

LedgerSpec == LedgerInit /\ [][LedgerNext]_<<part, taskVars, migrationVars, sourceVars>>
=============================================================================
