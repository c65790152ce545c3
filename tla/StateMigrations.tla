-------------------------- MODULE StateMigrations --------------------------
(***************************************************************************)
(* The schema migrations of the task ledger (state.py).  initialize looks  *)
(* whether the database file exists, connects, which creates the file, and *)
(* applies every missing migration in one SQLite transaction: BEGIN        *)
(* IMMEDIATE, one step per version, the backfill of the ownership rows,    *)
(* the identity, COMMIT.  Some versions carry rows of earlier releases     *)
(* forward; rows that cannot be authenticated refuse the upgrade.  Any     *)
(* number of processes may initialize at once, and any of them may die     *)
(* between two steps.                                                      *)
(***************************************************************************)
EXTENDS Naturals, Sequences, FiniteSets

CONSTANTS Processes,
          Nobody,
          Ledgers,     \* the databases earlier releases may have left
          Canonical,   \* the canonical key of a worktree
          MaxCrashes   \* bound: processes that die inside initialize

Latest == 84

ASSUME MigrationAssumption == Nobody \notin Processes /\ MaxCrashes \in Nat

(***************************************************************************)
(* A database: its version, its identity, and of each table the columns    *)
(* that a migration reads.                                                 *)
(***************************************************************************)
TaskRows == [task : Nat, branch : STRING, worktree : STRING]

ObjectiveRows ==
    [id : Nat, attempt : Nat, state : {"active", "completed", "cancelled"}, retry : Nat]

EvidenceRows == [attempt : Nat, kind : STRING]

ReviewRows ==
    [epoch : Nat, round : Nat, within : Nat, position : Nat, format : Nat, agrees : BOOLEAN,
     authentic : SUBSET Nat]

GenericRows ==
    [attempt : Nat, position : Nat, format : Nat, selected : STRING, context : Seq(STRING),
     runtime : Seq(STRING)]

DependencyRows ==
    [attempt : Nat, accepted : BOOLEAN, evidenced : BOOLEAN, claim : STRING, retained : BOOLEAN,
     candidate : Nat, admission : {"none", "exact", "drifted"}]

Database ==
    [version : Nat, history : {"canonical", "changed", "unmanaged"}, id : Nat,
     tasks : SUBSET TaskRows, branches : SUBSET (STRING \X Nat), keys : SUBSET (STRING \X Nat),
     items : BOOLEAN, objectives : SUBSET ObjectiveRows, records : SUBSET ObjectiveRows,
     stage : SUBSET ObjectiveRows, receipt : Nat, evidence : SUBSET EvidenceRows,
     reviews : Seq(ReviewRows), coordinates : Seq(Nat \X Nat \X Nat \X Nat),
     digests : Seq(Nat), generic : SUBSET GenericRows, seal : Nat,
     reviewed : SUBSET DependencyRows, dispatches : SUBSET Nat]

(* task_id is the key of the tasks, the staging table lives in one transaction only, and the
   retry identity of a record is made from its attempt since version 63
   (start_objective refuses any other). *)
ASSUME LedgerAssumption ==
    \A d \in Ledgers :
        /\ d \in Database
        /\ \A t, u \in d.tasks : t.task = u.task => t = u
        /\ d.stage = {}
        /\ d.version >= 63 => \A r \in d.records : r.retry = r.attempt

VARIABLES file,     \* what is at database_path: absent, an empty file, a database
          db,       \* the committed database
          lock,     \* the process whose transaction is open
          work,     \* the database as that transaction sees it
          at,       \* where a process is in initialize
          absent,   \* path_was_absent, as the process saw it
          outcome,  \* what its last call returned or raised
          crashes

migrationVars == <<file, db, lock, work, at, absent, outcome, crashes>>

(* A database without a schema. *)
NoRows ==
    [version |-> 0, history |-> "canonical", id |-> 0,
     tasks |-> {}, branches |-> {}, keys |-> {},
     items |-> FALSE, objectives |-> {}, records |-> {}, stage |-> {}, receipt |-> 0,
     evidence |-> {}, reviews |-> <<>>, coordinates |-> <<>>, digests |-> <<>>,
     generic |-> {}, seal |-> 0, reviewed |-> {}, dispatches |-> {}]

MigrationInit ==
    /\ \/ file = "absent" /\ db = NoRows
       \/ file = "db" /\ db \in Ledgers
    /\ lock = Nobody /\ work = NoRows
    /\ at = [p \in Processes |-> "idle"]
    /\ absent = [p \in Processes |-> FALSE]
    /\ outcome = [p \in Processes |-> "none"]
    /\ crashes = 0

(***************************************************************************)
(* Worker objectives: versions 62, 63 and 65.                              *)
(***************************************************************************)
(* Version 58 keeps objectives in worker_objectives, version 59 adds
   worker_objective_records, which has its present columns from version 63. *)
LegacyRecords(d) == IF d.version < 63 THEN d.records ELSE {}

(* Variant: nothing is staged. *)
StageNothing(d) == d

(* _stage_legacy_worker_objectives; both tables are keyed by the objective. *)
StageLegacy(d) ==
    [d EXCEPT !.stage = d.objectives \cup LegacyRecords(d), !.objectives = {},
              !.records = d.records \ LegacyRecords(d)]

Stageable(d) ==
    \A o \in d.objectives, r \in LegacyRecords(d) : o.id # r.id

(* phase5_legacy_guard, behind the staging *)
GuardPasses(d) == Stageable(d) /\ ~d.items /\ StageLegacy(d).objectives = {}

(* phase5_objective_upgrade_guard: the table is dropped and created anew. *)
UpgradeGuardPasses(d) == d.records = {}

(* What the provider, implementation, candidate and output rows of an attempt support. *)
EvidenceOf(d, o) == {e.kind : e \in {x \in d.evidence : x.attempt = o.attempt}}

Supported(d, o) ==
    CASE o.state = "active" -> EvidenceOf(d, o) = {"dispatched"}
      [] o.state = "completed" -> EvidenceOf(d, o) = {"recorded"}
      [] o.state = "cancelled" -> EvidenceOf(d, o) # {}

(* Variant: the legacy token stays the retry identity. *)
KeepsToken(o) == o

(* The retry identity is made from the attempt; the legacy token is dropped. *)
Reconstructed(o) == [o EXCEPT !.retry = o.attempt]

LegacyRows(d) == d.objectives \cup d.stage

(* A record has one attempt and one retry identity. *)
FitsRecords(d, o) ==
    /\ \A r \in d.records : r.id = o.id \/ r.attempt = o.attempt => r = Reconstructed(o)
    /\ \A s \in LegacyRows(d) \ {o} : s.attempt # o.attempt

ObjectivesMigrate(d) == \A o \in LegacyRows(d) : Supported(d, o) /\ FitsRecords(d, o)

(* _migrate_legacy_worker_objectives *)
MigrateObjectives(d) ==
    [d EXCEPT !.records = d.records \cup {Reconstructed(o) : o \in LegacyRows(d)},
              !.stage = {}, !.receipt = Cardinality(LegacyRows(d))]

(***************************************************************************)
(* Supervisor coordinates and diff reviews: versions 71, 73, 80 and 81.    *)
(***************************************************************************)
(* Version 71 splits within_round_attempt. *)
SplitPositions(d) ==
    [d EXCEPT !.reviews =
        [i \in DOMAIN @ |-> [@[i] EXCEPT !.position = d.reviews[i].within, !.format = 0]]]

Coordinate(r) == <<r.epoch, r.round, r.position, r.format>>

(* _supervisor_coordinate_transition_is_valid *)
WellFormed(r) == r.round >= 1 /\ r.position >= 1 /\ r.format \in 0..2

TransitionIsValid(r, s) ==
    \/ /\ s.epoch = r.epoch /\ s.round = r.round
       /\ \/ s.position = r.position /\ s.format = r.format + 1
          \/ s.position = r.position + 1 /\ s.format = 0
    \/ s.epoch = r.epoch /\ s.round = r.round + 1 /\ s.position = 1 /\ s.format = 0
    \/ /\ s.epoch = r.epoch + 1 /\ s.round \in {r.round, 1}
       /\ s.position = 1 /\ s.format = 0

(* Variant: the sequence is not checked. *)
CoordinatesMigrateAsTheyAre(d) ==
    \A i \in DOMAIN d.reviews : d.reviews[i].agrees /\ WellFormed(d.reviews[i])

(* The reviews of one task, in the order of their attempts. *)
CoordinatesMigrate(d) ==
    /\ \A i \in DOMAIN d.reviews : d.reviews[i].agrees /\ WellFormed(d.reviews[i])
    /\ \A i, j \in DOMAIN d.reviews :
          i # j => Coordinate(d.reviews[i]) # Coordinate(d.reviews[j])
    /\ \A i \in 2..Len(d.reviews) : TransitionIsValid(d.reviews[i-1], d.reviews[i])

(* _migrate_supervisor_attempt_coordinates *)
MigrateCoordinates(d) ==
    [d EXCEPT !.coordinates = [i \in DOMAIN d.reviews |-> Coordinate(d.reviews[i])]]

(* _migrate_diff_review_digest_versions: the encodings that authenticate a review *)
DigestsMigrate(d) == \A i \in DOMAIN d.reviews : Cardinality(d.reviews[i].authentic) = 1

MigrateDigests(d) ==
    [d EXCEPT !.digests = [i \in DOMAIN d.reviews |-> CHOOSE v \in d.reviews[i].authentic : TRUE]]

(* _migrate_legacy_generic_supervisor_positions: prepared attempts of no review *)
Positions(profiles, x) == {i \in DOMAIN profiles : profiles[i] = x}
Unplaced(d) == {g \in d.generic : g.position = 0 /\ g.format = 0}

PositionsMigrate(d) ==
    \A g \in Unplaced(d) :
        g.context = g.runtime /\ Cardinality(Positions(g.context, g.selected)) = 1

Placed(g) == [g EXCEPT !.position = CHOOSE i \in Positions(g.context, g.selected) : TRUE]

MigratePositions(d) ==
    [d EXCEPT !.generic = (@ \ Unplaced(d)) \cup {Placed(g) : g \in Unplaced(d)}]

(***************************************************************************)
(* Dependency review evidence: version 84.                                 *)
(***************************************************************************)
Authenticated(r) == r.claim = "turn-dispatched" /\ r.evidenced

HistoricalOnly(d, r) == r.candidate # d.seal

EvidenceMigrates(d, r, source) ==
    /\ r.accepted => Authenticated(r)
    /\ r.claim # "none" =>
          /\ r.retained
          /\ HistoricalOnly(d, r) => r.accepted
          /\ r.admission = "none" => source < 74
          /\ r.admission # "drifted"

(* Variant: whatever candidate was reviewed. *)
AdmittedAlways(d, r) ==
    IF r.admission = "none" /\ r.accepted THEN [r EXCEPT !.admission = "exact"] ELSE r

(* An accepted result of the sealed candidate is given the admission it never had. *)
Admitted(d, r) ==
    IF r.admission = "none" /\ r.accepted /\ ~HistoricalOnly(d, r)
    THEN [r EXCEPT !.admission = "exact"] ELSE r

(* _migrate_dependency_review_evidence_bindings *)
MigrateEvidence(d) ==
    [d EXCEPT !.reviewed = {Admitted(d, r) : r \in d.reviewed},
              !.dispatches = {r.attempt : r \in {x \in d.reviewed : x.accepted}}]

(***************************************************************************)
(* One migration, of a version v.                                          *)
(***************************************************************************)
Migrates(d, v, source) ==
    CASE v = 62 -> GuardPasses(d)
      [] v = 63 -> UpgradeGuardPasses(d)
      [] v = 65 -> ObjectivesMigrate(d)
      [] v = 73 -> CoordinatesMigrate(d)
      [] v = 80 -> DigestsMigrate(d)
      [] v = 81 -> PositionsMigrate(d)
      [] v = 84 -> \A r \in d.reviewed : EvidenceMigrates(d, r, source)
      [] OTHER -> TRUE

Migrated(d, v) ==
    [(CASE v = 62 -> StageLegacy(d)
        [] v = 65 -> MigrateObjectives(d)
        [] v = 71 -> SplitPositions(d)
        [] v = 73 -> MigrateCoordinates(d)
        [] v = 80 -> MigrateDigests(d)
        [] v = 81 -> MigratePositions(d)
        [] v = 84 -> MigrateEvidence(d)
        [] OTHER -> d) EXCEPT !.version = v]

(***************************************************************************)
(* What every call does after the last version.                            *)
(***************************************************************************)
Key(t) == Canonical[t.worktree]

(* _backfill_task_ownership: a branch or a worktree another task holds, or a second branch of
   one task, refuses. *)
OwnershipFits(d) ==
    \A t \in d.tasks :
        /\ \A o \in d.branches \cup {<<u.branch, u.task>> : u \in d.tasks} :
              (o[1] = t.branch) <=> (o[2] = t.task)
        /\ \A o \in d.keys \cup {<<Key(u), u.task>> : u \in d.tasks} :
              o[1] = Key(t) => o[2] = t.task

Backfilled(d) ==
    LET ids == {t.task : t \in d.tasks} IN
    [d EXCEPT !.branches = @ \cup {<<t.branch, t.task>> : t \in d.tasks},
              !.keys = {o \in @ : o[2] \notin ids} \cup {<<Key(t), t.task>> : t \in d.tasks}]

(* _validate_task_ownership *)
OwnershipIsValid(d) ==
    /\ d.branches = {<<t.branch, t.task>> : t \in d.tasks}
    /\ d.keys = {<<Key(t), t.task>> : t \in d.tasks}
    /\ Cardinality(d.branches) = Cardinality(d.tasks)
    /\ Cardinality(d.keys) = Cardinality(d.tasks)

(* _ensure_state_identity: a fresh identity, which no ledger had *)
EnsureIdentity(d) == IF d.id = 0 THEN [d EXCEPT !.id = 1] ELSE d

(* _state_identity_fingerprint *)
Malformed == 99
IdentityIsReadable(d) == d.id # Malformed

MayCreateIdentity(p) == absent[p] /\ file # "db"

(* _validate_applied: no version is missing, unknown or of other content. *)
HistoryIsCanonical(d) == d.history # "changed" /\ d.version <= Latest

(* _validate_schema: the tables are those of the versions that were applied. *)
SchemaIsCanonical(d) == d.history # "unmanaged"

(* _verify_migrations *)
Verified(d) ==
    /\ HistoryIsCanonical(d) /\ d.version = Latest /\ SchemaIsCanonical(d)
    /\ OwnershipIsValid(d) /\ d.id # 0 /\ IdentityIsReadable(d)

(***************************************************************************)
(* initialize.                                                             *)
(***************************************************************************)
Goto(p, l) == at' = [at EXCEPT ![p] = l]

Return(p, result) ==
    /\ Goto(p, "idle")
    /\ outcome' = [outcome EXCEPT ![p] = result]

(* os.path.lexists *)
Look(p) ==
    /\ at[p] = "idle" /\ Goto(p, "looked")
    /\ absent' = [absent EXCEPT ![p] = file = "absent"]
    /\ UNCHANGED <<file, db, lock, work, outcome, crashes>>

(* sqlite3.connect creates the file. *)
Connect(p) ==
    /\ at[p] = "looked" /\ Goto(p, "connected")
    /\ file' = IF file = "absent" THEN "empty" ELSE file
    /\ UNCHANGED <<db, lock, work, absent, outcome, crashes>>

(* BEGIN IMMEDIATE and the checks on what is there *)
MayBegin(p) ==
    IF file = "db" THEN HistoryIsCanonical(db) /\ SchemaIsCanonical(db) ELSE absent[p]

Begin(p) ==
    /\ at[p] = "connected" /\ lock = Nobody
    /\ MayBegin(p)
    /\ lock' = p /\ work' = db
    /\ Goto(p, "migrating")
    /\ UNCHANGED <<file, db, absent, outcome, crashes>>

Unrecognized(p) ==
    /\ at[p] = "connected" /\ lock = Nobody
    /\ ~MayBegin(p)
    /\ Return(p, "refused")
    /\ UNCHANGED <<file, db, lock, work, absent, crashes>>

(* SQLite gives up on the lock. *)
Busy(p) ==
    /\ at[p] = "connected" /\ lock # Nobody
    /\ Return(p, "busy")
    /\ UNCHANGED <<file, db, lock, work, absent, crashes>>

(* The version that is committed is the one the transaction began with. *)
Migrate(p) ==
    /\ at[p] = "migrating" /\ work.version < Latest
    /\ Migrates(work, work.version + 1, db.version)
    /\ work' = Migrated(work, work.version + 1)
    /\ UNCHANGED <<file, db, lock, at, absent, outcome, crashes>>

Completes(p) ==
    /\ OwnershipFits(work) /\ OwnershipIsValid(Backfilled(work))
    /\ IF work.id = 0 THEN MayCreateIdentity(p) ELSE IdentityIsReadable(work)

Commit(p) ==
    /\ at[p] = "migrating" /\ work.version = Latest
    /\ Completes(p)
    /\ db' = EnsureIdentity(Backfilled(work)) /\ file' = "db"
    /\ lock' = Nobody /\ work' = NoRows
    /\ Goto(p, "committed")
    /\ UNCHANGED <<absent, outcome, crashes>>

Refused(p) ==
    IF work.version = Latest THEN ~Completes(p)
    ELSE ~Migrates(work, work.version + 1, db.version)

(* An exception rolls the transaction back; the file stays. *)
Rollback(p) ==
    /\ at[p] = "migrating" /\ Refused(p)
    /\ lock' = Nobody /\ work' = NoRows
    /\ Return(p, "refused")
    /\ UNCHANGED <<file, db, absent, crashes>>

(* check_database *)
CheckDatabase(p) ==
    /\ at[p] = "committed"
    /\ Return(p, IF Verified(db) THEN "healthy" ELSE "incompatible")
    /\ UNCHANGED <<file, db, lock, work, absent, crashes>>

Crash(p) ==
    /\ at[p] # "idle" /\ crashes < MaxCrashes
    /\ crashes' = crashes + 1
    /\ lock' = IF lock = p THEN Nobody ELSE lock
    /\ work' = IF lock = p THEN NoRows ELSE work
    /\ Return(p, "none")
    /\ UNCHANGED <<file, db, absent>>

Initialize(p) ==
    \/ Look(p) \/ Connect(p) \/ Begin(p) \/ Unrecognized(p) \/ Busy(p)
    \/ Migrate(p) \/ Commit(p) \/ Rollback(p) \/ CheckDatabase(p)

MigrationNext == \E p \in Processes : Initialize(p) \/ Crash(p)
MigrationSpec == MigrationInit /\ [][MigrationNext]_migrationVars

(***************************************************************************)
(* Properties.                                                             *)
(***************************************************************************)
(* _apply_migrations fails closed: an upgrade is committed only for a ledger whose rows agree
   with each other, however far the versions that read them are apart. *)
Increasing(c) ==
    \A i \in 1..(Len(c) - 1) :
        \E k \in 1..4 : c[i][k] < c[i+1][k] /\ \A j \in 1..(k - 1) : c[i][j] = c[i+1][j]

Coordinates(d) ==
    LET reviews == (IF d.version < 71 THEN SplitPositions(d) ELSE d).reviews IN
    [i \in DOMAIN reviews |-> Coordinate(reviews[i])]

Consistent(d) ==
    /\ HistoryIsCanonical(d) /\ SchemaIsCanonical(d) /\ IdentityIsReadable(d)
    /\ \A t, u \in d.tasks : (t.branch = u.branch \/ Key(t) = Key(u)) => t = u
    /\ d.version < 65 => \A o \in d.objectives \cup LegacyRecords(d) : Supported(d, o)
    /\ d.version < 73 => Increasing(Coordinates(d))

OnlyConsistentLedgersUpgrade == [][db # NoRows /\ db' # db => Consistent(db)]_db

(* _stage_legacy_worker_objectives and _migrate_legacy_worker_objectives: the objectives of a
   populated ledger of versions 58 to 64 are all there after the upgrade, in their state and
   under the retry identity of their attempt, and the receipt counts those carried over. *)
Objective(o) == <<o.id, o.attempt, o.state>>

ObjectivesSurvive ==
    [][db.version \in 58..64 /\ db'.version = Latest =>
         /\ {Objective(o) : o \in db'.records}
              = {Objective(o) : o \in db.objectives \cup db.records}
         /\ \A o \in db'.records : o.retry = o.attempt
         /\ db'.receipt = Cardinality(db.objectives \cup LegacyRecords(db))]_db

(* _migrate_dependency_review_evidence_bindings: an upgrade gives an admission only to an
   accepted review of the candidate that is sealed; a review of an older candidate stays
   history and mints no authority. *)
NoAuthorityIsManufactured ==
    [][\A r \in db'.reviewed : r.admission = "exact" /\ r \notin db.reviewed =>
         /\ r.accepted /\ r.candidate = db.seal
         /\ r.attempt \in db'.dispatches]_db

(* _stage_legacy_worker_objectives, "Carry populated v58-v62 objective rows past their
   historical empty guards": a ledger that holds nothing but objectives with their evidence is
   not refused. *)
Populated(d) ==
    /\ d.version \in 58..62 /\ d.id # 0 /\ IdentityIsReadable(d)
    /\ d = [NoRows EXCEPT !.version = d.version, !.id = d.id, !.evidence = d.evidence,
                          !.objectives = d.objectives, !.records = d.records]
    /\ \A o \in d.objectives \cup d.records : Supported(d, o)
    /\ \A o, r \in d.objectives \cup d.records : o.id = r.id \/ o.attempt = r.attempt => o = r
    /\ d.objectives \cap d.records = {}

PopulatedLedgersUpgrade ==
    \A p \in Processes : file = "db" /\ Populated(db) => outcome[p] # "refused"
=============================================================================
