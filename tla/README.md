# Roundwright in TLA+

Roundwright drives one coding task from a source snapshot to a hand-over to its
owner. All authority lives in a SQLite database beside the repository; every
mutation is one `BEGIN IMMEDIATE` transaction that first checks a repository-wide
lease; providers (a Worker that writes code, Supervisors that review it) work
outside the database and report back through recorded checkpoints. The code is
written to *fail closed*: when something is unverifiable, stale or conflicting, an
operation raises and rolls back.

This directory models that core: TLA+ modules, TLC configurations and TLAPS proofs.
`PROJECT.json` maps every definition to its source lines.

## Inventory

| Part | State | Operations | Hard behaviour | What makes it correct |
|---|---|---|---|---|
| Transition lease (`git_identity.py`, check in `state.py`) | one lease row, one generation row | acquire, renew, release, check | several processes, clock read before the lock, deaths | exclusion by generation, fencing, no takeover of stale rows |
| Task ledger (`state.py`) | tasks, events, ownership, blockers, actions, artifacts | admit, transition, annotate | long legal sequences, replays, collisions | events are the history of the state, no review skipped |
| Candidate (`git_identity.py`) | seal, bound evidence, live worktree | seal, bind, validate, invalidate | the worktree moves between check and write | evidence never outlives its candidate |
| Gates (`gates.py`) | contexts, evidence rows | record, evaluate, final transition | policies, sources and graphs move; conflicting replays | no mixed authority, a block is not outvoted |
| Provider attempts (`provider_recovery.py`) | attempts, checkpoints, outcomes, coordinates | prepare, claim, session, turn, output, accept, fail, recover | late, lost and reordered callbacks; crashes; expiries | settled is final, gapless coordinates |
| Review runner (`provider_attempt_runtime.py`, `codex_supervisor.py`, budget ledger of `role_capability_policy.py`) | intents, routes, debits in a second database | authorize, reserve, prepare, claim, dispatch, observe, reconcile | crashes between two databases, two runners, torn refunds | one paid effect per attempt, no lost budget, restarts finish |
| Failure decisions (`failure_recovery.py`) | failure records, decision history, commands and grants | record, clear, take back, withdraw, admit a scope | clearances taken back, replayed commands, new seals | a stopped scope opens only on the owner's last word |
| Review items and owner control (`review_lifecycle.py`) | items, commands, grants | raise, queue, cancel, consume | the seal or the grant moves under a queued command | an item is decided once |
| Planning (`worker_planning.py`, `plan_review.py`) | plans, reviews, findings, routes, criteria | request, record, submit, review, revise, accept | acceptance and findings in several transactions, crashes between them, recovery of turns whose output was used | only the reviewed plan is implemented |
| Candidate review (`candidate_review.py`) | implementations, objectives, verification, reviews, repair routes | request, record, verify, review, accept, withdraw, repair | concurrent callers, results that arrive late, crashes, recovery of any turn at any time | an accepted review is current, findings are whole |
| Coding Worker (`worker_toolbox.py`, `codex_worker.py`, `coding_worker_state.py`, `coding_tools.py`) | attempt, claims, tool events, submissions | dispatch, tool effects, hand-over of results, validation | deaths after an effect, stops between two effects, results half handed over | effects happen once, stops take hold, what is outside is on record |
| Supervisor sequence (`supervisor_shadow.py`, `codex_supervisor.py`) | ledger, budget, a directory of write-once files | begin, route, claim, dispatch, append, seal | three stores that change one after the other | a turn is backed by claim, debit and route |
| Dependency review (`dependency_*.py`, `codex_dependency_review.py`) | attempts, claims, graph versions | review, recover, accept, activate, read | unknown turns, seals that move, a graph replaced during review | turns are not repeated, the served graph is reviewed |
| Authority and native host (`deployment_handoff.py`, `native_host.py`) | receipt, claim, handoff, evidence, children | claim, hand off, recover, revoke, tear down; install, start, renew, end, recover | a handoff that changes hands, hosts installed before it | evidence names the owner, a retired receipt admits nothing |
| Canaries (`canary_policy.py`, `canary_execution.py`) | receipt chain, transition records, the host's lease | authorize, reserve, dispatch, read back, reconcile, hydrate | interleaved calls, effects that land after a time-out, unclear read-backs, restarts | effects stay within the budget |
| GitHub broker (`github_runtime.py`) | journal file, retained receipts, seals of the owner host | submit, reconcile, dispatch, read back | crashes between checkpoints, lost answers, failed journal writes, expiring health | at most one effect per idempotency key, receipts only for what was read |
| Provider health (`provider_health.py`) | cache, report | qualify, authorize | slow probes, one clock reading | nothing is dispatched on stale health |
| Role grants (`role_capability_policy.py`) | admission record on main, debits | seal, launch, reserve, recover, release, check | main moves, two hosts share a debit | effects stay debited |
| Schema migrations (`state.py`) | the database file, versions, identity, the rows earlier releases left | initialize, check | two processes, deaths after the file is created, unsound old ledgers | only consistent ledgers upgrade, objectives survive, no authority is manufactured |
| Configured sources (`configured_source.py`) | prepared inputs, requests, inventories, source evidence | prepare, execute, scan, select, project | the owner, the graph and the issue move between two calls; pages repeat or name each other in a circle | runnable work is unambiguous and a root of the graph, reads are bounded |
| Docker, environments, configuration, shadow, qualification | documents | parse, compare | - | pure functions of documents |

The parts interact through the database, the broker through its journal and the
owner host's channel: the lease guards every transaction;
the ledger names the task for all; gates read seals and dependency graphs; provider
recovery cancels objectives and withdraws candidate reviews; reviews advance the
ledger and raise items for the owner; decisions on failures stop the scopes that every
adapter asks before an effect; grants and health admit what is dispatched. `PROJECT.json` lists every source file under one component with its status.

## Modules

| Module | Models | Used by |
|---|---|---|
| `FencedLease` | what the lease promises: epochs, tickets, fenced commits | refined by `TransitionLease`, extended by `CandidateGates` |
| `TransitionLease` | the lease row, clock, waits and deaths | `MCTransitionLease`, `TransitionLease_proof` |
| `TaskLifecycle` | the task ledger | `MCTaskLifecycle` in `MCLedger`, `Ledger_proof` |
| `GateDecision` | `decide_gates`, a pure function | `CandidateGates` |
| `CandidateGates` | seals, evidence, contexts and the final transition of one task, for processes under the abstract lease | `MCCandidateGates`, `CandidateGates_proof` |
| `ProviderAttempts` | the attempts of one task | `MCProviderAttempts`, `ProviderAttempts_proof` |
| `ReviewRunner` | runner processes of one bounded review sequence, over the product ledger and the budget ledger | `MCReviewRunner`, `ReviewRunner_proof` |
| `MutationBroker` | the broker with its journal, the owner host and GitHub | `MCMutationBroker`, `Effects_proof` |
| `Planning` | plan turns with their recovery, plan reviews and the begin of implementation of one task | `MCReview`, `Review_proof` |
| `CandidateReview` | implementations, verification, diff reviews, repairs and the recovery of turns of one task, for concurrent callers | `MCReview`, `Review_proof` |
| `OwnerControl` | review items and the owner's commands | `MCReview`, `Review_proof` |
| `CanaryExecution` | canary transitions of one orchestrator and its replacement | `MCEffects`, `MCCanaryExecution`, `Effects_proof` |
| `CodingWorker` | the processes of one coding attempt, its tools and its ledger | `MCEffects`, run `coding_turns`, `Effects_proof` |
| `SupervisorSequence` | processes that qualify one sequence of format corrections | `MCEffects`, `Effects_proof` |
| `DeploymentHandoff` | the authority store, its coordinators and their native hosts | `MCEffects`, `Effects_proof` |
| `DependencyReview` | hosts that review the dependencies of tasks, and the graph | `MCAdmission`, `Admission_proof` |
| `ProviderHealth` | probes, cache and reports of one process | `MCAdmission`, `Admission_proof` |
| `RoleGrants` | admission records, sealed executions and debits | `MCAdmission`, `Admission_proof` |
| `FailureDecisions` | failure records, clearances and scopes | `MCAdmission`, `Admission_proof` |
| `StateMigrations` | initialize and check of the task ledger, from every kind of ledger an earlier release left | `MCStateMigrations`, also in `MCLedger`, `Ledger_proof` |
| `SourceIngestion` | source requests, scans of their pages and the selection of work | `MCSourceIngestion` in `MCLedger`, `Ledger_proof` |

Conventions. A committed transaction is one action; one that raises is no step,
because it rolls back. An operation that reads the clock or the worktree outside its
transaction, or that needs several transactions, is split at those points, and what
it remembers in between is in `call[p]` (lease), `work[p]` (candidate), `run[p]`
(runner), `call` (broker), `planner`, `at[c]` (candidate review, sequence), `host`
(dependency review), `hosts`, `calls`, `worker`, `doing` (health), `at[p]`
(migrations) or `scan` (sources). Definitions
whose comment begins with *Mutant* or *Variant* are faulty variants kept beside the original: the
property named for them in `PROJECT.json` must fail when one replaces it. Variables
commented *(history)* exist only in the model.

How state corresponds to the code: `row`, `generation` are the two lease tables;
`tasks`, `state`, `blockedFrom`, `events`, `blockers`, `nextAction`, `artifacts`,
`branchOwner`, `worktreeOwner`, `sources` are the tables of the same meaning; `seal`,
`bound`, `rows`, `contexts` are `candidate_seals`, `candidate_evidence`,
`gate_evidence`, `gate_contexts`; `attempts`, `outcome` are `provider_attempts` (with
its session, context, claim and coordinate side tables folded into one record) and
`provider_recovery_outcomes`. `head` and `fit` are the live worktree. In `ReviewRunner`,
`attempts` holds what the runner tells apart of an attempt and its dispatch claim, `route`
is `recovery_route_authorizations`, `intent` is `provider_effect_reservation_intents`,
`debit` is the row of the entry's execution binding in the budget database, `stopped` is
the outcome of `require_scope_open`, and `current` says whose lease value is the stored one.

In `MutationBroker`, `life`, `claimant`, `from`, `until` are the fields of a
`MutationJournalEntry` that decide anything (its digests are those of the intent and of
the window), `torn` is the `.tmp` file that `_load` refuses, `completed` is `_completed`,
`sealed` the owner's seal registry and `sent` what is on the channel. `met` says whether
GitHub shows the postcondition of an intent; everybody else may change it at any time, and
GitHub may show an executed mutation late. Each journal write and each call to the owner
is a step of its own. `submit` without a journal or an owner host, which only tests use,
is left out.

In the modules of reviews a turn is the state column of the provider attempt behind it;
`ProviderAttempts` has the rest of that row. `Planning`: `plans`, `planReviews`,
`submitted`, `accepted`, `criteria`, `raised`, `planRoutes` are the tables named beside
them, `planner` what the current call has still to commit; `StopPlanning` is a call that raises
or a process that dies between two commits. `RecoverPlanTurn` is `recover_attempt` on the turn of
a plan or of a review: with foreign evidence, or under another context, a completed turn becomes
ambiguous even after its output was submitted, and evidence that is verified later makes it
completed again. Drift of an accepted review violates a CHECK and rolls back. `CandidateReview`:
`impls`, `objective`, `verified`, `reviews`, `routes`, `items` likewise, and one chain of
transactions per caller in `at`; `RejectWorkerOutput`, `RecoverWorker`, `CancelObjective` and
`RecoverReview` are what becomes of a turn outside these calls. `OwnerControl` is one transaction
per action.

`CodingWorker`: `claimed`, `reserved`, `effectClaims`, `events`, `submission` are durable,
`worker` is a process: where it is, what it was admitted to, its turn and the next
sequence. `ReadFile`, `WriteFile`, `Validate` are the tools, reduced to whether they
refuse or take effect. A validation runs in the reviewed sandbox (`SandboxAnswers`): an
exception, a time-out and output that is not valid are a failed result like any other, its event
is written and nothing is known of the command. `SupervisorSequence`: `files` are the
names in the record directory, `results` what the event files say; a native step that fails
(`NativeFails`) is a blocked or ambiguous result that is appended like any other, with or without
a session behind it. `DeploymentHandoff`:
`active` to `evidence` are the fields of the canonical store, `child` the rows of the
native host's database, `hosts` the objects in memory. `CanaryExecution`: `chain` and
`record` are the ledger, `fence` is the owner host's lease, `target` the
outside world. `DispatchCanary` counts a dispatch in `dispatches`; its effect lands
(`CanaryLands`, counted in `landed`) before the answer, after a time-out and the read-backs that
missed it (`missed`), or never.
`DependencyReview`: `attempt`, `claim`, `decision`, `version`, `current` are its tables;
`CurrentReads` is the verification a reader makes of every version. `RoleGrants`: `usage`
is the budget database, `capsule`, `launch`, `held`, `cleared` what a host holds.
`FailureDecisions`: `decided` is the history of clearances per record, `inForce` a history
variable: the stops the owner has not lifted since.

`StateMigrations`: `file` is what is at the path, `db` the committed database and `work` the
same as the transaction of the process `lock` sees it; `absent` is `path_was_absent`. A
database is a record of its version, its identity and the tables that a migration reads,
copies or refuses, reduced to the columns that decide. Versions that only create tables are
numbers. `SourceIngestion`: `inputs` is what the host prepared, `requests` what it was asked,
`scan` the loop over one source's pages, `observed` and `reads` what it has seen, `ledger` is
`configured_source_inventories`, and `ownerMoved` a history variable.

## Runs

| Run | Instance | Shows |
|---|---|---|
| `lease` | 3 processes (2 share an owner token), 2 repositories, clock to 2, 2 generations, durations 1 and 2 | fencing, refinement of `FencedLease` |
| `ledger` | tasks: one task with 8 fingerprints, each fresh or replayed (the shortest path to the owner takes 5), and a rival with 5 identities that collide with it in each column; migrations: 2 processes, 1 death, no file or one of the ledgers of versions 3 to 84 with each kind of row, sound and unsound, malformed identities, changed and unmanaged schemas, a newer version; sources: a feed and an issue that name the same or different work (16 feeds) and 9 feeds whose pages are missing, drifted, repeated, in a circle or too many for the limits of 3 pages and 2 items, 3 graphs, 2 moves of the surroundings | no review is skipped; only consistent ledgers upgrade, objectives survive, no authority is manufactured; runnable work is unambiguous and a root, the owner's blockers are seen, reads stay in bounds |
| `candidates` | 2 processes of different owners, 2 commits, 2 policies, 2 epochs, 1 lineage, passing reports; and 1 process, 1 commit, 2 policies, 3 lineages, 2 gates, conflicting reports | evidence belongs to the seal, what is handed over is what was validated, no outvoted block |
| `provider` | one attempt of a Worker or a Supervisor, clock to 2, all callbacks, failures and recoveries in any order; two others that are prepared and open the one session; 2 epochs x 2 profiles x 2 formats | late output refused, gapless coordinates |
| `runner` | an initial attempt, a correction and a fallback; 1 runner with 2 crashes, 2 stops, 2 releases, or 2 runners with 1 of each | effects stay paid; a lone runner loses no budget, can resume what it prepared, and finishes after restarts |
| `review` | planning: 2 plans, 2 threads, 2 reviews, clear, blocked and owner-blocked bodies, a finding and a follow-up; candidate review, in three slices of 2 callers and 2 reviews: 1 implementation with 2 commits and 2 tests, an implementation with its repair on 1 commit and one turn in doubt at a time, and 2 rivals without reviews; owner: 2 candidates, 1 review with both kinds of item, 2 commands | what is implemented was reviewed, an acceptance is current, findings are whole and answered once, objectives, turns and task agree, through crashes and the recovery of any turn at any time; the owner decides once |
| `effects` | broker: 2 intents of one key, each kind of operation, clock to 3, health fresh for 2; canaries: 2 callers, 1 resource, 1 creation and 2 deletions allowed, 2 calls in all, racing in one process with one claim's effect outstanding at a time, or with a replacement and racing at the first head; coding: 2 processes, 2 tools, 2 deaths, 2 denials; sequence: 2 processes, 3 requests, 2 ends; handoff: 2 coordinators, 2 receipts, 2 pieces of evidence, 1 handoff, 1 child | one effect per key, claim, tool and turn; what took effect stays within the budget, however late it lands; stops take hold; what is outside, receipts and handoffs are on record |
| `admission` | graph: 2 hosts, 2 tasks, 2 attempts, 2 candidates, 4 members, proposals of an edge per task and of a circle; health: 2 configurations of 2 selections, 2 attempts; grants: 2 hosts, 2 commits of main; decisions: 2 tries of one role, 2 seals, 2 commands | turns are not repeated, the served graph is reviewed, health is fresh, debits stay, stops hold |
| `broker_deletion` | the broker's part of `effects` | **violation**: a stale read verifies a deletion |
| `canary_snapshot` | 1 caller, 1 resource, 2 creations and 2 deletions allowed, 2 calls in all, no restart | **violation**: a snapshot no replacement accepts |
| `coding_turns` | 1 process, 2 tools, an SDK that starts a fresh turn for every result | **violation**: the second turn cannot be checkpointed |
| `migration_objectives` | ledgers of version 62 with recorded objectives | **violation**: a populated ledger that no call upgrades |

`ledger`, `review`, `effects` and `admission` each join modules whose question is one and whose
tables are apart: a behaviour follows one part, while the others stay in their initial
state, so that the state space is the sum of the parts and not their product. The parts of
`review`, `effects` and `admission` share the model values of their actors, which keeps the symmetry
group small. Interactions between parts are inputs: that a scope is stopped (`FailureDecisions`) is
an event of `CodingWorker`, `SupervisorSequence`, `DependencyReview` and `ReviewRunner`; a
new seal (`CandidateReview`) one of `DependencyReview`, `OwnerControl` and
`FailureDecisions`; a provider attempt's settlement (`ProviderAttempts`) one of `Planning`
and `CandidateReview`. Each part takes them at any time, which is more than the other
part would offer it.

Bounds. `MaxTime`, `MaxGeneration`, `MaxEpoch`, `MaxLineage`, `MaxGraph` cap what only
grows; each lets the interesting event happen at least twice (two takeovers, a lease
that expires while somebody waits, a graph replaced once, two policy receipts). Tokens,
commits, sessions and fingerprints are only compared, so two or three values reach
every case; `TaskLifecycle` presents a fresh fingerprint as the smallest unused number.
Symmetry is used where values are only compared and no property is temporal beyond
one step.

`MCSpec` of `MCCandidateGates` joins two slices of one state space, because the whole of it
is out of reach: the race of two processes over a task whose dependencies were never
reviewed, and a single process under everything that moves a context. After a hand-over
only the worktree is followed. The proofs have none of these limits.

The intents of the broker share their key, because those of different keys meet only in the
journal file, which is written as a whole by one process. Two ticks of freshness let a
window close before, while and after a request is under way, and the third tick lets a
restarted broker meet an entry whose window is over.

`CrewSpec` of `MCReviewRunner` joins a lone runner and a pair. The properties of the two ledgers
and the restart are stated for the lone one: beside a second runner a debit may lose its owner
(see the findings). The sequence of the runner has each kind of entry once, so that every entry but the first
has a predecessor of another kind; the proofs are for sequences of any length.

In the joined runs, two actors and one resource they compete for reach every race of two
steps; two crashes, ends or denials let one hit the recovery of another. Two components are
checked in slices of their state space, each an action conjoined to the next-state relation in
the MC module. `CandidateReview`: one implementation while the worktree and its verification
move; an implementation, its review, its repair and the repair's review on one commit, with one
turn in doubt (ambiguous) at a time; and two implementations begun at once, up to their
candidates. `CanaryExecution`: two callers of one process with one claim's effect outstanding at
a time; and a process with a replacement, whose calls race at the first head and follow each
other at the next, with any number outstanding. What no slice has is left to the proofs: a repair
while the worktree moves or two turns are in doubt, or calls of a replacement that race for the
whole budget. One round of review is enough, since rounds are told apart by their number only.
The canary's two calls, a creation and the deletion that reverses it or two deletions, spend its
budget. Clocks run to the first instant at which what was checked is no longer valid.

Deadlock is checked in `lease`, `ledger`, `candidates` and `provider`: some annotation,
replay, repeated call or surrounding event stays possible in every state, also after the
hand-over and at the bounds. The other parts really end: a review sequence by an accepted review or by a claim whose outcome
was lost, an attempt by its outcome, a canary by its budget, and all of them at the bounds.

Fairness. Only `runner` assumes any: the lone runner that is ended is started again and
gets the lease, and a started one takes its steps (weak fairness of `Start`, `AcquireLease`
and `Step`). Crashes, stops and lost leases are bounded, and a scope that stays stopped is
excluded by the property itself. That is what the restart comments of
`_execute_selection` are about: the process is run again by its operator, and what a
dead one left must not keep it from finishing. No other operation of the code promises
progress, since it is called by a process that may die; the liveness hazards in
`PROJECT.json` say so where they bite.

## Findings

1. `broker_deletion`. `_readback_matches` takes every `STALE_RESPONSE` for the absence of a
   branch; the owner's read endpoint answers the same kind when its clock is unavailable or
   its health evidence has expired. A deletion that was refused is then verified, against
   "only if the exact semantic condition matches". All other receipts are observed
   (`ReceiptIsObserved`).
2. `canary_snapshot`. Two requests may hold records at one head of the receipt chain: the
   lease of the first raises or is refused, which preserves its record for the owner, and the
   second gets the lease. When that one is verified the head moves, and `_hydrate_record` refuses the other's record,
   which is not verified, for naming an older head. From then on no replacement accepts the
   sealed state, against "a sealed, local-only snapshot that a replacement coordinator can
   validate before it reconciles a verified, quarantined, or retry-allowed transition".
3. `coding_turns`. The coding Worker's session starts a fresh provider turn for each tool
   result; the production lifecycle records it with `record_external_turn`, which refuses
   any turn but the first once the attempt is dispatched. The submission becomes uncertain
   and the attempt ends ambiguous, against "Its identity must become durable before this
   loop asks it for a stream" and the test of the adapter, which uses a stub for the ledger.
4. `migration_objectives`. Objective rows are staged past the guards of versions 62 and 63 when
   version 62 is applied. A ledger that is already at 62 and holds rows in
   `worker_objective_records` is not staged, and the guard of 63 refuses it on every call,
   against "Carry populated v58-v62 objective rows past their historical empty guards." The
   `ledger` run, without these ledgers, shows that the others with sound rows upgrade.

Five smaller disagreements are in the models without a run of their own.
`sqlite3.connect` creates the database file before the transaction: a first `initialize` that
dies or is refused then leaves an empty file, which every later call takes for an unrecognized
database, although the docstring calls it transactional and idempotent.
`acquire_transition_lease` and `renew_transition_lease` read the clock before they wait for
the database, so that an expired row may still be extended by its own owner (fencing is
unaffected). The final transition does not look at the worktree after its last live check.
A Worker attempt abandoned for identity drift is consumed as completed when recovery is
called again with verified evidence. A debit written while a second runner abandons the
fence stays behind the reissued route.

## Proofs

Every property of every passing run but one is a theorem: the runs show it on a small
instance, the theorem for every value of the constants. The exception is
`LoneRestartsFinish` of `runner`, which is liveness under fairness and stays with TLC, as
would anything about `ENABLED` or about what a recursive definition computes. The prover's
modules are eight, so that parts checked in one run are also proved in one module; no proof
uses the state of another part.

Assumptions. The named assumptions of the modules type the constants, say that the value for
"no row" is no row, that identifiers of different kinds are apart, and that limits and
windows are positive where the code refuses others. Five ask for more:

- `DepAssumption` and `SourceAssumption`: the pairs of a proposal are pairs; configured
  sources are distinct, and no page names the first one as its next (the first has no cursor).
- `CandidateReviewAssumption`: finitely many reviews, as a table has.
- `LedgerAssumption` types the ledgers of earlier releases and adds two facts of their
  writers: `task_id` is the key of `tasks`, and since version 63 a record's retry identity is
  made from its attempt. Everything else may disagree.
- `HandoffIsValidated` assumes that processes have owner tokens of their own. The token is the
  caller's argument; two processes that present the same one share the lease by design
  (the run `lease` has two such processes), and the final transition cannot tell them apart.
- `PopulatedLedgersAreUpgraded` sets aside the ledgers of version 62 with records, which
  finding 4 is about. It holds for every other ledger of versions 58 to 62, and for every
  one of 58 to 61.

How the proofs go. Hardly any property is inductive, and mostly for one reason: it speaks of
the tables, while a step writes what a process remembers from an earlier transaction. Each
proof therefore has a type invariant, an invariant that says for each place in an operation
what the process at that place may rely on, and lemmas for the operations that several
actions share. Where a component has many actions, every action is first shown to be a
`Lawful` step, which says only what cells it may change and how; the properties follow from
lawfulness.

| Module | Theorems about | Inductive invariant, and why it is needed |
|---|---|---|
| `TransitionLease_proof` | owners of generations, fencing, the stale row, the refinement of `FencedLease` | `LeaseInv`: a renewal writes back the process's own value, so every held value was issued (`HeldIsIssued`), the row has the latest generation (`RowIsLatest`), the last commit was issued and values of one generation name one repository |
| `Ledger_proof` | the ledger as a path, recoveries, single use of evidence, readiness, ownership | `LedgerInv` joins them with the reviews each state implies (`StagesWereReviewed`); `OwnershipInv` adds that a task is stored under its own name |
| | upgrades of old ledgers | `MigrationInv`: the working copy of an open transaction is the upgrade, so far, of the committed ledger (`InWork`, by version) |
| | selected work and bounded scans | `SourceInv`: what a scan has read, and that every terminal projection was computed from the receipts and the graph it names (`ReceiptInv`, `ScanInv`) |
| `CandidateGates_proof` | evidence, contexts, blocks, the hand-over | the types of what is remembered between transactions; `GraphClaimsInv` (a row that claims the graph was recorded while that graph was accepted, and versions only grow); `TicketsInv` and `ValidatedInv` (while a ticket is the last one, what its process checked is what is recorded) |
| `ProviderAttempts_proof` | settled outcomes, CHECKs of the table, late output, coordinates | `AttemptInv` adds why an attempt can be blocked; `NumbersInv` that the highest number is well defined and numbers order the coordinates |
| `ReviewRunner_proof` | one paid effect per attempt, order of entries, spent routes; the lone runner | `RunnerInv`: a runner past its claim is the only one at its entry, every effect stems from a claimed attempt; for the lone one, what each place between the two databases leaves in both (`LoneInv`, `CrewInv`) |
| `Effects_proof` | the broker's journal and receipts | `BrokerInv`: for each step of a call the lifecycles its entry can have, and that nothing sends a request again once the call left `dispatch` |
| | handoffs and retirement | `HandoffInv`: the phase of a handoff fixes which receipts are revoked, retired and active, and evidence of the receipt in force is never of a later tenure (`EvidenceInv`) |
| | coding effects, stops, what is on record | `CodingInv`: at most one process ever gets past the claim of the dispatch, and its memory agrees with the tables; `StoreInv`: for each sequence what the store tells of its effect and its delivery (`Told`), and for each process what it has handed over so far |
| | budgets of canaries | `CanaryInv`: of several callers at one head one has the fence; heads are spent in order and each verified link is counted (`BudgetInv`), so that dispatched claims are bounded whatever lands when; whoever may allow the retry has read back a miss (`MissedInv`) |
| | backed turns and stops of the sequence | `SequenceInv`: what a process knows by where it stands, that a request has one owner and the plan one writer, and what the three stores say of each other; `DispatchedInv`: an event that is neither blocked nor ambiguous, or is about to be written, has its dispatched row |
| `Review_proof` | the owner's single decision | `OwnerInv`: how commands and items name each other |
| | plans and their reviews | `PlanningInv`: what a call still has to do, and what its earlier transactions left, so that a crash at any of them, and a recovery of any turn, leaves agreeing ledgers; of a used turn it keeps only that it is the answer of its plan, completed or ambiguous |
| | accepted reviews, findings, objectives | `ReviewInv`: the rows each caller of a chain of transactions relies on, and that what it checked is still so or its next transaction refuses; an open objective has a turn that runs, was rejected, or has output (`ObjectivesInv`) |
| `Admission_proof` | turns of dependency reviews, the served graph | `DepInv`: a session belongs to the one host that claimed its attempt; every edge of the served version names the accepted review behind it (`GraphInv`) |
| | dispatch on fresh health, debits, stops | `HealthInv`: an observation that says ready rests on an answer no older than it, in the cache, the call and the report alike; `GrantsInv`: a held reservation has its debit; `DecisionsInv`: a stop is in force exactly while the owner's decisions about it are balanced |

The upgrades of old ledgers are the longest argument. Each property compares a ledger with what
up to 84 steps of one transaction make of it, while other processes look, wait and die.
`InWork(d, w)` describes every table of the working copy by the version it has reached, in terms of
the committed ledger alone: until version 62 as committed, then staged, from 65 carried over
with the evidence that supports it; split at 71, in order from 73; admitted at 84. A step of
version v moves it from one description to the next, which is where the checks of
`Migrates` are used, and a commit reads the last description off.

The lone runner's two theorems are about `CrewSpec`, the specification the run checks, in which a
lone runner or a pair works; beside a second runner a debit may lose its owner (see the findings).
Crashes are unbounded in the proofs, and the sequence of entries has any length.

The type invariants are proved with the others and mostly not listed in `PROJECT.json`. The runs check fewer properties than are proved: where another property of a
run asks the deeper question (owners of generations, contexts of evidence, table CHECKs, durable
receipts and kept records, for instance), TLC does not check the plainer one as well.

## Plan

1. The refinement of a one-shot effect: `ReviewRunner`, `CodingWorker`, `DependencyReview`
   and `CanaryExecution` all implement claim, perform, conclude; their invariants (`OnceInv`,
   `SessionInv`, `FenceInv`) already say what the refinement mapping needs.
2. `FailureDecisions` composed with one consumer of its scopes, instead of the event
   `stopped`, with the theorem that a stop the owner has not lifted admits no effect.
3. Review-limit finalization in `Planning` and `TaskLifecycle`, and the proofs that it
   touches.
4. Two brokers on one journal; the adapter without a journal.

## Not modelled

Canonical JSON and digests (tamper evidence only), path and token
syntax, git, `gh`, SQLite and provider SDK internals, reports and the command line.

`external_validation.py`, `shadow.py`, `configuration.py`,
`qualification_gate.py`, `hosted_evidence.py` and the policies of repositories and slices
parse, encode and compare documents; they keep no state that a step could leave wrong.

Of the modelled components: the registry of entry points and the planning turn without
tools (`worker_toolbox.py`); the legacy table `coding_effect_intents`; mounted-runtime
evidence and the worktree's HEAD in a deployment authority; the Docker consumer and entry
point; `record_review_limit_finalization`; the comparison of a source's evidence and of its
endpoint's identity (`configured_source.py`), which only refuses. An execution of
a source request uses the graph of its preparation and does not read it again; the model does
the same. In this candidate
`require_external_production_activation` refuses every native effect outside tests; the
models describe the code behind that switch. The local launcher of validations
(`coding_tools.py`), which only fixtures reach, is left out. Whether a validation's command still
runs after its event is not stated: nothing in the code records it, and nothing reads the
ambiguity an event is written with. A canary's replacement hydrates the state as it was when the
process died, and a read-back names the request it is for. Deliberately refused repairs
(a lease row whose holder died, an allocating GitHub operation whose answer was lost, a
record directory that ends between an event and its receipt, gate rows whose stored binding
is stale) fail closed and are in the models; no liveness is claimed for them.
