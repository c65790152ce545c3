---------------------------- MODULE Review_proof ----------------------------
(***************************************************************************)
(* Planning, the review of plans and candidates, and the owner's commands, *)
(* for every set of plans, reviews, callers, commands and findings and     *)
(* every limit.                                                            *)
(***************************************************************************)
EXTENDS Planning, CandidateReview, OwnerControl, Integers,
        TLAPS, FiniteSetTheorems, WellFoundedInduction

-----------------------------------------------------------------------------
(***************************************************************************)
(* The owner's commands.                                                   *)
(***************************************************************************)
(* The rows of the two tables, and how they name each other: a queued       *)
(* command targets a raised item, and a settled item names a command that   *)
(* was consumed for it.                                                     *)
OwnerInv ==
    /\ queue \in [OwnerCommands -> CommandRows \cup {NoCommand}]
    /\ settled \in [Items -> OwnerCommands \cup {NoCommand}]
    /\ \A k \in OwnerCommands : queue[k] # NoCommand => queue[k].target \in Raised
    /\ \A k \in OwnerCommands : queue[k] # NoCommand /\ queue[k].state = "consumed" =>
          settled[queue[k].target] = k
    /\ \A x \in Items : settled[x] # NoCommand =>
          /\ x \in Raised /\ queue[settled[x]] # NoCommand
          /\ queue[settled[x]].state = "consumed" /\ queue[settled[x]].target = x

(* One step per operation on the owner's commands. *)
LEMMA OwnerInductive == OwnerInv /\ [OwnerNext]_ownerVars => OwnerInv'
  <1> SUFFICES ASSUME OwnerInv, [OwnerNext]_ownerVars
               PROVE  OwnerInv'
    OBVIOUS
  <1> USE OwnerAssumption
  <1>1. ASSUME UNCHANGED <<provenance, settled, queue>>
        PROVE  OwnerInv'
    BY <1>1 DEF OwnerInv, Raised
  <1>2. ASSUME NEW x \in Items, NEW r \in ItemReviews, RecordItem(x, r)
        PROVE  OwnerInv'
    <2>1. Raised \subseteq Raised'
      BY <1>2 DEF RecordItem, Raised
    <2> QED
      BY <1>2, <2>1 DEF RecordItem, OwnerInv
  <1>3. ASSUME NEW k \in OwnerCommands, NEW x \in Items, NEW s \in Candidates,
               QueueOwnerCommand(k, x, s)
        PROVE  OwnerInv'
    <2>1. NewCommand(x, s) \in CommandRows /\ NewCommand(x, s).target = x
          /\ NewCommand(x, s).state = "pending"
      BY DEF NewCommand, CommandRows
    <2>2. /\ queue' = [queue EXCEPT ![k] = NewCommand(x, s)] /\ queue[k] = NoCommand
          /\ x \in Raised /\ UNCHANGED <<provenance, settled>>
      BY <1>3 DEF QueueOwnerCommand, Target
    <2>3. Raised' = Raised
      BY <2>2 DEF Raised
    <2> QED
      BY <2>1, <2>2, <2>3 DEF OwnerInv
  <1>4. ASSUME NEW k \in OwnerCommands, ConsumeOwnerCommand(k)
        PROVE  OwnerInv'
    <2> DEFINE x == queue[k].target
               row == [queue[k] EXCEPT !.state = "consumed"]
    <2>1. /\ queue[k] \in CommandRows /\ queue[k].state = "pending" /\ x \in Items
          /\ x \in Raised /\ settled[x] = NoCommand
      BY <1>4 DEF ConsumeOwnerCommand, Pending, OwnerInv, CommandRows
    <2>2. row \in CommandRows /\ row.target = x /\ row.state = "consumed"
      BY <2>1 DEF CommandRows
    <2>3. /\ settled' = [settled EXCEPT ![x] = k] /\ queue' = [queue EXCEPT ![k] = row]
          /\ UNCHANGED provenance
      BY <1>4 DEF ConsumeOwnerCommand
    <2>4. Raised' = Raised
      BY <2>3 DEF Raised
    <2> HIDE DEF x, row
    <2>5. /\ queue' \in [OwnerCommands -> CommandRows \cup {NoCommand}] /\ queue'[k] = row
          /\ settled' \in [Items -> OwnerCommands \cup {NoCommand}] /\ settled'[x] = k
          /\ \A j \in OwnerCommands : j # k => queue'[j] = queue[j]
          /\ \A y \in Items : y # x => settled'[y] = settled[y]
      BY <2>1, <2>2, <2>3 DEF OwnerInv
    <2>6. \A j \in OwnerCommands : queue[j] # NoCommand /\ queue[j].state = "consumed" =>
             j # k /\ queue[j].target # x
      BY <2>1 DEF OwnerInv
    <2>7. \A y \in Items : settled[y] # NoCommand => settled[y] # k /\ y # x
      BY <2>1 DEF OwnerInv
    <2>8. \A j \in OwnerCommands : queue'[j] # NoCommand => queue'[j].target \in Raised'
      BY <2>1, <2>2, <2>4, <2>5 DEF OwnerInv
    <2>9. \A j \in OwnerCommands : queue'[j] # NoCommand /\ queue'[j].state = "consumed" =>
             settled'[queue'[j].target] = j
      BY <2>1, <2>2, <2>5, <2>6 DEF OwnerInv, CommandRows
    <2>10. \A y \in Items : settled'[y] # NoCommand =>
          /\ y \in Raised' /\ queue'[settled'[y]] # NoCommand
          /\ queue'[settled'[y]].state = "consumed" /\ queue'[settled'[y]].target = y
      BY <2>1, <2>2, <2>4, <2>5, <2>7 DEF OwnerInv
    <2> QED
      BY <2>5, <2>8, <2>9, <2>10 DEF OwnerInv
  <1>5. ASSUME NEW s, SealMoves(s) \/ GrantChanges(s) \/ AcceptanceChanges(s)
        PROVE  OwnerInv'
    BY <1>1, <1>5 DEF SealMoves, GrantChanges, AcceptanceChanges
  <1>6. CASE UNCHANGED ownerVars
    BY <1>1, <1>6 DEF ownerVars
  <1> QED
    BY <1>2, <1>3, <1>4, <1>5, <1>6 DEF OwnerNext

(* An item is settled by one command, which was consumed for it, and blocks
   the final gate until then, for any number of commands and items
   (consume_owner_command). *)
THEOREM OwnerDecidesOnce == OwnerSpec => []DecidedOnce
  <1>1. OwnerInit => OwnerInv
    BY DEF OwnerInit, OwnerInv
  <1>2. OwnerInv => DecidedOnce
    BY DEF OwnerInv, DecidedOnce, OwnerBlockers
  <1> QED
    BY <1>1, <1>2, OwnerInductive, PTL DEF OwnerSpec

-----------------------------------------------------------------------------
(***************************************************************************)
(* Planning and plan review.  PlanningInv follows a call through its       *)
(* transactions: what the earlier ones left, and what the later ones may   *)
(* still write when the process ends between two of them.                  *)
(***************************************************************************)
PlannerOps ==
    {"idle", "prepare-plan", "insert-plan", "bind-plan", "start-plan", "record-plan",
     "open-review", "implement", "prepare-review", "bind-review", "start-review",
     "insert-review", "record-review", "accept", "route", "persist-route", "void-review",
     "invalidate-review"}
PlannerCalls == [op : PlannerOps, id : Ids \cup {None}, row : PlanRow \cup PlanReviewRow \cup {None}]

RecordedReview(r) == planReviews[r] # None /\ planReviews[r].verdict # None
NewPlanReview(row) == row \in PlanReviewRow /\ row.output = None /\ row.verdict = None

(* What a call still has to do, and what its earlier transactions left. *)
CallInv ==
    /\ planner \in PlannerCalls
    /\ planner.op \in {"prepare-plan", "insert-plan"} =>
          planner.id \in PlanIds /\ planner.row \in PlanRow /\ planner.row.state = "dispatched"
    /\ planner.op \in {"bind-plan", "start-plan"} => planner.id \in PlanIds
    /\ planner.op = "record-plan" =>
          planner.id \in PlanIds /\ plans[planner.id] # None /\ plans[planner.id].content \in Contents
    /\ planner.op = "open-review" => planner.id \in PlanIds /\ submitted = planner.id
    /\ planner.op = "implement" =>
          /\ planner.id \in PlanIds /\ submitted = planner.id /\ criteria = planner.id
          /\ AcceptedFor(planner.id)
    /\ planner.op \in {"prepare-review", "bind-review", "start-review", "insert-review"} =>
          planner.id \in ReviewIds /\ NewPlanReview(planner.row)
    /\ planner.op = "record-review" =>
          /\ planner.id \in ReviewIds /\ planReviews[planner.id] # None
          /\ planReviews[planner.id].output \in Verdicts
    /\ planner.op \in {"accept", "route", "persist-route"} =>
          planner.id \in ReviewIds /\ RecordedReview(planner.id)
    /\ planner.op = "persist-route" =>
          planReviews[planner.id].verdict.findings \subseteq FindingsOf(planReviews[planner.id].plan)
    /\ planner.op \in {"void-review", "invalidate-review"} =>
          planner.id \in ReviewIds /\ planReviews[planner.id] # None

(* A verdict is the output that was bound to the turn, a recorded plan has a
   body, and what was accepted is a recorded PASS. *)
RowsInv ==
    /\ \A r \in ReviewIds : RecordedReview(r) => planReviews[r].verdict = planReviews[r].output
    /\ \A p \in PlanIds : PlanRecorded(p) => plans[p].content \in Contents
    /\ \A r \in ReviewIds : planRoutes[r] # None => planReviews[r] # None
AcceptedPass(p, r) ==
    /\ RecordedReview(r) /\ planReviews[r].plan = p /\ Pass(planReviews[r].verdict)
    /\ planReviews[r].verdict.follow \subseteq followUps /\ planTurn[r] = "accepted"
AcceptedInv == accepted # None => AcceptedPass(accepted[1], accepted[2])
(* ImplementedAsReviewed, while the task is implementing *)
ImplementingInv ==
    stage = "implementing" =>
      criteria \in PlanIds /\ submitted = criteria /\ AcceptedFor(criteria)

DataInv == PlanningTypeOK /\ RowsInv /\ AcceptedInv /\ ImplementingInv /\ ReviewLedgersAgree
PlanningInv == DataInv /\ CallInv

(* What the steps do to the rows. *)
PlansKept ==
    \A p \in PlanIds : plans[p] # None =>
      /\ plans'[p] # None /\ plans'[p].parent = plans[p].parent
      /\ plans'[p].thread = plans[p].thread /\ plans'[p].basis = plans[p].basis
      /\ plans[p].state = "recorded" => plans'[p] = plans[p]
NewPlansInScope ==
    \A p \in PlanIds : plans[p] = None /\ plans'[p] # None =>
      plans'[p].state = "dispatched" /\ InScope(p, plans'[p])
ReviewsKept ==
    \A r \in ReviewIds : planReviews[r] # None =>
      /\ planReviews'[r] # None /\ planReviews'[r].plan = planReviews[r].plan
      /\ planReviews[r].verdict # None => planReviews'[r].verdict = planReviews[r].verdict
TurnsKept ==
    /\ \A p \in PlanIds : planTurn[p] \in {"completed", "ambiguous"} =>
          planTurn'[p] \in {"completed", "ambiguous"}
    /\ \A r \in ReviewIds : planTurn[r] = "accepted" => planTurn'[r] = "accepted"

(* Steps on rows that do not move the task, its submission or its acceptance. *)
LEMMA RowsStep ==
  ASSUME DataInv, PlanningTypeOK', RowsInv', PlansKept, NewPlansInScope, ReviewsKept, TurnsKept,
         UNCHANGED <<stage, submitted, accepted, criteria, raised, planRoutes, openings, followUps>>
  PROVE  DataInv'
  <1>1. AcceptedInv'
    <2> SUFFICES ASSUME accepted # None
                 PROVE  AcceptedPass(accepted[1], accepted[2])'
      BY DEF AcceptedInv
    <2>1. PICK p \in PlanIds, r \in ReviewIds : accepted = <<p, r>>
      BY DEF DataInv, PlanningTypeOK
    <2>2. AcceptedPass(p, r)
      BY <2>1 DEF DataInv, AcceptedInv
    <2>3. AcceptedPass(p, r)'
      BY <2>2 DEF AcceptedPass, RecordedReview, ReviewsKept, TurnsKept
    <2> QED
      BY <2>1, <2>3
  <1>2. ImplementingInv'
    BY DEF DataInv, ImplementingInv, AcceptedFor
  <1>3. ASSUME NEW p \in PlanIds, Answered(p)
        PROVE  Answered(p)'
    BY <1>3 DEF Answered, PlanRecorded, PlansKept, TurnsKept
  <1>4. \A p \in PlanIds : FindingsOf(p)' = FindingsOf(p)
    BY DEF FindingsOf
  <1>5. ASSUME NEW p \in PlanIds, PlanRecorded(p)
        PROVE  PlanRecorded(p)' /\ plans'[p] = plans[p]
    BY <1>5 DEF PlanRecorded, PlansKept
  <1>6. /\ stage' = "plan-review" => submitted' # None
        /\ submitted' # None => Answered(submitted)'
    <2>1. submitted # None => submitted \in PlanIds
      BY DEF DataInv, PlanningTypeOK
    <2>2. PICK s : s = submitted
      OBVIOUS
    <2>3. s # None => Answered(s)'
      BY <1>3, <2>1, <2>2 DEF DataInv, ReviewLedgersAgree
    <2> QED
      BY <2>2, <2>3 DEF DataInv, ReviewLedgersAgree
  <1>7. ASSUME NEW r \in ReviewIds, planRoutes'[r] # None
        PROVE  (planRoutes[r] \subseteq FindingsOf(planReviews[r].plan))'
    <2>1. /\ planReviews[r] # None /\ planReviews'[r].plan = planReviews[r].plan
          /\ planRoutes[r] # None /\ planRoutes'[r] = planRoutes[r]
      BY <1>7 DEF DataInv, RowsInv, ReviewsKept
    <2>2. PICK p \in PlanIds : p = planReviews[r].plan
      BY <2>1 DEF DataInv, PlanningTypeOK, PlanReviewRow
    <2>3. planRoutes[r] \subseteq FindingsOf(p)'
      BY <2>1, <2>2, <1>4 DEF DataInv, ReviewLedgersAgree
    <2> QED
      BY <2>1, <2>2, <2>3
  <1>8. \A p \in PlanIds : \A f \in FindingsOf(p)' :
          \E r \in ReviewIds : /\ planReviews'[r] # None /\ planReviews'[r].plan = p
                              /\ planReviews'[r].verdict # None
                              /\ f \in planReviews'[r].verdict.findings
    <2> SUFFICES ASSUME NEW p \in PlanIds, NEW f \in FindingsOf(p)
                 PROVE  \E r \in ReviewIds :
                              /\ planReviews'[r] # None /\ planReviews'[r].plan = p
                              /\ planReviews'[r].verdict # None
                              /\ f \in planReviews'[r].verdict.findings
      BY <1>4
    <2>1. PICK r \in ReviewIds : /\ planReviews[r] # None /\ planReviews[r].plan = p
                              /\ planReviews[r].verdict # None
                              /\ f \in planReviews[r].verdict.findings
      BY DEF DataInv, ReviewLedgersAgree
    <2> QED
      BY <2>1 DEF ReviewsKept
  <1>9. ASSUME NEW p \in PlanIds, plans'[p] # None, plans'[p].parent # None
        PROVE  (/\ PlanRecorded(plans[p].parent)
                /\ plans[plans[p].parent].thread = plans[p].thread
                /\ plans[p].basis # {} /\ plans[p].basis \subseteq FindingsOf(plans[p].parent))'
    <2>1. PICK q \in PlanIds : q = plans'[p].parent
      BY <1>9 DEF PlanningTypeOK, PlanRow
    <2>2. /\ PlanRecorded(q) /\ plans[q].thread = plans'[p].thread
          /\ plans'[p].basis # {} /\ plans'[p].basis \subseteq FindingsOf(q)
      <3>1. CASE plans[p] = None
        BY <1>9, <2>1, <3>1 DEF NewPlansInScope, InScope
      <3>2. CASE plans[p] # None
        BY <1>9, <2>1, <3>2 DEF PlansKept, DataInv, ReviewLedgersAgree
      <3> QED
        BY <3>1, <3>2
    <2>3. PlanRecorded(q)' /\ plans'[q] = plans[q] /\ FindingsOf(q)' = FindingsOf(q)
      BY <1>4, <1>5, <2>2
    <2> QED
      BY <2>1, <2>2, <2>3
  <1>10. ReviewLedgersAgree'
    BY <1>6, <1>7, <1>8, <1>9 DEF ReviewLedgersAgree
  <1> QED
    BY <1>1, <1>2, <1>10 DEF DataInv

(* The caller's next step. *)
LEMMA Returns ==
  ASSUME planner' = Idle
  PROVE  CallInv'
  BY DEF Idle, CallInv, PlannerCalls, PlannerOps

(* A call that goes on keeps its identity and its row. *)
LEMMA PlannerGoes ==
  ASSUME CallInv, NEW op \in PlannerOps, Goto(op)
  PROVE  /\ planner' \in PlannerCalls /\ planner'.op = op
         /\ planner'.id = planner.id /\ planner'.row = planner.row
  BY DEF CallInv, Goto, PlannerCalls

(* A call that begins is at its first transaction. *)
LEMMA PlannerCallsNext ==
  ASSUME NEW op \in PlannerOps, NEW id \in Ids, NEW row \in PlanRow \cup PlanReviewRow \cup {None},
         Call(op, id, row)
  PROVE  /\ planner' \in PlannerCalls /\ planner'.op = op
         /\ planner'.id = id /\ planner'.row = row
  BY DEF Call, PlannerCalls

(* A step of one turn: an accepted one stays, an output is not given up. *)
LEMMA TurnStep ==
  ASSUME DataInv, NEW i \in Ids, NEW to \in PlanTurnStates,
         planTurn' = [planTurn EXCEPT ![i] = to],
         planTurn[i] # "accepted" \/ to = "accepted",
         i \in PlanIds => \/ planTurn[i] \notin {"completed", "ambiguous"}
                         \/ to \in {"completed", "ambiguous"},
         UNCHANGED <<stage, plans, planReviews, submitted, accepted, criteria, raised, planRoutes,
                     openings, followUps>>
  PROVE  DataInv'
  <1>1. PlanningTypeOK' /\ TurnsKept
    BY DEF DataInv, PlanningTypeOK, TurnsKept, Ids
  <1>2. RowsInv'
    BY DEF DataInv, RowsInv, RecordedReview, PlanRecorded
  <1>3. PlansKept /\ NewPlansInScope /\ ReviewsKept
    BY DEF PlansKept, NewPlansInScope, ReviewsKept
  <1> QED
    BY <1>1, <1>2, <1>3, RowsStep

(* A step that changes no table keeps the invariant of every table. *)
LEMMA NothingMoves ==
  ASSUME DataInv, UNCHANGED <<stage, plans, planReviews, planTurn, submitted, accepted, criteria,
                              raised, planRoutes, openings, followUps>>
  PROVE  DataInv'
  <1>1. PlanningTypeOK' /\ TurnsKept
    BY DEF DataInv, PlanningTypeOK, TurnsKept
  <1>2. RowsInv'
    BY DEF DataInv, RowsInv, RecordedReview, PlanRecorded
  <1>3. PlansKept /\ NewPlansInScope /\ ReviewsKept
    BY DEF PlansKept, NewPlansInScope, ReviewsKept
  <1> QED
    BY <1>1, <1>2, <1>3, RowsStep

(* A checkpoint moves the state of the call's own attempt. *)
LEMMA CheckpointStep ==
  ASSUME PlanningInv, NEW op \in PlannerOps, NEW from \in {"prepared", "bound"},
         NEW to \in {"bound", "dispatched"}, NEW next, Checkpoint(op, from, to, next),
         planner.id \in Ids
  PROVE  DataInv'
  <1>1. /\ planTurn' = [planTurn EXCEPT ![planner.id] = to] /\ planTurn[planner.id] \in {from, to}
        /\ UNCHANGED <<stage, plans, planReviews, submitted, accepted, criteria, raised, planRoutes,
                     openings, followUps>>
    BY DEF Checkpoint
  <1>2. /\ to \in PlanTurnStates
        /\ planTurn[planner.id] \notin {"accepted", "completed", "ambiguous"}
    BY <1>1 DEF PlanTurnStates
  <1> QED
    BY <1>1, <1>2, TurnStep DEF PlanningInv

(* Preparing an attempt inserts a fresh row. *)
LEMMA PrepareStep ==
  ASSUME PlanningInv, NEW op, NEW next, PreparePlanTurn(op, next), planner.id \in Ids
  PROVE  DataInv'
  <1>1. PICK to : to = IF planTurn[planner.id] = "none" THEN "prepared" ELSE planTurn[planner.id]
    OBVIOUS
  <1>2. /\ planTurn' = [planTurn EXCEPT ![planner.id] = to]
        /\ UNCHANGED <<stage, plans, planReviews, submitted, accepted, criteria, raised, planRoutes,
                     openings, followUps>>
    BY <1>1 DEF PreparePlanTurn
  <1>3. planTurn[planner.id] \in PlanTurnStates
    BY DEF PlanningInv, DataInv, PlanningTypeOK
  <1>4. to \in PlanTurnStates
    BY <1>1, <1>3 DEF PlanTurnStates
  <1> QED
    BY <1>1, <1>2, <1>4, TurnStep DEF PlanningInv

(* The Worker's steps. *)
LEMMA PlanSteps ==
  ASSUME PlanningInv, PlanStep
  PROVE  PlanningInv'
  <1> USE PlanningAssumption
  <1>0. DataInv /\ CallInv /\ PlanningTypeOK /\ RowsInv /\ ReviewLedgersAgree
    BY DEF PlanningInv, DataInv
  <1>1. CASE BeginPlanning
    <2>1. /\ stage' = "planning" /\ stage = "queued"
          /\ UNCHANGED <<plans, planReviews, planTurn, submitted, accepted, criteria, raised,
                   planRoutes, openings, followUps, planner>>
      BY <1>1 DEF BeginPlanning
    <2>2. DataInv'
      BY <1>0, <2>1 DEF DataInv, PlanningTypeOK, RowsInv, RecordedReview, PlanRecorded,
         AcceptedInv, AcceptedPass, ImplementingInv, ReviewLedgersAgree, Submittable, Answered,
         FindingsOf
    <2>3. CallInv'
      BY <1>0, <2>1 DEF CallInv, AcceptedFor, RecordedReview, FindingsOf
    <2> QED
      BY <2>2, <2>3 DEF PlanningInv
  <1>2. ASSUME NEW p \in PlanIds, NEW parent \in PlanIds \cup {None}, NEW thread \in Threads,
               DispatchPlan(p, parent, thread)
        PROVE  PlanningInv'
    <2> DEFINE row == [parent |-> parent, thread |-> thread,
                       basis |-> IF parent = None THEN {} ELSE FindingsOf(parent),
                       state |-> "dispatched", content |-> None]
    <2>1. row \in PlanRow /\ row.state = "dispatched"
      BY DEF PlanRow, FindingsOf
    <2> HIDE DEF row
    <2>2. /\ Call("prepare-plan", p, row)
          /\ UNCHANGED <<stage, plans, planReviews, planTurn, submitted, accepted, criteria,
                         raised, planRoutes, openings, followUps>>
      BY <1>2 DEF DispatchPlan, row
    <2>3. /\ planner' \in PlannerCalls /\ planner'.op = "prepare-plan"
          /\ planner'.id = p /\ planner'.row = row
      BY <2>1, <2>2, PlannerCallsNext DEF PlannerOps, Ids
    <2>4. CallInv'
      BY <2>1, <2>3 DEF CallInv
    <2> QED
      BY <1>0, <2>2, <2>4, NothingMoves DEF PlanningInv
  <1>3. ASSUME NEW p \in PlanIds, NEW content \in Contents, CompletePlan(p, content)
        PROVE  PlanningInv'
    <2> DEFINE row == [plans[p] EXCEPT !.content = content]
    <2>1. /\ plans[p] # None /\ plans[p] \in PlanRow /\ plans[p].content \in {None, content}
          /\ planTurn' = [planTurn EXCEPT ![p] = "completed"]
          /\ plans' = [plans EXCEPT ![p] = row] /\ Call("record-plan", p, None)
          /\ UNCHANGED <<stage, planReviews, submitted, accepted, criteria, raised, planRoutes,
                   openings, followUps>>
      BY <1>0, <1>3 DEF CompletePlan, PlanningTypeOK
    <2>2. /\ row \in PlanRow /\ row.content = content /\ row.state = plans[p].state
          /\ row.parent = plans[p].parent /\ row.thread = plans[p].thread
          /\ row.basis = plans[p].basis
      BY <2>1 DEF PlanRow
    <2>3. plans[p].content = content => row = plans[p]
      BY <2>1 DEF PlanRow
    <2> HIDE DEF row
    <2>4. /\ plans' \in [PlanIds -> PlanRow \cup {None}] /\ plans'[p] = row
          /\ \A q \in PlanIds : q # p => plans'[q] = plans[q]
      BY <1>0, <2>1, <2>2 DEF PlanningTypeOK
    <2>5. plans[p].state = "recorded" => plans[p].content = content
      BY <1>0, <2>1 DEF RowsInv, PlanRecorded
    <2>6. PlansKept /\ NewPlansInScope
      BY <2>1, <2>2, <2>3, <2>4, <2>5 DEF PlansKept, NewPlansInScope
    <2>7. PlanningTypeOK' /\ TurnsKept
      BY <1>0, <2>1, <2>4 DEF PlanningTypeOK, TurnsKept, Ids, PlanTurnStates
    <2>8. RowsInv' /\ ReviewsKept
      BY <1>0, <2>1, <2>2, <2>4 DEF RowsInv, RecordedReview, PlanRecorded, ReviewsKept
    <2>9. DataInv'
      BY <1>0, <2>1, <2>6, <2>7, <2>8, RowsStep
    <2>10. /\ planner' \in PlannerCalls /\ planner'.op = "record-plan" /\ planner'.id = p
      BY <2>1, PlannerCallsNext DEF PlannerOps, Ids
    <2>11. CallInv'
      BY <2>1, <2>2, <2>4, <2>10 DEF CallInv
    <2> QED
      BY <2>9, <2>11 DEF PlanningInv
  <1>4. ASSUME NEW p \in PlanIds, SubmitPlan(p)
        PROVE  PlanningInv'
    <2>1. /\ stage = "planning" /\ Submittable(p) /\ submitted' = p /\ Call("open-review", p, None)
          /\ UNCHANGED <<stage, plans, planReviews, planTurn, accepted, criteria, raised, planRoutes,
                   openings, followUps>>
      BY <1>4 DEF SubmitPlan
    <2>2. DataInv'
      BY <1>0, <2>1 DEF DataInv, PlanningTypeOK, RowsInv, RecordedReview, PlanRecorded,
         AcceptedInv, AcceptedPass, ImplementingInv, ReviewLedgersAgree, Submittable, Answered,
         FindingsOf
    <2>3. planner' \in PlannerCalls /\ planner'.op = "open-review" /\ planner'.id = p
      BY <2>1, PlannerCallsNext DEF PlannerOps, Ids
    <2>4. CallInv'
      BY <2>1, <2>3 DEF CallInv
    <2> QED
      BY <2>2, <2>4 DEF PlanningInv
  <1>5. ASSUME NEW p \in PlanIds, AcceptPlan(p)
        PROVE  PlanningInv'
    <2>1. /\ stage = "plan-review" /\ Submittable(p) /\ submitted = p /\ AcceptedFor(p)
          /\ Call("implement", p, None) /\ criteria' = p
          /\ UNCHANGED <<stage, plans, planReviews, planTurn, submitted, accepted, raised, planRoutes,
                   openings, followUps>>
      BY <1>5 DEF AcceptPlan
    <2>2. DataInv'
      BY <1>0, <2>1 DEF DataInv, PlanningTypeOK, RowsInv, RecordedReview, PlanRecorded,
         AcceptedInv, AcceptedPass, ImplementingInv, ReviewLedgersAgree, Submittable, Answered,
         FindingsOf
    <2>3. planner' \in PlannerCalls /\ planner'.op = "implement" /\ planner'.id = p
      BY <2>1, PlannerCallsNext DEF PlannerOps, Ids
    <2>4. CallInv'
      BY <2>1, <2>3 DEF CallInv, AcceptedFor
    <2> QED
      BY <2>2, <2>4 DEF PlanningInv
  <1>6. CASE PreparePlan
    <2>1. /\ planner.op = "prepare-plan" /\ Goto("insert-plan")
          /\ planner.id \in PlanIds /\ planner.row \in PlanRow /\ planner.row.state = "dispatched"
      BY <1>0, <1>6 DEF PreparePlan, PreparePlanTurn, At, CallInv
    <2>2. DataInv'
      BY <1>6, <2>1, PrepareStep DEF PreparePlan, Ids
    <2>3. CallInv'
      BY <1>0, <2>1, PlannerGoes DEF CallInv, PlannerOps
    <2> QED
      BY <2>2, <2>3 DEF PlanningInv
  <1>7. CASE InsertPlan
    <2> DEFINE p == planner.id
    <2>1. /\ planner.op = "insert-plan" /\ p \in PlanIds /\ planner.row \in PlanRow
          /\ planner.row.state = "dispatched" /\ InScope(p, planner.row)
          /\ IF plans[p] = None THEN plans' = [plans EXCEPT ![p] = planner.row] ELSE UNCHANGED plans
          /\ planner' = Idle \/ Goto("bind-plan")
          /\ UNCHANGED <<stage, planReviews, planTurn, submitted, accepted, criteria, raised,
                   planRoutes, openings, followUps>>
      BY <1>0, <1>7 DEF InsertPlan, At, CallInv, Return
    <2>2. CallInv'
      BY <1>0, <2>1, PlannerGoes, Returns DEF CallInv, PlannerOps
    <2>3. CASE plans[p] # None
      BY <1>0, <2>1, <2>2, <2>3, NothingMoves DEF PlanningInv
    <2>4. CASE plans[p] = None
      <3>1. PICK row \in PlanRow : row = planner.row
        BY <2>1
      <3>2. /\ plans' \in [PlanIds -> PlanRow \cup {None}] /\ plans'[p] = row
            /\ \A q \in PlanIds : q # p => plans'[q] = plans[q]
        BY <1>0, <2>1, <2>4, <3>1 DEF PlanningTypeOK
      <3>3. PlansKept /\ NewPlansInScope
        BY <2>1, <2>4, <3>1, <3>2 DEF PlansKept, NewPlansInScope
      <3>4. PlanningTypeOK' /\ TurnsKept
        BY <1>0, <2>1, <3>2 DEF PlanningTypeOK, TurnsKept
      <3>5. RowsInv' /\ ReviewsKept
        BY <1>0, <2>1, <3>1, <3>2 DEF RowsInv, RecordedReview, PlanRecorded, ReviewsKept
      <3> QED
        BY <1>0, <2>1, <2>2, <3>3, <3>4, <3>5, RowsStep DEF PlanningInv
    <2> QED
      BY <2>3, <2>4
  <1>8. CASE BindPlan \/ StartPlan
    <2>1. planner.op \in {"bind-plan", "start-plan"} /\ planner.id \in PlanIds
          /\ (planner' = Idle \/ Goto("start-plan"))
      BY <1>0, <1>8 DEF BindPlan, StartPlan, Checkpoint, At, CallInv, Return
    <2>2. DataInv'
      BY <1>8, <2>1, CheckpointStep DEF BindPlan, StartPlan, Ids, PlannerOps
    <2>3. CallInv'
      BY <1>0, <2>1, PlannerGoes, Returns DEF CallInv, PlannerOps
    <2> QED
      BY <2>2, <2>3 DEF PlanningInv
  <1>9. CASE RecordPlan
    <2> DEFINE p == planner.id
               state == IF plans[p].content \in OwnerBlocked THEN "owner-blocked" ELSE "recorded"
               row == [plans[p] EXCEPT !.state = state]
    <2>1. /\ p \in PlanIds /\ plans[p] # None /\ plans[p] \in PlanRow
          /\ plans[p].content \in Contents /\ plans[p].state = "dispatched"
          /\ plans' = [plans EXCEPT ![p] = row] /\ planner' = Idle
          /\ UNCHANGED <<stage, planReviews, planTurn, submitted, accepted, criteria, raised,
                   planRoutes, openings, followUps>>
      BY <1>0, <1>9 DEF RecordPlan, At, CallInv, Return, PlanningTypeOK
    <2>2. /\ row \in PlanRow /\ row.content = plans[p].content
          /\ row.parent = plans[p].parent /\ row.thread = plans[p].thread
          /\ row.basis = plans[p].basis
      BY <2>1 DEF PlanRow
    <2> HIDE DEF row, state, p
    <2>4. /\ plans' \in [PlanIds -> PlanRow \cup {None}] /\ plans'[p] = row
          /\ \A q \in PlanIds : q # p => plans'[q] = plans[q]
      BY <1>0, <2>1, <2>2 DEF PlanningTypeOK
    <2>6. PlansKept /\ NewPlansInScope
      BY <2>1, <2>2, <2>4 DEF PlansKept, NewPlansInScope
    <2>7. PlanningTypeOK' /\ TurnsKept
      BY <1>0, <2>1, <2>4 DEF PlanningTypeOK, TurnsKept
    <2>8. RowsInv' /\ ReviewsKept
      BY <1>0, <2>1, <2>2, <2>4 DEF RowsInv, RecordedReview, PlanRecorded, ReviewsKept
    <2> QED
      BY <1>0, <2>1, <2>6, <2>7, <2>8, RowsStep, Returns DEF PlanningInv
  <1>10. CASE OpenReview
    <2>1. /\ stage' = "plan-review" /\ stage = "planning" /\ planner' = Idle
          /\ submitted \in PlanIds
          /\ UNCHANGED <<plans, planReviews, planTurn, submitted, accepted, criteria, raised,
                   planRoutes, openings, followUps>>
      BY <1>0, <1>10 DEF OpenReview, At, Return, CallInv
    <2>2. DataInv'
      BY <1>0, <2>1 DEF DataInv, PlanningTypeOK, RowsInv, RecordedReview, PlanRecorded,
         AcceptedInv, AcceptedPass, ImplementingInv, ReviewLedgersAgree, Submittable, Answered,
         FindingsOf
    <2> QED
      BY <2>1, <2>2, Returns DEF PlanningInv
  <1>11. CASE EnterImplementation
    <2>1. /\ stage' = "implementing" /\ stage = "plan-review" /\ planner' = Idle
          /\ submitted \in PlanIds /\ criteria = submitted /\ AcceptedFor(criteria)
          /\ UNCHANGED <<plans, planReviews, planTurn, submitted, accepted, criteria, raised,
                   planRoutes, openings, followUps>>
      BY <1>0, <1>11 DEF EnterImplementation, At, Return, CallInv
    <2>2. DataInv'
      BY <1>0, <2>1 DEF DataInv, PlanningTypeOK, RowsInv, RecordedReview, PlanRecorded,
         AcceptedInv, AcceptedPass, ImplementingInv, ReviewLedgersAgree, Submittable, Answered,
         FindingsOf,
         AcceptedFor
    <2> QED
      BY <2>1, <2>2, Returns DEF PlanningInv
  <1> QED
    BY <1>1, <1>2, <1>3, <1>4, <1>5, <1>6, <1>7, <1>8, <1>9, <1>10, <1>11 DEF PlanStep

(* A review row that changes keeps its plan and its verdict. *)
LEMMA ReviewRowStep ==
  ASSUME DataInv, NEW r \in ReviewIds, NEW row \in PlanReviewRow,
         planReviews' = [planReviews EXCEPT ![r] = row],
         planReviews[r] # None =>
            /\ row.plan = planReviews[r].plan
            /\ planReviews[r].verdict # None => row.verdict = planReviews[r].verdict,
         row.verdict # None => row.verdict = row.output,
         PlanningTypeOK => planTurn' \in [Ids -> PlanTurnStates], TurnsKept,
         UNCHANGED <<stage, plans, submitted, accepted, criteria, raised, planRoutes, openings,
                     followUps>>
  PROVE  DataInv'
  <1>1. /\ planReviews' \in [ReviewIds -> PlanReviewRow \cup {None}] /\ planReviews'[r] = row
        /\ \A q \in ReviewIds : q # r => planReviews'[q] = planReviews[q]
    BY DEF DataInv, PlanningTypeOK
  <1>2. row # None
    BY PlanningAssumption
  <1>3. PlanningTypeOK'
    BY <1>1 DEF DataInv, PlanningTypeOK
  <1>4. PlansKept /\ NewPlansInScope
    BY DEF PlansKept, NewPlansInScope
  <1>5. ReviewsKept
    BY <1>1, <1>2 DEF ReviewsKept
  <1>6. RowsInv'
    BY <1>1, <1>2 DEF DataInv, RowsInv, RecordedReview, PlanRecorded
  <1> QED
    BY <1>3, <1>4, <1>5, <1>6, RowsStep

(* The transactions of a plan review. *)
LEMMA ReviewSteps ==
  ASSUME PlanningInv, ReviewStep
  PROVE  PlanningInv'
  <1> USE PlanningAssumption
  <1>0. DataInv /\ CallInv /\ PlanningTypeOK /\ RowsInv /\ ReviewLedgersAgree
    BY DEF PlanningInv, DataInv
  <1>t. \A r \in ReviewIds : planReviews[r] # None =>
           /\ planReviews[r] \in PlanReviewRow /\ planReviews[r].plan \in PlanIds
           /\ planReviews[r].output \in Verdicts \cup {None}
           /\ planReviews[r].verdict \in Verdicts \cup {None}
    BY <1>0 DEF PlanningTypeOK, PlanReviewRow
  <1>1. ASSUME NEW r \in ReviewIds, NEW p \in PlanIds, DispatchPlanReview(r, p)
        PROVE  PlanningInv'
    <2> DEFINE row == [plan |-> p, state |-> "dispatched", output |-> None, verdict |-> None]
    <2>1. NewPlanReview(row)
      BY DEF NewPlanReview, PlanReviewRow
    <2> HIDE DEF row
    <2>2. /\ Call("prepare-review", r, row)
          /\ UNCHANGED <<stage, plans, planReviews, planTurn, submitted, accepted, criteria, raised,
                   planRoutes, openings, followUps>>
      BY <1>1 DEF DispatchPlanReview, row
    <2>3. /\ planner' \in PlannerCalls /\ planner'.op = "prepare-review"
          /\ planner'.id = r /\ planner'.row = row
      BY <2>1, <2>2, PlannerCallsNext DEF PlannerOps, Ids, NewPlanReview
    <2>4. CallInv'
      BY <2>1, <2>3 DEF CallInv
    <2> QED
      BY <1>0, <2>2, <2>4, NothingMoves DEF PlanningInv
  <1>2. ASSUME NEW r \in ReviewIds, RejectOutput(r) \/ RecoverUnaccepted(r)
        PROVE  PlanningInv'
    <2>1. PICK to \in {"rejected", "invalidated"}, op \in {"invalidate-review", "void-review"} :
             /\ planTurn' = [planTurn EXCEPT ![r] = to] /\ Call(op, r, None)
             /\ planTurn[r] # "accepted" /\ planReviews[r] # None
             /\ UNCHANGED <<stage, plans, planReviews, submitted, accepted, criteria, raised,
                            planRoutes, openings, followUps>>
      BY <1>2 DEF RejectOutput, RecoverUnaccepted
    <2>2. to \in PlanTurnStates /\ r \in Ids /\ r \notin PlanIds
      BY DEF PlanTurnStates, Ids
    <2>3. DataInv'
      BY <1>0, <2>1, <2>2, TurnStep
    <2>4. planner' \in PlannerCalls /\ planner'.op = op /\ planner'.id = r
      BY <2>1, PlannerCallsNext DEF PlannerOps, Ids
    <2>5. CallInv'
      BY <2>1, <2>4 DEF CallInv
    <2> QED
      BY <2>3, <2>5 DEF PlanningInv
  <1>3. ASSUME NEW r \in ReviewIds, NEW verdict \in Verdicts, CompletePlanReview(r, verdict)
        PROVE  PlanningInv'
    <2> DEFINE row == [planReviews[r] EXCEPT !.output = verdict]
    <2>1. /\ planReviews[r] # None /\ planTurn[r] # "accepted"
          /\ planReviews[r].output \in {None, verdict}
          /\ planTurn' = [planTurn EXCEPT ![r] = "completed"]
          /\ planReviews' = [planReviews EXCEPT ![r] = row]
          /\ Call("record-review", r, None)
          /\ UNCHANGED <<stage, plans, submitted, accepted, criteria, raised, planRoutes, openings,
                   followUps>>
      BY <1>3 DEF CompletePlanReview
    <2>2. /\ row \in PlanReviewRow /\ row.plan = planReviews[r].plan /\ row.output = verdict
          /\ row.verdict = planReviews[r].verdict
      BY <1>t, <2>1 DEF PlanReviewRow
    <2>3. row.verdict # None => row.verdict = row.output
      BY <1>0, <1>t, <2>1, <2>2 DEF RowsInv, RecordedReview
    <2> HIDE DEF row
    <2>4. planTurn' \in [Ids -> PlanTurnStates] /\ TurnsKept /\ planTurn'[r] = "completed"
      BY <1>0, <2>1 DEF PlanningTypeOK, TurnsKept, Ids, PlanTurnStates
    <2>5. DataInv'
      BY <1>0, <2>1, <2>2, <2>3, <2>4, ReviewRowStep
    <2>6. planner' \in PlannerCalls /\ planner'.op = "record-review" /\ planner'.id = r
      BY <2>1, PlannerCallsNext DEF PlannerOps, Ids
    <2>7. planReviews'[r] = row /\ row # None
      BY <1>0, <2>1, <2>2 DEF PlanningTypeOK
    <2>8. CallInv'
      BY <2>2, <2>4, <2>6, <2>7 DEF CallInv
    <2> QED
      BY <2>5, <2>8 DEF PlanningInv
  <1>4. ASSUME NEW r \in ReviewIds, RecoverFindings(r)
        PROVE  PlanningInv'
    <2>1. /\ RecordedReview(r)
          /\ \/ Call("route", r, None)
             \/ /\ FindingsOf(planReviews[r].plan) = planReviews[r].verdict.findings
                /\ Call("persist-route", r, None)
          /\ UNCHANGED <<stage, plans, planReviews, planTurn, submitted, accepted, criteria, raised,
                   planRoutes, openings, followUps>>
      BY <1>4 DEF RecoverFindings, RecordedReview
    <2>2. /\ planner' \in PlannerCalls /\ planner'.id = r
          /\ \/ planner'.op = "route"
             \/ planner'.op = "persist-route"
                /\ FindingsOf(planReviews[r].plan) = planReviews[r].verdict.findings
      BY <2>1, PlannerCallsNext DEF PlannerOps, Ids
    <2>3. CallInv'
      BY <2>1, <2>2 DEF CallInv, RecordedReview, FindingsOf
    <2> QED
      BY <1>0, <2>1, <2>3, NothingMoves DEF PlanningInv
  <1>5. CASE PreparePlanReview
    <2>1. /\ planner.op = "prepare-review" /\ planner.id \in ReviewIds
          /\ NewPlanReview(planner.row)
          /\ \E next : PreparePlanTurn("prepare-review", next)
          /\ Goto("insert-review") \/ Goto("bind-review")
      BY <1>0, <1>5 DEF PreparePlanReview, PreparePlanTurn, At, CallInv
    <2>2. DataInv'
      BY <2>1, PrepareStep DEF Ids
    <2>3. CallInv'
      BY <1>0, <2>1, PlannerGoes DEF CallInv, PlannerOps
    <2> QED
      BY <2>2, <2>3 DEF PlanningInv
  <1>6. CASE BindPlanReview \/ StartPlanReview
    <2>1. /\ planner.op \in {"bind-review", "start-review"} /\ planner.id \in ReviewIds
          /\ NewPlanReview(planner.row)
          /\ Goto("start-review") \/ Goto("insert-review")
      BY <1>0, <1>6 DEF BindPlanReview, StartPlanReview, Checkpoint, At, CallInv, Return
    <2>2. DataInv'
      BY <1>6, <2>1, CheckpointStep DEF BindPlanReview, StartPlanReview, Ids, PlannerOps
    <2>3. CallInv'
      BY <1>0, <2>1, PlannerGoes DEF CallInv, PlannerOps
    <2> QED
      BY <2>2, <2>3 DEF PlanningInv
  <1>7. CASE InsertPlanReview
    <2> DEFINE r == planner.id
    <2>1. /\ r \in ReviewIds /\ NewPlanReview(planner.row) /\ planner' = Idle
          /\ planReviews' = [planReviews EXCEPT ![r] =
                               IF planReviews[r] = None THEN planner.row ELSE planReviews[r]]
          /\ UNCHANGED <<stage, plans, planTurn, submitted, accepted, criteria, raised, planRoutes,
                   openings, followUps>>
      BY <1>0, <1>7 DEF InsertPlanReview, At, CallInv, Return
    <2>2. PICK row : row = IF planReviews[r] = None THEN planner.row ELSE planReviews[r]
      OBVIOUS
    <2>3. /\ row \in PlanReviewRow /\ planReviews' = [planReviews EXCEPT ![r] = row]
          /\ planReviews[r] # None => row = planReviews[r]
          /\ row.verdict # None => row.verdict = row.output
      BY <1>0, <1>t, <2>1, <2>2 DEF NewPlanReview, RowsInv, RecordedReview
    <2>4. TurnsKept /\ (PlanningTypeOK => planTurn' \in [Ids -> PlanTurnStates])
      BY <2>1 DEF TurnsKept, PlanningTypeOK
    <2>5. DataInv'
      BY <1>0, <2>1, <2>3, <2>4, ReviewRowStep
    <2> QED
      BY <2>1, <2>5, Returns DEF PlanningInv
  <1>8. CASE RecordPlanReview
    <2> DEFINE r == planner.id
               out == planReviews[r].output
               state == IF planReviews[r].verdict = None THEN "recorded" ELSE planReviews[r].state
               row == [planReviews[r] EXCEPT !.verdict = out, !.state = state]
    <2>1. /\ r \in ReviewIds /\ planReviews[r] # None /\ planReviews[r] \in PlanReviewRow
          /\ out \in Verdicts
          /\ Goto("accept") \/ Goto("route")
          /\ UNCHANGED <<stage, plans, planTurn, submitted, accepted, criteria, raised, planRoutes,
                   openings, followUps>>
      BY <1>0, <1>t, <1>8 DEF RecordPlanReview, At, CallInv
    <2>2. planReviews' = [planReviews EXCEPT ![r] = row]
      BY <1>0, <1>8, <2>1 DEF RecordPlanReview, PlanningTypeOK
    <2>3. state \in {"dispatched", "recorded", "invalidated"}
      BY <2>1 DEF PlanReviewRow
    <2>4. /\ row \in PlanReviewRow /\ row.plan = planReviews[r].plan /\ row.verdict = out
          /\ row.output = out
      <3> HIDE DEF state
      <3> QED
        BY <2>1, <2>3 DEF PlanReviewRow
    <2>5. planReviews[r].verdict # None => planReviews[r].verdict = out
      BY <1>0, <2>1 DEF RowsInv, RecordedReview
    <2> HIDE DEF row, state
    <2>6. TurnsKept /\ (PlanningTypeOK => planTurn' \in [Ids -> PlanTurnStates])
      BY <2>1 DEF TurnsKept, PlanningTypeOK
    <2>7. DataInv'
      BY <1>0, <2>1, <2>2, <2>4, <2>5, <2>6, ReviewRowStep
    <2>8. planReviews'[r] = row /\ row # None /\ row.verdict # None
      BY <1>0, <2>1, <2>2, <2>4 DEF PlanningTypeOK
    <2>9. /\ planner' \in PlannerCalls /\ planner'.op \in {"accept", "route"} /\ planner'.id = r
      BY <1>0, <2>1, PlannerGoes DEF PlannerOps
    <2>10. CallInv'
      BY <2>1, <2>8, <2>9 DEF CallInv, RecordedReview
    <2> QED
      BY <2>7, <2>10 DEF PlanningInv
  <1>9. CASE RouteFindings
    <2>0. PICK r, p, found : /\ r = planner.id /\ p = planReviews[r].plan
                             /\ found = planReviews[r].verdict.findings
      OBVIOUS
    <2>1. /\ planner.op = "route" /\ r \in ReviewIds /\ RecordedReview(r)
          /\ Goto("persist-route")
          /\ UNCHANGED <<plans, planReviews, planTurn, accepted, criteria, planRoutes, followUps>>
      BY <1>0, <1>9, <2>0 DEF RouteFindings, At, CallInv
    <2>2. p \in PlanIds /\ found \subseteq Findings
      BY <1>t, <2>0, <2>1 DEF RecordedReview, Verdicts
    <2>3. /\ planner' \in PlannerCalls /\ planner'.op = "persist-route" /\ planner'.id = r
      BY <1>0, <2>0, <2>1, PlannerGoes DEF PlannerOps
    <2>4. \/ /\ FindingsOf(p) = found /\ UNCHANGED <<stage, submitted, raised, openings>>
          \/ /\ raised' = raised \cup ({p} \X found) /\ openings' = openings \cup {<<p, found>>}
             /\ stage' = "planning" /\ submitted' = None
      BY <1>9, <2>0 DEF RouteFindings
    <2>5. CASE FindingsOf(p) = found /\ UNCHANGED <<stage, submitted, raised, openings>>
      <3>1. CallInv'
        BY <2>0, <2>1, <2>3, <2>5 DEF CallInv, RecordedReview, FindingsOf
      <3> QED
        BY <1>0, <2>1, <2>5, <3>1, NothingMoves DEF PlanningInv
    <2>6. CASE /\ raised' = raised \cup ({p} \X found) /\ openings' = openings \cup {<<p, found>>}
               /\ stage' = "planning" /\ submitted' = None
      <3>1. found \subseteq FindingsOf(p)'
        BY <2>2, <2>6 DEF FindingsOf
      <3>2. \A q \in PlanIds : FindingsOf(q) \subseteq FindingsOf(q)'
        BY <2>6 DEF FindingsOf
      <3>3. \A q \in PlanIds : \A f \in FindingsOf(q)' : f \in FindingsOf(q) \/ (q = p /\ f \in found)
        BY <2>6 DEF FindingsOf
      <3>4. PlanningTypeOK'
        BY <1>0, <2>1, <2>2, <2>6 DEF PlanningTypeOK
      <3>5. RowsInv' /\ AcceptedInv' /\ ImplementingInv'
        BY <2>1, <2>6 DEF PlanningInv, DataInv, RowsInv, RecordedReview, PlanRecorded, AcceptedInv,
           AcceptedPass, ImplementingInv
      <3>6. ReviewLedgersAgree'
        <4>1. ASSUME NEW s \in ReviewIds, planRoutes'[s] # None
              PROVE  (planRoutes[s] \subseteq FindingsOf(planReviews[s].plan))'
          <5>1. planReviews[s] # None /\ planRoutes'[s] = planRoutes[s] /\ planRoutes[s] # None
            BY <1>0, <2>1, <4>1 DEF RowsInv
          <5>2. PICK q \in PlanIds : q = planReviews[s].plan
            BY <1>t, <5>1
          <5>3. planRoutes[s] \subseteq FindingsOf(q)'
            BY <1>0, <3>2, <5>1, <5>2 DEF ReviewLedgersAgree
          <5> QED
            BY <2>1, <5>1, <5>2, <5>3
        <4>2. ASSUME NEW q \in PlanIds, NEW f \in FindingsOf(q)'
              PROVE  \E s \in ReviewIds : /\ planReviews[s] # None /\ planReviews[s].plan = q
                              /\ planReviews[s].verdict # None
                              /\ f \in planReviews[s].verdict.findings
          <5>1. CASE f \in FindingsOf(q)
            BY <1>0, <5>1 DEF ReviewLedgersAgree
          <5>2. CASE q = p /\ f \in found
            BY <2>0, <2>1, <5>2 DEF RecordedReview
          <5> QED
            BY <3>3, <5>1, <5>2
        <4>3. ASSUME NEW q \in PlanIds, plans'[q] # None, plans'[q].parent # None
              PROVE  (/\ PlanRecorded(plans[q].parent)
                      /\ plans[plans[q].parent].thread = plans[q].thread
                      /\ plans[q].basis # {} /\ plans[q].basis \subseteq FindingsOf(plans[q].parent))'
          <5>1. PICK m \in PlanIds : m = plans[q].parent
            BY <1>0, <2>1, <4>3 DEF PlanningTypeOK, PlanRow
          <5>2. /\ PlanRecorded(m) /\ plans[m].thread = plans[q].thread
                /\ plans[q].basis # {} /\ plans[q].basis \subseteq FindingsOf(m)
            BY <1>0, <2>1, <4>3, <5>1 DEF ReviewLedgersAgree
          <5>3. PlanRecorded(m)' /\ plans[q].basis \subseteq FindingsOf(m)'
            BY <2>1, <3>2, <5>2 DEF PlanRecorded
          <5> QED
            BY <2>1, <5>1, <5>2, <5>3
        <4> QED
          BY <2>1, <2>6, <4>1, <4>2, <4>3 DEF ReviewLedgersAgree
      <3>7. CallInv'
        <4>1. /\ RecordedReview(r)' /\ planReviews'[r].verdict.findings \subseteq FindingsOf(p)'
              /\ planReviews'[r].plan = p
          BY <2>0, <2>1, <3>1 DEF RecordedReview
        <4> QED
          BY <2>1, <2>3, <4>1 DEF CallInv
      <3> QED
        BY <3>4, <3>5, <3>6, <3>7 DEF PlanningInv, DataInv
    <2> QED
      BY <2>4, <2>5, <2>6
  <1>10. CASE PersistRoute
    <2> DEFINE r == planner.id
               found == planReviews[r].verdict.findings
    <2>1. /\ r \in ReviewIds /\ RecordedReview(r) /\ planner' = Idle
          /\ found \subseteq FindingsOf(planReviews[r].plan)
          /\ planRoutes' = [planRoutes EXCEPT ![r] = found]
          /\ UNCHANGED <<stage, plans, planReviews, planTurn, submitted, accepted, criteria, raised,
                   openings, followUps>>
      BY <1>0, <1>10 DEF PersistRoute, At, CallInv, Return
    <2>2. found \subseteq Findings
      BY <1>t, <2>1 DEF RecordedReview, Verdicts
    <2> HIDE DEF found
    <2>3. /\ planRoutes' \in [ReviewIds -> (SUBSET Findings) \cup {None}] /\ planRoutes'[r] = found
          /\ \A s \in ReviewIds : s # r => planRoutes'[s] = planRoutes[s]
      BY <1>0, <2>1, <2>2 DEF PlanningTypeOK
    <2>4. PlanningTypeOK'
      BY <1>0, <2>1, <2>3 DEF PlanningTypeOK
    <2>5. RowsInv'
      BY <1>0, <2>1, <2>3 DEF RowsInv, RecordedReview, PlanRecorded
    <2>6. AcceptedInv' /\ ImplementingInv'
      BY <2>1 DEF PlanningInv, DataInv, AcceptedInv, AcceptedPass, RecordedReview, ImplementingInv,
         AcceptedFor
    <2>7. ReviewLedgersAgree'
      <3>1. \A s \in ReviewIds : planRoutes'[s] # None =>
               planRoutes'[s] \subseteq FindingsOf(planReviews[s].plan)
        BY <1>0, <2>1, <2>3 DEF ReviewLedgersAgree
      <3> QED
        BY <1>0, <2>1, <3>1 DEF ReviewLedgersAgree, PlanRecorded, FindingsOf, Answered
    <2> QED
      BY <2>1, <2>4, <2>5, <2>6, <2>7, Returns DEF PlanningInv, DataInv
  <1>11. CASE AcceptPlanPass
    <2> DEFINE r == planner.id
               p == planReviews[r].plan
    <2>1. /\ r \in ReviewIds /\ RecordedReview(r) /\ planner' = Idle /\ stage = "plan-review"
          /\ Pass(planReviews[r].verdict)
          /\ planTurn' = [planTurn EXCEPT ![r] = "accepted"]
          /\ accepted' = <<p, r>>
          /\ followUps' = followUps \cup planReviews[r].verdict.follow
          /\ UNCHANGED <<stage, plans, planReviews, submitted, criteria, raised, planRoutes,
                      openings>>
      BY <1>0, <1>11 DEF AcceptPlanPass, At, CallInv, Return, Receipt
    <2>2. p \in PlanIds /\ planReviews[r].verdict.follow \subseteq FollowUps
      BY <1>t, <2>1 DEF RecordedReview, Verdicts
    <2>3. /\ planTurn' \in [Ids -> PlanTurnStates] /\ planTurn'[r] = "accepted"
          /\ \A q \in PlanIds : planTurn'[q] = planTurn[q]
      BY <1>0, <2>1 DEF PlanningTypeOK, PlanTurnStates, Ids
    <2>4. PlanningTypeOK'
      BY <1>0, <2>1, <2>2, <2>3 DEF PlanningTypeOK
    <2>5. RowsInv'
      BY <1>0, <2>1 DEF RowsInv, RecordedReview, PlanRecorded
    <2>6. AcceptedInv'
      <3>1. PICK s \in ReviewIds, q \in {p} : s = r /\ q = p
        BY <2>1
      <3>2. AcceptedPass(q, s)'
        BY <2>1, <2>3, <3>1 DEF AcceptedPass, RecordedReview
      <3>3. accepted'[1] = q /\ accepted'[2] = s
        BY <2>1, <3>1
      <3> QED
        BY <3>2, <3>3 DEF AcceptedInv
    <2>7. ImplementingInv'
      BY <2>1 DEF ImplementingInv
    <2>8. ReviewLedgersAgree'
      <3>1. submitted # None => Answered(submitted)'
        <4>1. submitted # None => submitted \in PlanIds
          BY <1>0 DEF PlanningTypeOK
        <4> QED
          BY <1>0, <2>1, <2>3, <4>1 DEF ReviewLedgersAgree, Answered, PlanRecorded
      <3> QED
        BY <1>0, <2>1, <3>1 DEF ReviewLedgersAgree, PlanRecorded, FindingsOf
    <2> QED
      BY <2>1, <2>4, <2>5, <2>6, <2>7, <2>8, Returns DEF PlanningInv, DataInv
  <1>12. CASE VoidPlanReview
    <2> DEFINE r == planner.id
               row == [planReviews[r] EXCEPT !.state = "invalidated"]
    <2>1. /\ r \in ReviewIds /\ planReviews[r] # None /\ planReviews[r] \in PlanReviewRow
          /\ planReviews' = [planReviews EXCEPT ![r] = row] /\ planner' = Idle
          /\ UNCHANGED <<stage, plans, planTurn, submitted, accepted, criteria, raised, planRoutes,
                   openings, followUps>>
      BY <1>0, <1>t, <1>12 DEF VoidPlanReview, At, CallInv, Return
    <2>2. /\ row \in PlanReviewRow /\ row.plan = planReviews[r].plan
          /\ row.verdict = planReviews[r].verdict /\ row.output = planReviews[r].output
      BY <2>1 DEF PlanReviewRow
    <2>3. row.verdict # None => row.verdict = row.output
      BY <1>0, <2>1, <2>2 DEF RowsInv, RecordedReview
    <2> HIDE DEF row
    <2>4. TurnsKept /\ (PlanningTypeOK => planTurn' \in [Ids -> PlanTurnStates])
      BY <2>1 DEF TurnsKept, PlanningTypeOK
    <2>5. DataInv'
      BY <1>0, <2>1, <2>2, <2>3, <2>4, ReviewRowStep
    <2> QED
      BY <2>1, <2>5, Returns DEF PlanningInv
  <1> QED
    BY <1>1, <1>2, <1>3, <1>4, <1>5, <1>6, <1>7, <1>8, <1>9, <1>10, <1>11, <1>12 DEF ReviewStep

(* Recovery moves one turn: never an accepted one, and a plan's turn with an
   output stays completed or ambiguous. *)
LEMMA RecoveryStep ==
  ASSUME PlanningInv, NEW i \in Ids, RecoverPlanTurn(i)
  PROVE  PlanningInv'
  <1>1. /\ UNCHANGED <<stage, plans, planReviews, submitted, accepted, criteria, raised, planRoutes,
                     openings, followUps, planner>>
        /\ \/ planTurn[i] \in {"prepared", "bound"} /\ PlanTurnBecomes(i, "blocked")
           \/ planTurn[i] \in {"dispatched", "completed"} /\ PlanTurnBecomes(i, "ambiguous")
           \/ planTurn[i] = "ambiguous" /\ PlanTurnBecomes(i, "completed")
           \/ i \in ReviewIds /\ planTurn[i] # "accepted" /\ PlanTurnBecomes(i, "invalidated")
    BY DEF RecoverPlanTurn
  <1>2. i \in ReviewIds => i \notin PlanIds
    BY PlanningAssumption
  <1>3. PICK to \in PlanTurnStates :
          /\ planTurn' = [planTurn EXCEPT ![i] = to]
          /\ planTurn[i] # "accepted" \/ to = "accepted"
          /\ i \in PlanIds => \/ planTurn[i] \notin {"completed", "ambiguous"}
                            \/ to \in {"completed", "ambiguous"}
    BY <1>1, <1>2 DEF PlanTurnBecomes, PlanTurnStates
  <1>4. DataInv'
    BY <1>1, <1>3, TurnStep DEF PlanningInv
  <1>5. CallInv'
    BY <1>1 DEF PlanningInv, CallInv, AcceptedFor, RecordedReview, FindingsOf
  <1> QED
    BY <1>4, <1>5 DEF PlanningInv

(* PlanningInv holds initially and every transaction of planning keeps it. *)
LEMMA PlanningInductive == PlanningSpec => []PlanningInv
  <1>1. PlanningInit => PlanningInv
    BY PlanningAssumption DEF PlanningInit, PlanningInv, DataInv, PlanningTypeOK, RowsInv,
       RecordedReview, PlanRecorded, AcceptedInv, ImplementingInv, ReviewLedgersAgree, FindingsOf,
       CallInv, Idle, PlannerCalls, PlannerOps, PlanTurnStates
  <1>2. PlanningInv /\ [PlanningNext]_planningVars => PlanningInv'
    <2> SUFFICES ASSUME PlanningInv, [PlanningNext]_planningVars
                 PROVE  PlanningInv'
      OBVIOUS
    <2>1. CASE PlanStep
      BY <2>1, PlanSteps
    <2>2. CASE ReviewStep
      BY <2>2, ReviewSteps
    <2>3. CASE StopPlanning
      BY <2>3, NothingMoves, Returns DEF StopPlanning, Return, PlanningInv
    <2>5. CASE \E i \in Ids : RecoverPlanTurn(i)
      BY <2>5, RecoveryStep
    <2>4. CASE UNCHANGED planningVars
      <3>1. DataInv'
        BY <2>4, NothingMoves DEF planningVars, PlanningInv
      <3>2. CallInv'
        BY <2>4 DEF planningVars, PlanningInv, CallInv, AcceptedFor, RecordedReview, FindingsOf
      <3> QED
        BY <3>1, <3>2 DEF PlanningInv
    <2> QED
      BY <2>1, <2>2, <2>3, <2>4, <2>5 DEF PlanningNext
  <1> QED
    BY <1>1, <1>2, PTL DEF PlanningSpec

(* A task is implemented only on the submitted plan, still the answer of its
   turn, whose PASS is recorded and accepted with its follow-ups, although
   four transactions commit that and other reviews of the task and
   recoveries of the turns (recover_attempt) may come between
   (accept_plan_review_and_begin_implementation). *)
THEOREM ImplementationFollowsReview == PlanningSpec => []ImplementedAsReviewed
  <1>1. PlanningInv => ImplementedAsReviewed
    <2> SUFFICES ASSUME PlanningInv, stage = "implementing"
                 PROVE  \E r \in ReviewIds :
            /\ accepted = <<criteria, r>> /\ submitted = criteria
            /\ planReviews[r].plan = criteria /\ planReviews[r].verdict # None
            /\ Pass(planReviews[r].verdict) /\ planTurn[r] = "accepted"
            /\ planReviews[r].verdict.follow \subseteq followUps
            /\ Answered(criteria)
      BY DEF ImplementedAsReviewed
    <2>1. criteria \in PlanIds /\ submitted = criteria /\ AcceptedFor(criteria)
      BY DEF PlanningInv, DataInv, ImplementingInv
    <2>2. PICK p \in PlanIds, r \in ReviewIds : accepted = <<p, r>>
      BY <2>1 DEF PlanningInv, DataInv, PlanningTypeOK, AcceptedFor
    <2>3. p = criteria /\ AcceptedPass(criteria, r)
      BY <2>1, <2>2 DEF PlanningInv, DataInv, AcceptedInv, AcceptedFor
    <2>4. Answered(criteria)
      BY <2>1, PlanningAssumption DEF PlanningInv, DataInv, ReviewLedgersAgree
    <2> QED
      BY <2>1, <2>2, <2>3, <2>4 DEF AcceptedPass, RecordedReview
  <1> QED
    BY <1>1, PlanningInductive, PTL

(* The tables of a review cycle agree at every crash point and after every
   recovery of a turn: a submitted plan is the answer of its turn, and
   plans, routes, raised findings and revisions name each other, for any
   number of plans and reviews. *)
THEOREM LedgersAgreeAtEveryCrash == PlanningSpec => []ReviewLedgersAgree
  <1>1. PlanningInv => ReviewLedgersAgree
    BY DEF PlanningInv, DataInv
  <1> QED
    BY <1>1, PlanningInductive, PTL

-----------------------------------------------------------------------------
(***************************************************************************)
(* Implementation and candidate review.  ReviewInv holds the round         *)
(* numbers, the sealed candidate every round is about, the findings of a   *)
(* round and the objectives together across calls that interleave and end  *)
(* anywhere.                                                               *)
(***************************************************************************)
(* A set of naturals that is not empty has a smallest member. *)
LEMMA Smallest ==
  ASSUME NEW T \in SUBSET Nat, T # {}
  PROVE  \E x \in T : \A y \in T : x <= y
  <1>1. PICK x \in T : \A y \in T : <<y, x>> \notin OpToRel(<, Nat)
    BY WFMin, NatLessThanWellFounded
  <1>2. \A y \in T : <<y, x>> \in Nat \X Nat /\ ~(y < x)
    BY <1>1 DEF OpToRel
  <1>3. ASSUME NEW y \in T PROVE x <= y
    <2>1. x \in Nat /\ y \in Nat OBVIOUS
    <2>2. ~(y < x) BY <1>2
    <2> QED BY <2>1, <2>2
  <1> QED BY <1>3

(* A bounded measure on a set takes its maximum. *)
LEMMA Largest ==
  ASSUME NEW S, NEW f \in [S -> Nat], NEW n \in Nat, S # {}, \A s \in S : f[s] <= n
  PROVE  \E s \in S : \A o \in S : f[o] <= f[s]
  <1> DEFINE T == {n - f[s] : s \in S}
  <1>1. T \in SUBSET Nat /\ T # {} OBVIOUS
  <1>2. PICK x \in T : \A y \in T : x <= y BY <1>1, Smallest
  <1>3. PICK s \in S : x = n - f[s] BY <1>2
  <1>4. ASSUME NEW o \in S PROVE f[o] <= f[s]
    <2>1. n - f[o] \in T OBVIOUS
    <2>2. n - f[s] <= n - f[o] BY <2>1, <1>2, <1>3
    <2> QED BY <2>2
  <1> QED BY <1>4

Requested == [impl : Impls, candidate : Commits, snapshot : SUBSET Checks, round : Rounds]
CallOps == {"idle", "claim", "start", "insert", "objective", "complete", "candidate",
            "end-objective", "enter-review", "verify", "pass", "findings", "accept", "withdraw"}
CallArgs == Reviews \cup Commits \cup Requested \cup (SUBSET Points) \cup {Nothing}
CallRow == [op : CallOps, id : Turns \cup Checks \cup {Nothing}, arg : CallArgs]

ReviewTypes ==
    /\ task \in {"implementing", "diff-review"}
    /\ head \in Commits \cup {Nothing} /\ seal \in Commits \cup {Nothing}
    /\ impls \in [Impls -> ImplRow \cup {Nothing}]
    /\ objective \in [Impls -> {"none", "active", "completed", "cancelled"}]
    /\ entered \subseteq Impls
    /\ verified \in [Commits -> SUBSET Checks]
    /\ reviews \in [Reviews -> ReviewRow \cup {Nothing}]
    /\ turn \in [Turns -> TurnStates]
    /\ routes \in [Reviews -> RouteRow \cup {Nothing}]
    /\ at \in [Callers -> CallRow]

(* The turn of a review has ended: its output, if it has one, is bound for
   good. *)
Ended(x) == turn[x] \in {"completed", "accepted", "ambiguous", "invalidated"}

(* A review keeps what it was asked; its artifact is the output bound to
   its ended turn. *)
RowInv(r) ==
    reviews[r] # Nothing =>
      /\ Complete(reviews[r].snapshot)
      /\ CandidateOf(reviews[r].impl) = reviews[r].candidate
      /\ reviews[r].state = "dispatched" <=> reviews[r].outcome = Nothing
      /\ reviews[r].outcome # Nothing =>
            Ended(r) /\ reviews[r].outcome = reviews[r].output

RouteInv(r) ==
    routes[r] # Nothing /\ routes[r].consumed # Nothing => impls[routes[r].consumed] # Nothing

(* A review's request, as its dispatch carries it. *)
Prepared(request) ==
    /\ request \in Requested /\ Complete(request.snapshot)
    /\ CandidateOf(request.impl) = request.candidate

(* What the earlier transactions of a call left for the next one. *)
StartFits(call) ==
    \/ call.id \in Impls /\ call.arg \in Reviews \cup {Nothing}
    \/ call.id \in Reviews /\ Prepared(call.arg)
DeliveryFits(call) ==
    /\ call.id \in Impls /\ impls[call.id] # Nothing /\ call.arg \in Commits
    /\ call.op \in {"candidate", "end-objective"} =>
          /\ turn[call.id] \in {"completed", "ambiguous"}
          /\ impls[call.id].output = call.arg
    /\ call.op = "enter-review" => objective[call.id] = "completed"
OutputFits(call) ==
    /\ call.id \in Reviews /\ reviews[call.id] # Nothing /\ Ended(call.id)
    /\ reviews[call.id].output =
          [verdict |-> IF call.op = "findings" THEN "findings" ELSE "pass", points |-> call.arg]
    /\ reviews[call.id].output \in Outcomes
    /\ call.op = "accept" => reviews[call.id].outcome # Nothing
CallFits(call) ==
    /\ call.op = "claim" => call.id \in Impls /\ call.arg \in Reviews \cup {Nothing}
    /\ call.op \in {"start", "insert"} => StartFits(call)
    /\ call.op = "objective" => call.id \in Impls /\ impls[call.id] # Nothing
    /\ call.op \in {"complete", "candidate", "end-objective", "enter-review"} => DeliveryFits(call)
    /\ call.op = "verify" => call.id \in Checks /\ call.arg \in Commits
    /\ call.op \in {"pass", "findings", "accept"} => OutputFits(call)
    /\ call.op = "withdraw" => call.id \in Reviews /\ reviews[call.id] # Nothing

(* A completed objective is a dispatched implementation's. *)
ObjectivesInv ==
    ObjectivesAgree /\ \A i \in Impls : objective[i] = "completed" => impls[i] # Nothing

LedgerInv ==
    /\ \A r \in Reviews : RowInv(r) /\ RouteInv(r)
    /\ AcceptanceIsCurrent /\ FindingsAreWhole /\ ObjectivesInv
CallsInv == \A c \in Callers : CallFits(at[c])
ReviewInv == ReviewTypes /\ CallsInv /\ LedgerInv

(* What every step keeps of the rows. *)
ImplsKept ==
    \A i \in Impls : impls[i] # Nothing =>
      /\ impls'[i] # Nothing /\ impls'[i].parent = impls[i].parent
      /\ impls[i].output # Nothing => impls'[i].output = impls[i].output
      /\ impls[i].candidate # Nothing => impls'[i].candidate = impls[i].candidate
Answering(i) == turn[i] \in {"completed", "ambiguous"}
WorkKept ==
    \A i \in Impls : /\ Answering(i) => Answering(i)'
                     /\ objective[i] = "completed" => objective'[i] = "completed"
DiffReviewsKept ==
    \A r \in Reviews : reviews[r] # Nothing =>
      /\ reviews'[r] # Nothing
      /\ reviews'[r].impl = reviews[r].impl /\ reviews'[r].candidate = reviews[r].candidate
      /\ reviews'[r].snapshot = reviews[r].snapshot /\ reviews'[r].round = reviews[r].round
      /\ Ended(r) => Ended(r)' /\ reviews'[r].output = reviews[r].output
      /\ reviews[r].outcome # Nothing => reviews'[r].outcome = reviews[r].outcome
RowsKept == ImplsKept /\ WorkKept /\ DiffReviewsKept

(* What is known of a candidate holds while its rows are kept. *)
LEMMA CandidateKept ==
  ASSUME ReviewTypes, ReviewTypes', ImplsKept, NEW i \in Impls, NEW s \in Commits, CandidateOf(i) = s
  PROVE  (CandidateOf(i) = s)'
  <1>1. impls[i] # Nothing /\ impls[i].candidate = s
    BY CandidateReviewAssumption DEF CandidateOf
  <1>2. impls'[i] # Nothing /\ impls'[i].candidate = s
    BY <1>1, CandidateReviewAssumption DEF ImplsKept
  <1> QED BY <1>2 DEF CandidateOf

(* What a caller knows holds while the rows it knows of are kept. *)
LEMMA CallKept ==
  ASSUME ReviewTypes, ReviewTypes', RowsKept, NEW call \in CallRow, CallFits(call)
  PROVE  CallFits(call)'
  <1>1. StartFits(call) => StartFits(call)'
    <2>1. Prepared(call.arg) => Prepared(call.arg)'
      BY CandidateKept DEF Prepared, Requested, RowsKept, Complete
    <2> QED BY <2>1 DEF StartFits
  <1>2. DeliveryFits(call) => DeliveryFits(call)'
    BY CandidateReviewAssumption DEF DeliveryFits, RowsKept, ImplsKept, WorkKept, Answering
  <1>3. OutputFits(call) => OutputFits(call)'
    BY DEF OutputFits, RowsKept, DiffReviewsKept
  <1>4. /\ call.id \in Impls /\ impls[call.id] # Nothing => impls'[call.id] # Nothing
        /\ call.id \in Reviews /\ reviews[call.id] # Nothing => reviews'[call.id] # Nothing
    BY DEF RowsKept, ImplsKept, DiffReviewsKept
  <1> QED BY <1>1, <1>2, <1>3, <1>4 DEF CallFits

(* One caller moves; the others know what they knew. *)
LEMMA CallsStep ==
  ASSUME ReviewTypes, ReviewTypes', RowsKept, CallsInv, NEW c \in Callers,
         NEW call \in CallRow, at' = [at EXCEPT ![c] = call], CallFits(call)'
  PROVE  CallsInv'
  <1>1. ASSUME NEW o \in Callers PROVE CallFits(at[o])'
    <2>1. PICK b \in CallRow : b = at'[o] BY DEF ReviewTypes
    <2>2. CallFits(b)'
      <3>1. CASE o = c
        BY <3>1, <2>1 DEF ReviewTypes
      <3>2. CASE o # c
        <4>1. at[o] = b BY <3>2, <2>1 DEF ReviewTypes
        <4>2. CallFits(b) BY <4>1 DEF CallsInv
        <4> QED BY <4>2, CallKept
      <3> QED BY <3>1, <3>2
    <2> QED BY <2>1, <2>2
  <1> QED BY <1>1 DEF CallsInv

(* A call that ends, or none: nothing is left to fit. *)
LEMMA CallsEnd ==
  ASSUME ReviewTypes, ReviewTypes', RowsKept, CallsInv, NEW c \in Callers, Finish(c)
  PROVE  CallsInv'
  <1>1. Done \in CallRow /\ Done.op = "idle"
    <2>1. Nothing \in CallArgs BY DEF CallArgs
    <2>2. "idle" \in CallOps BY DEF CallOps
    <2> QED BY <2>1, <2>2 DEF Done, CallRow
  <1>2. PICK b \in CallRow : b = Done BY <1>1
  <1>3. CallFits(b)'
    BY <1>1, <1>2 DEF CallFits
  <1> QED BY <1>2, <1>3, CallsStep DEF Finish

(* No caller moves. *)
LEMMA CallsStay ==
  ASSUME ReviewTypes, ReviewTypes', RowsKept, CallsInv, UNCHANGED at
  PROVE  CallsInv'
  <1>1. ASSUME NEW o \in Callers PROVE CallFits(at[o])'
    <2>1. PICK b \in CallRow : b = at[o] /\ b = at'[o] BY DEF ReviewTypes
    <2>2. CallFits(b) BY <2>1 DEF CallsInv
    <2>3. CallFits(b)' BY <2>2, CallKept
    <2> QED BY <2>1, <2>3
  <1> QED BY <1>1 DEF CallsInv

(* A stutter keeps the invariant. *)
LEMMA NothingKept ==
  ASSUME ReviewTypes, UNCHANGED ledger
  PROVE  RowsKept
  BY DEF RowsKept, ImplsKept, WorkKept, Answering, DiffReviewsKept, Ended, ledger

(* A step that writes no row of the review ledger keeps it. *)
LEMMA LedgerStays ==
  ASSUME LedgerInv, UNCHANGED ledger
  PROVE  LedgerInv'
  BY DEF LedgerInv, ledger, RowInv, RouteInv, AcceptanceIsCurrent, FindingsAreWhole, ObjectivesInv, ObjectivesAgree,
         HasOutput, Complete, CandidateOf, Ended, AcceptedIn, ItemsOf

(* The newest outstanding route is one of them: reviews are numbered. *)
LEMMA NewestOutstanding ==
  ASSUME ReviewTypes, FindingsAreWhole, NEW parent \in Reviews, CurrentRoute = parent
  PROVE  parent \in Outstanding
  <1>1. Outstanding # {} BY CandidateReviewAssumption DEF CurrentRoute
  <1> DEFINE f == [o \in Outstanding |-> reviews[o].number]
  <1>2. Cardinality(Reviews) \in Nat BY FS_CardinalityType, CandidateReviewAssumption
  <1>3. ASSUME NEW o \in Outstanding PROVE f[o] \in Nat /\ f[o] <= Cardinality(Reviews)
    <2>1. o \in Reviews /\ reviews[o] # Nothing BY DEF Outstanding, FindingsAreWhole
    <2>2. reviews[o].number \in 1..Cardinality(Reviews) BY <2>1 DEF ReviewTypes, ReviewRow
    <2> QED BY <2>2, <1>2
  <1>4. f \in [Outstanding -> Nat] BY <1>3
  <1>5. \E r \in Outstanding : \A o \in Outstanding : f[o] <= f[r]
    <2> HIDE DEF f
    <2> QED BY <1>1, <1>2, <1>3, <1>4, Largest
  <1>6. \E r \in Outstanding : \A o \in Outstanding : reviews[o].number <= reviews[r].number
    BY <1>5
  <1> QED BY <1>1, <1>6 DEF CurrentRoute

(* The next round's number is larger than every round's. *)
LEMMA NextNumber ==
  ASSUME ReviewTypes, NEW r \in Reviews, reviews[r] = Nothing
  PROVE  Cardinality({o \in Reviews : reviews[o] # Nothing}) + 1 \in 1..Cardinality(Reviews)
  <1> DEFINE S == {o \in Reviews : reviews[o] # Nothing}
  <1>1. S \in SUBSET Reviews /\ r \notin S OBVIOUS
  <1>2. IsFiniteSet(S) /\ Cardinality(S) <= Cardinality(Reviews)
        /\ (Cardinality(Reviews) = Cardinality(S) => Reviews = S)
    BY <1>1, FS_Subset, CandidateReviewAssumption
  <1>3. Cardinality(S) \in Nat /\ Cardinality(Reviews) \in Nat
    BY <1>2, FS_CardinalityType, CandidateReviewAssumption
  <1>4. Cardinality(S) # Cardinality(Reviews) BY <1>1, <1>2
  <1> HIDE DEF S
  <1>5. Cardinality(S) + 1 \in 1..Cardinality(Reviews) BY <1>2, <1>3, <1>4
  <1> QED BY <1>5 DEF S

(* Steps of a Worker's turn: the reviews and what hangs on them do not move. *)
LEMMA WorkStep ==
  ASSUME ReviewTypes, ReviewTypes', LedgerInv, ImplsKept,
         UNCHANGED <<reviews, routes, items, verified>>,
         \A r \in Reviews : turn'[r] = turn[r],
         \A i \in Impls : impls[i] = Nothing => impls'[i] = Nothing,
         ObjectivesInv'
  PROVE  LedgerInv' /\ DiffReviewsKept
  <1>1. \A r \in Reviews : RowInv(r)'
    <2> SUFFICES ASSUME NEW r \in Reviews, reviews[r] # Nothing PROVE RowInv(r)'
      BY DEF RowInv
    <2>1. reviews[r].impl \in Impls /\ reviews[r].candidate \in Commits
      BY DEF ReviewTypes, ReviewRow
    <2>2. PICK i \in Impls, s \in Commits : i = reviews[r].impl /\ s = reviews[r].candidate BY <2>1
    <2>3. CandidateOf(i) = s BY <2>2 DEF LedgerInv, RowInv
    <2>4. (CandidateOf(i) = s)' BY <2>3, CandidateKept
    <2> QED BY <2>2, <2>4 DEF LedgerInv, RowInv, Complete, Ended
  <1>2. \A r \in Reviews : RouteInv(r)'
    <2> SUFFICES ASSUME NEW r \in Reviews, routes[r] # Nothing, routes[r].consumed # Nothing
                 PROVE  impls'[routes[r].consumed] # Nothing
      BY DEF RouteInv
    <2>1. routes[r].consumed \in Impls BY DEF ReviewTypes, RouteRow
    <2> QED BY <2>1 DEF LedgerInv, RouteInv, ImplsKept
  <1>3. AcceptanceIsCurrent'
    <2>1. \A round : AcceptedIn(round)' = AcceptedIn(round) BY DEF AcceptedIn
    <2>2. ASSUME NEW r \in Reviews, turn'[r] = "accepted"
          PROVE  (CandidateOf(reviews[r].impl) = reviews[r].candidate)'
      <3>1. reviews[r] # Nothing BY <2>2 DEF LedgerInv, AcceptanceIsCurrent
      <3> QED BY <3>1, <1>1 DEF RowInv
    <2> QED BY <2>1, <2>2 DEF LedgerInv, AcceptanceIsCurrent, Complete, ItemsOf
  <1>4. FindingsAreWhole'
    <2>1. \A r \in Reviews : routes[r] # Nothing /\ routes[r].consumed # Nothing =>
             routes[r].consumed \in Impls /\ impls'[routes[r].consumed].parent = r
      <3> SUFFICES ASSUME NEW r \in Reviews, routes[r] # Nothing, routes[r].consumed # Nothing
                   PROVE  routes[r].consumed \in Impls /\ impls'[routes[r].consumed].parent = r
        OBVIOUS
      <3>1. routes[r].consumed \in Impls BY DEF ReviewTypes, RouteRow
      <3> QED BY <3>1 DEF LedgerInv, RouteInv, FindingsAreWhole, ImplsKept
    <2>2. \A i \in Impls : impls'[i] # Nothing => impls[i] # Nothing /\ impls'[i].parent = impls[i].parent
      BY DEF ImplsKept
    <2> QED BY <2>1, <2>2 DEF LedgerInv, FindingsAreWhole, ItemsOf
  <1>5. DiffReviewsKept BY DEF DiffReviewsKept, Ended
  <1> QED BY <1>1, <1>2, <1>3, <1>4, <1>5 DEF LedgerInv

(* Entering and leaving a call. *)
LEMMA Enters ==
  ASSUME ReviewTypes, NEW c \in Callers, NEW op \in CallOps, NEW id \in Turns \cup Checks,
         NEW arg \in CallArgs, Enter(c, op, id, arg)
  PROVE  /\ at' \in [Callers -> CallRow]
         /\ [op |-> op, id |-> id, arg |-> arg] \in CallRow
         /\ at' = [at EXCEPT ![c] = [op |-> op, id |-> id, arg |-> arg]]
  BY DEF ReviewTypes, Enter, CallRow

(* A call that goes on keeps its identity and its argument. *)
LEMMA CallGoes ==
  ASSUME ReviewTypes, NEW c \in Callers, NEW op \in CallOps, Then(c, op)
  PROVE  /\ at' \in [Callers -> CallRow]
         /\ [op |-> op, id |-> at[c].id, arg |-> at[c].arg] \in CallRow
         /\ at' = [at EXCEPT ![c] = [op |-> op, id |-> at[c].id, arg |-> at[c].arg]]
  <1>1. at[c] \in CallRow BY DEF ReviewTypes
  <1>2. [at[c] EXCEPT !.op = op] = [op |-> op, id |-> at[c].id, arg |-> at[c].arg]
    BY <1>1 DEF CallRow
  <1>3. [op |-> op, id |-> at[c].id, arg |-> at[c].arg] \in CallRow
    BY <1>1 DEF CallRow
  <1>4. at' = [at EXCEPT ![c] = [at[c] EXCEPT !.op = op]]
    BY Zenon DEF Then
  <1>5. at' = [at EXCEPT ![c] = [op |-> op, id |-> at[c].id, arg |-> at[c].arg]]
    BY <1>2, <1>4
  <1> QED BY <1>3, <1>5 DEF ReviewTypes

(* A call that ends leaves its caller idle. *)
LEMMA CallEnds ==
  ASSUME ReviewTypes, NEW c \in Callers, Finish(c)
  PROVE  at' \in [Callers -> CallRow]
  <1>1. Nothing \in CallArgs BY DEF CallArgs
  <1>2. "idle" \in CallOps BY DEF CallOps
  <1> QED BY <1>1, <1>2 DEF ReviewTypes, Finish, Done, CallRow

(* A call begins without a transaction. *)
LEMMA CallBegins ==
  ASSUME ReviewInv, UNCHANGED ledger, NEW c \in Callers, NEW call \in CallRow,
         at' \in [Callers -> CallRow], at' = [at EXCEPT ![c] = call], CallFits(call)
  PROVE  ReviewInv'
  <1>1. ReviewTypes' BY DEF ReviewInv, ReviewTypes, ledger
  <1>2. RowsKept BY NothingKept DEF ReviewInv
  <1>3. CallFits(call)' BY <1>1, <1>2, CallKept DEF ReviewInv
  <1> QED BY <1>1, <1>2, <1>3, CallsStep, LedgerStays DEF ReviewInv

\* One lemma for each operation of a caller and of its surroundings: it keeps ReviewInv.
LEMMA BeginImplementationKeeps ==
  ASSUME ReviewInv, NEW c \in Callers, NEW i \in Impls, NEW parent \in Reviews \cup {Nothing},
         BeginImplementation(c, i, parent)
  PROVE  ReviewInv'
  <1> USE DEF Turns
  <1>1. CASE impls[i] = Nothing
    <2>1. Enter(c, "claim", i, parent) /\ UNCHANGED ledger BY <1>1 DEF BeginImplementation
    <2>2. "claim" \in CallOps /\ parent \in CallArgs BY DEF CallOps, CallArgs
    <2>3. PICK call \in CallRow : call = [op |-> "claim", id |-> i, arg |-> parent]
      BY <2>1, <2>2, Enters DEF ReviewInv
    <2>4. CallFits(call) BY <2>3 DEF CallFits
    <2> QED BY <2>1, <2>2, <2>3, <2>4, Enters, CallBegins DEF ReviewInv
  <1>2. CASE impls[i] # Nothing
    <2>1. Enter(c, "objective", i, Nothing) /\ UNCHANGED ledger BY <1>2 DEF BeginImplementation
    <2>2. "objective" \in CallOps /\ Nothing \in CallArgs BY DEF CallOps, CallArgs
    <2>3. PICK call \in CallRow : call = [op |-> "objective", id |-> i, arg |-> Nothing]
      BY <2>1, <2>2, Enters DEF ReviewInv
    <2>4. CallFits(call) BY <2>3, <1>2 DEF CallFits
    <2> QED BY <2>1, <2>2, <2>3, <2>4, Enters, CallBegins DEF ReviewInv
  <1> QED BY <1>1, <1>2

LEMMA BeginVerificationKeeps ==
  ASSUME ReviewInv, NEW c \in Callers, NEW k \in Checks, BeginVerification(c, k)
  PROVE  ReviewInv'
  <1>1. Enter(c, "verify", k, seal) /\ UNCHANGED ledger /\ seal \in Commits
    BY DEF BeginVerification, Live, ReviewInv, ReviewTypes
  <1>2. "verify" \in CallOps /\ seal \in CallArgs BY <1>1 DEF CallOps, CallArgs
  <1>3. PICK call \in CallRow : call = [op |-> "verify", id |-> k, arg |-> seal]
    BY <1>1, <1>2, Enters DEF ReviewInv
  <1>4. CallFits(call) BY <1>1, <1>3 DEF CallFits
  <1> QED BY <1>1, <1>2, <1>3, <1>4, Enters, CallBegins DEF ReviewInv

LEMMA DispatchReviewKeeps ==
  ASSUME ReviewInv, NEW c \in Callers, NEW r \in Reviews, NEW i \in Impls, NEW round \in Rounds,
         DispatchReview(c, r, i, round)
  PROVE  ReviewInv'
  <1> USE DEF Turns
  <1>1. Enter(c, "start", r, ReviewRequest(i, round)) /\ UNCHANGED ledger /\ seal \in Commits
        /\ CandidateOf(i) = seal /\ Complete(verified[seal]) /\ verified[seal] \in SUBSET Checks
    BY DEF DispatchReview, Reviewable, Live, ReviewInv, ReviewTypes, Snapshot
  <1>2. PICK request : request = ReviewRequest(i, round) OBVIOUS
  <1>3. Prepared(request)
    BY <1>1, <1>2 DEF Prepared, Requested, ReviewRequest, Snapshot
  <1>4. "start" \in CallOps BY DEF CallOps
  <1>5. request \in CallArgs BY <1>3 DEF CallArgs, Prepared
  <1>6. PICK call \in CallRow : call = [op |-> "start", id |-> r, arg |-> request]
    BY <1>1, <1>2, <1>4, <1>5, Enters DEF ReviewInv
  <1>7. CallFits(call) BY <1>3, <1>6 DEF CallFits, StartFits
  <1> QED BY <1>1, <1>2, <1>4, <1>5, <1>6, <1>7, Enters, CallBegins DEF ReviewInv

LEMMA CrashKeeps ==
  ASSUME ReviewInv, NEW c \in Callers, Crash(c)
  PROVE  ReviewInv'
  <1>1. ReviewTypes' BY CallEnds DEF Crash, ReviewInv, ReviewTypes, ledger
  <1> QED BY <1>1, NothingKept, CallsEnd, LedgerStays DEF Crash, ReviewInv

(* The objective side of a step that leaves it, and no turn of a Worker, alone. *)
LEMMA ObjectivesStay ==
  ASSUME ReviewTypes, ReviewTypes', ObjectivesInv, UNCHANGED <<impls, objective, entered>>,
         \A i \in Impls : turn'[i] = turn[i], task' = "diff-review" => task = "diff-review"
  PROVE  ObjectivesInv'
  BY DEF ObjectivesInv, ObjectivesAgree, HasOutput, ReviewTypes

(* A call that only moves keeps every table. *)
LEMMA SameWork ==
  ASSUME UNCHANGED <<impls, objective>>, \A i \in Impls : turn'[i] = turn[i]
  PROVE  ImplsKept /\ WorkKept
  BY DEF ImplsKept, WorkKept, Answering

(* A commit, a lost seal: neither the rows nor the turns move. *)
LEMMA HeadsAndSeals ==
  ASSUME ReviewInv, head' \in Commits \cup {Nothing}, seal' \in Commits \cup {Nothing},
         UNCHANGED <<task, impls, objective, entered, verified, reviews, turn, routes, items>>,
         at' \in [Callers -> CallRow]
  PROVE  ReviewTypes' /\ RowsKept /\ LedgerInv'
  <1>1. ReviewTypes' BY DEF ReviewInv, ReviewTypes
  <1>2. ImplsKept /\ WorkKept BY SameWork
  <1>3. ObjectivesInv' BY <1>1, ObjectivesStay DEF ReviewInv, LedgerInv
  <1>4. LedgerInv' /\ DiffReviewsKept BY <1>1, <1>2, <1>3, WorkStep DEF ReviewInv
  <1> QED BY <1>1, <1>2, <1>4 DEF RowsKept

LEMMA CommitKeeps ==
  ASSUME ReviewInv, NEW s \in Commits, Commit(s)
  PROVE  ReviewInv'
  <1>1. ReviewTypes' /\ RowsKept /\ LedgerInv'
    <2>1. at' \in [Callers -> CallRow] /\ head' \in Commits \cup {Nothing} /\ seal' \in Commits \cup {Nothing}
      BY DEF Commit, ReviewInv, ReviewTypes
    <2> QED BY <2>1, HeadsAndSeals DEF Commit
  <1> QED BY <1>1, CallsStay DEF ReviewInv, Commit

LEMMA LoseCandidateKeeps ==
  ASSUME ReviewInv, NEW c \in Callers, NEW s \in Commits, LoseCandidate(c, s)
  PROVE  ReviewInv'
  <1>1. ReviewTypes' /\ RowsKept /\ LedgerInv'
    <2>1. at' \in [Callers -> CallRow] /\ head' \in Commits \cup {Nothing} /\ seal' \in Commits \cup {Nothing}
      BY DEF LoseCandidate, ReviewInv, ReviewTypes
    <2> QED BY <2>1, HeadsAndSeals DEF LoseCandidate
  <1> QED BY <1>1, CallsStay DEF ReviewInv, LoseCandidate

LEMMA SealCandidateKeeps ==
  ASSUME ReviewInv, NEW c \in Callers, NEW i \in Impls, SealCandidate(c, i)
  PROVE  ReviewInv'
  <1> USE DEF Turns
  <1>1. head \in Commits /\ impls[i] # Nothing /\ Enter(c, "complete", i, head)
    BY DEF SealCandidate, ReviewInv, ReviewTypes
  <1>2. "complete" \in CallOps /\ head \in CallArgs BY <1>1 DEF CallOps, CallArgs
  <1>3. PICK call \in CallRow : call = [op |-> "complete", id |-> i, arg |-> head]
    BY <1>1, <1>2, Enters DEF ReviewInv
  <1>4. at' \in [Callers -> CallRow] /\ at' = [at EXCEPT ![c] = call]
    BY <1>1, <1>2, <1>3, Enters DEF ReviewInv
  <1>5. ReviewTypes' /\ RowsKept /\ LedgerInv'
    <2>1. head' \in Commits \cup {Nothing} /\ seal' \in Commits \cup {Nothing}
      BY <1>1 DEF SealCandidate
    <2> QED BY <2>1, <1>4, HeadsAndSeals DEF SealCandidate
  <1>6. CallFits(call)' BY <1>1, <1>3 DEF CallFits, DeliveryFits, SealCandidate
  <1> QED BY <1>4, <1>5, <1>6, CallsStep DEF ReviewInv

LEMMA FindStaleKeeps ==
  ASSUME ReviewInv, NEW c \in Callers, NEW r \in Reviews, FindStale(c, r)
  PROVE  ReviewInv'
  <1> USE DEF Turns
  <1>1. reviews[r] # Nothing /\ Enter(c, "withdraw", r, Nothing) BY DEF FindStale
  <1>2. "withdraw" \in CallOps /\ Nothing \in CallArgs BY DEF CallOps, CallArgs
  <1>3. PICK call \in CallRow : call = [op |-> "withdraw", id |-> r, arg |-> Nothing]
    BY <1>1, <1>2, Enters DEF ReviewInv
  <1>4. at' \in [Callers -> CallRow] /\ at' = [at EXCEPT ![c] = call]
    BY <1>1, <1>2, <1>3, Enters DEF ReviewInv
  <1>5. ReviewTypes' /\ RowsKept /\ LedgerInv'
    <2>1. head' \in Commits \cup {Nothing} /\ seal' \in Commits \cup {Nothing}
      BY DEF FindStale, ReviewInv, ReviewTypes
    <2> QED BY <2>1, <1>4, HeadsAndSeals DEF FindStale
  <1>6. CallFits(call)' BY <1>1, <1>3 DEF CallFits, FindStale
  <1> QED BY <1>4, <1>5, <1>6, CallsStep DEF ReviewInv

(* The turns of implementations and of reviews have ids of their own. *)
LEMMA StartTurnKeeps ==
  ASSUME ReviewInv, NEW c \in Callers, StartTurn(c)
  PROVE  ReviewInv'
  <1> USE DEF Turns
  <1>1. at[c] \in CallRow /\ CallFits(at[c]) /\ at[c].op = "start"
    BY DEF ReviewInv, ReviewTypes, CallsInv, StartTurn, In
  <1>2. StartFits(at[c]) BY <1>1 DEF CallFits
  <1>3. PICK x \in Turns : x = at[c].id BY <1>2 DEF StartFits
  <1>4. turn[x] \in {"none", "dispatched"} /\ turn' = [turn EXCEPT ![x] = "dispatched"]
        /\ Then(c, "insert")
    BY <1>3 DEF StartTurn
  <1>5. "insert" \in CallOps BY DEF CallOps
  <1>6. PICK call \in CallRow : call = [op |-> "insert", id |-> at[c].id, arg |-> at[c].arg]
    BY <1>4, <1>5, CallGoes DEF ReviewInv
  <1>7. at' \in [Callers -> CallRow] /\ at' = [at EXCEPT ![c] = call]
    BY <1>4, <1>5, <1>6, CallGoes DEF ReviewInv
  <1>8. turn' \in [Turns -> TurnStates] BY <1>4 DEF ReviewInv, ReviewTypes, TurnStates
  <1>9. ReviewTypes' BY <1>7, <1>8 DEF StartTurn, ReviewInv, ReviewTypes
  <1>10. CallFits(call)
    <2>1. StartFits(call) BY <1>2, <1>6 DEF StartFits
    <2> QED BY <2>1, <1>6 DEF CallFits
  <1>11. \A y \in Turns : y # x => turn'[y] = turn[y] BY <1>4 DEF ReviewInv, ReviewTypes
  <1>12. turn'[x] = "dispatched" BY <1>4 DEF ReviewInv, ReviewTypes
  <1>13. ImplsKept /\ WorkKept
    BY <1>4, <1>11 DEF ImplsKept, WorkKept, Answering, StartTurn
  <1>14. DiffReviewsKept BY <1>4, <1>11 DEF DiffReviewsKept, Ended, StartTurn
  <1>15. CallsInv'
    BY <1>7, <1>9, <1>10, <1>13, <1>14, CallKept, CallsStep DEF RowsKept, ReviewInv
  <1>16. ObjectivesInv'
    BY <1>4, <1>11, <1>12 DEF ObjectivesInv, ObjectivesAgree, HasOutput, StartTurn, ReviewInv, LedgerInv, ReviewTypes
  <1>17. \A r \in Reviews : RowInv(r)' /\ RouteInv(r)'
    BY <1>4, <1>11
    DEF RowInv, RouteInv, Complete, CandidateOf, Ended, StartTurn, ReviewInv, LedgerInv
  <1>18. AcceptanceIsCurrent'
    <2>1. \A r \in Reviews : turn'[r] = "accepted" <=> turn[r] = "accepted" BY <1>4, <1>11, <1>12
    <2>2. \A round : AcceptedIn(round)' = AcceptedIn(round) BY DEF AcceptedIn, StartTurn
    <2> QED BY <2>1, <2>2 DEF AcceptanceIsCurrent, StartTurn, Complete, CandidateOf, ItemsOf,
                              ReviewInv, LedgerInv
  <1>19. FindingsAreWhole' BY DEF FindingsAreWhole, StartTurn, ItemsOf, ReviewInv, LedgerInv
  <1> QED BY <1>9, <1>15, <1>16, <1>17, <1>18, <1>19 DEF ReviewInv, LedgerInv

LEMMA StartObjectiveKeeps ==
  ASSUME ReviewInv, NEW c \in Callers, StartObjective(c)
  PROVE  ReviewInv'
  <1>1. at[c] \in CallRow /\ CallFits(at[c]) /\ at[c].op = "objective"
    BY DEF ReviewInv, ReviewTypes, CallsInv, StartObjective, In
  <1>2. PICK i \in Impls : i = at[c].id BY <1>1 DEF CallFits
  <1>3. turn[i] = "dispatched" /\ Finish(c)
        /\ objective' = [objective EXCEPT ![i] = IF objective[i] = "none" THEN "active" ELSE objective[i]]
    BY <1>2 DEF StartObjective, WorkerDispatched
  <1>4. ReviewTypes' BY <1>3, CallEnds DEF StartObjective, ReviewInv, ReviewTypes
  <1>5. ImplsKept /\ WorkKept
    BY <1>3 DEF ImplsKept, WorkKept, Answering, StartObjective, ReviewInv, ReviewTypes
  <1>6. ObjectivesInv'
    BY <1>3 DEF ObjectivesInv, ObjectivesAgree, HasOutput, StartObjective, ReviewInv, LedgerInv, ReviewTypes
  <1>7. LedgerInv' /\ DiffReviewsKept
    BY <1>4, <1>5, <1>6, WorkStep DEF StartObjective, ReviewInv
  <1> QED BY <1>3, <1>4, <1>5, <1>7, CallsEnd DEF RowsKept, ReviewInv

(* The Worker's delivery, transaction by transaction. *)
LEMMA CompleteImplementationKeeps ==
  ASSUME ReviewInv, NEW c \in Callers, CompleteImplementation(c)
  PROVE  ReviewInv'
  <1> USE DEF Turns
  <1>1. at[c] \in CallRow /\ CallFits(at[c]) /\ at[c].op = "complete"
    BY DEF ReviewInv, ReviewTypes, CallsInv, CompleteImplementation, In
  <1>2. DeliveryFits(at[c]) BY <1>1 DEF CallFits
  <1>3. PICK i \in Impls, s \in Commits : i = at[c].id /\ s = at[c].arg BY <1>2 DEF DeliveryFits
  <1>4. impls[i] # Nothing /\ impls[i] \in ImplRow BY <1>2, <1>3 DEF DeliveryFits, ReviewInv, ReviewTypes
  <1>5. /\ turn[i] \in {"dispatched", "completed"} /\ impls[i].output \in {Nothing, s}
        /\ turn' = [turn EXCEPT ![i] = "completed"]
        /\ impls' = [impls EXCEPT ![i] = [impls[i] EXCEPT !.output = s]]
        /\ Then(c, "candidate")
    BY <1>3, Zenon DEF CompleteImplementation
  <1> DEFINE row == [impls[i] EXCEPT !.output = s]
  <1>6. row \in ImplRow /\ row.parent = impls[i].parent /\ row.output = s
        /\ row.candidate = impls[i].candidate /\ row.state = impls[i].state
    BY <1>4 DEF ImplRow
  <1>7. impls' = [impls EXCEPT ![i] = row] BY <1>5
  <1> HIDE DEF row
  <1>8. "candidate" \in CallOps BY DEF CallOps
  <1>9. PICK call \in CallRow : call = [op |-> "candidate", id |-> i, arg |-> s]
    BY <1>3, <1>5, <1>8, CallGoes DEF ReviewInv
  <1>10. at' \in [Callers -> CallRow] /\ at' = [at EXCEPT ![c] = call]
    BY <1>3, <1>5, <1>8, <1>9, CallGoes DEF ReviewInv
  <1>11. turn' \in [Turns -> TurnStates] BY <1>5 DEF ReviewInv, ReviewTypes, TurnStates
  <1>12. ReviewTypes' BY <1>6, <1>7, <1>10, <1>11 DEF CompleteImplementation, ReviewInv, ReviewTypes
  <1>13. row # Nothing BY <1>6, CandidateReviewAssumption
  <1>14. ImplsKept BY <1>4, <1>5, <1>6, <1>7, <1>13 DEF ImplsKept, ReviewInv, ReviewTypes
  <1>15. \A y \in Turns : y # i => turn'[y] = turn[y] BY <1>5 DEF ReviewInv, ReviewTypes
  <1>16. turn'[i] = "completed" BY <1>5 DEF ReviewInv, ReviewTypes
  <1>17. WorkKept BY <1>15, <1>16 DEF WorkKept, Answering, CompleteImplementation
  <1>18. CallFits(call)'
    <2>1. impls'[i] = row BY <1>7 DEF ReviewInv, ReviewTypes
    <2>2. DeliveryFits(call)' BY <2>1, <1>6, <1>9, <1>13, <1>16 DEF DeliveryFits
    <2> QED BY <2>2, <1>9 DEF CallFits
  <1>19. ObjectivesInv'
    <2>1. \A o \in Impls : o # i => impls'[o] = impls[o] BY <1>7 DEF ReviewInv, ReviewTypes
    <2>2. impls'[i] = row BY <1>7 DEF ReviewInv, ReviewTypes
    <2>3. objective[i] = "completed" => row.candidate # Nothing /\ row.output = row.candidate
      BY <1>5, <1>6 DEF ObjectivesInv, ObjectivesAgree, HasOutput, ReviewInv, LedgerInv
    <2>4. row.output # Nothing BY <1>6, CandidateReviewAssumption
    <2>5. ASSUME NEW o \in Impls, objective[o] = "active"
          PROVE  (\/ turn[o] \in {"dispatched", "rejected"}
                  \/ turn[o] \in {"completed", "ambiguous"} /\ HasOutput(o))'
      <3>1. CASE o = i BY <2>2, <2>4, <3>1, <1>13, <1>16 DEF HasOutput
      <3>2. CASE o # i
        BY <2>1, <2>5, <3>2, <1>15
        DEF HasOutput, ObjectivesInv, ObjectivesAgree, ReviewInv, LedgerInv
      <3> QED BY <3>1, <3>2
    <2> QED BY <2>1, <2>2, <2>3, <2>5, <1>13, <1>15, <1>16
        DEF ObjectivesInv, ObjectivesAgree, CompleteImplementation, ReviewInv, LedgerInv, ReviewTypes
  <1>20. \A r \in Reviews : turn'[r] = turn[r] BY <1>15, CandidateReviewAssumption
  <1>21. \A o \in Impls : impls[o] = Nothing => impls'[o] = Nothing
    BY <1>4, <1>7 DEF ReviewInv, ReviewTypes
  <1>22. LedgerInv' /\ DiffReviewsKept
    BY <1>12, <1>14, <1>19, <1>20, <1>21, WorkStep DEF CompleteImplementation, ReviewInv
  <1> QED BY <1>10, <1>12, <1>14, <1>17, <1>18, <1>22, CallsStep DEF RowsKept, ReviewInv

LEMMA RecordCandidateKeeps ==
  ASSUME ReviewInv, NEW c \in Callers, RecordCandidate(c)
  PROVE  ReviewInv'
  <1> USE DEF Turns
  <1>1. at[c] \in CallRow /\ CallFits(at[c]) /\ at[c].op = "candidate"
    BY DEF ReviewInv, ReviewTypes, CallsInv, RecordCandidate, In
  <1>2. DeliveryFits(at[c]) BY <1>1 DEF CallFits
  <1>3. PICK i \in Impls, s \in Commits : i = at[c].id /\ s = at[c].arg BY <1>2 DEF DeliveryFits
  <1>4. /\ impls[i] # Nothing /\ impls[i] \in ImplRow
        /\ turn[i] \in {"completed", "ambiguous"} /\ impls[i].output = s
    BY <1>1, <1>2, <1>3 DEF DeliveryFits, ReviewInv, ReviewTypes
  <1>5. /\ impls[i].candidate \in {Nothing, s} /\ Then(c, "end-objective")
        /\ impls' = [impls EXCEPT ![i].candidate = s, ![i].state = "recorded"]
    BY <1>3, Zenon DEF RecordCandidate
  <1> DEFINE row == [impls[i] EXCEPT !.candidate = s, !.state = "recorded"]
  <1>6. row \in ImplRow /\ row.parent = impls[i].parent /\ row.output = s
        /\ row.candidate = s /\ row.state = "recorded"
    BY <1>4 DEF ImplRow
  <1>7. impls' = [impls EXCEPT ![i] = row] BY <1>4, <1>5 DEF ReviewInv, ReviewTypes
  <1> HIDE DEF row
  <1>8. "end-objective" \in CallOps BY DEF CallOps
  <1>9. PICK call \in CallRow : call = [op |-> "end-objective", id |-> i, arg |-> s]
    BY <1>3, <1>5, <1>8, CallGoes DEF ReviewInv
  <1>10. at' \in [Callers -> CallRow] /\ at' = [at EXCEPT ![c] = call]
    BY <1>3, <1>5, <1>8, <1>9, CallGoes DEF ReviewInv
  <1>12. ReviewTypes'
    <2>1. impls' \in [Impls -> ImplRow \cup {Nothing}] BY <1>6, <1>7 DEF ReviewInv, ReviewTypes
    <2> QED BY <2>1, <1>10 DEF RecordCandidate, ReviewInv, ReviewTypes
  <1>13. row # Nothing BY <1>6, CandidateReviewAssumption
  <1>14. ImplsKept BY <1>4, <1>5, <1>6, <1>7, <1>13 DEF ImplsKept, ReviewInv, ReviewTypes
  <1>17. WorkKept BY DEF WorkKept, Answering, RecordCandidate
  <1>2a. impls'[i] = row BY <1>7 DEF ReviewInv, ReviewTypes
  <1>18. CallFits(call)'
    <2>2. DeliveryFits(call)' BY <1>2a, <1>4, <1>6, <1>9, <1>13 DEF DeliveryFits, RecordCandidate
    <2> QED BY <2>2, <1>9 DEF CallFits
  <1>19. ObjectivesInv'
    <2>1. \A o \in Impls : o # i => impls'[o] = impls[o] BY <1>7 DEF ReviewInv, ReviewTypes
    <2>3. row.candidate # Nothing /\ row.output = row.candidate
      BY <1>6, CandidateReviewAssumption
    <2> QED BY <2>1, <1>2a, <2>3, <1>4, <1>13
        DEF ObjectivesInv, ObjectivesAgree, HasOutput, RecordCandidate, ReviewInv, LedgerInv, ReviewTypes
  <1>21. \A o \in Impls : impls[o] = Nothing => impls'[o] = Nothing
    BY <1>4, <1>7 DEF ReviewInv, ReviewTypes
  <1>22. LedgerInv' /\ DiffReviewsKept
    BY <1>12, <1>14, <1>19, <1>21, WorkStep DEF RecordCandidate, ReviewInv
  <1> QED BY <1>10, <1>12, <1>14, <1>17, <1>18, <1>22, CallsStep DEF RowsKept, ReviewInv

LEMMA CompleteObjectiveKeeps ==
  ASSUME ReviewInv, NEW c \in Callers, CompleteObjective(c)
  PROVE  ReviewInv'
  <1>1. at[c] \in CallRow /\ CallFits(at[c]) /\ at[c].op = "end-objective"
    BY DEF ReviewInv, ReviewTypes, CallsInv, CompleteObjective, In
  <1>2. DeliveryFits(at[c]) BY <1>1 DEF CallFits
  <1>3. PICK i \in Impls, s \in Commits : i = at[c].id /\ s = at[c].arg BY <1>2 DEF DeliveryFits
  <1>4. impls[i] # Nothing /\ turn[i] = "completed" /\ impls[i].output = s /\ impls[i].candidate = s
        /\ s # Nothing
    BY <1>1, <1>2, <1>3, CandidateReviewAssumption DEF DeliveryFits, CompleteObjective, Delivered
  <1>5. Then(c, "enter-review") /\ objective' = [objective EXCEPT ![i] = "completed"]
    BY <1>3 DEF CompleteObjective
  <1>8. "enter-review" \in CallOps BY DEF CallOps
  <1>9. PICK call \in CallRow : call = [op |-> "enter-review", id |-> i, arg |-> s]
    BY <1>3, <1>5, <1>8, CallGoes DEF ReviewInv
  <1>10. at' \in [Callers -> CallRow] /\ at' = [at EXCEPT ![c] = call]
    BY <1>3, <1>5, <1>8, <1>9, CallGoes DEF ReviewInv
  <1>12. ReviewTypes' BY <1>5, <1>10 DEF CompleteObjective, ReviewInv, ReviewTypes
  <1>14. ImplsKept /\ WorkKept
    BY <1>5 DEF ImplsKept, WorkKept, Answering, CompleteObjective, ReviewInv, ReviewTypes
  <1>18. CallFits(call)'
    <2>1. objective'[i] = "completed" BY <1>5 DEF ReviewInv, ReviewTypes
    <2>2. DeliveryFits(call)' BY <2>1, <1>4, <1>9 DEF DeliveryFits, CompleteObjective
    <2> QED BY <2>2, <1>9 DEF CallFits
  <1>19. ObjectivesInv'
    BY <1>4, <1>5 DEF ObjectivesInv, ObjectivesAgree, HasOutput, CompleteObjective, ReviewInv, LedgerInv, ReviewTypes
  <1>22. LedgerInv' /\ DiffReviewsKept
    BY <1>12, <1>14, <1>19, WorkStep DEF CompleteObjective, ReviewInv
  <1> QED BY <1>10, <1>12, <1>14, <1>18, <1>22, CallsStep DEF RowsKept, ReviewInv

LEMMA EnterDiffReviewKeeps ==
  ASSUME ReviewInv, NEW c \in Callers, EnterDiffReview(c)
  PROVE  ReviewInv'
  <1>1. at[c] \in CallRow /\ CallFits(at[c]) /\ at[c].op = "enter-review"
    BY DEF ReviewInv, ReviewTypes, CallsInv, EnterDiffReview, In
  <1>2. DeliveryFits(at[c]) BY <1>1 DEF CallFits
  <1>3. PICK i \in Impls : i = at[c].id /\ objective[i] = "completed" BY <1>1, <1>2 DEF DeliveryFits
  <1>4. ReviewTypes'
    <2>1. at' \in [Callers -> CallRow] BY CallEnds DEF EnterDiffReview, ReviewInv
    <2>2. task' = "diff-review" /\ entered' = entered \cup {i} BY <1>3 DEF EnterDiffReview
    <2>3. entered' \subseteq Impls BY <2>2 DEF ReviewInv, ReviewTypes
    <2> QED BY <2>1, <2>2, <2>3 DEF EnterDiffReview, ReviewInv, ReviewTypes
  <1>5. ImplsKept /\ WorkKept BY SameWork DEF EnterDiffReview
  <1>6. ObjectivesInv' BY <1>3 DEF ObjectivesInv, ObjectivesAgree, HasOutput, EnterDiffReview, ReviewInv, LedgerInv
  <1>7. LedgerInv' /\ DiffReviewsKept
    BY <1>4, <1>5, <1>6, WorkStep DEF EnterDiffReview, ReviewInv
  <1> QED BY <1>4, <1>5, <1>7, CallsEnd DEF EnterDiffReview, RowsKept, ReviewInv

(* A Worker's turn moves, and its objective with it: an output stays in
   doubt or consumed, and what becomes or stays active is still open. *)
LEMMA WorkerTurnStep ==
  ASSUME ReviewInv, NEW i \in Impls, NEW state \in TurnStates,
         NEW ended \in {"none", "active", "completed", "cancelled"},
         turn' = [turn EXCEPT ![i] = state], objective' = [objective EXCEPT ![i] = ended],
         UNCHANGED <<task, head, seal, impls, entered, verified, reviews, routes, items, at>>,
         Answering(i) => state \in {"completed", "ambiguous"},
         ended = "completed" <=> objective[i] = "completed",
         ended = "active" => \/ state \in {"dispatched", "rejected"}
                             \/ state \in {"completed", "ambiguous"} /\ HasOutput(i)
  PROVE  ReviewInv'
  <1> USE DEF Turns
  <1>1. ReviewTypes' BY DEF ReviewInv, ReviewTypes
  <1>2. \A y \in Turns : y # i => turn'[y] = turn[y] BY DEF ReviewInv, ReviewTypes
  <1>3. \A y \in Impls : y # i => objective'[y] = objective[y] BY DEF ReviewInv, ReviewTypes
  <1>4. turn'[i] = state /\ objective'[i] = ended BY DEF ReviewInv, ReviewTypes
  <1>5. WorkKept
    <2>1. ASSUME NEW y \in Impls, Answering(y) PROVE turn'[y] \in {"completed", "ambiguous"}
      BY <2>1, <1>2, <1>4 DEF Answering
    <2>2. ASSUME NEW y \in Impls, objective[y] = "completed" PROVE objective'[y] = "completed"
      BY <2>2, <1>3, <1>4
    <2> QED BY <2>1, <2>2 DEF WorkKept, Answering
  <1>6. ImplsKept BY DEF ImplsKept
  <1>7. ObjectivesInv'
    <2>1. \A y \in Impls : HasOutput(y)' = HasOutput(y) BY DEF HasOutput
    <2>2. \A y \in Impls : objective'[y] = "completed" <=> objective[y] = "completed"
      BY <1>3, <1>4
    <2>3. ASSUME NEW y \in Impls, objective[y] = "completed"
          PROVE  turn'[y] \in {"completed", "ambiguous"}
      BY <2>3, <1>5 DEF WorkKept, Answering, ObjectivesInv, ObjectivesAgree, ReviewInv, LedgerInv
    <2>4. ASSUME NEW y \in Impls, objective'[y] = "active"
          PROVE  \/ turn'[y] \in {"dispatched", "rejected"}
                 \/ turn'[y] \in {"completed", "ambiguous"} /\ HasOutput(y)
      BY <2>4, <1>2, <1>3, <1>4 DEF ObjectivesInv, ObjectivesAgree, ReviewInv, LedgerInv
    <2>5. \A y \in entered : y \in Impls BY DEF ReviewInv, ReviewTypes
    <2> QED BY <2>1, <2>2, <2>3, <2>4, <2>5
            DEF ObjectivesInv, ObjectivesAgree, HasOutput, ReviewInv, LedgerInv
  <1>8. \A r \in Reviews : turn'[r] = turn[r] BY <1>2, CandidateReviewAssumption
  <1>9. LedgerInv' /\ DiffReviewsKept BY <1>1, <1>6, <1>7, <1>8, WorkStep DEF ReviewInv
  <1> QED BY <1>1, <1>5, <1>6, <1>9, CallsStay DEF RowsKept, ReviewInv

LEMMA WorkerRecoveryKeeps ==
  ASSUME ReviewInv, NEW i \in Impls,
         RejectWorkerOutput(i) \/ RecoverWorker(i) \/ CancelObjective(i)
  PROVE  ReviewInv'
  <1> USE DEF Turns
  <1> DEFINE cancelled == IF objective[i] = "active" THEN "cancelled" ELSE objective[i]
  <1>1. /\ objective[i] \in {"none", "active", "completed", "cancelled"}
        /\ objective = [objective EXCEPT ![i] = objective[i]]
        /\ turn[i] \in TurnStates /\ turn = [turn EXCEPT ![i] = turn[i]]
        /\ {"ambiguous", "blocked", "completed", "rejected"} \subseteq TurnStates
    BY DEF ReviewInv, ReviewTypes, TurnStates
  <1>2. /\ objective[i] = "completed" => Answering(i)
        /\ objective[i] = "active" => \/ turn[i] \in {"dispatched", "rejected"}
                                      \/ turn[i] \in {"completed", "ambiguous"} /\ HasOutput(i)
    BY DEF ReviewInv, LedgerInv, ObjectivesInv, ObjectivesAgree, Answering
  <1>3. cancelled \in {"none", "active", "completed", "cancelled"} /\ cancelled # "active"
        /\ (cancelled = "completed" <=> objective[i] = "completed")
    BY <1>1
  <1>4. CASE RejectWorkerOutput(i)
    BY <1>1, <1>2, <1>4, WorkerTurnStep DEF RejectWorkerOutput, TurnBecomes, Answering
  <1>5. CASE RecoverWorker(i)
    <2>1. UNCHANGED <<task, head, seal, impls, entered, verified, reviews, routes, items, at>>
      BY <1>5 DEF RecoverWorker
    <2>2. CASE GiveUp(i, "ambiguous")
      BY <2>1, <2>2, <1>1, <1>3, WorkerTurnStep DEF GiveUp, TurnBecomes
    <2>3. CASE turn[i] = "dispatched" /\ GiveUp(i, "blocked")
      BY <2>1, <2>3, <1>1, <1>3, WorkerTurnStep DEF GiveUp, TurnBecomes, Answering
    <2>4. CASE turn[i] = "completed" /\ TurnBecomes(i, "ambiguous") /\ UNCHANGED objective
      BY <2>1, <2>4, <1>1, <1>2, WorkerTurnStep DEF TurnBecomes, Answering
    <2>5. CASE /\ turn[i] = "ambiguous" /\ HasOutput(i)
               /\ TurnBecomes(i, "completed") /\ UNCHANGED objective
      BY <2>1, <2>5, <1>1, <1>2, WorkerTurnStep DEF TurnBecomes, Answering
    <2> QED BY <1>5, <2>2, <2>3, <2>4, <2>5 DEF RecoverWorker
  <1>6. CASE CancelObjective(i)
    BY <1>1, <1>6, WorkerTurnStep DEF CancelObjective, Answering
  <1> QED BY <1>4, <1>5, <1>6

(* Steps on the repair routes: the reviews and the items do not move. *)
LEMMA RouteStep ==
  ASSUME ReviewTypes, ReviewTypes', LedgerInv,
         UNCHANGED <<task, head, seal, impls, objective, entered, verified, reviews, turn, items>>,
         \A r \in Reviews : /\ routes'[r] # Nothing <=> routes[r] # Nothing
                            /\ routes[r] # Nothing =>
                                  /\ routes'[r].consumed = routes[r].consumed
                                  /\ routes[r].consumed # Nothing /\ routes[r].claim = Nothing =>
                                        routes'[r].claim = Nothing
  PROVE  LedgerInv' /\ RowsKept
  <1>1. \A r \in Reviews : RowInv(r)' /\ RouteInv(r)'
    BY DEF LedgerInv, RowInv, RouteInv, Complete, CandidateOf, Ended
  <1>2. AcceptanceIsCurrent' /\ ObjectivesInv'
    BY DEF LedgerInv, AcceptanceIsCurrent, AcceptedIn, ItemsOf, Complete, CandidateOf, ObjectivesInv,
           ObjectivesAgree, HasOutput
  <1>3. \A i \in Impls : impls[i] # Nothing => impls[i].parent \in Reviews \cup {Nothing}
    BY DEF ReviewTypes, ImplRow
  <1>4. FindingsAreWhole'
    <2>1. \A r \in Reviews : routes'[r] # Nothing <=>
             /\ reviews[r] # Nothing /\ reviews[r].outcome # Nothing
             /\ reviews[r].outcome.verdict = "findings"
      BY DEF LedgerInv, FindingsAreWhole
    <2>2. ASSUME NEW r \in Reviews, routes'[r] # Nothing
          PROVE  /\ ItemsOf(r, "finding", reviews[r].outcome.points) \subseteq items
                 /\ routes'[r].consumed # Nothing =>
                       impls[routes'[r].consumed].parent = r /\ routes'[r].claim = Nothing
      BY <2>2 DEF LedgerInv, FindingsAreWhole
    <2>3. ASSUME NEW i \in Impls, impls[i] # Nothing, impls[i].parent # Nothing
          PROVE  routes'[impls[i].parent] # Nothing /\ routes'[impls[i].parent].consumed = i
      BY <2>3, <1>3 DEF LedgerInv, FindingsAreWhole
    <2> QED BY <2>1, <2>2, <2>3 DEF FindingsAreWhole, ItemsOf
  <1>5. RowsKept BY DEF RowsKept, ImplsKept, WorkKept, Answering, DiffReviewsKept, Ended
  <1> QED BY <1>1, <1>2, <1>4, <1>5 DEF LedgerInv

LEMMA ClaimRouteKeeps ==
  ASSUME ReviewInv, NEW c \in Callers, ClaimRoute(c)
  PROVE  ReviewInv'
  <1>1. at[c] \in CallRow /\ CallFits(at[c]) /\ at[c].op = "claim"
    BY DEF ReviewInv, ReviewTypes, CallsInv, ClaimRoute, In
  <1>2. PICK i \in Impls, parent \in Reviews \cup {Nothing} : i = at[c].id /\ parent = at[c].arg
    BY <1>1 DEF CallFits
  <1>3. CurrentRoute = parent /\ Then(c, "start")
        /\ routes' = IF parent = Nothing THEN routes ELSE [routes EXCEPT ![parent].claim = c]
    BY <1>2, Zenon DEF ClaimRoute
  <1>4. "start" \in CallOps BY DEF CallOps
  <1>5. PICK call \in CallRow : call = [op |-> "start", id |-> i, arg |-> parent]
    BY <1>2, <1>3, <1>4, CallGoes DEF ReviewInv
  <1>6. at' \in [Callers -> CallRow] /\ at' = [at EXCEPT ![c] = call]
    BY <1>2, <1>3, <1>4, <1>5, CallGoes DEF ReviewInv
  <1>7. CallFits(call)' BY <1>5 DEF CallFits, StartFits
  <1>8. /\ routes' \in [Reviews -> RouteRow \cup {Nothing}]
        /\ \A r \in Reviews : /\ routes'[r] # Nothing <=> routes[r] # Nothing
                              /\ routes[r] # Nothing =>
                                    /\ routes'[r].consumed = routes[r].consumed
                                    /\ routes[r].consumed # Nothing /\ routes[r].claim = Nothing =>
                                          routes'[r].claim = Nothing
    <2>1. CASE parent = Nothing BY <2>1, <1>3 DEF ReviewInv, ReviewTypes
    <2>2. CASE parent # Nothing
      <3>1. parent \in Outstanding BY <2>2, <1>2, <1>3, NewestOutstanding DEF ReviewInv, LedgerInv
      <3>2. routes[parent] \in RouteRow /\ routes[parent].consumed = Nothing
        BY <3>1 DEF Outstanding, ReviewInv, ReviewTypes
      <3> DEFINE row == [routes[parent] EXCEPT !.claim = c]
      <3>3. row \in RouteRow /\ row.consumed = Nothing BY <3>2 DEF RouteRow
      <3>4. routes' = [routes EXCEPT ![parent] = row] BY <1>3, <2>2, Zenon
      <3> HIDE DEF row
      <3>5. row # Nothing BY <3>3, CandidateReviewAssumption
      <3> QED BY <3>1, <3>2, <3>3, <3>4, <3>5 DEF Outstanding, ReviewInv, ReviewTypes
    <2> QED BY <2>1, <2>2
  <1>9. ReviewTypes' BY <1>6, <1>8 DEF ClaimRoute, ReviewInv, ReviewTypes
  <1>10. LedgerInv' /\ RowsKept BY <1>8, <1>9, RouteStep DEF ClaimRoute, ReviewInv
  <1> QED BY <1>6, <1>7, <1>9, <1>10, CallsStep DEF ReviewInv

LEMMA RaiseKeeps ==
  ASSUME ReviewInv, NEW c \in Callers, Raise(c)
  PROVE  ReviewInv'
  <1>1. /\ routes' \in [Reviews -> RouteRow \cup {Nothing}]
        /\ \A r \in Reviews : /\ routes'[r] # Nothing <=> routes[r] # Nothing
                              /\ routes[r] # Nothing =>
                                    /\ routes'[r].consumed = routes[r].consumed
                                    /\ routes[r].consumed # Nothing /\ routes[r].claim = Nothing =>
                                          routes'[r].claim = Nothing
    <2>1. ASSUME NEW r \in Reviews, routes[r] # Nothing
          PROVE  /\ [routes[r] EXCEPT !.claim = Nothing] \in RouteRow
                 /\ [routes[r] EXCEPT !.claim = Nothing] # Nothing
                 /\ [routes[r] EXCEPT !.claim = Nothing].consumed = routes[r].consumed
                 /\ [routes[r] EXCEPT !.claim = Nothing].claim = Nothing
      <3>1. routes[r] \in RouteRow BY <2>1 DEF ReviewInv, ReviewTypes
      <3>2. [routes[r] EXCEPT !.claim = Nothing] \in RouteRow BY <3>1 DEF RouteRow
      <3> QED BY <3>1, <3>2, CandidateReviewAssumption DEF RouteRow
    <2>2. routes' = ReleaseClaim(c) BY DEF Raise
    <2> QED BY <2>1, <2>2 DEF ReleaseClaim, ReviewInv, ReviewTypes
  <1>2. ReviewTypes' BY <1>1, CallEnds DEF Raise, ReviewInv, ReviewTypes
  <1>3. LedgerInv' /\ RowsKept BY <1>1, <1>2, RouteStep DEF Raise, ReviewInv
  <1> QED BY <1>2, <1>3, CallsEnd DEF Raise, ReviewInv

LEMMA InsertImplementationKeeps ==
  ASSUME ReviewInv, NEW c \in Callers, InsertImplementation(c)
  PROVE  ReviewInv'
  <1>1. at[c] \in CallRow /\ CallFits(at[c]) /\ at[c].op = "insert"
    BY DEF ReviewInv, ReviewTypes, CallsInv, InsertImplementation, In
  <1>2. StartFits(at[c]) BY <1>1 DEF CallFits
  <1>3. PICK i \in Impls, parent \in Reviews \cup {Nothing} : i = at[c].id /\ parent = at[c].arg
    BY <1>2, CandidateReviewAssumption DEF StartFits, InsertImplementation
  <1>4. Then(c, "objective") BY DEF InsertImplementation
  <1>5. "objective" \in CallOps BY DEF CallOps
  <1>6. PICK call \in CallRow : call = [op |-> "objective", id |-> i, arg |-> parent]
    BY <1>3, <1>4, <1>5, CallGoes DEF ReviewInv
  <1>7. at' \in [Callers -> CallRow] /\ at' = [at EXCEPT ![c] = call]
    BY <1>3, <1>4, <1>5, <1>6, CallGoes DEF ReviewInv
  <1>8. CASE impls[i] # Nothing
    <2>1. UNCHANGED ledger BY <1>3, <1>8 DEF InsertImplementation, ledger
    <2>2. CallFits(call) BY <1>6, <1>8 DEF CallFits
    <2> QED BY <2>1, <2>2, <1>7, CallBegins
  <1>9. CASE impls[i] = Nothing
    <2> DEFINE row == [parent |-> parent, state |-> "dispatched", output |-> Nothing,
                       candidate |-> Nothing]
    <2>1. row \in ImplRow /\ row.parent = parent BY DEF ImplRow
    <2>2. impls' = [impls EXCEPT ![i] = row] BY <1>3, <1>9 DEF InsertImplementation
    <2>3. CurrentRoute = parent BY <1>3, <1>9 DEF InsertImplementation, Consumable
    <2>4. routes' = IF parent = Nothing THEN routes
                    ELSE [routes EXCEPT ![parent] = [claim |-> Nothing, consumed |-> i]]
      BY <1>3, <1>9 DEF InsertImplementation
    <2> HIDE DEF row
    <2>5. row # Nothing BY <2>1, CandidateReviewAssumption
    <2>6. PICK route \in RouteRow : route = [claim |-> Nothing, consumed |-> i] BY DEF RouteRow
    <2>7. route # Nothing /\ route.consumed = i /\ route.claim = Nothing
      BY <2>6, CandidateReviewAssumption
    <2>8. impls' \in [Impls -> ImplRow \cup {Nothing}] BY <2>1, <2>2 DEF ReviewInv, ReviewTypes
    <2>9. routes' \in [Reviews -> RouteRow \cup {Nothing}]
      BY <2>4, <2>6 DEF ReviewInv, ReviewTypes
    <2>10. ReviewTypes' BY <2>8, <2>9, <1>7 DEF InsertImplementation, ReviewInv, ReviewTypes
    <2>11. \A o \in Impls : o # i => impls'[o] = impls[o] BY <2>2 DEF ReviewInv, ReviewTypes
    <2>12. impls'[i] = row BY <2>2 DEF ReviewInv, ReviewTypes
    <2>13. ImplsKept BY <1>9, <2>11 DEF ImplsKept
    <2>14. WorkKept BY DEF WorkKept, Answering, InsertImplementation
    <2>15. DiffReviewsKept BY DEF DiffReviewsKept, Ended, InsertImplementation
    <2>16. CallFits(call)' BY <1>6, <2>5, <2>12 DEF CallFits
    <2>17. CallsInv' BY <1>7, <2>10, <2>13, <2>14, <2>15, <2>16, CallsStep DEF RowsKept, ReviewInv
    <2>18. ObjectivesInv'
      <3>1. \A o \in Impls : objective[o] = "completed" => impls[o] # Nothing
        BY <1>9 DEF ObjectivesInv, ObjectivesAgree, HasOutput, ReviewInv, LedgerInv
      <3> QED BY <3>1, <1>9, <2>11 DEF ObjectivesInv, ObjectivesAgree, HasOutput, ReviewInv, LedgerInv, InsertImplementation
    <2>19. \A r \in Reviews : RowInv(r)'
      <3> SUFFICES ASSUME NEW r \in Reviews, reviews[r] # Nothing PROVE RowInv(r)'
        BY DEF RowInv, InsertImplementation
      <3>1. PICK o \in Impls, s \in Commits : o = reviews[r].impl /\ s = reviews[r].candidate
        BY DEF ReviewInv, ReviewTypes, ReviewRow
      <3>2. (CandidateOf(o) = s)'
        BY <3>1, <2>10, <2>13, CandidateKept DEF ReviewInv, LedgerInv, RowInv
      <3> QED BY <3>1, <3>2 DEF ReviewInv, LedgerInv, RowInv, Complete, Ended, InsertImplementation
    <2>20. \A r \in Reviews : parent # r => routes'[r] = routes[r]
      BY <2>4 DEF ReviewInv, ReviewTypes
    <2>21. parent # Nothing => /\ parent \in Reviews /\ routes[parent] # Nothing
                               /\ routes[parent].consumed = Nothing /\ routes'[parent] = route
      <3> SUFFICES ASSUME parent # Nothing
                   PROVE  /\ parent \in Reviews /\ routes[parent] # Nothing
                          /\ routes[parent].consumed = Nothing /\ routes'[parent] = route
        OBVIOUS
      <3>1. parent \in Outstanding BY <1>3, <2>3, NewestOutstanding DEF ReviewInv, LedgerInv
      <3> QED BY <3>1, <2>4, <2>6 DEF Outstanding, ReviewInv, ReviewTypes
    <2>22. \A r \in Reviews : RouteInv(r)'
      <3> SUFFICES ASSUME NEW r \in Reviews, routes'[r] # Nothing, routes'[r].consumed # Nothing
                   PROVE  impls'[routes'[r].consumed] # Nothing
        BY DEF RouteInv
      <3>1. CASE r = parent
        <4>1. parent # Nothing BY <3>1, CandidateReviewAssumption
        <4> QED BY <4>1, <3>1, <2>7, <2>21, <2>12, <2>5
      <3>2. CASE r # parent
        <4>1. routes[r] # Nothing /\ routes[r].consumed # Nothing /\ routes'[r] = routes[r]
          BY <3>2, <2>20
        <4>2. routes[r].consumed \in Impls /\ impls[routes[r].consumed] # Nothing
          BY <4>1 DEF ReviewInv, ReviewTypes, RouteRow, LedgerInv, RouteInv
        <4> QED BY <4>1, <4>2, <2>13 DEF ImplsKept
      <3> QED BY <3>1, <3>2
    <2>23. AcceptanceIsCurrent'
      <3>1. \A round : AcceptedIn(round)' = AcceptedIn(round) BY DEF AcceptedIn, InsertImplementation
      <3>2. ASSUME NEW r \in Reviews, turn'[r] = "accepted"
            PROVE  (CandidateOf(reviews[r].impl) = reviews[r].candidate)'
        <4>1. reviews'[r] # Nothing
          BY <3>2 DEF ReviewInv, LedgerInv, AcceptanceIsCurrent, InsertImplementation
        <4> QED BY <4>1, <2>19 DEF RowInv
      <3> QED BY <3>1, <3>2 DEF ReviewInv, LedgerInv, AcceptanceIsCurrent, Complete, ItemsOf,
                                InsertImplementation
    <2>24. FindingsAreWhole'
      <3>1. ASSUME NEW r \in Reviews PROVE routes'[r] # Nothing <=> routes[r] # Nothing
        <4>1. CASE r = parent
          <5>1. parent # Nothing BY <4>1, CandidateReviewAssumption
          <5> QED BY <5>1, <4>1, <2>7, <2>21
        <4>2. CASE r # parent BY <4>2, <2>20
        <4> QED BY <4>1, <4>2
      <3>2. ASSUME NEW r \in Reviews, routes'[r] # Nothing, routes'[r].consumed # Nothing
            PROVE  impls'[routes'[r].consumed].parent = r /\ routes'[r].claim = Nothing
        <4>1. CASE r = parent
          <5>1. parent # Nothing BY <4>1, CandidateReviewAssumption
          <5> QED BY <5>1, <4>1, <2>1, <2>7, <2>21, <2>12
        <4>2. CASE r # parent
          <5>1. routes[r] # Nothing /\ routes[r].consumed # Nothing /\ routes'[r] = routes[r]
            BY <3>2, <4>2, <2>20
          <5>2. routes[r].consumed \in Impls /\ impls[routes[r].consumed] # Nothing
            BY <5>1 DEF ReviewInv, ReviewTypes, RouteRow, LedgerInv, RouteInv
          <5> QED BY <5>1, <5>2, <2>13 DEF ImplsKept, ReviewInv, LedgerInv, FindingsAreWhole
        <4> QED BY <4>1, <4>2
      <3>3. ASSUME NEW o \in Impls, impls'[o] # Nothing, impls'[o].parent # Nothing
            PROVE  routes'[impls'[o].parent] # Nothing /\ routes'[impls'[o].parent].consumed = o
        <4>1. CASE o = i
          BY <3>3, <4>1, <2>1, <2>7, <2>12, <2>21
        <4>2. CASE o # i
          <5>1. impls'[o] = impls[o] BY <4>2, <2>11
          <5>2. impls[o].parent \in Reviews /\ routes[impls[o].parent] # Nothing
                /\ routes[impls[o].parent].consumed = o
            BY <3>3, <5>1 DEF ReviewInv, ReviewTypes, ImplRow, LedgerInv, FindingsAreWhole
          <5>3. impls[o].parent # parent
            BY <5>2, <2>21, CandidateReviewAssumption
          <5> QED BY <5>1, <5>2, <5>3, <2>20
        <4> QED BY <4>1, <4>2
      <3> QED BY <3>1, <3>2, <3>3 DEF ReviewInv, LedgerInv, FindingsAreWhole, ItemsOf,
                                      InsertImplementation
    <2> QED BY <2>10, <2>17, <2>18, <2>19, <2>22, <2>23, <2>24 DEF ReviewInv, LedgerInv
  <1> QED BY <1>8, <1>9

(* Steps on the reviews: a Worker's rows and turns do not move. *)
LEMMA ReviewRows ==
  ASSUME ReviewInv, ReviewTypes', UNCHANGED <<impls, objective, entered>>,
         \A i \in Impls : turn'[i] = turn[i], task' = "diff-review" => task = "diff-review",
         DiffReviewsKept
  PROVE  RowsKept /\ ObjectivesInv'
  BY SameWork, ObjectivesStay DEF RowsKept, ReviewInv, LedgerInv

(* What RowInv asks of a review that exists; its candidate is its Worker's. *)
LEMMA ReviewFacts ==
  ASSUME ReviewInv, NEW r \in Reviews, reviews[r] # Nothing
  PROVE  /\ reviews[r] \in ReviewRow /\ reviews[r].impl \in Impls /\ reviews[r].candidate \in Commits
         /\ reviews[r].snapshot \in SUBSET Checks /\ Complete(reviews[r].snapshot)
         /\ CandidateOf(reviews[r].impl) = reviews[r].candidate
         /\ reviews[r].state = "dispatched" <=> reviews[r].outcome = Nothing
         /\ reviews[r].outcome # Nothing => Ended(r) /\ reviews[r].outcome = reviews[r].output
         /\ turn[r] = "accepted" <=> reviews[r].state = "accepted"
  <1>1. reviews[r] \in ReviewRow BY DEF ReviewInv, ReviewTypes
  <1>2. reviews[r].impl \in Impls /\ reviews[r].candidate \in Commits
        /\ reviews[r].snapshot \in SUBSET Checks
    BY <1>1 DEF ReviewRow
  <1>3. RowInv(r) BY DEF ReviewInv, LedgerInv
  <1>4. turn[r] = "accepted" <=> reviews[r].state = "accepted"
    BY DEF ReviewInv, LedgerInv, AcceptanceIsCurrent
  <1> QED BY <1>1, <1>2, <1>3, <1>4 DEF RowInv

(* One review is rewritten; nothing else that the ledger's invariant reads
   moves, except its turn, its route and the items. *)
LEMMA OneReview ==
  ASSUME ReviewInv, ReviewTypes', NEW r \in Reviews, NEW row \in ReviewRow,
         reviews' = [reviews EXCEPT ![r] = row],
         reviews[r] # Nothing =>
            /\ row.impl = reviews[r].impl /\ row.candidate = reviews[r].candidate
            /\ row.snapshot = reviews[r].snapshot /\ row.round = reviews[r].round
            /\ Ended(r) => Ended(r)' /\ row.output = reviews[r].output
            /\ reviews[r].outcome # Nothing => row.outcome = reviews[r].outcome,
         Complete(row.snapshot), CandidateOf(row.impl) = row.candidate,
         row.state = "dispatched" <=> row.outcome = Nothing,
         row.outcome # Nothing => Ended(r)' /\ row.outcome = row.output,
         UNCHANGED <<impls, objective, entered, verified>>,
         \A x \in Turns : x # r => turn'[x] = turn[x],
         task' = "diff-review" => task = "diff-review",
         \A o \in Reviews : o # r => routes'[o] = routes[o],
         routes'[r] # Nothing <=> row.outcome # Nothing /\ row.outcome.verdict = "findings",
         routes'[r] = routes[r] \/ routes'[r] = [claim |-> Nothing, consumed |-> Nothing],
         routes[r] # Nothing => routes'[r] = routes[r],
         items \subseteq items',
         routes'[r] # Nothing =>
            {<<[kind |-> "finding", candidate |-> row.candidate, point |-> p], r>> : p \in row.outcome.points}
               \subseteq items',
         turn'[r] = "accepted" <=> row.state = "accepted",
         turn'[r] = "accepted" =>
            /\ row.outcome # Nothing /\ row.outcome.verdict = "pass"
            /\ row.snapshot = verified[row.candidate] /\ AcceptedIn(row.round) \subseteq {r}
            /\ {<<[kind |-> "follow-up", candidate |-> row.candidate, point |-> p], r>> :
                   p \in row.outcome.points} \subseteq items'
  PROVE  LedgerInv' /\ RowsKept
  <1> USE DEF Turns
  <1>1. row # Nothing BY CandidateReviewAssumption
  <1>2. reviews'[r] = row /\ \A o \in Reviews : o # r => reviews'[o] = reviews[o]
    BY DEF ReviewInv, ReviewTypes
  <1>3. DiffReviewsKept
    <2> SUFFICES ASSUME NEW o \in Reviews, reviews[o] # Nothing
                 PROVE  /\ reviews'[o] # Nothing
                        /\ reviews'[o].impl = reviews[o].impl
                        /\ reviews'[o].candidate = reviews[o].candidate
                        /\ reviews'[o].snapshot = reviews[o].snapshot
                        /\ reviews'[o].round = reviews[o].round
                        /\ Ended(o) => Ended(o)' /\ reviews'[o].output = reviews[o].output
                        /\ reviews[o].outcome # Nothing => reviews'[o].outcome = reviews[o].outcome
      BY DEF DiffReviewsKept
    <2>1. CASE o = r BY <2>1, <1>1, <1>2
    <2>2. CASE o # r BY <2>2, <1>2 DEF Ended
    <2> QED BY <2>1, <2>2
  <1>4. \A i \in Impls : turn'[i] = turn[i] BY CandidateReviewAssumption
  <1>5. RowsKept /\ ObjectivesInv' BY <1>3, <1>4, ReviewRows
  <1>6. ASSUME NEW o \in Reviews PROVE RowInv(o)'
    <2>1. CASE o = r
      BY <2>1, <1>1, <1>2 DEF RowInv, Complete, CandidateOf
    <2>2. CASE o # r
      BY <2>2, <1>2 DEF RowInv, Complete, CandidateOf, Ended, ReviewInv, LedgerInv
    <2> QED BY <2>1, <2>2
  <1>7. ASSUME NEW o \in Reviews PROVE RouteInv(o)'
    <2>1. CASE routes'[o] = routes[o] BY <2>1 DEF RouteInv, ReviewInv, LedgerInv
    <2>2. CASE routes'[o] # routes[o]
      <3>1. routes'[o].consumed = Nothing BY <2>2
      <3> QED BY <3>1 DEF RouteInv
    <2> QED BY <2>1, <2>2
  <1>8. FindingsAreWhole'
    <2>1. ASSUME NEW o \in Reviews
          PROVE  /\ routes'[o] # Nothing <=>
                      /\ reviews'[o] # Nothing /\ reviews'[o].outcome # Nothing
                      /\ reviews'[o].outcome.verdict = "findings"
                 /\ routes'[o] # Nothing =>
                      (ItemsOf(o, "finding", reviews[o].outcome.points) \subseteq items)'
      <3>1. CASE o = r BY <3>1, <1>1, <1>2 DEF ItemsOf
      <3>2. CASE o # r
        BY <3>2, <1>2 DEF ItemsOf, ReviewInv, LedgerInv, FindingsAreWhole
      <3> QED BY <3>1, <3>2
    <2>2. ASSUME NEW o \in Reviews, routes'[o] # Nothing, routes'[o].consumed # Nothing
          PROVE  impls'[routes'[o].consumed].parent = o /\ routes'[o].claim = Nothing
      <3>1. routes'[o] = routes[o] BY <2>2
      <3> QED BY <3>1, <2>2 DEF ReviewInv, LedgerInv, FindingsAreWhole
    <2>3. ASSUME NEW i \in Impls, impls[i] # Nothing, impls[i].parent # Nothing
          PROVE  routes'[impls[i].parent] # Nothing /\ routes'[impls[i].parent].consumed = i
      <3>1. impls[i].parent \in Reviews BY <2>3 DEF ReviewInv, ReviewTypes, ImplRow
      <3>2. routes[impls[i].parent] # Nothing /\ routes[impls[i].parent].consumed = i
        BY <2>3 DEF ReviewInv, LedgerInv, FindingsAreWhole
      <3>3. routes'[impls[i].parent] = routes[impls[i].parent] BY <3>1, <3>2
      <3> QED BY <3>2, <3>3
    <2> QED BY <2>1, <2>2, <2>3 DEF FindingsAreWhole
  <1>9. AcceptanceIsCurrent'
    <2>1. ASSUME NEW o \in Reviews
          PROVE  turn'[o] = "accepted" <=> reviews'[o] # Nothing /\ reviews'[o].state = "accepted"
      <3>1. CASE o = r BY <3>1, <1>1, <1>2
      <3>2. CASE o # r BY <3>2, <1>2 DEF ReviewInv, LedgerInv, AcceptanceIsCurrent
      <3> QED BY <3>1, <3>2
    <2>2. ASSUME NEW o \in Reviews, turn'[o] = "accepted"
          PROVE  (/\ reviews[o].outcome # Nothing /\ reviews[o].outcome.verdict = "pass"
                  /\ reviews[o].snapshot = verified[reviews[o].candidate]
                  /\ ItemsOf(o, "follow-up", reviews[o].outcome.points) \subseteq items)'
      <3>1. CASE o = r BY <3>1, <2>2, <1>1, <1>2 DEF ItemsOf
      <3>2. CASE o # r
        BY <3>2, <2>2, <1>2 DEF ItemsOf, ReviewInv, LedgerInv, AcceptanceIsCurrent
      <3> QED BY <3>1, <3>2
    <2>3. ASSUME NEW o \in Reviews, turn'[o] = "accepted", NEW b \in Reviews, b # o,
                 turn'[b] = "accepted", reviews'[b].round = reviews'[o].round
          PROVE  FALSE
      <3>1. reviews'[o] # Nothing /\ reviews'[b] # Nothing
            /\ reviews'[o].state = "accepted" /\ reviews'[b].state = "accepted"
        BY <2>1, <2>3
      <3>2. CASE o = r
        <4>1. b \in AcceptedIn(row.round) BY <3>1, <3>2, <1>2, <2>3 DEF AcceptedIn
        <4> QED BY <4>1, <2>3, <3>2
      <3>3. CASE b = r
        <4>1. o \in AcceptedIn(row.round) BY <3>1, <3>3, <1>2, <2>3 DEF AcceptedIn
        <4> QED BY <4>1, <2>3, <3>3
      <3>4. CASE o # r /\ b # r
        <4>1. turn[o] = "accepted" /\ b \in AcceptedIn(reviews[o].round)
          BY <3>1, <3>4, <1>2, <2>3 DEF AcceptedIn
        <4>2. AcceptedIn(reviews[o].round) = {o}
          BY <4>1 DEF ReviewInv, LedgerInv, AcceptanceIsCurrent
        <4> QED BY <4>1, <4>2, <2>3
      <3> QED BY <3>2, <3>3, <3>4
    <2>4. ASSUME NEW o \in Reviews, turn'[o] = "accepted"
          PROVE  (AcceptedIn(reviews[o].round) = {o})'
      <3>1. o \in AcceptedIn(reviews[o].round)' BY <2>1, <2>4 DEF AcceptedIn
      <3>2. \A b \in AcceptedIn(reviews[o].round)' : b = o BY <2>1, <2>3, <2>4 DEF AcceptedIn
      <3> QED BY <3>1, <3>2
    <2>5. ASSUME NEW o \in Reviews, turn'[o] = "accepted"
          PROVE  (Complete(reviews[o].snapshot) /\ CandidateOf(reviews[o].impl) = reviews[o].candidate)'
      BY <2>1, <2>5, <1>6 DEF RowInv
    <2> QED BY <2>1, <2>2, <2>4, <2>5 DEF AcceptanceIsCurrent
  <1> QED BY <1>5, <1>6, <1>7, <1>8, <1>9 DEF LedgerInv

LEMMA InsertReviewKeeps ==
  ASSUME ReviewInv, NEW c \in Callers, InsertReview(c)
  PROVE  ReviewInv'
  <1> USE DEF Turns
  <1>1. at[c] \in CallRow /\ CallFits(at[c]) /\ at[c].op = "insert"
    BY DEF ReviewInv, ReviewTypes, CallsInv, InsertReview, In
  <1>2. StartFits(at[c]) BY <1>1 DEF CallFits
  <1>3. PICK r \in Reviews, dispatch \in Requested :
          r = at[c].id /\ dispatch = at[c].arg /\ Prepared(dispatch)
    BY <1>2, CandidateReviewAssumption DEF StartFits, InsertReview, Prepared
  <1>4. Finish(c) BY DEF InsertReview
  <1>5. CASE reviews[r] # Nothing
    <2>1. UNCHANGED ledger BY <1>3, <1>5 DEF InsertReview, ledger
    <2>2. ReviewTypes' BY <2>1, <1>4, CallEnds DEF ReviewInv, ReviewTypes, ledger
    <2> QED BY <2>1, <2>2, <1>4, NothingKept, CallsEnd, LedgerStays DEF ReviewInv
  <1>6. CASE reviews[r] = Nothing
    <2> DEFINE n == Cardinality({o \in Reviews : reviews[o] # Nothing}) + 1
               row == [impl |-> dispatch.impl, candidate |-> dispatch.candidate,
                       snapshot |-> dispatch.snapshot, round |-> dispatch.round,
                       number |-> n, state |-> "dispatched", output |-> Nothing, outcome |-> Nothing]
    <2>1. n \in 1..Cardinality(Reviews) BY <1>6, NextNumber DEF ReviewInv
    <2>2. reviews' = [reviews EXCEPT ![r] = row] BY <1>3, <1>6 DEF InsertReview
    <2> HIDE DEF n
    <2>3. row \in ReviewRow BY <2>1 DEF ReviewRow, Requested
    <2>4. /\ row.impl = dispatch.impl /\ row.candidate = dispatch.candidate
          /\ row.snapshot = dispatch.snapshot /\ row.outcome = Nothing /\ row.state = "dispatched"
      OBVIOUS
    <2> HIDE DEF row
    <2>5. Complete(row.snapshot) /\ CandidateOf(row.impl) = row.candidate
      BY <1>3, <2>4 DEF Prepared
    <2>6. reviews' \in [Reviews -> ReviewRow \cup {Nothing}]
      BY <2>2, <2>3 DEF ReviewInv, ReviewTypes
    <2>7. ReviewTypes' BY <2>6, <1>4, CallEnds DEF InsertReview, ReviewInv, ReviewTypes
    <2>8. routes[r] = Nothing /\ turn[r] # "accepted"
      BY <1>6 DEF ReviewInv, LedgerInv, FindingsAreWhole, AcceptanceIsCurrent
    <2>9. UNCHANGED <<task, impls, objective, entered, verified, turn, routes, items>>
      BY DEF InsertReview
    <2>10. LedgerInv' /\ RowsKept
      BY <1>6, <2>2, <2>3, <2>4, <2>5, <2>7, <2>8, <2>9, OneReview
    <2> QED BY <2>7, <2>10, <1>4, CallsEnd DEF ReviewInv
  <1> QED BY <1>5, <1>6

(* The calls that carry a review's output through record and acceptance. *)
LEMMA OutputCall ==
  ASSUME ReviewInv, NEW c \in Callers, at[c].op \in {"pass", "findings", "accept"}
  PROVE  /\ at[c] \in CallRow /\ OutputFits(at[c]) /\ at[c].id \in Reviews
         /\ reviews[at[c].id] # Nothing
  <1>1. at[c] \in CallRow /\ CallFits(at[c]) BY DEF ReviewInv, ReviewTypes, CallsInv
  <1>2. OutputFits(at[c]) BY <1>1 DEF CallFits
  <1> QED BY <1>1, <1>2 DEF OutputFits

LEMMA CompleteReviewKeeps ==
  ASSUME ReviewInv, NEW c \in Callers, NEW r \in Reviews, NEW outcome \in Outcomes,
         CompleteReview(c, r, outcome)
  PROVE  ReviewInv'
  <1> USE DEF Turns
  <1>1. /\ reviews[r] # Nothing /\ turn[r] \in {"dispatched", "completed", "accepted"}
        /\ turn[r] # "dispatched" => reviews[r].output = outcome
        /\ turn' = [turn EXCEPT ![r] = IF turn[r] = "dispatched" THEN "completed" ELSE turn[r]]
        /\ reviews' = [reviews EXCEPT ![r] = [reviews[r] EXCEPT !.output = outcome]]
        /\ Enter(c, outcome.verdict, r, outcome.points)
    BY Zenon DEF CompleteReview
  <1>2. /\ reviews[r] \in ReviewRow
        /\ Complete(reviews[r].snapshot) /\ CandidateOf(reviews[r].impl) = reviews[r].candidate
        /\ reviews[r].state = "dispatched" <=> reviews[r].outcome = Nothing
        /\ reviews[r].outcome # Nothing => Ended(r) /\ reviews[r].outcome = reviews[r].output
        /\ turn[r] = "accepted" <=> reviews[r].state = "accepted"
    BY <1>1, ReviewFacts
  <1> DEFINE row == [reviews[r] EXCEPT !.output = outcome]
  <1>3. row \in ReviewRow BY <1>2 DEF ReviewRow
  <1>4. /\ row.impl = reviews[r].impl /\ row.candidate = reviews[r].candidate
        /\ row.snapshot = reviews[r].snapshot /\ row.round = reviews[r].round
        /\ row.state = reviews[r].state /\ row.outcome = reviews[r].outcome /\ row.output = outcome
    BY <1>2 DEF ReviewRow
  <1>5. reviews' = [reviews EXCEPT ![r] = row] BY <1>1
  <1> HIDE DEF row
  <1>6. turn' \in [Turns -> TurnStates] BY <1>1 DEF ReviewInv, ReviewTypes, TurnStates
  <1>7. \A x \in Turns : x # r => turn'[x] = turn[x] BY <1>1 DEF ReviewInv, ReviewTypes
  <1>8. turn'[r] \in {"completed", "accepted"} /\ (turn'[r] = "accepted" <=> turn[r] = "accepted")
    BY <1>1 DEF ReviewInv, ReviewTypes
  <1>9. Ended(r)' BY <1>8 DEF Ended
  <1>10. Ended(r) => reviews[r].output = outcome BY <1>1 DEF Ended
  <1>11. outcome.verdict \in {"pass", "findings"} /\ outcome.points \in SUBSET Points
         /\ outcome = [verdict |-> outcome.verdict, points |-> outcome.points]
    BY DEF Outcomes
  <1>12. outcome.verdict \in CallOps /\ outcome.points \in CallArgs BY <1>11 DEF CallOps, CallArgs
  <1>13. PICK call \in CallRow : call = [op |-> outcome.verdict, id |-> r, arg |-> outcome.points]
    BY <1>1, <1>12, Enters DEF ReviewInv
  <1>14. at' \in [Callers -> CallRow] /\ at' = [at EXCEPT ![c] = call]
    BY <1>1, <1>12, <1>13, Enters DEF ReviewInv
  <1>15. reviews' \in [Reviews -> ReviewRow \cup {Nothing}]
    BY <1>3, <1>5 DEF ReviewInv, ReviewTypes
  <1>16. ReviewTypes' BY <1>6, <1>14, <1>15 DEF CompleteReview, ReviewInv, ReviewTypes
  <1>17. UNCHANGED <<task, impls, objective, entered, verified, routes, items>>
    BY DEF CompleteReview
  <1>18. routes[r] # Nothing <=> row.outcome # Nothing /\ row.outcome.verdict = "findings"
    BY <1>1, <1>4 DEF ReviewInv, LedgerInv, FindingsAreWhole
  <1>19. routes[r] # Nothing =>
           {<<[kind |-> "finding", candidate |-> row.candidate, point |-> p], r>> :
              p \in row.outcome.points} \subseteq items
    BY <1>4 DEF ReviewInv, LedgerInv, FindingsAreWhole, ItemsOf
  <1>20. turn[r] = "accepted" =>
           /\ row.outcome # Nothing /\ row.outcome.verdict = "pass"
           /\ row.snapshot = verified[row.candidate] /\ AcceptedIn(row.round) \subseteq {r}
           /\ {<<[kind |-> "follow-up", candidate |-> row.candidate, point |-> p], r>> :
                  p \in row.outcome.points} \subseteq items
    BY <1>4 DEF ReviewInv, LedgerInv, AcceptanceIsCurrent, ItemsOf
  <1>21. LedgerInv' /\ RowsKept
    <2>1. Complete(row.snapshot) /\ CandidateOf(row.impl) = row.candidate BY <1>2, <1>4
    <2>2. row.state = "dispatched" <=> row.outcome = Nothing BY <1>2, <1>4
    <2>3. row.outcome # Nothing => row.outcome = row.output BY <1>2, <1>4, <1>10
    <2>4. turn'[r] = "accepted" <=> row.state = "accepted" BY <1>2, <1>4, <1>8
    <2>5. Ended(r) => row.output = reviews[r].output BY <1>4, <1>10
    <2> QED BY <2>1, <2>2, <2>3, <2>4, <2>5, <1>3, <1>4, <1>5, <1>7, <1>8, <1>9, <1>16, <1>17,
               <1>18, <1>19, <1>20, OneReview
  <1>22. CallFits(call)'
    <2>1. reviews'[r] = row /\ row # Nothing
      BY <1>3, <1>5, CandidateReviewAssumption DEF ReviewInv, ReviewTypes
    <2>2. OutputFits(call)'
      BY <2>1, <1>4, <1>9, <1>11, <1>13 DEF OutputFits
    <2> QED BY <2>2, <1>11, <1>13 DEF CallFits
  <1> QED BY <1>14, <1>16, <1>21, <1>22, CallsStep DEF ReviewInv

(* Recovery ends the turn of a review, or doubts, voids or consumes what it
   ended with; an accepted one loses its acceptance with the turn. *)
LEMMA RecoverReviewKeeps ==
  ASSUME ReviewInv, NEW r \in Reviews, RecoverReview(r)
  PROVE  ReviewInv'
  <1> USE DEF Turns
  <1>1. PICK state \in {"ambiguous", "invalidated", "completed"} :
          turn' = [turn EXCEPT ![r] = state]
    BY DEF RecoverReview, TurnBecomes
  <1>2. /\ reviews' = IF turn[r] = "accepted" THEN [reviews EXCEPT ![r].state = "recorded"] ELSE reviews
        /\ UNCHANGED <<task, head, seal, impls, objective, entered, verified, routes, items, at>>
    BY DEF RecoverReview
  <1>3. turn' \in [Turns -> TurnStates] BY <1>1 DEF ReviewInv, ReviewTypes, TurnStates
  <1>4. \A x \in Turns : x # r => turn'[x] = turn[x] BY <1>1 DEF ReviewInv, ReviewTypes
  <1>5. turn'[r] = state /\ turn'[r] # "accepted" /\ Ended(r)'
    BY <1>1 DEF Ended, ReviewInv, ReviewTypes
  <1>6. CASE reviews[r] = Nothing
    <2>1. turn[r] # "accepted" BY <1>6 DEF ReviewInv, LedgerInv, AcceptanceIsCurrent
    <2>2. reviews' = reviews BY <1>2, <2>1
    <2>3. ReviewTypes' BY <1>2, <1>3, <2>2 DEF ReviewInv, ReviewTypes
    <2>4. ImplsKept /\ WorkKept
      BY <1>2, <1>4, CandidateReviewAssumption DEF ImplsKept, WorkKept, Answering
    <2>5. DiffReviewsKept BY <1>4, <1>6, <2>2 DEF DiffReviewsKept, Ended
    <2>6. CallsInv' BY <1>2, <2>3, <2>4, <2>5, CallsStay DEF RowsKept, ReviewInv
    <2>7. ObjectivesInv'
      BY <1>2, <1>4, CandidateReviewAssumption
      DEF ObjectivesInv, ObjectivesAgree, HasOutput, ReviewInv, LedgerInv
    <2>8. \A o \in Reviews : RowInv(o)' /\ RouteInv(o)'
      BY <1>2, <1>4, <1>6, <2>2
      DEF RowInv, RouteInv, Complete, CandidateOf, Ended, ReviewInv, LedgerInv
    <2>9. AcceptanceIsCurrent'
      <3>1. \A o \in Reviews : turn'[o] = "accepted" <=> turn[o] = "accepted" BY <1>4, <1>5, <2>1
      <3>2. \A round : AcceptedIn(round)' = AcceptedIn(round) BY <2>2 DEF AcceptedIn
      <3>3. UNCHANGED <<impls, verified, items>> BY <1>2
      <3> QED BY <2>2, <3>1, <3>2, <3>3 DEF AcceptanceIsCurrent, Complete, CandidateOf, ItemsOf,
                                            ReviewInv, LedgerInv
    <2>10. FindingsAreWhole' BY <1>2, <2>2 DEF FindingsAreWhole, ItemsOf, ReviewInv, LedgerInv
    <2> QED BY <2>3, <2>6, <2>7, <2>8, <2>9, <2>10 DEF ReviewInv, LedgerInv
  <1>7. CASE reviews[r] # Nothing
    <2> DEFINE given == [reviews[r] EXCEPT !.state = "recorded"]
               kept == IF turn[r] = "accepted" THEN given ELSE reviews[r]
    <2>1. /\ reviews[r] \in ReviewRow /\ Complete(reviews[r].snapshot)
          /\ CandidateOf(reviews[r].impl) = reviews[r].candidate
          /\ reviews[r].state = "dispatched" <=> reviews[r].outcome = Nothing
          /\ reviews[r].outcome # Nothing => reviews[r].outcome = reviews[r].output
          /\ turn[r] = "accepted" <=> reviews[r].state = "accepted"
      BY <1>7, ReviewFacts
    <2>2. /\ given \in ReviewRow /\ given.impl = reviews[r].impl
          /\ given.candidate = reviews[r].candidate /\ given.snapshot = reviews[r].snapshot
          /\ given.round = reviews[r].round /\ given.output = reviews[r].output
          /\ given.outcome = reviews[r].outcome /\ given.state = "recorded"
      BY <2>1 DEF ReviewRow
    <2>3. reviews' = [reviews EXCEPT ![r] = kept]
      BY <1>2 DEF ReviewInv, ReviewTypes
    <2> HIDE DEF given
    <2>4. PICK row \in ReviewRow : row = kept BY <2>1, <2>2
    <2> HIDE DEF kept
    <2>5. /\ row.impl = reviews[r].impl /\ row.candidate = reviews[r].candidate
          /\ row.snapshot = reviews[r].snapshot /\ row.round = reviews[r].round
          /\ row.output = reviews[r].output /\ row.outcome = reviews[r].outcome
          /\ row.state = "dispatched" <=> row.outcome = Nothing
          /\ row.state # "accepted"
      BY <2>1, <2>2, <2>4 DEF kept
    <2>6. Complete(row.snapshot) /\ CandidateOf(row.impl) = row.candidate BY <2>1, <2>5
    <2>7. row.outcome # Nothing => row.outcome = row.output BY <2>1, <2>5
    <2>8. reviews' = [reviews EXCEPT ![r] = row] BY <2>3, <2>4
    <2>9. ReviewTypes' BY <1>2, <1>3, <2>8 DEF ReviewInv, ReviewTypes
    <2>10. /\ routes[r] # Nothing <=> row.outcome # Nothing /\ row.outcome.verdict = "findings"
           /\ routes[r] # Nothing =>
                {<<[kind |-> "finding", candidate |-> row.candidate, point |-> p], r>> :
                    p \in row.outcome.points} \subseteq items
      BY <1>7, <2>5 DEF ReviewInv, LedgerInv, FindingsAreWhole, ItemsOf
    <2>11. LedgerInv' /\ RowsKept
      BY <1>2, <1>4, <1>5, <1>7, <2>5, <2>6, <2>7, <2>8, <2>9, <2>10, OneReview
    <2> QED BY <1>2, <2>9, <2>11, CallsStay DEF ReviewInv
  <1> QED BY <1>6, <1>7

(* record_diff_review writes the bound output as the artifact. *)
LEMMA RecordedRow ==
  ASSUME ReviewInv, NEW r \in Reviews, reviews[r] # Nothing, reviews[r].output \in Outcomes,
         Ended(r), reviews' = Recorded(r)
  PROVE  \E row \in ReviewRow :
            /\ reviews' = [reviews EXCEPT ![r] = row]
            /\ row.impl = reviews[r].impl /\ row.candidate = reviews[r].candidate
            /\ row.snapshot = reviews[r].snapshot /\ row.round = reviews[r].round
            /\ row.output = reviews[r].output /\ row.outcome = reviews[r].output
            /\ reviews[r].outcome # Nothing => row.outcome = reviews[r].outcome
            /\ row.state # "dispatched" /\ (row.state = "accepted" <=> reviews[r].state = "accepted")
  <1>1. /\ reviews[r] \in ReviewRow
        /\ reviews[r].state = "dispatched" <=> reviews[r].outcome = Nothing
        /\ reviews[r].outcome # Nothing => reviews[r].outcome = reviews[r].output
    BY ReviewFacts
  <1> DEFINE st == IF reviews[r].outcome = Nothing THEN "recorded" ELSE reviews[r].state
             row == [reviews[r] EXCEPT !.outcome = reviews[r].output, !.state = st]
  <1>2. st \in {"recorded", "accepted"} /\ (st = "accepted" <=> reviews[r].state = "accepted")
    BY <1>1 DEF ReviewRow
  <1>3. reviews' = [reviews EXCEPT ![r] = row]
    BY <1>1 DEF Recorded, ReviewInv, ReviewTypes
  <1> HIDE DEF st
  <1>4. /\ row \in ReviewRow /\ row.impl = reviews[r].impl /\ row.candidate = reviews[r].candidate
        /\ row.snapshot = reviews[r].snapshot /\ row.round = reviews[r].round
        /\ row.output = reviews[r].output /\ row.outcome = reviews[r].output /\ row.state = st
    BY <1>1, <1>2 DEF ReviewRow
  <1> HIDE DEF row
  <1> QED BY <1>1, <1>2, <1>3, <1>4

LEMMA RecordFindingsKeeps ==
  ASSUME ReviewInv, NEW c \in Callers, RecordFindings(c)
  PROVE  ReviewInv'
  <1> USE DEF Turns
  <1>1. at[c].op = "findings" BY DEF RecordFindings, In
  <1>2. PICK r \in Reviews, arg \in {at[c].arg} : r = at[c].id /\ arg = at[c].arg /\ reviews[r] # Nothing
          /\ Ended(r) /\ reviews[r].output \in Outcomes
          /\ reviews[r].output = [verdict |-> "findings", points |-> arg]
    BY <1>1, OutputCall DEF OutputFits
  <1>3. /\ task = "diff-review" /\ routes[r] = Nothing /\ reviews' = Recorded(r)
        /\ routes' = [routes EXCEPT ![r] = [claim |-> Nothing, consumed |-> Nothing]]
        /\ items' = items \cup ItemsOf(r, "finding", arg)
        /\ task' = "implementing" /\ Finish(c)
        /\ UNCHANGED <<head, seal, impls, objective, entered, verified, turn>>
    BY <1>2 DEF RecordFindings
  <1>4. PICK row \in ReviewRow :
            /\ reviews' = [reviews EXCEPT ![r] = row]
            /\ row.impl = reviews[r].impl /\ row.candidate = reviews[r].candidate
            /\ row.snapshot = reviews[r].snapshot /\ row.round = reviews[r].round
            /\ row.output = reviews[r].output /\ row.outcome = reviews[r].output
            /\ reviews[r].outcome # Nothing => row.outcome = reviews[r].outcome
            /\ row.state # "dispatched" /\ (row.state = "accepted" <=> reviews[r].state = "accepted")
    BY <1>2, <1>3, RecordedRow
  <1>5. PICK route \in RouteRow : route = [claim |-> Nothing, consumed |-> Nothing] BY DEF RouteRow
  <1>6. route # Nothing BY <1>5, CandidateReviewAssumption
  <1>7. routes' \in [Reviews -> RouteRow \cup {Nothing}] /\ routes'[r] = route
        /\ \A o \in Reviews : o # r => routes'[o] = routes[o]
    BY <1>3, <1>5 DEF ReviewInv, ReviewTypes
  <1>8. reviews' \in [Reviews -> ReviewRow \cup {Nothing}] BY <1>4 DEF ReviewInv, ReviewTypes
  <1>9. ReviewTypes' BY <1>3, <1>7, <1>8, CallEnds DEF ReviewInv, ReviewTypes
  <1>10. /\ Complete(row.snapshot) /\ CandidateOf(row.impl) = row.candidate
         /\ turn[r] = "accepted" <=> reviews[r].state = "accepted"
    BY <1>2, <1>4, ReviewFacts
  <1>11. row.outcome # Nothing /\ row.outcome.verdict = "findings" /\ row.outcome.points = arg
    BY <1>2, <1>4, CandidateReviewAssumption
  <1>12. turn[r] # "accepted"
    <2> SUFFICES ASSUME turn[r] = "accepted" PROVE FALSE OBVIOUS
    <2>1. reviews[r].outcome # Nothing /\ reviews[r].outcome.verdict = "pass"
      BY DEF ReviewInv, LedgerInv, AcceptanceIsCurrent
    <2> QED BY <2>1, <1>4, <1>11
  <1>13. {<<[kind |-> "finding", candidate |-> row.candidate, point |-> p], r>> :
             p \in row.outcome.points} \subseteq items'
    BY <1>3, <1>4, <1>11 DEF ItemsOf
  <1>14. Ended(r)' BY <1>2, <1>3 DEF Ended
  <1>15. LedgerInv' /\ RowsKept
    BY <1>3, <1>4, <1>5, <1>6, <1>7, <1>9, <1>10, <1>11, <1>12, <1>13, <1>14, OneReview
  <1> QED BY <1>3, <1>9, <1>15, CallsEnd DEF ReviewInv

LEMMA RecordPassKeeps ==
  ASSUME ReviewInv, NEW c \in Callers, RecordPass(c)
  PROVE  ReviewInv'
  <1> USE DEF Turns
  <1>1. at[c].op = "pass" BY DEF RecordPass, In
  <1>2. PICK r \in Reviews, arg \in {at[c].arg} : r = at[c].id /\ arg = at[c].arg /\ reviews[r] # Nothing
          /\ Ended(r) /\ reviews[r].output \in Outcomes
          /\ reviews[r].output = [verdict |-> "pass", points |-> arg]
    BY <1>1, OutputCall DEF OutputFits
  <1>3. /\ reviews' = Recorded(r) /\ Then(c, "accept")
        /\ UNCHANGED <<task, head, seal, impls, objective, entered, verified, turn, routes, items>>
    BY <1>2 DEF RecordPass
  <1>4. PICK row \in ReviewRow :
            /\ reviews' = [reviews EXCEPT ![r] = row]
            /\ row.impl = reviews[r].impl /\ row.candidate = reviews[r].candidate
            /\ row.snapshot = reviews[r].snapshot /\ row.round = reviews[r].round
            /\ row.output = reviews[r].output /\ row.outcome = reviews[r].output
            /\ reviews[r].outcome # Nothing => row.outcome = reviews[r].outcome
            /\ row.state # "dispatched" /\ (row.state = "accepted" <=> reviews[r].state = "accepted")
    BY <1>2, <1>3, RecordedRow
  <1>5. "accept" \in CallOps BY DEF CallOps
  <1>6. PICK call \in CallRow : call = [op |-> "accept", id |-> r, arg |-> arg]
    BY <1>2, <1>3, <1>5, CallGoes DEF ReviewInv
  <1>7. at' \in [Callers -> CallRow] /\ at' = [at EXCEPT ![c] = call]
    BY <1>2, <1>3, <1>5, <1>6, CallGoes DEF ReviewInv
  <1>8. reviews' \in [Reviews -> ReviewRow \cup {Nothing}] BY <1>4 DEF ReviewInv, ReviewTypes
  <1>9. ReviewTypes' BY <1>3, <1>7, <1>8 DEF ReviewInv, ReviewTypes
  <1>10. /\ Complete(row.snapshot) /\ CandidateOf(row.impl) = row.candidate
         /\ turn[r] = "accepted" <=> reviews[r].state = "accepted"
         /\ reviews[r].outcome # Nothing => reviews[r].outcome = reviews[r].output
    BY <1>2, <1>4, ReviewFacts
  <1>11. row.outcome # Nothing /\ row.outcome.verdict = "pass" /\ row.outcome.points = arg
    BY <1>2, <1>4, CandidateReviewAssumption
  <1>12. routes[r] = Nothing
    <2> SUFFICES ASSUME routes[r] # Nothing PROVE FALSE OBVIOUS
    <2>1. reviews[r].outcome # Nothing /\ reviews[r].outcome.verdict = "findings"
      BY DEF ReviewInv, LedgerInv, FindingsAreWhole
    <2> QED BY <2>1, <1>4, <1>11
  <1>13. turn[r] = "accepted" =>
           /\ row.snapshot = verified[row.candidate] /\ AcceptedIn(row.round) \subseteq {r}
           /\ {<<[kind |-> "follow-up", candidate |-> row.candidate, point |-> p], r>> :
                  p \in row.outcome.points} \subseteq items
    BY <1>4 DEF ReviewInv, LedgerInv, AcceptanceIsCurrent, ItemsOf
  <1>14. Ended(r)' BY <1>2, <1>3 DEF Ended
  <1>15. LedgerInv' /\ RowsKept
    BY <1>3, <1>4, <1>9, <1>10, <1>11, <1>12, <1>13, <1>14, OneReview
  <1>16. CallFits(call)'
    <2>1. reviews'[r] = row /\ row # Nothing
      BY <1>4, CandidateReviewAssumption DEF ReviewInv, ReviewTypes
    <2>2. OutputFits(call)' BY <2>1, <1>2, <1>4, <1>6, <1>11, <1>14 DEF OutputFits
    <2> QED BY <2>2, <1>6 DEF CallFits
  <1> QED BY <1>7, <1>9, <1>15, <1>16, CallsStep DEF ReviewInv

LEMMA AcceptPassKeeps ==
  ASSUME ReviewInv, NEW c \in Callers, AcceptPass(c)
  PROVE  ReviewInv'
  <1> USE DEF Turns
  <1>1. at[c].op = "accept" BY DEF AcceptPass, In
  <1>2. PICK r \in Reviews, arg \in {at[c].arg} : r = at[c].id /\ arg = at[c].arg /\ reviews[r] # Nothing
          /\ Ended(r) /\ reviews[r].outcome # Nothing
          /\ reviews[r].output = [verdict |-> "pass", points |-> arg]
    BY <1>1, OutputCall DEF OutputFits
  <1>3. /\ verified[reviews[r].candidate] = reviews[r].snapshot
        /\ AcceptedIn(reviews[r].round) \subseteq {r}
        /\ turn' = [turn EXCEPT ![r] = "accepted"]
        /\ reviews' = [reviews EXCEPT ![r] = [reviews[r] EXCEPT !.state = "accepted"]]
        /\ items' = items \cup ItemsOf(r, "follow-up", arg) /\ Finish(c)
        /\ UNCHANGED <<task, head, seal, impls, objective, entered, verified, routes>>
    BY <1>2, Zenon DEF AcceptPass, Unchanged, Snapshot
  <1>4. /\ reviews[r] \in ReviewRow
        /\ Complete(reviews[r].snapshot) /\ CandidateOf(reviews[r].impl) = reviews[r].candidate
        /\ reviews[r].outcome = reviews[r].output
    BY <1>2, ReviewFacts
  <1> DEFINE row == [reviews[r] EXCEPT !.state = "accepted"]
  <1>5. row \in ReviewRow BY <1>4 DEF ReviewRow
  <1>6. /\ row.impl = reviews[r].impl /\ row.candidate = reviews[r].candidate
        /\ row.snapshot = reviews[r].snapshot /\ row.round = reviews[r].round
        /\ row.state = "accepted" /\ row.outcome = reviews[r].outcome /\ row.output = reviews[r].output
    BY <1>4 DEF ReviewRow
  <1>7. reviews' = [reviews EXCEPT ![r] = row] BY <1>3
  <1> HIDE DEF row
  <1>8. turn' \in [Turns -> TurnStates] BY <1>3 DEF ReviewInv, ReviewTypes, TurnStates
  <1>9. \A x \in Turns : x # r => turn'[x] = turn[x] BY <1>3 DEF ReviewInv, ReviewTypes
  <1>10. turn'[r] = "accepted" /\ Ended(r)' BY <1>3 DEF ReviewInv, ReviewTypes, Ended
  <1>11. reviews' \in [Reviews -> ReviewRow \cup {Nothing}]
    BY <1>5, <1>7 DEF ReviewInv, ReviewTypes
  <1>12. ReviewTypes' BY <1>3, <1>8, <1>11, CallEnds DEF ReviewInv, ReviewTypes
  <1>13. row.outcome # Nothing /\ row.outcome.verdict = "pass" /\ row.outcome.points = arg
    BY <1>2, <1>4, <1>6
  <1>14. routes[r] = Nothing
    BY <1>6, <1>13 DEF ReviewInv, LedgerInv, FindingsAreWhole
  <1>15. {<<[kind |-> "follow-up", candidate |-> row.candidate, point |-> p], r>> :
             p \in row.outcome.points} \subseteq items'
    BY <1>3, <1>6, <1>13 DEF ItemsOf
  <1>16. LedgerInv' /\ RowsKept
    <2>1. Complete(row.snapshot) /\ CandidateOf(row.impl) = row.candidate BY <1>4, <1>6
    <2>2. row.outcome = row.output BY <1>4, <1>6
    <2>3. row.snapshot = verified[row.candidate] /\ AcceptedIn(row.round) \subseteq {r} BY <1>3, <1>6
    <2> QED BY <2>1, <2>2, <2>3, <1>3, <1>5, <1>6, <1>7, <1>9, <1>10, <1>12, <1>13, <1>14, <1>15,
               OneReview
  <1> QED BY <1>3, <1>12, <1>16, CallsEnd DEF ReviewInv

(* A withdrawal takes acceptances back, at both ledgers, and nothing else;
   an acceptance it leaves must still rest on the results there are. *)
LEMMA WithdrawKeeps ==
  ASSUME ReviewInv, NEW stale \in SUBSET Reviews, \A r \in stale : reviews[r] # Nothing,
         Withdraw(stale), verified' \in [Commits -> SUBSET Checks], NEW c \in Callers, Finish(c),
         \A r \in Reviews : turn[r] = "accepted" /\ r \notin stale =>
             verified'[reviews[r].candidate] = verified[reviews[r].candidate],
         UNCHANGED <<task, head, seal, impls, objective, entered, routes, items>>
  PROVE  ReviewInv'
  <1> USE DEF Turns
  <1>1. ASSUME NEW r \in Reviews, reviews[r] # Nothing
        PROVE  /\ reviews'[r] \in ReviewRow /\ reviews'[r] # Nothing
               /\ reviews'[r].impl = reviews[r].impl /\ reviews'[r].candidate = reviews[r].candidate
               /\ reviews'[r].snapshot = reviews[r].snapshot /\ reviews'[r].round = reviews[r].round
               /\ reviews'[r].output = reviews[r].output /\ reviews'[r].outcome = reviews[r].outcome
               /\ reviews'[r].state = IF r \in stale /\ reviews[r].state = "accepted"
                                      THEN "recorded" ELSE reviews[r].state
    <2>1. reviews[r] \in ReviewRow BY <1>1, ReviewFacts
    <2> DEFINE row == [reviews[r] EXCEPT !.state = "recorded"]
    <2>2. /\ row \in ReviewRow /\ row.impl = reviews[r].impl /\ row.candidate = reviews[r].candidate
          /\ row.snapshot = reviews[r].snapshot /\ row.round = reviews[r].round
          /\ row.output = reviews[r].output /\ row.outcome = reviews[r].outcome
          /\ row.state = "recorded"
      BY <2>1 DEF ReviewRow
    <2>3. reviews'[r] = IF r \in stale /\ reviews[r].state = "accepted" THEN row ELSE reviews[r]
      BY Zenon DEF Withdraw
    <2> HIDE DEF row
    <2> QED BY <2>1, <2>2, <2>3, CandidateReviewAssumption
  <1>2. ASSUME NEW r \in Reviews, reviews[r] = Nothing
        PROVE  reviews'[r] = Nothing
    <2>1. r \notin stale BY <1>2
    <2> QED BY <1>2, <2>1 DEF Withdraw
  <1>3. reviews' \in [Reviews -> ReviewRow \cup {Nothing}]
    <2>1. \A r \in Reviews : reviews'[r] \in ReviewRow \cup {Nothing} BY <1>1, <1>2
    <2>2. reviews' = [r \in Reviews |-> reviews'[r]] BY DEF Withdraw
    <2> QED BY <2>1, <2>2
  <1>4. /\ turn' \in [Turns -> TurnStates]
        /\ \A x \in Turns : turn'[x] = IF x \in stale /\ turn[x] = "accepted"
                                       THEN "invalidated" ELSE turn[x]
    BY DEF Withdraw, ReviewInv, ReviewTypes, TurnStates
  <1>5. ReviewTypes' BY <1>3, <1>4, CallEnds DEF ReviewInv, ReviewTypes
  <1>6. \A i \in Impls : turn'[i] = turn[i] BY <1>4, CandidateReviewAssumption
  <1>7. \A r \in Reviews : Ended(r) => Ended(r)' BY <1>4 DEF Ended
  <1>8. DiffReviewsKept BY <1>1, <1>7 DEF DiffReviewsKept
  <1>9. RowsKept /\ ObjectivesInv' BY <1>5, <1>6, <1>8, ReviewRows
  <1>10. ASSUME NEW r \in Reviews PROVE RowInv(r)' /\ RouteInv(r)'
    <2>1. RouteInv(r)' BY DEF RouteInv, ReviewInv, LedgerInv
    <2>2. CASE reviews[r] = Nothing BY <2>1, <2>2, <1>2 DEF RowInv
    <2>3. CASE reviews[r] # Nothing
      BY <2>1, <2>3, <1>1, <1>7, ReviewFacts DEF RowInv, Complete, CandidateOf
    <2> QED BY <2>2, <2>3
  <1>11. FindingsAreWhole'
    <2>1. \A r \in Reviews :
            /\ reviews'[r] # Nothing <=> reviews[r] # Nothing
            /\ reviews[r] # Nothing => /\ reviews'[r].outcome = reviews[r].outcome
                                       /\ reviews'[r].candidate = reviews[r].candidate
      BY <1>1, <1>2
    <2> QED BY <2>1 DEF FindingsAreWhole, ItemsOf, ReviewInv, LedgerInv
  <1>12. ASSUME NEW r \in Reviews
         PROVE  /\ turn'[r] = "accepted" <=> turn[r] = "accepted" /\ r \notin stale
                /\ turn'[r] = "accepted" <=> reviews'[r] # Nothing /\ reviews'[r].state = "accepted"
    <2>1. turn[r] = "accepted" <=> reviews[r] # Nothing /\ reviews[r].state = "accepted"
      BY DEF ReviewInv, LedgerInv, AcceptanceIsCurrent
    <2> QED BY <2>1, <1>1, <1>2, <1>4
  <1>13. ASSUME NEW r \in Reviews, turn'[r] = "accepted"
         PROVE  (/\ reviews[r].outcome # Nothing /\ reviews[r].outcome.verdict = "pass"
                 /\ reviews[r].snapshot = verified[reviews[r].candidate]
                 /\ Complete(reviews[r].snapshot)
                 /\ CandidateOf(reviews[r].impl) = reviews[r].candidate
                 /\ AcceptedIn(reviews[r].round) = {r}
                 /\ ItemsOf(r, "follow-up", reviews[r].outcome.points) \subseteq items)'
    <2>1. turn[r] = "accepted" /\ r \notin stale /\ reviews'[r] # Nothing
          /\ reviews'[r].state = "accepted" /\ reviews[r] # Nothing
      BY <1>12, <1>13, <1>2
    <2>2. /\ reviews[r].outcome # Nothing /\ reviews[r].outcome.verdict = "pass"
          /\ reviews[r].snapshot = verified[reviews[r].candidate]
          /\ AcceptedIn(reviews[r].round) = {r}
          /\ ItemsOf(r, "follow-up", reviews[r].outcome.points) \subseteq items
      BY <2>1 DEF ReviewInv, LedgerInv, AcceptanceIsCurrent
    <2>3. (AcceptedIn(reviews[r].round) = {r})'
      <3>1. r \in AcceptedIn(reviews[r].round)' BY <2>1 DEF AcceptedIn
      <3>2. ASSUME NEW o \in Reviews, reviews'[o] # Nothing, reviews'[o].state = "accepted",
                   reviews'[o].round = reviews'[r].round
            PROVE  o = r
        <4>1. turn[o] = "accepted" /\ reviews[o] # Nothing BY <3>2, <1>12, <1>2
        <4>2. reviews[o].state = "accepted" /\ reviews[o].round = reviews[r].round
          BY <4>1, <3>2, <2>1, <1>1, ReviewFacts
        <4> QED BY <4>1, <4>2, <2>2 DEF AcceptedIn
      <3> QED BY <3>1, <3>2 DEF AcceptedIn
    <2>4. (Complete(reviews[r].snapshot) /\ CandidateOf(reviews[r].impl) = reviews[r].candidate)'
      BY <2>1, <1>10 DEF RowInv
    <2>5. verified'[reviews[r].candidate] = verified[reviews[r].candidate] BY <2>1
    <2>6. /\ reviews'[r].candidate = reviews[r].candidate /\ reviews'[r].snapshot = reviews[r].snapshot
          /\ reviews'[r].outcome = reviews[r].outcome
      BY <2>1, <1>1
    <2> QED BY <2>2, <2>3, <2>4, <2>5, <2>6 DEF ItemsOf
  <1>14. AcceptanceIsCurrent' BY <1>12, <1>13 DEF AcceptanceIsCurrent
  <1> QED BY <1>5, <1>9, <1>10, <1>11, <1>14, CallsEnd DEF ReviewInv, LedgerInv

LEMMA WithdrawReviewKeeps ==
  ASSUME ReviewInv, NEW c \in Callers, WithdrawReview(c)
  PROVE  ReviewInv'
  <1>1. at[c].op = "withdraw" /\ CallFits(at[c])
    BY DEF WithdrawReview, In, ReviewInv, CallsInv
  <1>2. PICK r \in Reviews : r = at[c].id /\ reviews[r] # Nothing BY <1>1 DEF CallFits
  <1>3. Withdraw({r}) /\ Finish(c)
        /\ UNCHANGED <<task, head, seal, impls, objective, entered, verified, routes, items>>
    BY <1>2 DEF WithdrawReview
  <1>4. verified' \in [Commits -> SUBSET Checks] BY <1>3 DEF ReviewInv, ReviewTypes
  <1> QED BY <1>2, <1>3, <1>4, WithdrawKeeps

LEMMA RecordVerificationKeeps ==
  ASSUME ReviewInv, NEW c \in Callers, RecordVerification(c)
  PROVE  ReviewInv'
  <1>1. at[c].op = "verify" /\ CallFits(at[c])
    BY DEF RecordVerification, In, ReviewInv, CallsInv
  <1>2. PICK k \in Checks, s \in Commits : k = at[c].id /\ s = at[c].arg BY <1>1 DEF CallFits
  <1>3. PICK snapshot : snapshot = verified[s] \cup {k} OBVIOUS
  <1>4. PICK stale : stale = {r \in Reviews : /\ Complete(snapshot) /\ reviews[r] # Nothing
                                              /\ reviews[r].candidate = s
                                              /\ reviews[r].snapshot # snapshot}
    OBVIOUS
  <1>5. verified' = [verified EXCEPT ![s] = snapshot] /\ Withdraw(stale) /\ Finish(c)
        /\ UNCHANGED <<task, head, seal, impls, objective, entered, routes, items>>
    BY <1>2, <1>3, <1>4 DEF RecordVerification
  <1>6. verified' \in [Commits -> SUBSET Checks]
    BY <1>2, <1>3, <1>5 DEF ReviewInv, ReviewTypes
  <1>7. ASSUME NEW r \in Reviews, turn[r] = "accepted", r \notin stale
        PROVE  verified'[reviews[r].candidate] = verified[reviews[r].candidate]
    <2>1. reviews[r] # Nothing /\ reviews[r].snapshot = verified[reviews[r].candidate]
          /\ Complete(reviews[r].snapshot)
      BY <1>7 DEF ReviewInv, LedgerInv, AcceptanceIsCurrent
    <2>2. reviews[r].candidate \in Commits BY <2>1, ReviewFacts
    <2>3. CASE reviews[r].candidate # s
      BY <2>2, <2>3, <1>5 DEF ReviewInv, ReviewTypes
    <2>4. CASE reviews[r].candidate = s
      <3>1. Complete(snapshot) BY <2>1, <2>4, <1>3 DEF Complete
      <3>2. reviews[r].snapshot = snapshot BY <3>1, <2>1, <2>4, <1>4, <1>7
      <3> QED BY <3>2, <2>1, <2>4, <1>5 DEF ReviewInv, ReviewTypes
    <2> QED BY <2>3, <2>4
  <1>8. stale \in SUBSET Reviews /\ \A r \in stale : reviews[r] # Nothing BY <1>4
  <1> QED BY <1>5, <1>6, <1>7, <1>8, WithdrawKeeps

(* The empty review ledger satisfies ReviewInv. *)
LEMMA ReviewStarts == ReviewInit => ReviewInv
  <1> SUFFICES ASSUME ReviewInit PROVE ReviewInv OBVIOUS
  <1> USE DEF Turns
  <1>1. Done \in CallRow /\ Done.op = "idle"
    <2>1. Nothing \in CallArgs BY DEF CallArgs
    <2>2. "idle" \in CallOps BY DEF CallOps
    <2> QED BY <2>1, <2>2 DEF Done, CallRow
  <1>2. ReviewTypes BY <1>1 DEF ReviewInit, ReviewTypes, TurnStates
  <1>3. CallsInv
    <2>1. \A c \in Callers : at[c].op = "idle" BY <1>1 DEF ReviewInit
    <2> QED BY <2>1 DEF CallsInv, CallFits
  <1>4. LedgerInv
    BY DEF ReviewInit, LedgerInv, RowInv, RouteInv, AcceptanceIsCurrent, FindingsAreWhole,
           ObjectivesInv, ObjectivesAgree
  <1> QED BY <1>2, <1>3, <1>4 DEF ReviewInv

(* One step per transaction of implementation and review. *)
LEMMA ReviewInductive ==
  ASSUME ReviewInv, [ReviewNext]_reviewVars
  PROVE  ReviewInv'
  <1>1. ASSUME NEW c \in Callers, Dispatch(c) \/ Raise(c) \/ Crash(c)
        PROVE  ReviewInv'
    BY <1>1, BeginImplementationKeeps, ClaimRouteKeeps, StartTurnKeeps, InsertImplementationKeeps,
       StartObjectiveKeeps, RaiseKeeps, CrashKeeps
    DEF Dispatch
  <1>2. ASSUME NEW c \in Callers, Review(c) PROVE ReviewInv'
    <2>1. CASE \/ \E i \in Impls : SealCandidate(c, i)
               \/ CompleteImplementation(c) \/ RecordCandidate(c) \/ CompleteObjective(c)
               \/ EnterDiffReview(c)
      BY <2>1, SealCandidateKeeps, CompleteImplementationKeeps, RecordCandidateKeeps,
         CompleteObjectiveKeeps, EnterDiffReviewKeeps
    <2>2. CASE (\E k \in Checks : BeginVerification(c, k)) \/ RecordVerification(c)
      BY <2>2, BeginVerificationKeeps, RecordVerificationKeeps
    <2>3. CASE \E r \in Reviews :
                  \/ \E i \in Impls, round \in Rounds : DispatchReview(c, r, i, round)
                  \/ \E outcome \in Outcomes : CompleteReview(c, r, outcome)
                  \/ FindStale(c, r)
      BY <2>3, DispatchReviewKeeps, CompleteReviewKeeps, FindStaleKeeps
    <2>4. CASE \/ StartTurn(c) \/ InsertReview(c) \/ RecordFindings(c) \/ RecordPass(c)
               \/ AcceptPass(c) \/ WithdrawReview(c)
      BY <2>4, StartTurnKeeps, InsertReviewKeeps, RecordFindingsKeeps, RecordPassKeeps,
         AcceptPassKeeps, WithdrawReviewKeeps
    <2>5. CASE \E s \in Commits : LoseCandidate(c, s)
      BY <2>5, LoseCandidateKeeps
    <2> QED BY <1>2, <2>1, <2>2, <2>3, <2>4, <2>5 DEF Review
  <1>3. ASSUME NEW i \in Impls, RejectWorkerOutput(i) \/ RecoverWorker(i) \/ CancelObjective(i)
        PROVE  ReviewInv'
    BY <1>3, WorkerRecoveryKeeps
  <1>6. ASSUME NEW r \in Reviews, RecoverReview(r) PROVE ReviewInv' BY <1>6, RecoverReviewKeeps
  <1>4. ASSUME NEW s \in Commits, Commit(s) PROVE ReviewInv' BY <1>4, CommitKeeps
  <1>5. CASE UNCHANGED reviewVars
    <2>1. UNCHANGED ledger /\ UNCHANGED at BY <1>5 DEF reviewVars
    <2>2. ReviewTypes' BY <2>1 DEF ReviewInv, ReviewTypes, ledger
    <2> QED BY <2>1, <2>2, NothingKept, CallsStay, LedgerStays DEF ReviewInv
  <1> QED BY <1>1, <1>2, <1>3, <1>4, <1>5, <1>6 DEF ReviewNext

(* An accepted review is the one recorded PASS of its round, of the
   candidate its Worker delivered and on exactly the verification results
   that candidate has, whatever came between the checks and the acceptance
   (_accept_diff_pass). *)
THEOREM AcceptanceStaysCurrent == ReviewSpec => []AcceptanceIsCurrent
  <1>1. ReviewInv => AcceptanceIsCurrent BY DEF ReviewInv, LedgerInv
  <1> QED BY <1>1, ReviewStarts, ReviewInductive, PTL DEF ReviewSpec

(* Artifact, route and items of FINDINGS exist together, and a route is
   consumed by exactly the implementation that names it, under concurrent
   callers and crashes (record_diff_review, _consume_repair_parent). *)
THEOREM FindingsStayWhole == ReviewSpec => []FindingsAreWhole
  <1>1. ReviewInv => FindingsAreWhole BY DEF ReviewInv, LedgerInv
  <1> QED BY <1>1, ReviewStarts, ReviewInductive, PTL DEF ReviewSpec

(* An objective is completed only with the recorded candidate that is its
   turn's output, consumed or in doubt; a candidate enters review only
   behind it; and a turn given up without output leaves no active objective,
   whatever recovery does between the transactions (recover_attempt,
   _cancel_objective_for_recovery_connection). *)
THEOREM ObjectivesMoveTogether == ReviewSpec => []ObjectivesAgree
  <1>1. ReviewInv => ObjectivesAgree BY DEF ReviewInv, LedgerInv, ObjectivesInv
  <1> QED BY <1>1, ReviewStarts, ReviewInductive, PTL DEF ReviewSpec
=============================================================================
