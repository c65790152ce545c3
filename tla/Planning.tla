------------------------------ MODULE Planning ------------------------------
(***************************************************************************)
(* Planning and plan review of one task (worker_planning.py,               *)
(* plan_review.py): a Worker turn produces a plan, the plan is submitted,  *)
(* a Supervisor turn reviews it, findings send it back for a revision on   *)
(* the Worker's thread, an accepted PASS opens implementation.             *)
(*                                                                         *)
(* A call is a chain of transactions on one database; pc is what the       *)
(* holder of the transition lease has still to do of it.  A call that      *)
(* raises, and a process that dies, stop between two transactions          *)
(* (StopPlanning), and any call may come next.  planTurn is the provider   *)
(* attempt behind a plan or a review, reduced to what these modules read   *)
(* of it; recovery of a provider attempt, by this process or another, may  *)
(* change it at any time.  Digests, contexts and health authorizations,    *)
(* which only reject foreign values, and the write-once blocker of an      *)
(* attempt, which only makes recovery refuse (ProviderAttempts has it),    *)
(* are left out.                                                           *)
(***************************************************************************)
EXTENDS Naturals, FiniteSets

CONSTANTS PlanIds, ReviewIds, Threads,
          Contents,       \* plan bodies
          TrueBlocked,    \* the bodies that name a true blocker
          OwnerBlocked,   \* those among them that need the owner
          Findings,       \* findings a review may raise
          FollowUps,      \* follow-ups a PASS may carry
          None

VARIABLES stage,       \* tasks.state
          plans,      \* worker_plan_attempts with the artifact: row, or None
          planReviews,    \* plan_review_attempts with the artifact: row, or None
          planTurn,       \* provider_attempts: state of the turn behind an id
          submitted,  \* submitted_plan_reviews: plan, or None
          accepted,   \* accepted_plan_reviews: <<plan, review>>, or None
          criteria,   \* deterministic_done_criteria: plan, or None
          raised,     \* worker_plan_findings: set of <<plan, finding>>
          planRoutes,     \* plan_review_routes: findings, or None
          openings,   \* evidence of committed plan-revision-open events
          followUps,  \* PASS follow-ups recorded as owner items
          planner          \* what the caller has still to do

planningVars == <<stage, plans, planReviews, planTurn, submitted, accepted, criteria, raised,
                  planRoutes, openings, followUps, planner>>

Ids == PlanIds \cup ReviewIds

(* PASS carries follow-ups and no findings, FINDINGS the reverse. *)
Verdicts == [findings : SUBSET Findings, follow : SUBSET FollowUps]
Valid(verdict) == verdict.findings # {} => verdict.follow = {}
Pass(verdict) == verdict.findings = {}

(* A bound turn is prepared with a session, a rejected one is ambiguous with
   an invalid output on record. *)
PlanTurnStates == {"none", "prepared", "bound", "dispatched", "completed", "accepted",
                   "ambiguous", "rejected", "blocked", "invalidated"}

PlanRow == [parent : PlanIds \cup {None}, thread : Threads, basis : SUBSET Findings,
            state : {"dispatched", "recorded", "owner-blocked"}, content : Contents \cup {None}]

PlanReviewRow == [plan : PlanIds, state : {"dispatched", "recorded", "invalidated"},
              output : Verdicts \cup {None},    \* provider_completion_outputs
              verdict : Verdicts \cup {None}]   \* plan_review_artifacts

ASSUME PlanningAssumption ==
    /\ OwnerBlocked \subseteq TrueBlocked /\ TrueBlocked \subseteq Contents
    /\ PlanIds \cap ReviewIds = {}
    /\ None \notin PlanIds \cup ReviewIds \cup Threads \cup Contents
    /\ None \notin Verdicts /\ None \notin PlanRow /\ None \notin PlanReviewRow

Idle == [op |-> "idle", id |-> None, row |-> None]

PlanningInit ==
    /\ stage = "queued"
    /\ plans = [p \in PlanIds |-> None] /\ planReviews = [r \in ReviewIds |-> None]
    /\ planTurn = [i \in Ids |-> "none"]
    /\ submitted = None /\ accepted = None /\ criteria = None
    /\ raised = {} /\ planRoutes = [r \in ReviewIds |-> None]
    /\ openings = {} /\ followUps = {}
    /\ planner = Idle

At(op) == planner.op = op
Goto(op) == planner' = [planner EXCEPT !.op = op]
Call(op, id, row) == At("idle") /\ planner' = [op |-> op, id |-> id, row |-> row]
Return == planner' = Idle

FindingsOf(p) == {f \in Findings : <<p, f>> \in raised}
PlanRecorded(p) == plans[p] # None /\ plans[p].state = "recorded"

(***************************************************************************)
(* The Worker's plan.                                                      *)
(***************************************************************************)
BeginPlanning ==
    /\ At("idle") /\ stage = "queued"
    /\ stage' = "planning"
    /\ UNCHANGED <<plans, planReviews, planTurn, submitted, accepted, criteria, raised,
                   planRoutes, openings, followUps, planner>>

InScopeOnAnyThread(p, row) ==
    IF row.parent = None
    THEN \A q \in PlanIds \ {p} : plans[q] # None => plans[q].parent # None
    ELSE PlanRecorded(row.parent) /\ row.basis = FindingsOf(row.parent) /\ row.basis # {}

(* An initial plan is the only one; a revision answers routed findings on
   the thread of its recorded parent. *)
InScope(p, row) ==
    IF row.parent = None
    THEN \A q \in PlanIds \ {p} : plans[q] # None => plans[q].parent # None
    ELSE /\ PlanRecorded(row.parent) /\ plans[row.parent].thread = row.thread
         /\ row.basis = FindingsOf(row.parent) /\ row.basis # {}

SameDispatch(p, row) ==
    /\ plans[p].parent = row.parent /\ plans[p].thread = row.thread
    /\ plans[p].basis = row.basis

DispatchPlan(p, parent, thread) ==
    LET row == [parent |-> parent, thread |-> thread,
                basis |-> IF parent = None THEN {} ELSE FindingsOf(parent),
                state |-> "dispatched", content |-> None]
    IN /\ stage = "planning" /\ InScope(p, row)
       /\ plans[p] # None => SameDispatch(p, row) /\ planTurn[p] \in {"prepared", "bound"}
       /\ Call("prepare-plan", p, row)
       /\ UNCHANGED <<stage, plans, planReviews, planTurn, submitted, accepted, criteria,
                      raised, planRoutes, openings, followUps>>

PreparePlanTurn(op, next) ==
    /\ At(op)
    /\ planTurn' = [planTurn EXCEPT ![planner.id] = IF @ = "none" THEN "prepared" ELSE @]
    /\ Goto(next)
    /\ UNCHANGED <<stage, plans, planReviews, submitted, accepted, criteria, raised, planRoutes,
                   openings, followUps>>

PreparePlan == PreparePlanTurn("prepare-plan", "insert-plan")

InsertPlan ==
    LET p == planner.id IN
    /\ At("insert-plan") /\ stage = "planning" /\ InScope(p, planner.row)
    /\ IF plans[p] = None THEN plans' = [plans EXCEPT ![p] = planner.row]
                          ELSE SameDispatch(p, planner.row) /\ UNCHANGED plans
    /\ IF planTurn[p] = "dispatched" THEN Return ELSE Goto("bind-plan")
    /\ UNCHANGED <<stage, planReviews, planTurn, submitted, accepted, criteria, raised,
                   planRoutes, openings, followUps>>

(* record_session_identity and record_external_turn. *)
Checkpoint(op, from, to, next) ==
    /\ At(op) /\ planTurn[planner.id] \in {from, to}
    /\ planTurn' = [planTurn EXCEPT ![planner.id] = to]
    /\ IF next = "return" THEN Return ELSE Goto(next)
    /\ UNCHANGED <<stage, plans, planReviews, submitted, accepted, criteria, raised, planRoutes,
                   openings, followUps>>

BindPlan == Checkpoint("bind-plan", "prepared", "bound", "start-plan")
StartPlan == Checkpoint("start-plan", "bound", "dispatched", "return")

(* The first output completes the turn; a later one must repeat it.  The
   row's content stands for the output bound to the turn. *)
CompletePlan(p, content) ==
    /\ stage = "planning" /\ plans[p] # None /\ planTurn[p] \in {"dispatched", "completed"}
    /\ plans[p].content \in {None, content}
    /\ planTurn' = [planTurn EXCEPT ![p] = "completed"]
    /\ plans' = [plans EXCEPT ![p].content = content]
    /\ Call("record-plan", p, None)
    /\ UNCHANGED <<stage, planReviews, submitted, accepted, criteria, raised, planRoutes,
                   openings, followUps>>

RecordPlan ==
    LET p == planner.id IN
    /\ At("record-plan") /\ stage = "planning"
    /\ plans[p].state = "dispatched"
    /\ plans' = [plans EXCEPT ![p].state =
                     IF plans[p].content \in OwnerBlocked THEN "owner-blocked" ELSE "recorded"]
    /\ Return
    /\ UNCHANGED <<stage, planReviews, planTurn, submitted, accepted, criteria, raised,
                   planRoutes, openings, followUps>>

Submittable(p) ==
    PlanRecorded(p) /\ plans[p].content \notin TrueBlocked /\ planTurn[p] = "completed"

SubmitPlan(p) ==
    /\ stage = "planning" /\ Submittable(p) /\ submitted \in {None, p}
    /\ submitted' = p
    /\ Call("open-review", p, None)
    /\ UNCHANGED <<stage, plans, planReviews, planTurn, accepted, criteria, raised, planRoutes,
                   openings, followUps>>

OpenReview ==
    /\ At("open-review") /\ stage = "planning"
    /\ stage' = "plan-review" /\ Return
    /\ UNCHANGED <<plans, planReviews, planTurn, submitted, accepted, criteria, raised,
                   planRoutes, openings, followUps>>

(***************************************************************************)
(* The Supervisor's review.                                                *)
(***************************************************************************)
DispatchPlanReview(r, p) ==
    /\ stage = "plan-review" /\ submitted = p /\ planReviews[r] = None
    /\ PlanRecorded(p) /\ plans[p].content \notin TrueBlocked
    /\ Call("prepare-review", r, [plan |-> p, state |-> "dispatched", output |-> None,
                                  verdict |-> None])
    /\ UNCHANGED <<stage, plans, planReviews, planTurn, submitted, accepted, criteria, raised,
                   planRoutes, openings, followUps>>

PreparePlanReview ==
    LET state == planTurn[planner.id] IN
    /\ At("prepare-review") /\ state \in {"none", "prepared", "bound", "dispatched"}
    /\ PreparePlanTurn("prepare-review",
                       IF state = "dispatched" THEN "insert-review" ELSE "bind-review")

BindPlanReview == Checkpoint("bind-review", "prepared", "bound", "start-review")
StartPlanReview == Checkpoint("start-review", "bound", "dispatched", "insert-review")

InsertPlanReview ==
    LET r == planner.id IN
    /\ At("insert-review") /\ stage = "plan-review"
    /\ planReviews[r] # None => planReviews[r].plan = planner.row.plan
    /\ planReviews' = [planReviews EXCEPT ![r] = IF @ = None THEN planner.row ELSE @]
    /\ Return
    /\ UNCHANGED <<stage, plans, planTurn, submitted, accepted, criteria, raised, planRoutes,
                   openings, followUps>>

(* A malformed output, or one of another turn, invalidates the review; so
   does its replay. *)
RejectOutput(r) ==
    /\ planReviews[r] # None /\ planTurn[r] \in {"dispatched", "rejected"}
    /\ planTurn' = [planTurn EXCEPT ![r] = "rejected"]
    /\ Call("invalidate-review", r, None)
    /\ UNCHANGED <<stage, plans, planReviews, submitted, accepted, criteria, raised, planRoutes,
                   openings, followUps>>

CompletePlanReview(r, verdict) ==
    /\ planReviews[r] # None /\ Valid(verdict) /\ planTurn[r] \in {"dispatched", "completed"}
    /\ planReviews[r].output \in {None, verdict}
    /\ planTurn' = [planTurn EXCEPT ![r] = "completed"]
    /\ planReviews' = [planReviews EXCEPT ![r].output = verdict]
    /\ Call("record-review", r, None)
    /\ UNCHANGED <<stage, plans, submitted, accepted, criteria, raised, planRoutes, openings,
                   followUps>>

RecordPlanReview ==
    LET r == planner.id IN
    /\ At("record-review") /\ stage = "plan-review"
    /\ planReviews' = [planReviews EXCEPT
                          ![r].verdict = planReviews[r].output,
                          ![r].state = IF planReviews[r].verdict = None THEN "recorded" ELSE @]
    /\ Goto(IF Pass(planReviews[r].output) THEN "accept" ELSE "route")
    /\ UNCHANGED <<stage, plans, planTurn, submitted, accepted, criteria, raised, planRoutes,
                   openings, followUps>>

(* _require_completed_review_provider: its context and its authorization are
   the task's. *)
CompletedProvider(r) == planTurn[r] = "completed"

(* PlanReviewReceipt *)
Receipt(r) == <<planReviews[r].plan, r>>

(* route_plan_findings: the findings, the task's return to planning and the
   end of the submission are one transaction, once per set of findings. *)
RouteFindings ==
    LET r == planner.id
        p == planReviews[r].plan
        opening == <<p, planReviews[r].verdict.findings>>
    IN /\ At("route")
       /\ IF stage = "planning"
          THEN /\ opening \in openings /\ FindingsOf(p) = opening[2]
               /\ UNCHANGED <<stage, submitted, raised, openings>>
          ELSE /\ stage = "plan-review" /\ submitted = p /\ PlanRecorded(p)
               /\ opening \notin openings
               /\ raised' = raised \cup ({p} \X opening[2])
               /\ openings' = openings \cup {opening}
               /\ stage' = "planning" /\ submitted' = None
       /\ Goto("persist-route")
       /\ UNCHANGED <<plans, planReviews, planTurn, accepted, criteria, planRoutes, followUps>>

PersistRoute ==
    LET r == planner.id IN
    /\ At("persist-route") /\ planRoutes[r] \in {None, planReviews[r].verdict.findings}
    /\ planRoutes' = [planRoutes EXCEPT ![r] = planReviews[r].verdict.findings]
    /\ Return
    /\ UNCHANGED <<stage, plans, planReviews, planTurn, submitted, accepted, criteria, raised,
                   openings, followUps>>

AcceptPlanPass ==
    LET r == planner.id
    IN /\ At("accept") /\ stage = "plan-review" /\ submitted = planReviews[r].plan
       /\ planReviews[r].verdict # None /\ Pass(planReviews[r].verdict)
       /\ planReviews[r].verdict.follow # {} => planReviews[r].state = "recorded"
       /\ CompletedProvider(r) \/ planTurn[r] = "accepted"
       /\ accepted \in {None, Receipt(r)}
       /\ planTurn' = [planTurn EXCEPT ![r] = "accepted"]
       /\ accepted' = Receipt(r)
       /\ followUps' = followUps \cup planReviews[r].verdict.follow
       /\ Return
       /\ UNCHANGED <<stage, plans, planReviews, submitted, criteria, raised, planRoutes,
                      openings>>

(* recover_plan_review: a recorded FINDINGS is routed once more where its
   routing is missing, an accepted PASS is confirmed, the rest is void. *)
Unrouted(r) == planRoutes[r] = None /\ FindingsOf(planReviews[r].plan) = {}

RecoverFindings(r) ==
    LET p == planReviews[r].plan IN
    /\ planReviews[r] # None /\ planReviews[r].verdict # None /\ ~Pass(planReviews[r].verdict)
    /\ CompletedProvider(r)
    /\ \/ stage = "plan-review" /\ Unrouted(r) /\ Call("route", r, None)
       \/ /\ stage = "planning" /\ planRoutes[r] = None
          /\ FindingsOf(p) = planReviews[r].verdict.findings
          /\ Call("persist-route", r, None)
    /\ UNCHANGED <<stage, plans, planReviews, planTurn, submitted, accepted, criteria, raised,
                   planRoutes, openings, followUps>>

RecoverUnaccepted(r) ==
    /\ planReviews[r] # None
    /\ planReviews[r].verdict # None => Pass(planReviews[r].verdict)
    /\ planTurn[r] # "accepted"
    /\ planTurn' = [planTurn EXCEPT ![r] = "invalidated"]
    /\ Call("void-review", r, None)
    /\ UNCHANGED <<stage, plans, planReviews, submitted, accepted, criteria, raised, planRoutes,
                   openings, followUps>>

(* Recovery marks a review void only while its task is under review; a
   rejected output is marked whatever the task has become. *)
VoidPlanReview ==
    /\ \/ At("void-review") /\ stage = "plan-review"
       \/ At("invalidate-review")
    /\ planReviews' = [planReviews EXCEPT ![planner.id].state = "invalidated"]
    /\ Return
    /\ UNCHANGED <<stage, plans, planTurn, submitted, accepted, criteria, raised, planRoutes,
                   openings, followUps>>

(***************************************************************************)
(* recover_attempt on the turn behind a plan or a review.  The caller may  *)
(* present another context (identity drift), no evidence or foreign        *)
(* evidence, or the evidence of the recorded output; the lease of a        *)
(* Supervisor's process may have run out.  Drift of an accepted plan       *)
(* review violates a CHECK of the table and rolls back, an invalidated     *)
(* turn has a blocker that drift conflicts with, and a blocked turn stays. *)
(***************************************************************************)
HasPlanOutput(i) == IF i \in PlanIds THEN plans[i] # None /\ plans[i].content # None
                ELSE planReviews[i] # None /\ planReviews[i].output # None

PlanTurnBecomes(i, state) == planTurn' = [planTurn EXCEPT ![i] = state]

RecoverPlanTurn(i) ==
    /\ \/ planTurn[i] \in {"prepared", "bound"} /\ PlanTurnBecomes(i, "blocked")
       \/ planTurn[i] \in {"dispatched", "completed"} /\ PlanTurnBecomes(i, "ambiguous")
       \/ planTurn[i] = "ambiguous" /\ HasPlanOutput(i) /\ PlanTurnBecomes(i, "completed")
       \/ /\ i \in ReviewIds /\ planTurn[i] \in {"bound", "dispatched"}
          /\ PlanTurnBecomes(i, "invalidated")
    /\ UNCHANGED <<stage, plans, planReviews, submitted, accepted, criteria, raised, planRoutes,
                   openings, followUps, planner>>

(***************************************************************************)
(* Implementation.                                                         *)
(***************************************************************************)
AcceptedForTask(p) == accepted # None

AcceptedFor(p) == accepted # None /\ accepted[1] = p

AcceptPlan(p) ==
    /\ stage = "plan-review" /\ submitted = p /\ Submittable(p) /\ AcceptedFor(p)
    /\ criteria \in {None, p}
    /\ criteria' = p
    /\ Call("implement", p, None)
    /\ UNCHANGED <<stage, plans, planReviews, planTurn, submitted, accepted, raised, planRoutes,
                   openings, followUps>>

EnterImplementation ==
    /\ At("implement") /\ stage = "plan-review"
    /\ stage' = "implementing" /\ Return
    /\ UNCHANGED <<plans, planReviews, planTurn, submitted, accepted, criteria, raised,
                   planRoutes, openings, followUps>>

(* A raised error or a crash: what is committed stays. *)
StopPlanning ==
    /\ ~At("idle") /\ Return
    /\ UNCHANGED <<stage, plans, planReviews, planTurn, submitted, accepted, criteria, raised,
                   planRoutes, openings, followUps>>

PlanStep ==
    \/ BeginPlanning
    \/ \E p \in PlanIds :
          \/ \E parent \in PlanIds \cup {None}, thread \in Threads : DispatchPlan(p, parent, thread)
          \/ \E content \in Contents : CompletePlan(p, content)
          \/ SubmitPlan(p) \/ AcceptPlan(p)
    \/ PreparePlan \/ InsertPlan \/ BindPlan \/ StartPlan \/ RecordPlan
    \/ OpenReview \/ EnterImplementation

ReviewStep ==
    \/ \E r \in ReviewIds :
          \/ \E p \in PlanIds : DispatchPlanReview(r, p)
          \/ RejectOutput(r)
          \/ \E verdict \in Verdicts : CompletePlanReview(r, verdict)
          \/ RecoverFindings(r) \/ RecoverUnaccepted(r)
    \/ PreparePlanReview \/ BindPlanReview \/ StartPlanReview \/ InsertPlanReview
    \/ RecordPlanReview \/ RouteFindings \/ PersistRoute \/ AcceptPlanPass \/ VoidPlanReview

PlanningNext ==
    \/ PlanStep \/ ReviewStep \/ StopPlanning
    \/ \E i \in Ids : RecoverPlanTurn(i)

PlanningSpec == PlanningInit /\ [][PlanningNext]_planningVars

(***************************************************************************)
(* Properties.                                                             *)
(***************************************************************************)
PlanningTypeOK ==
    /\ stage \in {"queued", "planning", "plan-review", "implementing"}
    /\ plans \in [PlanIds -> PlanRow \cup {None}]
    /\ planReviews \in [ReviewIds -> PlanReviewRow \cup {None}]
    /\ planTurn \in [Ids -> PlanTurnStates]
    /\ submitted \in PlanIds \cup {None} /\ criteria \in PlanIds \cup {None}
    /\ accepted \in (PlanIds \X ReviewIds) \cup {None}
    /\ raised \subseteq PlanIds \X Findings
    /\ planRoutes \in [ReviewIds -> (SUBSET Findings) \cup {None}]
    /\ openings \subseteq PlanIds \X SUBSET Findings
    /\ followUps \subseteq FollowUps

(* A recorded plan without a blocker, bound to its turn as its output.  The
   turn was completed when the plan was submitted; recovery may doubt the
   output since (the turn is ambiguous), but neither block nor void it. *)
Answered(p) ==
    /\ PlanRecorded(p) /\ plans[p].content \in Contents \ TrueBlocked
    /\ planTurn[p] \in {"completed", "ambiguous"}

(* A task is implementing only for the plan whose done criteria are stored,
   that plan is the submitted one and still the answer of its turn, and a
   Supervisor's PASS of it is recorded and accepted with all its follow-ups,
   at the provider's ledger too (accept_plan_review_and_begin_implementation
   and _accept_pass_atomically commit in four transactions that other
   reviews of the task, crashes and recoveries of the turns may interrupt). *)
ImplementedAsReviewed ==
    stage = "implementing" =>
        \E r \in ReviewIds :
            /\ accepted = <<criteria, r>> /\ submitted = criteria
            /\ planReviews[r].plan = criteria /\ planReviews[r].verdict # None
            /\ Pass(planReviews[r].verdict) /\ planTurn[r] = "accepted"
            /\ planReviews[r].verdict.follow \subseteq followUps
            /\ Answered(criteria)

(* The tables of a review cycle agree at every crash point and whatever
   recovery made of the turns: a task under review has a submitted plan, a
   submitted plan is the answer of its turn, a route holds findings that
   were raised on the reviewed plan, findings were raised by a recorded
   review of that plan, and a revision continues the thread of the plan it
   revises. *)
ReviewLedgersAgree ==
    /\ stage = "plan-review" => submitted # None
    /\ submitted # None => Answered(submitted)
    /\ \A r \in ReviewIds :
          planRoutes[r] # None => planRoutes[r] \subseteq FindingsOf(planReviews[r].plan)
    /\ \A p \in PlanIds : \A f \in FindingsOf(p) :
          \E r \in ReviewIds : /\ planReviews[r] # None /\ planReviews[r].plan = p
                              /\ planReviews[r].verdict # None
                              /\ f \in planReviews[r].verdict.findings
    /\ \A p \in PlanIds : plans[p] # None /\ plans[p].parent # None =>
          /\ PlanRecorded(plans[p].parent) /\ plans[plans[p].parent].thread = plans[p].thread
          /\ plans[p].basis # {} /\ plans[p].basis \subseteq FindingsOf(plans[p].parent)
=============================================================================
