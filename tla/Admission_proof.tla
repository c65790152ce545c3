--------------------------- MODULE Admission_proof ---------------------------
(***************************************************************************)
(* What a worker or a reviewer is admitted on: the reviewed dependency     *)
(* graph, the health of its provider, the debit of its effect and the      *)
(* owner's stops.  Each part proves one component for every set of its     *)
(* attempts, hosts, profiles, requests and records.                        *)
(***************************************************************************)
EXTENDS DependencyReview, ProviderHealth, RoleGrants, FailureDecisions,
        TLAPS, FiniteSetTheorems

-----------------------------------------------------------------------------
(***************************************************************************)
(* The dependency review.  DepInv ties every claim and every open session  *)
(* to the one run that holds it, and every served graph to the accepted    *)
(* row of the lineage it was read through.                                 *)
(***************************************************************************)
(* The runs of DependencyReviewService.run and the answers they hold. *)
AttemptStates == Terminal \cup {"prepared"}
Reasons == Kinds \cup {"scope-stopped", "proposal-rejected", Nil}
Answers == [kind : Kinds, proposal : Proposals \cup {Nil}]
RunSteps == {"reserved", "prepared", "claimed", "open", "session", "turn", "answer"}
HostRuns ==
    [attempt : DepAttempts, task : DepTasks, after : DepAttempts \cup {Nil},
     candidate : DepCandidates, at : RunSteps, prepared : BOOLEAN, result : Answers \cup {Nil}]

DepTypes ==
    /\ seal \in [DepTasks -> DepCandidates]
    /\ attempt \in [DepAttempts -> AttemptRows \cup {Nil}]
    /\ claim \in [DepAttempts -> ClaimRows \cup {Nil}]
    /\ opened \in [DepAttempts -> Nat]
    /\ host \in [DepHosts -> HostRuns \cup {Nil}]

(* A session belongs to the one process that claimed its attempt. *)
SessionInv ==
    /\ \A a \in DepAttempts : opened[a] <= 1 /\ (opened[a] > 0 => claim[a] # Nil)
    /\ \A h \in DepHosts : At(h, "claimed") =>
          claim[host[h].attempt] # Nil /\ opened[host[h].attempt] = 0
    /\ \A h, k \in DepHosts : At(h, "claimed") /\ At(k, "claimed")
                              /\ host[h].attempt = host[k].attempt => h = k

(* A successor follows an attempt of its own task that failed transiently. *)
Follows(p, t) == attempt[p] # Nil /\ Transient(p) /\ attempt[p].task = t
IsTail(a) == attempt[a] # Nil /\ Successors(a) = {}
LineageInv ==
    /\ \A h \in DepHosts : host[h] # Nil /\ host[h].after # Nil =>
          Follows(host[h].after, host[h].task)
    /\ \A a \in DepAttempts : attempt[a] # Nil /\ attempt[a].after # Nil =>
          Follows(attempt[a].after, attempt[a].task)
    /\ \A a, b \in DepAttempts : IsTail(a) /\ IsTail(b) /\ attempt[a].task = attempt[b].task
                                 => a = b

(* An answer that was accepted is a proposal. *)
AnswerInv ==
    /\ \A h \in DepHosts : At(h, "answer") =>
          host[h].result \in Answers
          /\ (host[h].result.kind = "proposal" => host[h].result.proposal \in Proposals)
    /\ \A a \in DepAttempts : attempt[a] # Nil /\ attempt[a].state = "accepted" =>
          attempt[a].proposal \in Proposals

(* The rows of the current graph rest on accepted attempts of its own binding. *)
Reviewed(e, g) ==
    /\ e.by \in DepAttempts /\ e.by \in g.chain
    /\ attempt[e.by] # Nil /\ attempt[e.by].state = "accepted"
    /\ attempt[e.by].candidate = g.binding
    /\ GraphMember(attempt[e.by].task, e.subject) \in g.members
GraphOf(g) ==
    /\ g = [binding |-> g.binding, chain |-> g.chain, members |-> g.members, edges |-> g.edges]
    /\ ~HasCycle(Pairs(g.edges))
    /\ \A e \in g.edges : Reviewed(e, g)
    /\ \A e, f \in g.edges : attempt[e.by].task = attempt[f.by].task => e.by = f.by
GraphInv ==
    /\ version = [a \in DepAttempts |-> version[a]]
    /\ current # Nil => current \in DepAttempts /\ GraphOf(version[current])

DepInv == DepTypes /\ SessionInv /\ LineageInv /\ AnswerInv /\ GraphInv

(* What every step but a first start_attempt does to the attempt rows. *)
RowsKept ==
    \A a \in DepAttempts :
      /\ attempt'[a] # Nil <=> attempt[a] # Nil
      /\ attempt[a] # Nil =>
           /\ attempt'[a].task = attempt[a].task /\ attempt'[a].after = attempt[a].after
           /\ attempt'[a].candidate = attempt[a].candidate
           /\ attempt[a].state # "prepared" => attempt'[a] = attempt[a]

(* ... and every step but the beginning of a run to the runs. *)
RunsKept ==
    \A h \in DepHosts : host'[h] # Nil =>
      /\ host[h] # Nil
      /\ host'[h].attempt = host[h].attempt
      /\ host'[h].task = host[h].task /\ host'[h].after = host[h].after

(* An attempt that follows another goes on following it while its
   predecessor's row is kept. *)
LEMMA KeptRowsFollow ==
  ASSUME RowsKept, NEW p \in DepAttempts, NEW t, Follows(p, t)
  PROVE  Follows(p, t)'
  BY DEF RowsKept, Follows, Transient, State

(* The lineage of attempts is untouched by a step that keeps every row. *)
LEMMA LineageKept ==
  ASSUME DepTypes, LineageInv, RowsKept, RunsKept
  PROVE  LineageInv'
  <1>2. ASSUME NEW a \in DepAttempts
        PROVE  Successors(a)' = Successors(a)
    BY DEF RowsKept, Successors
  <1>3. \A a \in DepAttempts : IsTail(a)' => IsTail(a)
    BY <1>2 DEF IsTail, RowsKept
  <1>4. \A h \in DepHosts : host[h] # Nil /\ host[h].after # Nil => host[h].after \in DepAttempts
    BY DEF DepTypes, HostRuns
  <1>5. \A a \in DepAttempts : attempt[a] # Nil /\ attempt[a].after # Nil
            => attempt[a].after \in DepAttempts
    BY DEF DepTypes, AttemptRows
  <1>6. ASSUME NEW h \in DepHosts, host'[h] # Nil, host'[h].after # Nil
        PROVE  Follows(host[h].after, host[h].task)'
    <2>1. /\ host[h] # Nil /\ host[h].after # Nil
          /\ host'[h].task = host[h].task /\ host'[h].after = host[h].after
      BY <1>6 DEF RunsKept
    <2>2. PICK p \in DepAttempts : p = host[h].after
      BY <1>4, <2>1
    <2>3. Follows(p, host[h].task)
      BY <2>1, <2>2 DEF LineageInv
    <2>4. PICK t : t = host[h].task
      OBVIOUS
    <2>5. Follows(p, t)'
      BY <2>3, <2>4, KeptRowsFollow
    <2> QED
      BY <2>1, <2>2, <2>4, <2>5 DEF Follows
  <1>7. ASSUME NEW a \in DepAttempts, attempt'[a] # Nil, attempt'[a].after # Nil
        PROVE  Follows(attempt[a].after, attempt[a].task)'
    <2>1. /\ attempt[a] # Nil /\ attempt[a].after # Nil
          /\ attempt'[a].task = attempt[a].task /\ attempt'[a].after = attempt[a].after
      BY <1>7 DEF RowsKept
    <2>2. PICK p \in DepAttempts, t \in {attempt[a].task} : p = attempt[a].after /\ t = attempt[a].task
      BY <1>5, <2>1
    <2>3. Follows(p, t)
      BY <2>1, <2>2 DEF LineageInv
    <2>4. Follows(p, t)'
      BY <2>3, KeptRowsFollow
    <2> QED
      BY <2>1, <2>2, <2>4 DEF Follows
  <1>8. \A a, b \in DepAttempts : IsTail(a)' /\ IsTail(b)' /\ attempt'[a].task = attempt'[b].task
                                 => a = b
    BY <1>3 DEF LineageInv, RowsKept, IsTail
  <1> QED
    BY <1>6, <1>7, <1>8 DEF LineageInv

(* A first start_attempt makes a new tail of the task, after the tail there was. *)
LEMMA StartExtendsLineage ==
  ASSUME DepTypes, LineageInv, RunsKept, NEW a \in DepAttempts, NEW row \in AttemptRows,
         attempt[a] = Nil, attempt' = [attempt EXCEPT ![a] = row],
         row.after = Nil => Rows(row.task) = {},
         row.after # Nil => Follows(row.after, row.task) /\ Successors(row.after) \subseteq {a}
  PROVE  LineageInv'
  <1> USE DepAssumption
  <1>1. /\ row # Nil /\ attempt'[a] = row
        /\ \A b \in DepAttempts : b # a => attempt'[b] = attempt[b]
    BY DEF DepTypes, AttemptRows
  <1>2. \A p \in DepAttempts : \A t : Follows(p, t) => p # a
    BY DEF Follows
  <1>3. ASSUME NEW p \in DepAttempts, NEW t, Follows(p, t)
        PROVE  Follows(p, t)'
    BY <1>1, <1>2, <1>3 DEF Follows, Transient, State
  <1>4. \A h \in DepHosts : host[h] # Nil /\ host[h].after # Nil => host[h].after \in DepAttempts
    BY DEF DepTypes, HostRuns
  <1>5. \A b \in DepAttempts : attempt[b] # Nil /\ attempt[b].after # Nil
            => attempt[b].after \in DepAttempts
    BY DEF DepTypes, AttemptRows
  <1>6. ASSUME NEW h \in DepHosts, host'[h] # Nil, host'[h].after # Nil
        PROVE  Follows(host[h].after, host[h].task)'
    <2>1. /\ host[h] # Nil /\ host[h].after # Nil
          /\ host'[h].task = host[h].task /\ host'[h].after = host[h].after
      BY <1>6 DEF RunsKept
    <2>2. PICK p \in DepAttempts, t \in {host[h].task} : p = host[h].after /\ t = host[h].task
      BY <1>4, <2>1
    <2>3. Follows(p, t)
      BY <2>1, <2>2 DEF LineageInv
    <2>4. Follows(p, t)'
      BY <2>3, <1>3
    <2> QED
      BY <2>1, <2>2, <2>4 DEF Follows
  <1>7. ASSUME NEW b \in DepAttempts, attempt'[b] # Nil, attempt'[b].after # Nil
        PROVE  Follows(attempt[b].after, attempt[b].task)'
    <2>1. PICK p \in DepAttempts, t \in {attempt'[b].task} : p = attempt'[b].after /\ t = attempt'[b].task
      BY <1>1, <1>5, <1>7 DEF AttemptRows
    <2>2. Follows(p, t)
      <3>1. CASE b = a
        BY <1>1, <1>7, <2>1, <3>1
      <3>2. CASE b # a
        BY <1>1, <1>7, <2>1, <3>2 DEF LineageInv
      <3> QED
        BY <3>1, <3>2
    <2>3. Follows(p, t)'
      BY <2>2, <1>3
    <2> QED
      BY <2>1, <2>3 DEF Follows
  <1>8. ASSUME NEW x \in DepAttempts, NEW y \in DepAttempts, IsTail(x)', IsTail(y)',
               attempt'[x].task = attempt'[y].task
        PROVE  x = y
    <2>1. ASSUME NEW z \in DepAttempts, z # a, IsTail(z)'
          PROVE  IsTail(z) /\ attempt'[z] = attempt[z] /\ z # row.after
      <3>1. Successors(z) = {}
        BY <1>1, <2>1 DEF Successors, IsTail
      <3>2. a \notin Successors(z)'
        BY <2>1 DEF IsTail
      <3>3. z # row.after
        BY <1>1, <3>2 DEF Successors
      <3> QED
        BY <1>1, <2>1, <3>1, <3>3 DEF IsTail
    <2>2. ASSUME NEW z \in DepAttempts, z # a, IsTail(z)'
          PROVE  attempt[z].task # row.task
      <3>1. IsTail(z) /\ z # row.after
        BY <2>1, <2>2
      <3>2. CASE row.after = Nil
        BY <3>1, <3>2 DEF IsTail, Rows
      <3>3. CASE row.after # Nil
        <4>1. row.after \in DepAttempts /\ Follows(row.after, row.task)
          BY <3>3 DEF AttemptRows
        <4>2. a \notin Successors(row.after)
          BY DEF Successors
        <4>3. IsTail(row.after)
          BY <3>3, <4>1, <4>2 DEF IsTail, Follows
        <4> QED
          BY <3>1, <4>1, <4>3 DEF LineageInv, Follows
      <3> QED
        BY <3>2, <3>3
    <2>3. CASE x = a \/ y = a
      BY <1>1, <1>8, <2>1, <2>2, <2>3
    <2>4. CASE x # a /\ y # a
      BY <1>8, <2>1, <2>4 DEF LineageInv
    <2> QED
      BY <2>3, <2>4
  <1> QED
    BY <1>6, <1>7, <1>8 DEF LineageInv

AcceptedKept ==
    \A a \in DepAttempts :
      attempt[a] # Nil /\ attempt[a].state = "accepted" => attempt'[a] = attempt[a]

(* A served graph stays reviewed while no accepted row changes. *)
LEMMA GraphKept ==
  ASSUME GraphInv, AcceptedKept, UNCHANGED <<version, current>>
  PROVE  GraphInv'
  <1>1. CASE current = Nil
    BY <1>1 DEF GraphInv
  <1>2. CASE current # Nil
    <2> DEFINE g == version[current]
    <2>1. GraphOf(g)
      BY <1>2 DEF GraphInv
    <2> HIDE DEF g
    <2>2. \A e \in g.edges :
             Reviewed(e, g) /\ attempt'[e.by] = attempt[e.by]
      BY <2>1 DEF GraphOf, Reviewed, AcceptedKept
    <2>3. PICK s : s = g
      OBVIOUS
    <2>4. \A e \in s.edges : Reviewed(e, s)'
      BY <2>2, <2>3 DEF Reviewed
    <2>5. GraphOf(s)'
      BY <2>1, <2>2, <2>3, <2>4 DEF GraphOf
    <2>6. version'[current'] = s
      BY <2>3 DEF g
    <2> QED
      BY <1>2, <2>5, <2>6 DEF GraphInv, GraphOf, Reviewed
  <1> QED
    BY <1>1, <1>2

(* A step that opens no session, and moves nobody into a claimed run, keeps
   the owner of every session. *)
LEMMA SessionsKept ==
  ASSUME SessionInv, UNCHANGED opened,
         \A a \in DepAttempts : claim[a] # Nil => claim'[a] # Nil,
         \A h \in DepHosts : host[h] # Nil => host[h].attempt \in DepAttempts,
         \A h \in DepHosts : At(h, "claimed")' =>
            At(h, "claimed") /\ host'[h].attempt = host[h].attempt
  PROVE  SessionInv'
  <1>1. \A a \in DepAttempts : opened'[a] <= 1 /\ (opened'[a] > 0 => claim'[a] # Nil)
    BY DEF SessionInv
  <1>2. \A h \in DepHosts : At(h, "claimed")' =>
          claim'[host'[h].attempt] # Nil /\ opened'[host'[h].attempt] = 0
    BY DEF SessionInv, At
  <1>3. \A h, k \in DepHosts : At(h, "claimed")' /\ At(k, "claimed")'
                              /\ host'[h].attempt = host'[k].attempt => h = k
    BY DEF SessionInv
  <1> QED
    BY <1>1, <1>2, <1>3 DEF SessionInv

(* Baseline takes away; what it leaves of the task's own edges is none. *)
LEMMA BaselineFacts ==
  ASSUME NEW t, NEW b, Active = [binding |-> Active.binding, chain |-> Active.chain,
                                 members |-> Active.members, edges |-> Active.edges]
  PROVE  LET prior == Baseline(t, b) IN
         /\ prior.edges \subseteq Active.edges
         /\ prior.edges # {} => Active.binding = b
         /\ \A e \in prior.edges : \A s :
              GraphMember(s, e.subject) \in Active.members =>
                s # t /\ GraphMember(s, e.subject) \in prior.members
  <1> DEFINE prior == Baseline(t, b)
             gone == {m.id : m \in {n \in Active.members : n.task = t}}
  <1>1. CASE Active.binding # b
    BY <1>1 DEF Baseline, EmptyGraph
  <1>2. CASE Active.binding = b
    <2>1. prior = [Active EXCEPT !.members = {m \in @ : m.id \notin gone},
                        !.edges = {e \in @ : e.subject \notin gone /\ e.object \notin gone}]
      BY <1>2 DEF Baseline
    <2> HIDE DEF prior, gone
    <2>2. /\ prior.members = {m \in Active.members : m.id \notin gone}
          /\ prior.edges = {e \in Active.edges : e.subject \notin gone /\ e.object \notin gone}
      BY <2>1
    <2>3. ASSUME NEW e \in prior.edges, NEW s, GraphMember(s, e.subject) \in Active.members
          PROVE  s # t /\ GraphMember(s, e.subject) \in prior.members
      <3>1. GraphMember(s, e.subject).id = e.subject /\ GraphMember(s, e.subject).task = s
        BY DEF GraphMember
      <3>2. e.subject \notin gone
        BY <2>2
      <3>3. s # t
        BY <2>3, <3>1, <3>2 DEF gone
      <3> QED
        BY <2>2, <2>3, <3>1, <3>2, <3>3
    <2> QED
      BY <1>2, <2>2, <2>3 DEF prior
  <1> QED
    BY <1>1, <1>2

(* activate adds the reviewed edges of one task to a graph that holds none of them. *)
LEMMA SnapshotIsAGraph ==
  ASSUME GraphInv, NEW a \in DepAttempts, attempt[a] # Nil, attempt[a].state = "accepted",
         attempt[a].proposal \in Proposals, Validation(a) = "accepted"
  PROVE  GraphOf(NextSnapshot(a))
  <1> DEFINE t == attempt[a].task
             p == attempt[a].proposal
             prior == Baseline(t, attempt[a].candidate)
             g == NextSnapshot(a)
             added == {GraphEdge(q, a) : q \in p.pairs}
  <1>1. GraphOf(Active) \/ (Active = EmptyGraph /\ current = Nil)
    BY DEF GraphInv, Active
  <1>2. /\ Active = [binding |-> Active.binding, chain |-> Active.chain,
                     members |-> Active.members, edges |-> Active.edges]
        /\ \A e \in Active.edges : Reviewed(e, Active)
        /\ \A e, f \in Active.edges : attempt[e.by].task = attempt[f.by].task => e.by = f.by
    <2>1. CASE GraphOf(Active)
      BY <2>1 DEF GraphOf
    <2>2. CASE Active = EmptyGraph
      <3>1. Active = [binding |-> Nil, chain |-> {}, members |-> {}, edges |-> {}]
        BY <2>2 DEF EmptyGraph
      <3>2. Active.edges = {} /\ Active.binding = Nil /\ Active.chain = {} /\ Active.members = {}
        BY <3>1
      <3> QED
        BY <3>1, <3>2
    <2> QED
      BY <1>1, <2>1, <2>2
  <1>3. /\ prior.edges \subseteq Active.edges
        /\ prior.edges # {} => Active.binding = attempt[a].candidate
        /\ \A e \in prior.edges : \A s :
              GraphMember(s, e.subject) \in Active.members =>
                s # t /\ GraphMember(s, e.subject) \in prior.members
    BY <1>2, BaselineFacts
  <1>4. /\ Named(p) = AffectedSubset(t)
        /\ ~HasCycle(p.pairs \cup Pairs(prior.edges))
    BY DEF Validation
  <1>5. /\ g.binding = attempt[a].candidate
        /\ a \in g.chain /\ (prior.edges # {} => Active.chain \subseteq g.chain)
        /\ g.members = prior.members \cup {GraphMember(t, m) : m \in AffectedSubset(t)}
        /\ g.edges = prior.edges \cup added
        /\ g = [binding |-> g.binding, chain |-> g.chain, members |-> g.members,
                edges |-> g.edges]
    BY <1>3 DEF NextSnapshot
  <1> HIDE DEF t, p, prior, g
  <1>6. \A e \in added : e.by = a /\ e.subject \in Named(p)
    BY DEF GraphEdge, Named
  <1>7. Pairs(g.edges) = p.pairs \cup Pairs(prior.edges)
    <2>1. \A q \in p.pairs : q = <<q[1], q[2]>>
      BY DepAssumption DEF p
    <2>2. Pairs(added) = p.pairs
      <3>1. \A q \in p.pairs : <<GraphEdge(q, a).subject, GraphEdge(q, a).object>> = q
        BY <2>1 DEF GraphEdge
      <3> QED
        BY <3>1 DEF Pairs
    <2> HIDE DEF added
    <2>3. Pairs(prior.edges \cup added) = Pairs(prior.edges) \cup Pairs(added)
      BY DEF Pairs
    <2> QED
      BY <1>5, <2>2, <2>3
  <1>8. \A e \in prior.edges : attempt[e.by].task # t /\ Reviewed(e, g)
    <2> SUFFICES ASSUME NEW e \in prior.edges
                 PROVE  attempt[e.by].task # t /\ Reviewed(e, g)
      OBVIOUS
    <2>1. Reviewed(e, Active)
      BY <1>2, <1>3
    <2> QED
      BY <1>3, <1>5, <2>1 DEF Reviewed
  <1>9. \A e \in added : attempt[e.by].task = t /\ Reviewed(e, g)
    BY <1>4, <1>5, <1>6 DEF Reviewed, t
  <1>10. \A e, f \in g.edges : attempt[e.by].task = attempt[f.by].task => e.by = f.by
    <2> HIDE DEF added
    <2> QED
      BY <1>2, <1>3, <1>5, <1>6, <1>8, <1>9
  <1>11. \A e \in g.edges : Reviewed(e, g)
    <2> HIDE DEF added
    <2> QED
      BY <1>5, <1>8, <1>9
  <1>12. GraphOf(g)
    BY <1>4, <1>5, <1>7, <1>10, <1>11 DEF GraphOf
  <1> QED
    BY <1>12 DEF g

(* A step that brings no answer and accepts nothing keeps what the answers
   say. *)
LEMMA AnswersKept ==
  ASSUME AnswerInv,
         \A h \in DepHosts : At(h, "answer")' =>
            At(h, "answer") /\ host'[h].result = host[h].result,
         \A a \in DepAttempts : attempt'[a] # Nil /\ attempt'[a].state = "accepted" =>
            attempt[a] # Nil /\ attempt'[a] = attempt[a]
  PROVE  AnswerInv'
  BY DEF AnswerInv

(* A run that moves on, or ends, keeps what it is about. *)
LEMMA RunMoves ==
  ASSUME DepTypes, NEW h \in DepHosts, NEW step \in RunSteps, Goto(h, step), host[h] # Nil,
         step \notin {"claimed", "answer"}
  PROVE  /\ host' \in [DepHosts -> HostRuns \cup {Nil}] /\ RunsKept
         /\ \A k \in DepHosts : At(k, "claimed")' =>
               At(k, "claimed") /\ host'[k].attempt = host[k].attempt
         /\ \A k \in DepHosts : At(k, "answer")' =>
               At(k, "answer") /\ host'[k].result = host[k].result
  <1>1. host[h] \in HostRuns
    BY DEF DepTypes
  <1>2. /\ host' \in [DepHosts -> HostRuns \cup {Nil}]
        /\ \A k \in DepHosts : k # h => host'[k] = host[k]
        /\ host'[h].at = step /\ host'[h].attempt = host[h].attempt
        /\ host'[h].task = host[h].task /\ host'[h].after = host[h].after
    BY <1>1 DEF DepTypes, Goto, HostRuns
  <1> QED
    BY <1>2 DEF RunsKept, At

(* A run that ends leaves the other runs where they were. *)
LEMMA RunEnds ==
  ASSUME DepTypes, NEW h \in DepHosts, Leave(h)
  PROVE  /\ host' \in [DepHosts -> HostRuns \cup {Nil}] /\ RunsKept
         /\ \A k \in DepHosts : At(k, "claimed")' =>
               At(k, "claimed") /\ host'[k].attempt = host[k].attempt
         /\ \A k \in DepHosts : At(k, "answer")' =>
               At(k, "answer") /\ host'[k].result = host[k].result
  BY DEF DepTypes, Leave, RunsKept, At

(* A run that gets its answer is the only one that moves. *)
LEMMA RunAnswers ==
  ASSUME DepTypes, AnswerInv, NEW h \in DepHosts, host[h] # Nil, NEW r \in Answers,
         r.kind = "proposal" => r.proposal \in Proposals,
         host' = [host EXCEPT ![h].at = "answer", ![h].result = r], attempt' = attempt
  PROVE  /\ host' \in [DepHosts -> HostRuns \cup {Nil}] /\ RunsKept
         /\ \A k \in DepHosts : At(k, "claimed")' =>
               At(k, "claimed") /\ host'[k].attempt = host[k].attempt
         /\ AnswerInv'
  <1>1. host[h] \in HostRuns
    BY DEF DepTypes
  <1>2. /\ host' \in [DepHosts -> HostRuns \cup {Nil}]
        /\ \A k \in DepHosts : k # h => host'[k] = host[k]
        /\ host'[h].at = "answer" /\ host'[h].attempt = host[h].attempt
        /\ host'[h].task = host[h].task /\ host'[h].after = host[h].after
        /\ host'[h].result = r
    <2>0. PICK at \in RunSteps : at = "answer"
      BY DEF RunSteps
    <2> DEFINE moved == [host[h] EXCEPT !.at = at, !.result = r]
    <2>1. /\ moved \in HostRuns /\ moved.at = at /\ moved.result = r
          /\ moved.attempt = host[h].attempt /\ moved.task = host[h].task
          /\ moved.after = host[h].after
      BY <1>1 DEF HostRuns
    <2>2. host' = [host EXCEPT ![h] = moved]
      BY <1>1, <2>0 DEF DepTypes
    <2> HIDE DEF moved
    <2> QED
      BY <2>0, <2>1, <2>2 DEF DepTypes
  <1>3. RunsKept
    BY <1>2 DEF RunsKept
  <1>4. \A k \in DepHosts : At(k, "claimed")' =>
               At(k, "claimed") /\ host'[k].attempt = host[k].attempt
    BY <1>2 DEF At
  <1>5. AnswerInv'
    BY <1>2 DEF At, AnswerInv
  <1> QED
    BY <1>2, <1>3, <1>4, <1>5

(* Rows that do not change are kept. *)
LEMMA SameRows ==
  ASSUME attempt' = attempt
  PROVE  RowsKept /\ AcceptedKept
  BY DEF RowsKept, AcceptedKept

(* The outcome of a prepared attempt. *)
LEMMA OutcomeKeeps ==
  ASSUME DepTypes, NEW a \in DepAttempts, attempt[a] # Nil, attempt[a].state = "prepared",
         NEW state \in AttemptStates, state # "accepted",
         NEW reason \in Reasons,
         attempt' = Outcome(a, state, reason)
  PROVE  /\ attempt' \in [DepAttempts -> AttemptRows \cup {Nil}]
         /\ RowsKept /\ AcceptedKept
         /\ \A b \in DepAttempts : attempt'[b] # Nil /\ attempt'[b].state = "accepted" =>
               attempt[b] # Nil /\ attempt'[b] = attempt[b]
  <1>1. attempt[a] \in AttemptRows
    BY DEF DepTypes
  <1>2. /\ attempt' \in [DepAttempts -> AttemptRows \cup {Nil}] /\ attempt'[a] \in AttemptRows
        /\ \A b \in DepAttempts : b # a => attempt'[b] = attempt[b]
        /\ attempt'[a].state = state
        /\ attempt'[a].task = attempt[a].task /\ attempt'[a].after = attempt[a].after
        /\ attempt'[a].candidate = attempt[a].candidate
    <2> DEFINE row == [attempt[a] EXCEPT !.state = state, !.reason = reason]
    <2>1. /\ row \in AttemptRows /\ row.state = state /\ row.task = attempt[a].task
          /\ row.after = attempt[a].after /\ row.candidate = attempt[a].candidate
      BY <1>1 DEF AttemptRows, AttemptStates, Reasons
    <2>2. attempt' = [attempt EXCEPT ![a] = row]
      BY <1>1 DEF DepTypes, Outcome
    <2> HIDE DEF row
    <2> QED
      BY <2>1, <2>2 DEF DepTypes
  <1>3. attempt'[a] # Nil
    BY <1>2, DepAssumption DEF AttemptRows
  <1> QED
    BY <1>2, <1>3 DEF RowsKept, AcceptedKept

(* The row that accepts a proposal is the only one that changes. *)
LEMMA AcceptanceKeeps ==
  ASSUME DepTypes, NEW a \in DepAttempts, attempt[a] # Nil, attempt[a].state = "prepared",
         NEW p \in Proposals,
         attempt' = [attempt EXCEPT ![a].state = "accepted", ![a].proposal = p]
  PROVE  /\ attempt' \in [DepAttempts -> AttemptRows \cup {Nil}]
         /\ RowsKept /\ AcceptedKept
         /\ \A b \in DepAttempts : attempt'[b] # Nil /\ attempt'[b].state = "accepted" =>
               (attempt[b] # Nil /\ attempt'[b] = attempt[b]) \/ attempt'[b].proposal = p
  <1>1. attempt[a] \in AttemptRows
    BY DEF DepTypes
  <1>2. /\ attempt' \in [DepAttempts -> AttemptRows \cup {Nil}] /\ attempt'[a] \in AttemptRows
        /\ \A b \in DepAttempts : b # a => attempt'[b] = attempt[b]
        /\ attempt'[a].state = "accepted" /\ attempt'[a].proposal = p
        /\ attempt'[a].task = attempt[a].task /\ attempt'[a].after = attempt[a].after
        /\ attempt'[a].candidate = attempt[a].candidate
    <2>0. PICK state \in AttemptStates : state = "accepted"
      BY DEF AttemptStates, Terminal
    <2> DEFINE row == [attempt[a] EXCEPT !.state = state, !.proposal = p]
    <2>1. /\ row \in AttemptRows /\ row.state = state /\ row.proposal = p
          /\ row.task = attempt[a].task
          /\ row.after = attempt[a].after /\ row.candidate = attempt[a].candidate
      BY <1>1 DEF AttemptRows, AttemptStates, Reasons
    <2>2. attempt' = [attempt EXCEPT ![a] = row]
      BY <1>1, <2>0 DEF DepTypes
    <2> HIDE DEF row
    <2> QED
      BY <2>0, <2>1, <2>2 DEF DepTypes
  <1>3. attempt'[a] # Nil
    BY <1>2, DepAssumption DEF AttemptRows
  <1> QED
    BY <1>2, <1>3 DEF RowsKept, AcceptedKept

(* What a step must show that keeps rows and runs. *)
LEMMA StepKeeps ==
  ASSUME DepInv, RowsKept, RunsKept, seal' \in [DepTasks -> DepCandidates],
         attempt' \in [DepAttempts -> AttemptRows \cup {Nil}],
         host' \in [DepHosts -> HostRuns \cup {Nil}],
         claim' \in [DepAttempts -> ClaimRows \cup {Nil}],
         \A a \in DepAttempts : claim[a] # Nil => claim'[a] # Nil,
         UNCHANGED <<opened, version, current>>, AnswerInv',
         \A h \in DepHosts : At(h, "claimed")' =>
            At(h, "claimed") /\ host'[h].attempt = host[h].attempt
  PROVE  DepInv'
  <1>1. DepTypes'
    BY DEF DepInv, DepTypes
  <1>2. \A h \in DepHosts : host[h] # Nil => host[h].attempt \in DepAttempts
    BY DEF DepInv, DepTypes, HostRuns
  <1>3. SessionInv'
    BY <1>2, SessionsKept DEF DepInv
  <1>4. LineageInv'
    BY LineageKept DEF DepInv
  <1>5. AcceptedKept
    BY DEF RowsKept, AcceptedKept
  <1>6. GraphInv'
    BY <1>5, GraphKept DEF DepInv
  <1> QED
    BY <1>1, <1>3, <1>4, <1>6 DEF DepInv

(* One step per operation of the dependency review. *)
LEMMA DepInductive == DepInv /\ [DepNext]_depVars => DepInv'
  <1> SUFFICES ASSUME DepInv, [DepNext]_depVars
               PROVE  DepInv'
    OBVIOUS
  <1>0. DepTypes /\ SessionInv /\ LineageInv /\ AnswerInv /\ GraphInv
    BY DEF DepInv
  <1>t. /\ seal \in [DepTasks -> DepCandidates]
        /\ attempt \in [DepAttempts -> AttemptRows \cup {Nil}]
        /\ claim \in [DepAttempts -> ClaimRows \cup {Nil}]
        /\ opened \in [DepAttempts -> Nat]
        /\ host \in [DepHosts -> HostRuns \cup {Nil}]
    BY <1>0 DEF DepTypes
  <1>r. /\ \A h \in DepHosts : host[h] # Nil => host[h] \in HostRuns
        /\ \A h \in DepHosts : host[h] # Nil => host[h].attempt \in DepAttempts
        /\ \A a \in DepAttempts : attempt[a] # Nil => attempt[a] \in AttemptRows
    BY <1>t DEF HostRuns
  <1>1. ASSUME UNCHANGED <<attempt, claim, opened, host, graphRows>>,
               seal' \in [DepTasks -> DepCandidates]
        PROVE  DepInv'
    <2>1. RowsKept /\ RunsKept
      BY <1>1 DEF RowsKept, RunsKept
    <2>2. AnswerInv'
      BY <1>0, <1>1 DEF AnswerInv, At
    <2>3. \A h \in DepHosts : At(h, "claimed")' =>
            At(h, "claimed") /\ host'[h].attempt = host[h].attempt
      BY <1>1 DEF At
    <2> QED
      BY <1>1, <1>t, <2>1, <2>2, <2>3, StepKeeps DEF graphRows
  <1>2. ASSUME NEW t \in DepTasks, Reseal(t) \/ StopScope(t) \/ OpenScope(t)
        PROVE  DepInv'
    <2>1. CASE Reseal(t)
      BY <1>1, <1>t, <2>1 DEF Reseal
    <2>2. CASE StopScope(t) \/ OpenScope(t)
      BY <1>1, <1>t, <2>2 DEF StopScope, OpenScope
    <2> QED
      BY <1>2, <2>1, <2>2
  <1>3. ASSUME NEW h \in DepHosts, NEW t \in DepTasks, NEW a \in DepAttempts,
               NEW p \in DepAttempts \cup {Nil}, Begin(h, t, a, p)
        PROVE  DepInv'
    <2> DEFINE new == HostInputs(a, t, p)
    <2>1. /\ new \in HostRuns /\ new.at = "reserved" /\ new.after = p /\ new.task = t
      BY <1>t DEF HostInputs, HostRuns, RunSteps
    <2>2. host' = [host EXCEPT ![h] = new] /\ UNCHANGED <<outside, attempt, claim, opened, graphRows>>
      BY <1>3 DEF Begin
    <2>3. p # Nil => Follows(p, t)
      BY <1>3, DepAssumption DEF Begin, RecoveryEligible, State, Follows, Transient, Terminal
    <2> HIDE DEF new
    <2>4. /\ host' \in [DepHosts -> HostRuns \cup {Nil}] /\ host'[h] = new
          /\ \A k \in DepHosts : k # h => host'[k] = host[k]
      BY <1>t, <2>1, <2>2
    <2>5. DepTypes'
      BY <1>t, <2>2, <2>4 DEF DepTypes, outside
    <2>6. SessionInv'
      <3>1. \A k \in DepHosts : At(k, "claimed")' =>
              At(k, "claimed") /\ host'[k].attempt = host[k].attempt
        BY <2>1, <2>4 DEF At
      <3> QED
        BY <1>0, <1>r, <2>2, <3>1, SessionsKept
    <2>7. AnswerInv'
      <3>1. \A k \in DepHosts : At(k, "answer")' =>
            At(k, "answer") /\ host'[k].result = host[k].result
        BY <2>1, <2>4 DEF At
      <3> QED
        BY <1>0, <2>2, <3>1, AnswersKept
    <2>8. GraphInv'
      BY <1>0, <2>2, GraphKept, SameRows DEF graphRows
    <2>9. LineageInv'
      <3>1. \A b \in DepAttempts : Successors(b)' = Successors(b)
        BY <2>2 DEF Successors
      <3>2. \A q, s : Follows(q, s)' <=> Follows(q, s)
        BY <2>2 DEF Follows, Transient, State
      <3>3. \A k \in DepHosts : host'[k] # Nil /\ host'[k].after # Nil =>
              Follows(host'[k].after, host'[k].task)
        BY <1>0, <2>1, <2>3, <2>4 DEF LineageInv
      <3>4. \A b \in DepAttempts : attempt'[b] # Nil /\ attempt'[b].after # Nil =>
              Follows(attempt'[b].after, attempt'[b].task)
        BY <1>0, <2>2 DEF LineageInv
      <3>5. \A b, c \in DepAttempts : IsTail(b)' /\ IsTail(c)' /\
              attempt'[b].task = attempt'[c].task => b = c
        BY <1>0, <2>2, <3>1 DEF LineageInv, IsTail
      <3> QED
        BY <2>2, <3>3, <3>4, <3>5 DEF LineageInv, Follows, Transient, State
    <2> QED
      BY <2>5, <2>6, <2>7, <2>8, <2>9 DEF DepInv
  <1>4. ASSUME NEW h \in DepHosts, NEW a \in DepAttempts, RecoverInFlight(h, a)
        PROVE  DepInv'
    <2>1. /\ attempt[a] # Nil /\ attempt[a].state = "prepared"
          /\ attempt' = Outcome(a, "blocked", "uncertain-provider-turn")
          /\ UNCHANGED <<outside, claim, opened, host, graphRows>>
      BY <1>4, DepAssumption DEF RecoverInFlight, InFlight, State
    <2>2. /\ "blocked" \in AttemptStates /\ "blocked" # "accepted"
          /\ "uncertain-provider-turn" \in Reasons
      BY DEF AttemptStates, Terminal, Reasons, Kinds
    <2>3. /\ attempt' \in [DepAttempts -> AttemptRows \cup {Nil}] /\ RowsKept
          /\ \A b \in DepAttempts : attempt'[b] # Nil /\ attempt'[b].state = "accepted" =>
               attempt[b] # Nil /\ attempt'[b] = attempt[b]
      BY <1>0, <2>1, <2>2, OutcomeKeeps
    <2>4. \A k \in DepHosts : \A s : At(k, s)' <=> At(k, s)
      BY <2>1 DEF At
    <2>5. AnswerInv'
      BY <1>0, <2>1, <2>3, <2>4, AnswersKept
    <2>6. RunsKept
      BY <2>1 DEF RunsKept
    <2> QED
      BY <1>t, <2>1, <2>3, <2>4, <2>5, <2>6, StepKeeps DEF outside, graphRows
  <1>5. ASSUME NEW h \in DepHosts, StartAttempt(h)
        PROVE  DepInv'
    <2> DEFINE a == host[h].attempt
               row == PreparedAttempt(h)
    <2>1. /\ host[h] # Nil /\ host[h] \in HostRuns /\ a \in DepAttempts
          /\ attempt' = [attempt EXCEPT ![a] = row] /\ Goto(h, "prepared") /\ MayStart(h)
          /\ UNCHANGED <<outside, claim, debited, opened, graphRows>>
      BY <1>5, <1>r DEF StartAttempt, At
    <2>2. /\ row \in AttemptRows /\ row.state = "prepared"
          /\ row.task = host[h].task /\ row.candidate = host[h].candidate
          /\ row.after = host[h].after
      BY <2>1 DEF PreparedAttempt, AttemptRows, HostRuns
    <2>3. row # Nil
      BY <2>2, DepAssumption
    <2>4. /\ host' \in [DepHosts -> HostRuns \cup {Nil}] /\ RunsKept
          /\ \A k \in DepHosts : At(k, "claimed")' =>
               At(k, "claimed") /\ host'[k].attempt = host[k].attempt
          /\ \A k \in DepHosts : At(k, "answer")' =>
               At(k, "answer") /\ host'[k].result = host[k].result
      <3>1. "prepared" \in RunSteps /\ "prepared" \notin {"claimed", "answer"}
        BY DEF RunSteps
      <3> QED
        BY <1>0, <2>1, <3>1, RunMoves
    <2> HIDE DEF row
    <2>5. /\ attempt' \in [DepAttempts -> AttemptRows \cup {Nil}] /\ attempt'[a] = row
          /\ \A b \in DepAttempts : b # a => attempt'[b] = attempt[b]
      BY <1>t, <2>1, <2>2
    <2>6. attempt[a] # Nil =>
            /\ attempt[a].state = "prepared" /\ attempt[a].task = row.task
            /\ attempt[a].candidate = row.candidate /\ attempt[a].after = row.after
      BY <2>1, <2>2 DEF MayStart, State
    <2>7. AnswerInv'
      BY <1>0, <2>2, <2>4, <2>5, AnswersKept
    <2>8. CASE attempt[a] # Nil
      <3>1. RowsKept
        BY <2>3, <2>5, <2>6, <2>8 DEF RowsKept
      <3> QED
        BY <1>t, <2>1, <2>4, <2>5, <2>7, <3>1, StepKeeps DEF outside, graphRows
    <2>9. CASE attempt[a] = Nil
      <3>1. LineageInv'
        <4>1. row.after = Nil => Rows(row.task) = {}
          BY <2>1, <2>2, <2>9 DEF MayStart
        <4>2. row.after # Nil => Follows(row.after, row.task) /\ Successors(row.after) \subseteq {a}
          BY <1>0, <2>1, <2>2, <2>9 DEF MayStart, LineageInv
        <4> HIDE DEF a
        <4> QED
          BY <1>0, <2>1, <2>2, <2>4, <2>9, <4>1, <4>2, StartExtendsLineage
      <3>2. SessionInv'
        BY <1>0, <1>r, <2>1, <2>4, SessionsKept
      <3>3. AcceptedKept
        BY <2>5, <2>9 DEF AcceptedKept
      <3>4. GraphInv'
        BY <1>0, <2>1, <3>3, GraphKept DEF graphRows
      <3>5. DepTypes'
        BY <1>t, <2>1, <2>4, <2>5 DEF DepTypes, outside
      <3> QED
        BY <2>7, <3>1, <3>2, <3>4, <3>5 DEF DepInv
    <2> QED
      BY <2>8, <2>9
  <1>6. ASSUME NEW h \in DepHosts, Leave(h), UNCHANGED <<outside, attempt, claim, opened, graphRows>>
        PROVE  DepInv'
    BY <1>0, <1>t, <1>6, RunEnds, SameRows, AnswersKept, StepKeeps DEF outside, graphRows
  <1>7. ASSUME NEW h \in DepHosts, StartRefused(h) \/ HostStops(h)
        PROVE  DepInv'
    BY <1>6, <1>7 DEF StartRefused, HostStops
  <1>8. ASSUME NEW h \in DepHosts, ClaimPreDispatch(h)
        PROVE  DepInv'
    <2> DEFINE a == host[h].attempt
    <2>1. /\ host[h] # Nil /\ host[h] \in HostRuns /\ a \in DepAttempts
          /\ UNCHANGED <<outside, opened, graphRows>>
      BY <1>8, <1>r DEF ClaimPreDispatch, At
    <2>2. CASE MayClaim(a)
      <3> DEFINE row == DispatchClaim("pre-dispatch", Nil)
      <3>1. /\ claim' = [claim EXCEPT ![a] = row] /\ Goto(h, "claimed") /\ attempt' = attempt
            /\ claim[a] = Nil
        BY <1>8, <2>2 DEF ClaimPreDispatch, MayClaim
      <3>2. row \in ClaimRows /\ row # Nil
        BY DepAssumption DEF DispatchClaim, ClaimRows
      <3> HIDE DEF row
      <3>3. /\ claim' \in [DepAttempts -> ClaimRows \cup {Nil}] /\ claim'[a] # Nil
            /\ \A b \in DepAttempts : b # a => claim'[b] = claim[b]
        BY <1>t, <2>1, <3>1, <3>2
      <3>4. /\ host' \in [DepHosts -> HostRuns \cup {Nil}]
            /\ \A k \in DepHosts : k # h => host'[k] = host[k]
            /\ host'[h].at = "claimed" /\ host'[h].attempt = a
            /\ host'[h].task = host[h].task /\ host'[h].after = host[h].after
        BY <1>t, <2>1, <3>1 DEF Goto, HostRuns, RunSteps
      <3>5. RunsKept
        BY <2>1, <3>4 DEF RunsKept
      <3>6. RowsKept /\ AcceptedKept
        BY <3>1, SameRows
      <3>7. LineageInv' /\ GraphInv'
        BY <1>0, <2>1, <3>5, <3>6, LineageKept, GraphKept DEF graphRows
      <3>8. AnswerInv'
        <4>1. \A k \in DepHosts : At(k, "answer")' =>
                 At(k, "answer") /\ host'[k].result = host[k].result
          BY <3>4 DEF At
        <4> QED
          BY <1>0, <3>1, <4>1, AnswersKept
      <3>9. opened[a] = 0 /\ opened' = opened
        BY <1>0, <1>t, <2>1, <3>1 DEF SessionInv
      <3>10. \A k \in DepHosts : k # h /\ At(k, "claimed") => host[k].attempt # a
        BY <1>0, <3>1 DEF SessionInv
      <3>11. SessionInv'
        <4> HIDE DEF a
        <4>1. \A b \in DepAttempts : opened'[b] <= 1 /\ (opened'[b] > 0 => claim'[b] # Nil)
          BY <1>0, <3>3, <3>9 DEF SessionInv
        <4>2. \A k \in DepHosts : k # h => (At(k, "claimed")' <=> At(k, "claimed"))
          BY <3>4 DEF At
        <4>3. \A k \in DepHosts : At(k, "claimed")' =>
                claim'[host'[k].attempt] # Nil /\ opened'[host'[k].attempt] = 0
          BY <1>0, <1>r, <3>3, <3>4, <3>9, <4>2 DEF SessionInv, At
        <4>4. \A j, k \in DepHosts : At(j, "claimed")' /\ At(k, "claimed")'
                              /\ host'[j].attempt = host'[k].attempt => j = k
          BY <1>0, <3>4, <3>10, <4>2 DEF SessionInv
        <4> QED
          BY <4>1, <4>3, <4>4 DEF SessionInv
      <3>12. DepTypes'
        BY <1>t, <2>1, <3>1, <3>3, <3>4 DEF DepTypes, outside
      <3> QED
        BY <3>7, <3>8, <3>11, <3>12 DEF DepInv
    <2>3. CASE ~MayClaim(a) /\ InFlight(a)
      <3>1. /\ attempt[a] # Nil /\ attempt[a].state = "prepared" /\ Leave(h)
            /\ attempt' = Outcome(a, "blocked", "uncertain-provider-turn")
            /\ UNCHANGED claim
        BY <1>8, <2>3, DepAssumption DEF ClaimPreDispatch, InFlight, State
      <3>2. /\ "blocked" \in AttemptStates /\ "blocked" # "accepted"
            /\ "uncertain-provider-turn" \in Reasons
        BY DEF AttemptStates, Terminal, Reasons, Kinds
      <3>3. /\ attempt' \in [DepAttempts -> AttemptRows \cup {Nil}] /\ RowsKept
            /\ \A b \in DepAttempts : attempt'[b] # Nil /\ attempt'[b].state = "accepted" =>
                 attempt[b] # Nil /\ attempt'[b] = attempt[b]
        BY <1>0, <2>1, <3>1, <3>2, OutcomeKeeps
      <3> QED
        BY <1>0, <1>t, <2>1, <3>1, <3>3, RunEnds, AnswersKept, StepKeeps DEF outside, graphRows
    <2>4. CASE ~MayClaim(a) /\ ~InFlight(a)
      BY <1>6, <1>8, <2>1, <2>4 DEF ClaimPreDispatch
    <2> QED
      BY <2>2, <2>3, <2>4
  <1>9. ASSUME NEW h \in DepHosts, OpenSession(h)
        PROVE  DepInv'
    <2> DEFINE a == host[h].attempt
    <2>1. /\ host[h] # Nil /\ a \in DepAttempts /\ At(h, "claimed")
          /\ opened' = [opened EXCEPT ![a] = @ + 1] /\ Goto(h, "open")
          /\ UNCHANGED <<outside, attempt, claim, debited, graphRows>>
      BY <1>9, <1>r DEF OpenSession, At
    <2>2. /\ host' \in [DepHosts -> HostRuns \cup {Nil}] /\ RunsKept
          /\ \A k \in DepHosts : At(k, "claimed")' =>
               At(k, "claimed") /\ host'[k].attempt = host[k].attempt
          /\ \A k \in DepHosts : At(k, "answer")' =>
               At(k, "answer") /\ host'[k].result = host[k].result
      <3>1. "open" \in RunSteps /\ "open" \notin {"claimed", "answer"}
        BY DEF RunSteps
      <3> QED
        BY <1>0, <2>1, <3>1, RunMoves
    <2>3. AnswerInv'
      BY <1>0, <2>1, <2>2, AnswersKept
    <2>4. LineageInv' /\ GraphInv'
      BY <1>0, <2>1, <2>2, SameRows, LineageKept, GraphKept DEF graphRows
    <2>5. opened[a] = 0 /\ claim[a] # Nil
      BY <1>0, <2>1 DEF SessionInv
    <2>6. /\ opened' \in [DepAttempts -> Nat] /\ opened'[a] = 1
          /\ \A b \in DepAttempts : b # a => opened'[b] = opened[b]
      BY <1>t, <2>1, <2>5
    <2>7. ~At(h, "claimed")'
      BY <1>t, <1>r, <2>1 DEF At, Goto, HostRuns
    <2>8. \A k \in DepHosts : At(k, "claimed")' => k # h /\ host[k].attempt # a
      BY <1>0, <2>1, <2>2, <2>7 DEF SessionInv
    <2>9. SessionInv'
      <3> HIDE DEF a
      <3>1. \A b \in DepAttempts : opened'[b] <= 1 /\ (opened'[b] > 0 => claim'[b] # Nil)
        BY <1>0, <2>1, <2>5, <2>6 DEF SessionInv
      <3>2. \A k \in DepHosts : At(k, "claimed")' =>
              claim'[host'[k].attempt] # Nil /\ opened'[host'[k].attempt] = 0
        BY <1>0, <1>r, <2>1, <2>2, <2>6, <2>8 DEF SessionInv, At
      <3>3. \A j, k \in DepHosts : At(j, "claimed")' /\ At(k, "claimed")'
                              /\ host'[j].attempt = host'[k].attempt => j = k
        BY <1>0, <2>2 DEF SessionInv
      <3> QED
        BY <3>1, <3>2, <3>3 DEF SessionInv
    <2>10. DepTypes'
      BY <1>t, <2>1, <2>2, <2>6 DEF DepTypes, outside
    <2> QED
      BY <2>3, <2>4, <2>9, <2>10 DEF DepInv
  <1>10. ASSUME NEW h \in DepHosts, ClaimSession(h) \/ ClaimTurn(h)
         PROVE  DepInv'
    <2> DEFINE a == host[h].attempt
    <2>1. /\ host[h] # Nil /\ a \in DepAttempts
          /\ UNCHANGED <<outside, attempt, debited, opened, graphRows>>
      BY <1>10, <1>r DEF ClaimSession, ClaimTurn, At
    <2>2. PICK s \in {"session", "turn"} :
             claim' = [claim EXCEPT ![a] = DispatchClaim(s, h)] /\ Goto(h, s)
      BY <1>10 DEF ClaimSession, ClaimTurn
    <2>3. DispatchClaim(s, h) \in ClaimRows /\ DispatchClaim(s, h) # Nil
      BY DepAssumption DEF DispatchClaim, ClaimRows
    <2>4. /\ claim' \in [DepAttempts -> ClaimRows \cup {Nil}]
          /\ \A b \in DepAttempts : claim[b] # Nil => claim'[b] # Nil
      BY <1>t, <2>1, <2>2, <2>3
    <2>5. s \in RunSteps /\ s \notin {"claimed", "answer"}
      BY DEF RunSteps
    <2> QED
      BY <1>0, <1>t, <2>1, <2>2, <2>4, <2>5, RunMoves, SameRows, AnswersKept, StepKeeps
         DEF outside, graphRows
  <1>11. ASSUME NEW h \in DepHosts, NEW r \in Answers, host[h] # Nil,
                r.kind = "proposal" => r.proposal \in Proposals,
                host' = [host EXCEPT ![h].at = "answer", ![h].result = r],
                UNCHANGED <<outside, attempt, claim, debited, opened, graphRows>>
         PROVE  DepInv'
    BY <1>0, <1>t, <1>11, RunAnswers, SameRows, StepKeeps DEF outside, graphRows
  <1>12. ASSUME NEW h \in DepHosts, ReadResponse(h) \/ DispatchFails(h)
         PROVE  DepInv'
    <2>1. ASSUME NEW p \in Proposals
          PROVE  Answer("proposal", p) \in Answers /\ Answer("proposal", p).proposal \in Proposals
      BY DEF Answer, Answers, Kinds
    <2>2. ASSUME NEW k \in Kinds \ {"proposal"}
          PROVE  Answer(k, Nil) \in Answers /\ Answer(k, Nil).kind # "proposal"
      BY DEF Answer, Answers
    <2>3. CASE ReadResponse(h)
      <3>1. PICK r \in {Answer("proposal", p) : p \in Proposals}
                \cup {Answer(k, Nil) : k \in {"malformed-response", "uncertain-provider-turn",
                                             "provider-blocked"}} :
               host' = [host EXCEPT ![h].at = "answer", ![h].result = r]
        BY <2>3 DEF ReadResponse
      <3>2. r \in Answers /\ (r.kind = "proposal" => r.proposal \in Proposals)
        BY <2>1, <2>2 DEF Kinds
      <3> QED
        BY <1>11, <2>3, <3>1, <3>2 DEF ReadResponse, At
    <2>4. CASE DispatchFails(h)
      <3>1. PICK k \in {"transient", "failed", "uncertain-provider-turn"} :
               host' = [host EXCEPT ![h].at = "answer", ![h].result = Answer(k, Nil)]
        BY <2>4 DEF DispatchFails
      <3>2. Answer(k, Nil) \in Answers /\ Answer(k, Nil).kind # "proposal"
        BY <2>2 DEF Kinds
      <3> QED
        BY <1>11, <2>4, <3>1, <3>2 DEF DispatchFails
    <2> QED
      BY <1>12, <2>3, <2>4
  <1>13. ASSUME NEW h \in DepHosts, RecordResult(h)
         PROVE  DepInv'
    <2> DEFINE a == host[h].attempt
               r == host[h].result
    <2>1. /\ host[h] # Nil /\ host[h] \in HostRuns /\ a \in DepAttempts /\ Leave(h)
          /\ At(h, "answer")
          /\ attempt' = IF AuthorityCurrent(a) THEN Recorded(a, r) ELSE attempt
          /\ UNCHANGED <<outside, claim, debited, opened, graphRows>>
      BY <1>13, <1>r DEF RecordResult, At
    <2>2. r \in Answers /\ (r.kind = "proposal" => r.proposal \in Proposals)
      BY <1>0, <2>1 DEF AnswerInv
    <2>3. \/ attempt' = attempt
          \/ /\ State(a) = "prepared" /\ r.kind = "proposal"
             /\ attempt' = [attempt EXCEPT ![a].state = "accepted", ![a].proposal = r.proposal]
          \/ /\ State(a) = "prepared"
             /\ \E state \in {"invalid", "blocked"}, reason \in Reasons :
                   attempt' = Outcome(a, state, reason)
      <3>1. "scope-stopped" \in Reasons /\ "proposal-rejected" \in Reasons /\ r.kind \in Reasons
        BY <2>2 DEF Reasons, Answers
      <3> HIDE DEF a, r
      <3> QED
        BY <2>1, <3>1 DEF Recorded, Acceptable
    <2>4. State(a) = "prepared" => attempt[a] # Nil /\ attempt[a].state = "prepared"
      BY DepAssumption DEF State
    <2>5. CASE attempt' = attempt
      BY <1>6, <2>1, <2>5
    <2>6. ASSUME RowsKept, attempt' \in [DepAttempts -> AttemptRows \cup {Nil}],
                 \A b \in DepAttempts : attempt'[b] # Nil /\ attempt'[b].state = "accepted" =>
                   (attempt[b] # Nil /\ attempt'[b] = attempt[b]) \/ attempt'[b].proposal \in Proposals
          PROVE  DepInv'
      <3>1. AnswerInv'
        BY <1>0, <2>1, <2>6, RunEnds DEF AnswerInv
      <3> QED
        BY <1>0, <1>t, <2>1, <2>6, <3>1, RunEnds, StepKeeps DEF outside, graphRows
    <2>7. CASE /\ State(a) = "prepared" /\ r.kind = "proposal"
               /\ attempt' = [attempt EXCEPT ![a].state = "accepted", ![a].proposal = r.proposal]
      <3>1. PICK p \in Proposals : p = r.proposal
        BY <2>2, <2>7
      <3>2. attempt' = [attempt EXCEPT ![a].state = "accepted", ![a].proposal = p]
        BY <2>7, <3>1, Zenon
      <3> HIDE DEF a
      <3> QED
        BY <1>0, <2>1, <2>4, <2>6, <2>7, <3>2, AcceptanceKeeps
    <2>8. ASSUME State(a) = "prepared", NEW state \in {"invalid", "blocked"},
                 NEW reason \in Reasons, attempt' = Outcome(a, state, reason)
          PROVE  DepInv'
      <3>1. state \in AttemptStates /\ state # "accepted"
        BY DEF AttemptStates, Terminal
      <3> HIDE DEF a
      <3> QED
        BY <1>0, <2>1, <2>4, <2>6, <2>8, <3>1, OutcomeKeeps
    <2> QED
      BY <2>3, <2>5, <2>7, <2>8
  <1>14. ASSUME NEW a \in DepAttempts, Activate(a)
         PROVE  DepInv'
    <2>1. /\ attempt[a] # Nil /\ attempt[a].state = "accepted"
          /\ UNCHANGED <<outside, attempt, claim, debited, opened, host>>
      BY <1>14, DepAssumption DEF Activate, Activatable, State, Terminal
    <2>2. GraphInv'
      <3>1. CASE Validation(a) = "accepted"
        <4>1. version' = [version EXCEPT ![a] = NextSnapshot(a)] /\ current' = a
          BY <1>14, <3>1 DEF Activate
        <4>2. GraphOf(NextSnapshot(a))
          BY <1>0, <2>1, <3>1, SnapshotIsAGraph DEF AnswerInv
        <4>3. PICK g : g = NextSnapshot(a)
          OBVIOUS
        <4>4. GraphOf(g)'
          BY <2>1, <4>2, <4>3 DEF GraphOf, Reviewed
        <4>5. version'[current'] = g /\ version' = [b \in DepAttempts |-> version'[b]]
          BY <1>0, <4>1, <4>3 DEF GraphInv
        <4> QED
          BY <4>1, <4>4, <4>5 DEF GraphInv, GraphOf, Reviewed
      <3>2. CASE Validation(a) # "accepted"
        BY <1>0, <1>14, <2>1, <3>2, SameRows, GraphKept DEF Activate
      <3> QED
        BY <3>1, <3>2
    <2>3. DepTypes' /\ SessionInv' /\ AnswerInv'
      BY <1>0, <2>1 DEF DepTypes, SessionInv, AnswerInv, At, outside
    <2>4. RunsKept
      BY <2>1 DEF RunsKept
    <2>5. LineageInv'
      BY <1>0, <2>1, <2>4, SameRows, LineageKept
    <2> QED
      BY <2>2, <2>3, <2>5 DEF DepInv
  <1>15. CASE UNCHANGED depVars
    BY <1>1, <1>t, <1>15 DEF depVars, graphRows
  <1> QED
    BY <1>2, <1>3, <1>4, <1>5, <1>7, <1>8, <1>9, <1>10, <1>12, <1>13, <1>14, <1>15
       DEF DepNext, HostNext

(* At most one session per attempt, and per task one whose turn did not fail transiently. *)
THEOREM TurnsRunOnce == DepSpec => []TurnsAreNotRepeated
  <1>1. DepInit => DepInv
    BY DEF DepInit, DepInv, DepTypes, SessionInv, LineageInv, AnswerInv, GraphInv, At, IsTail
  <1>2. DepInv => TurnsAreNotRepeated
    <2> SUFFICES ASSUME DepInv
                 PROVE  TurnsAreNotRepeated
      OBVIOUS
    <2>1. \A a \in DepAttempts : opened[a] <= 1
      BY DEF DepInv, SessionInv
    <2>2. ASSUME NEW t \in DepTasks
          PROVE  Cardinality({a \in Rows(t) : opened[a] > 0 /\ ~Transient(a)}) <= 1
      <3> DEFINE S == {a \in Rows(t) : opened[a] > 0 /\ ~Transient(a)}
      <3>1. \A a \in S : IsTail(a) /\ attempt[a].task = t /\ a \in DepAttempts
        BY DepAssumption DEF DepInv, LineageInv, IsTail, Follows, Successors, Rows
      <3>2. \A a, b \in S : a = b
        BY <3>1 DEF DepInv, LineageInv
      <3> HIDE DEF S
      <3>3. S = {} \/ \E a : S = {a}
        BY <3>2
      <3>4. Cardinality(S) <= 1
        <4>1. CASE S = {}
          BY <4>1, FS_EmptySet
        <4>2. ASSUME NEW a, S = {a}
              PROVE  Cardinality(S) = 1
          BY <4>2, FS_Singleton
        <4> QED
          BY <3>3, <4>1, <4>2
      <3> QED
        BY <3>4 DEF S
    <2> QED
      BY <2>1, <2>2 DEF TurnsAreNotRepeated
  <1> QED
    BY <1>1, <1>2, DepInductive, PTL DEF DepSpec

(* Whatever seals moved since a version was written, the graph a reader is
   served holds only edges of accepted reviews of candidates that are still
   sealed, one review per task, and no cycle (the reader's check of the
   current version). *)
THEOREM ReadersSeeReviewedGraphs == DepSpec => []ServedGraphIsReviewed
  <1>1. DepInit => DepInv
    BY DEF DepInit, DepInv, DepTypes, SessionInv, LineageInv, AnswerInv, GraphInv, At, IsTail
  <1>2. DepInv => ServedGraphIsReviewed
    BY DEF DepInv, GraphInv, GraphOf, Reviewed, ServedGraphIsReviewed, CurrentReads,
           Authenticated, AuthorityCurrent, State
  <1> QED
    BY <1>1, <1>2, DepInductive, PTL DEF DepSpec

-----------------------------------------------------------------------------
(***************************************************************************)
(* Provider health.  HealthInv says how old the answer behind every cached *)
(* observation, every observation in a running call and every dispatch may *)
(* be.                                                                     *)
(***************************************************************************)
Observations == [ready : BOOLEAN, at : Nat]

(* What an observation says of a profile rests on an answer no older than it. *)
Answered(answers, o, p) == o.ready => answers[p] # Missing /\ o.at <= answers[p]

HealthTypes ==
    /\ healthClock \in Nat /\ pinned \in Configurations /\ dispatched \in Nat
    /\ probed \in [Profiles -> Nat \cup {Missing}]
    /\ \A p \in Profiles : probed[p] # Missing => probed[p] <= healthClock
CacheInv ==
    /\ cache = [p \in Profiles |-> cache[p]]
    /\ \A p \in Profiles : cache[p] # Missing =>
          cache[p] \in Observations /\ Answered(probed, cache[p], p)
CallInv ==
    Working =>
      /\ doing.config \in Configurations
      /\ doing = [config |-> doing.config, now |-> doing.now, force |-> doing.force,
                  tried |-> doing.tried, seen |-> doing.seen]
      /\ doing.now \in Nat /\ doing.now <= healthClock
      /\ doing.seen \in Seq(Observations) /\ Len(doing.seen) < Selections
      /\ \A n \in 1..Len(doing.seen) : Answered(probed, doing.seen[n], Profile(doing.config, n))
ReportInv ==
    report # Missing =>
      /\ report.config \in Configurations
      /\ report.seen \in Seq(Observations) /\ Len(report.seen) = Selections
      /\ \A n \in 1..Selections : Answered(probed, report.seen[n], Profile(report.config, n))
HealthInv == HealthTypes /\ CacheInv /\ CallInv /\ ReportInv /\ DispatchedOnFreshHealth

(* The profile a call is at is one of its configuration's. *)
LEMMA CurrentIsAProfile ==
  ASSUME CallInv, Working
  PROVE  Current \in Profiles
  <1>1. Len(doing.seen) + 1 \in 1..Selections
    BY HealthAssumption DEF CallInv
  <1> QED
    BY <1>1 DEF CallInv, Current, Profile, Profiles

(* One more observation of the call in progress *)
LEMMA ObserveKeeps ==
  ASSUME CallInv, ReportInv, Working, NEW o \in Observations, Observe(o),
         healthClock' = healthClock,
         \A p \in Profiles, x \in Observations : Answered(probed, x, p) => Answered(probed', x, p),
         Answered(probed', o, Current)
  PROVE  CallInv' /\ ReportInv'
  <1> DEFINE n == Len(doing.seen)
             longer == Append(doing.seen, o)
  <1>1. n \in Nat /\ n + 1 <= Selections /\ doing.config \in Configurations
    BY HealthAssumption DEF CallInv
  <1>2. /\ longer \in Seq(Observations) /\ Len(longer) = n + 1
        /\ \A i \in 1..n : longer[i] = doing.seen[i]
        /\ longer[n + 1] = o
    BY DEF CallInv
  <1>3. \A i \in 1..(n + 1) : Answered(probed', longer[i], Profile(doing.config, i))
    <2> SUFFICES ASSUME NEW i \in 1..(n + 1)
                 PROVE  Answered(probed', longer[i], Profile(doing.config, i))
        BY Zenon
    <2>1. CASE i = n + 1
      BY <1>2, <2>1 DEF Current
    <2>2. CASE i \in 1..n
      <3>1. Profile(doing.config, i) \in Profiles
        BY <1>1, <2>2, HealthAssumption DEF Profile, Profiles
      <3>2. doing.seen[i] \in Observations
        BY <2>2 DEF CallInv
      <3> QED
        BY <1>2, <2>2, <3>1, <3>2 DEF CallInv
    <2> QED
      BY <1>1, <2>1, <2>2
  <1>4. CASE n + 1 = Selections
    <2>1. report' = [config |-> doing.config, seen |-> longer] /\ doing' = Missing
      BY <1>4 DEF Observe
    <2>2. CallInv'
      BY <2>1 DEF CallInv, Working
    <2>3. report'.config = doing.config /\ report'.seen = longer
      BY <2>1
    <2> HIDE DEF longer
    <2> QED
      BY <1>1, <1>2, <1>3, <1>4, <2>2, <2>3 DEF ReportInv
  <1>5. CASE n + 1 # Selections
    <2>1. doing' = [doing EXCEPT !.seen = longer, !.tried = 0] /\ report' = report
      BY <1>5 DEF Observe
    <2>2. /\ doing'.config = doing.config /\ doing'.now = doing.now
          /\ doing'.seen = longer
          /\ doing' = [config |-> doing.config, now |-> doing.now, force |-> doing.force,
                       tried |-> 0, seen |-> longer]
      BY <2>1 DEF CallInv
    <2>3. ReportInv'
      <3>1. \A i \in 1..Selections : report # Missing =>
              report.seen[i] \in Observations /\ Profile(report.config, i) \in Profiles
        BY DEF ReportInv, Profile, Profiles
      <3> QED
        BY <2>1, <3>1 DEF ReportInv
    <2> HIDE DEF longer
    <2>4. CallInv'
      BY <1>1, <1>2, <1>3, <1>5, <2>2, HealthAssumption DEF CallInv
    <2> QED
      BY <2>3, <2>4
  <1> QED
    BY <1>4, <1>5

(* _record *)
LEMMA RecordKeeps ==
  ASSUME HealthInv, Working, NEW ready \in BOOLEAN, Record(ready),
         UNCHANGED <<healthClock, pinned, dispatched>>,
         \/ ready /\ probed' = [probed EXCEPT ![Current] = healthClock]
         \/ ~ready /\ UNCHANGED probed
  PROVE  HealthInv'
  <1> DEFINE o == Observation(ready, doing.now)
  <1>1. o \in Observations /\ o.ready = ready /\ o.at = doing.now
    BY DEF Observation, Observations, HealthInv, CallInv
  <1>2. Current \in Profiles
    BY CurrentIsAProfile DEF HealthInv
  <1>3. \A p \in Profiles, x \in Observations : Answered(probed, x, p) => Answered(probed', x, p)
    BY <1>2, HealthAssumption DEF Answered, Observations, HealthInv, HealthTypes
  <1>4. Answered(probed', o, Current)
    <2>1. ready => probed'[Current] = healthClock
      BY <1>2 DEF HealthInv, HealthTypes
    <2>2. (doing.now <= healthClock) /\ healthClock \in Nat
      BY DEF HealthInv, HealthTypes, CallInv
    <2>3. ready => probed'[Current] # Missing /\ doing.now <= probed'[Current]
      BY <2>1, <2>2, HealthAssumption
    <2>4. ASSUME o.ready
          PROVE  probed'[Current] # Missing /\ o.at <= probed'[Current]
      BY <1>1, <2>3, <2>4
    <2> HIDE DEF o
    <2> QED
      BY <2>4 DEF Answered
  <1>5. HealthTypes'
    BY <1>2, HealthAssumption DEF HealthInv, HealthTypes
  <1>6. CacheInv'
    <2>1. cache' = [cache EXCEPT ![Current] = o]
      BY DEF Record
    <2> HIDE DEF o
    <2> QED
      BY <1>1, <1>2, <1>3, <1>4, <2>1 DEF HealthInv, CacheInv
  <1>7. CallInv' /\ ReportInv'
    <2>1. Observe(o)
      BY DEF Record
    <2> HIDE DEF o
    <2> QED
      BY <1>1, <1>3, <1>4, <2>1, ObserveKeeps DEF HealthInv
  <1> QED
    BY <1>5, <1>6, <1>7 DEF HealthInv, DispatchedOnFreshHealth

(* One step per operation of provider health. *)
LEMMA HealthInductive == HealthInv /\ [HealthNext]_healthVars => HealthInv'
  <1> SUFFICES ASSUME HealthInv, [HealthNext]_healthVars
               PROVE  HealthInv'
    OBVIOUS
  <1> USE HealthAssumption
  <1>1. ASSUME NEW force \in BOOLEAN, StartQualification(force)
        PROVE  HealthInv'
    <2>1. /\ doing'.config = pinned /\ doing'.now = healthClock /\ doing'.seen = <<>>
          /\ doing' = [config |-> pinned, now |-> healthClock, force |-> force, tried |-> 0,
                       seen |-> <<>>]
          /\ UNCHANGED <<healthClock, pinned, cache, report, probed, dispatched>>
      BY <1>1 DEF StartQualification
    <2>2. CallInv'
      BY <2>1 DEF CallInv, HealthInv, HealthTypes
    <2> QED
      BY <2>1, <2>2 DEF HealthInv, HealthTypes, CacheInv, ReportInv, Answered,
                        DispatchedOnFreshHealth
  <1>2. CASE UseCache
    <2>1. Current \in Profiles
      BY <1>2, CurrentIsAProfile DEF HealthInv, UseCache
    <2>2. cache[Current] \in Observations /\ Answered(probed, cache[Current], Current)
      BY <1>2, <2>1 DEF HealthInv, CacheInv, UseCache, Cached
    <2>3. UNCHANGED <<healthClock, pinned, cache, probed, dispatched>>
      BY <1>2 DEF UseCache
    <2>5. CallInv' /\ ReportInv'
      BY <1>2, <2>2, <2>3, ObserveKeeps DEF UseCache, HealthInv
    <2> QED
      BY <2>3, <2>5 DEF HealthInv, HealthTypes, CacheInv, Answered, DispatchedOnFreshHealth
  <1>3. CASE IsolationFails \/ AuditFails
    BY <1>3, RecordKeeps DEF IsolationFails, AuditFails, MayProbe
  <1>4. CASE ProbeSucceeds
    BY <1>4, RecordKeeps DEF ProbeSucceeds, MayProbe
  <1>5. ASSUME NEW transient \in BOOLEAN, ProbeFails(transient)
        PROVE  HealthInv'
    <2>1. CASE transient /\ doing.tried + 1 < MaxAttempts
      <3>1. /\ doing' = [doing EXCEPT !.tried = @ + 1] /\ Working
            /\ UNCHANGED <<cache, report, healthClock, pinned, probed, dispatched>>
        BY <1>5, <2>1 DEF ProbeFails, MayProbe
      <3>2. /\ doing'.config = doing.config /\ doing'.now = doing.now
            /\ doing'.seen = doing.seen
            /\ doing' = [config |-> doing.config, now |-> doing.now, force |-> doing.force,
                         tried |-> doing.tried + 1, seen |-> doing.seen]
        BY <3>1 DEF HealthInv, CallInv
      <3>3. CallInv'
        BY <3>1, <3>2 DEF HealthInv, CallInv, Answered
      <3> QED
        BY <3>1, <3>3 DEF HealthInv, HealthTypes, CacheInv, ReportInv, Answered,
                          DispatchedOnFreshHealth
    <2>2. CASE ~(transient /\ doing.tried + 1 < MaxAttempts)
      BY <1>5, <2>2, RecordKeeps DEF ProbeFails, MayProbe
    <2> QED
      BY <2>1, <2>2
  <1>6. CASE QualificationRefused
    BY <1>6 DEF QualificationRefused, HealthInv, HealthTypes, CacheInv, CallInv, ReportInv,
                Working, Answered, DispatchedOnFreshHealth
  <1>7. ASSUME NEW n \in 1..Selections, Dispatch(n)
        PROVE  HealthInv'
    <2> DEFINE answered == probed[Profile(pinned, n)]
               o == report.seen[n]
    <2>1. o.ready /\ o.at <= healthClock /\ healthClock < o.at + Freshness /\ report # Missing
          /\ report.config = pinned
      BY <1>7 DEF Dispatch, Authorizes, Fresh
    <2>2. o \in Observations /\ Answered(probed, o, Profile(pinned, n))
      BY <2>1 DEF HealthInv, ReportInv
    <2>3. o.at \in Nat /\ answered # Missing /\ o.at <= answered
      BY <2>1, <2>2 DEF Answered, Observations
    <2>4. answered \in Nat /\ answered <= healthClock
      BY <2>3 DEF HealthInv, HealthTypes, Profile, Profiles
    <2>5. dispatched' = healthClock - answered
      BY <1>7, <2>3 DEF Dispatch
    <2> HIDE DEF answered, o
    <2>6. dispatched' \in Nat /\ dispatched' < Freshness
      BY <2>1, <2>3, <2>4, <2>5 DEF HealthInv, HealthTypes
    <2>7. UNCHANGED <<healthClock, pinned, cache, doing, report, probed>>
      BY <1>7 DEF Dispatch
    <2> QED
      BY <2>6, <2>7 DEF HealthInv, HealthTypes, CacheInv, CallInv, ReportInv,
                        Working, Answered, DispatchedOnFreshHealth
  <1>8. CASE Elapse
    BY <1>8 DEF Elapse, HealthInv, HealthTypes, CacheInv, CallInv, ReportInv,
                Working, Answered, DispatchedOnFreshHealth
  <1>9. CASE HealthRestart
    BY <1>9 DEF HealthRestart, HealthInv, HealthTypes, CacheInv, CallInv, ReportInv,
                Working, Answered, DispatchedOnFreshHealth
  <1>10. ASSUME NEW c \in Configurations, Repin(c)
         PROVE  HealthInv'
    BY <1>10 DEF Repin, HealthInv, HealthTypes, CacheInv, CallInv, ReportInv,
                Working, Answered, DispatchedOnFreshHealth
  <1>11. CASE UNCHANGED healthVars
    BY <1>11 DEF healthVars, HealthInv, HealthTypes, CacheInv, CallInv, ReportInv,
                Working, Answered, DispatchedOnFreshHealth
  <1> QED
    BY <1>1, <1>2, <1>3, <1>4, <1>5, <1>6, <1>7, <1>8, <1>9, <1>10, <1>11 DEF HealthNext

(* Nothing is dispatched to a profile that has not answered a probe within
   the freshness window, for any profiles, configurations and window,
   however slow the probes are and whatever the cache holds. *)
THEOREM DispatchRestsOnHealth == HealthSpec => []DispatchedOnFreshHealth
  <1>1. HealthInit => HealthInv
    BY HealthAssumption DEF HealthInit, HealthInv, HealthTypes, CacheInv, CallInv, ReportInv,
                Working, Answered, DispatchedOnFreshHealth
  <1>2. HealthInv => DispatchedOnFreshHealth
    BY DEF HealthInv
  <1> QED
    BY <1>1, <1>2, HealthInductive, PTL DEF HealthSpec

-----------------------------------------------------------------------------
(***************************************************************************)
(* Role budgets and grants.  GrantsInv ties what a host holds or has       *)
(* cleared to the debit under its key.                                     *)
(***************************************************************************)
(* The request of a ledger key. *)
RequestOf(k) == k[2][2]

GrantsInv ==
    /\ usage \in [DOMAIN usage -> Nat]
    /\ held = [h \in Hosts |-> held[h]] /\ cleared = [h \in Hosts |-> cleared[h]]
    /\ \A h \in Hosts : held[h] # NoGrant => RequestOf(held[h].key) = held[h].request
    /\ \A h \in Hosts : cleared[h] # NoGrant =>
          held[h] # NoGrant /\ held[h].request \in owned /\ Reserved(held[h].key)
    /\ \A k \in performed : RequestOf(k) \in owned /\ Reserved(k)

(* consume debits a key nobody spent, and leaves every other as it was. *)
LEMMA ConsumeKeepsDebits ==
  ASSUME usage \in [DOMAIN usage -> Nat], NEW k, Consume(k, Budget)
  PROVE  /\ usage' \in [DOMAIN usage' -> Nat]
         /\ \A j : Reserved(j) => Reserved(j)'
  <1>1. /\ DOMAIN usage' = DOMAIN usage \cup {k}
        /\ \A j \in DOMAIN usage \cup {k} :
              usage'[j] = IF j = k THEN Used(k) + Budget ELSE usage[j]
        /\ usage' = [j \in DOMAIN usage' |-> usage'[j]]
    BY DEF Consume
  <1>2. Used(k) \in Nat /\ Used(k) + Budget <= Budget
    BY DEF Consume, WithinBudget, Used
  <1>3. Used(k) = 0
    BY <1>2, BudgetAssumption
  <1>4. usage'[k] = Budget
    BY <1>1, <1>3, BudgetAssumption
  <1>5. ASSUME NEW j, Reserved(j)
        PROVE  Reserved(j)'
    BY <1>1, <1>4, <1>5 DEF Reserved, Used
  <1> QED
    BY <1>1, <1>4, <1>5, BudgetAssumption

(* release deletes one debit and no other. *)
LEMMA ReleaseKeepsDebits ==
  ASSUME usage \in [DOMAIN usage -> Nat], NEW k,
         usage' = [j \in DOMAIN usage \ {k} |-> usage[j]]
  PROVE  /\ usage' \in [DOMAIN usage' -> Nat]
         /\ \A j : j # k /\ Reserved(j) => Reserved(j)'
  BY DEF Reserved, Used

(* One step per operation on grants and budgets. *)
LEMMA GrantsInductive == GrantsInv /\ [GrantsNext]_grantVars => GrantsInv'
  <1> SUFFICES ASSUME GrantsInv, [GrantsNext]_grantVars
               PROVE  GrantsInv'
    OBVIOUS
  <1>1. ASSUME UNCHANGED <<held, cleared, usage, owned, performed>>
        PROVE  GrantsInv'
    BY <1>1 DEF GrantsInv, Reserved, Used
  <1>2. ASSUME NEW h \in Hosts, NEW q, cleared[h] = NoGrant, Reserve(h, q) \/ Recover(h, q)
        PROVE  GrantsInv'
    <2>1. /\ usage' \in [DOMAIN usage' -> Nat]
          /\ \A j : Reserved(j) => Reserved(j)'
      <3>1. CASE Reserve(h, q)
        BY <3>1, ConsumeKeepsDebits DEF Reserve, GrantsInv
      <3>2. CASE Recover(h, q)
        BY <3>2 DEF Recover, GrantsInv, Reserved, Used
      <3> QED
        BY <1>2, <3>1, <3>2
    <2>2. /\ held' = [held EXCEPT ![h] = Reservation(h, q)]
          /\ UNCHANGED <<owned, cleared, performed>>
      BY <1>2 DEF Reserve, Recover
    <2>3. RequestOf(Reservation(h, q).key) = Reservation(h, q).request
      BY DEF RequestOf, Reservation, Key, Binding
    <2> QED
      BY <1>2, <2>1, <2>2, <2>3 DEF GrantsInv
  <1>3. ASSUME NEW h \in Hosts, cleared[h] = NoGrant, Admit(h)
        PROVE  GrantsInv'
    BY <1>3 DEF GrantsInv, Admit, hostVars, Reserved, Used
  <1>4. ASSUME NEW h \in Hosts, cleared[h] = NoGrant, Release(h)
        PROVE  GrantsInv'
    <2>1. /\ usage' \in [DOMAIN usage' -> Nat]
          /\ \A j : j # held[h].key /\ Reserved(j) => Reserved(j)'
      BY <1>4, ReleaseKeepsDebits DEF Release, GrantsInv
    <2>2. /\ RequestOf(held[h].key) \notin owned
          /\ held' = [held EXCEPT ![h] = NoGrant]
          /\ UNCHANGED <<owned, cleared, performed>>
      BY <1>4 DEF Release, GrantsInv
    <2>3. \A g \in Hosts : cleared[g] # NoGrant => held[g].key # held[h].key
      BY <2>2 DEF GrantsInv
    <2>4. \A k \in performed : k # held[h].key
      BY <2>2 DEF GrantsInv
    <2> QED
      BY <1>4, <2>1, <2>2, <2>3, <2>4 DEF GrantsInv
  <1>5. ASSUME NEW h \in Hosts, cleared[h] = NoGrant, CheckEffect(h)
        PROVE  GrantsInv'
    BY <1>5 DEF GrantsInv, CheckEffect, Reserved, Used
  <1>6. ASSUME NEW h \in Hosts, Perform(h)
        PROVE  GrantsInv'
    BY <1>6 DEF GrantsInv, Perform, Reserved, Used
  <1>7. ASSUME NEW h \in Hosts, HostCrash(h)
        PROVE  GrantsInv'
    BY <1>7 DEF GrantsInv, HostCrash, Reserved, Used
  <1>8. ASSUME NEW h \in Hosts, Compose(h) \/ Launch(h)
        PROVE  GrantsInv'
    BY <1>1, <1>8 DEF Compose, Launch
  <1>9. CASE AcceptMain \/ Tick \/ UNCHANGED grantVars
    BY <1>1, <1>9 DEF AcceptMain, Tick, grantVars, hostVars
  <1> QED
    BY <1>2, <1>3, <1>4, <1>5, <1>6, <1>7, <1>8, <1>9 DEF GrantsNext, HostStep

(* The debit of a performed effect stays: no crash, restart, move of main
   or release by another process gives back what was spent, for any number
   of hosts and requests. *)
THEOREM DebitsOutliveEffects == GrantsSpec => []EffectsStayDebited
  <1>1. GrantsInit => GrantsInv
    BY DEF GrantsInit, GrantsInv
  <1>2. GrantsInv => EffectsStayDebited
    BY DEF GrantsInv, EffectsStayDebited
  <1> QED
    BY <1>1, <1>2, GrantsInductive, PTL DEF GrantsSpec

-----------------------------------------------------------------------------
(***************************************************************************)
(* Failure decisions.  A denial is in force while the owner's decisions    *)
(* about it are balanced; DecisionsInv is that parity.                     *)
(***************************************************************************)
(* The parity of a number of decisions, and how one more decision turns it. *)
Odd(n) == n % 2 = 1

(* One more decision turns the parity. *)
LEMMA OneMoreFlips ==
  ASSUME NEW n \in Nat
  PROVE  Odd(n + 1) <=> ~Odd(n)
  BY DEF Odd

(* A denial nobody decided about is in force. *)
LEMMA NoneIsEven == ~Odd(0)
  BY DEF Odd

(* A denial is in force exactly while the owner's decisions about it are    *)
(* balanced, and only recorded denials were decided.                        *)
DecisionsInv ==
    /\ decided \in [AllRecords -> Seq(DenialCommands)]
    /\ \A r \in AllRecords : decided[r] # <<>> => r \in records
    /\ \A r \in AllRecords : r \in records => (r \in inForce <=> ~Odd(Len(decided[r])))

(* One step per operation on failure decisions. *)
LEMMA DecisionsInductive ==
  DecisionsInv /\ [DecisionsNext]_decisionVars => DecisionsInv'
  <1> SUFFICES ASSUME DecisionsInv, [DecisionsNext]_decisionVars
               PROVE  DecisionsInv'
    OBVIOUS
  <1>0. ASSUME NEW r \in AllRecords, NEW k \in DenialCommands,
               decided' = [decided EXCEPT ![r] = Append(@, k)],
               r \in records, UNCHANGED records,
               \/ inForce' = inForce \ {r} /\ ~Odd(Len(decided[r]))
               \/ inForce' = inForce \cup {r} /\ Odd(Len(decided[r]))
        PROVE  DecisionsInv'
    <2>1. decided[r] \in Seq(DenialCommands) /\ Len(decided[r]) \in Nat
      BY DEF DecisionsInv
    <2>2. /\ decided'[r] = Append(decided[r], k)
          /\ decided'[r] \in Seq(DenialCommands)
          /\ Len(decided'[r]) = Len(decided[r]) + 1
          /\ \A q \in AllRecords : q # r => decided'[q] = decided[q]
      BY <1>0, <2>1 DEF DecisionsInv
    <2>3. decided' \in [AllRecords -> Seq(DenialCommands)]
      BY <1>0, <2>1 DEF DecisionsInv
    <2>4. Odd(Len(decided'[r])) <=> ~Odd(Len(decided[r]))
      BY <2>1, <2>2, OneMoreFlips
    <2> QED
      BY <1>0, <2>2, <2>3, <2>4 DEF DecisionsInv
  <1>1. ASSUME NEW a \in Tries, AdmitEffect(a)
        PROVE  DecisionsInv'
    BY <1>1 DEF AdmitEffect, DecisionsInv
  <1>2. ASSUME NEW a \in Tries, NEW failure, NEW source, RecordFailure(a, failure, source)
        PROVE  DecisionsInv'
    <2> DEFINE r == FailureRecord(a, failure, source)
    <2>1. /\ records' = records \cup {r} /\ decided' = decided
          /\ inForce' = IF r \in AllRecords \ records THEN inForce \cup {r} ELSE inForce
      BY <1>2 DEF RecordFailure
    <2>2. ~Odd(Len(<<>>))
      BY NoneIsEven
    <2> HIDE DEF r
    <2> QED
      BY <2>1, <2>2 DEF DecisionsInv
  <1>3. ASSUME NEW r \in Denials, NEW k \in DenialCommands, RecordClearance(r, k)
        PROVE  DecisionsInv'
    <2>1. r \in AllRecords /\ r \in records
      BY DEF Denials
    <2>2. ~Odd(Len(decided[r]))
      BY <1>3 DEF RecordClearance, Lifted, Odd
    <2> QED
      BY <1>0, <1>3, <2>1, <2>2 DEF RecordClearance
  <1>4. ASSUME NEW r \in Denials, NEW k \in DenialCommands, RecordRevocation(r, k)
        PROVE  DecisionsInv'
    <2>1. r \in AllRecords /\ r \in records
      BY DEF Denials
    <2>2. Odd(Len(decided[r]))
      BY <1>4 DEF RecordRevocation, Lifted, Odd
    <2> QED
      BY <1>0, <1>4, <2>1, <2>2 DEF RecordRevocation
  <1>5. ASSUME UNCHANGED <<records, decided, inForce>>
        PROVE  DecisionsInv'
    BY <1>5 DEF DecisionsInv
  <1>6. CASE UNCHANGED decisionVars
    BY <1>5, <1>6 DEF decisionVars
  <1>7. ASSUME NEW r, NEW k, NEW kind, Command(k, r, kind)
        PROVE  DecisionsInv'
    BY <1>5, <1>7 DEF Command
  <1>8. ASSUME NEW r, NEW same, IssueRoute(r, same)
        PROVE  DecisionsInv'
    BY <1>5, <1>8 DEF IssueRoute
  <1>9. ASSUME NEW k, WithdrawGrant(k) \/ MoveSeal(k)
        PROVE  DecisionsInv'
    BY <1>5, <1>9 DEF WithdrawGrant, MoveSeal
  <1> QED
    BY <1>1, <1>2, <1>3, <1>4, <1>6, <1>7, <1>8, <1>9 DEF DecisionsNext

(* The parity is what the property says. *)
LEMMA StopsHold == DecisionsInv => StopsHoldUntilLifted
  <1> SUFFICES ASSUME DecisionsInv, NEW s \in Roles, NoStopStands(s),
                      NEW r \in Denials, Scope(r.attempt) = s
               PROVE  /\ r \notin inForce /\ r.candidate = sealed
                      /\ commands[decided[r][Len(decided[r])]].candidate = sealed
    BY DEF StopsHoldUntilLifted
  <1>1. Cleared(r)
    BY DEF NoStopStands
  <1>2. r \in AllRecords /\ r \in records
    BY DEF Denials
  <1>3. r.candidate = sealed
    BY <1>1 DEF Cleared, IsCurrent, SealedStill
  <1> DEFINE n == Len(decided[r])
  <1>4. decided[r] \in Seq(DenialCommands) /\ n \in Nat /\ Odd(n)
    <2>1. Odd(n)
      BY <1>1 DEF Cleared, Lifted, Odd
    <2> QED
      BY <1>2, <2>1 DEF DecisionsInv
  <1>5. n \in DOMAIN decided[r]
    <2>1. n # 0
      BY <1>4, NoneIsEven
    <2> HIDE DEF n
    <2>2. n \in 1..n
      BY <1>4, <2>1
    <2> QED
      BY <1>4, <2>2 DEF n
  <1>6. \E kind, clearance : CommandReceipt(r, decided[r][n], kind, clearance)
    BY <1>1, <1>5 DEF Cleared, Authentic
  <1>7. commands[decided[r][n]].candidate = sealed
    BY <1>6 DEF CommandReceipt, DenialCommand
  <1> QED
    BY <1>2, <1>3, <1>4, <1>7 DEF DecisionsInv

(* A scope opens only on the owner's last word *)
THEOREM StopsAreTheOwners == DecisionsSpec => []StopsHoldUntilLifted
  <1>1. DecisionsInit => DecisionsInv
    BY NoneIsEven DEF DecisionsInit, DecisionsInv
  <1> QED
    BY <1>1, DecisionsInductive, StopsHold, PTL DEF DecisionsSpec
=============================================================================
