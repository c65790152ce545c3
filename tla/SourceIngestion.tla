-------------------------- MODULE SourceIngestion --------------------------
(***************************************************************************)
(* The ingestion of configured work sources (configured_source.py).  A     *)
(* caller prepares host inputs from the owner-blocker receipt and the      *)
(* current dependency graph, the harness executes a request made of them,  *)
(* and the execution reads every source page by page, normalises what it   *)
(* read and selects the work that may run.  The issues, the owner's        *)
(* blockers, the seal and the graph move meanwhile.                        *)
(***************************************************************************)
EXTENDS Naturals, Sequences, FiniteSets

CONSTANTS Sources,     \* the configured sources, in the order of their identities
          Issues,      \* those of them that are issue lists; the others are task feeds
          MaxPages,    \* max_pages of a source
          MaxItems,    \* max_items of a source
          Feeds,       \* what the sources may hold: pages by source and cursor
          Graphs,      \* accepted graphs of this candidate, policy and configuration
          NoGraph,     \* no graph of this binding is current
          Blockers,    \* pending pass follow-ups
          First,       \* the cursor of a first page
          Last,        \* no next cursor
          MaxMoves     \* bound: changes the world makes

(* The pages the sources may answer with, their items and their cursors. *)
Pages == UNION {UNION {{f[Sources[i]][c] : c \in DOMAIN f[Sources[i]]} : i \in DOMAIN Sources} :
                   f \in Feeds}
PageItems == UNION {{p.items[j] : j \in DOMAIN p.items} : p \in Pages}
Names == {Sources[i] : i \in DOMAIN Sources}
Cursors == {First, Last} \cup {p.next : p \in Pages}

(* Sources have distinct identities; a next cursor is never the absent one a scan begins with. *)
ASSUME SourceAssumption ==
    /\ Sources \in Seq(Names) /\ Sources # <<>>
    /\ \A i, j \in DOMAIN Sources : Sources[i] = Sources[j] => i = j
    /\ First # Last /\ NoGraph \notin Graphs /\ MaxMoves \in Nat
    /\ \A s \in Names : MaxPages[s] \in Nat \ {0} /\ MaxItems[s] \in Nat \ {0}
    /\ \A p \in Pages : p.items \in Seq(PageItems) /\ p.next # First

VARIABLES feed,      \* what a source answers, by cursor
          owner,     \* the pending blockers, and whether the candidate is sealed
          graph,     \* the current graph of the binding
          moves,     \* changes so far
          ownerMoved,\* the owner's state changed since the execution was admitted
          pc,        \* where the caller and the harness are
          inputs,    \* ConfiguredSourceHostInputs of the adapter
          requests,  \* executor requests that were made
          scan,      \* the scan of the source at hand
          observed,  \* the items read from each source, of this execution
          reads,     \* the pages this execution asked for
          result,    \* its inventory and selection
          evidence,  \* terminal projections
          ledger     \* configured_source_inventories

worldVars == <<feed, owner, graph, moves, ownerMoved>>
sourceVars == <<worldVars, pc, inputs, requests, scan, observed, reads, result, evidence, ledger>>

HostInputs(receipt, g, prepared) == [receipt |-> receipt, graph |-> g, prepared |-> prepared]
NoInputs == HostInputs({}, NoGraph, FALSE)
NoScan == [at |-> 1, cursor |-> First, seen |-> {}, pages |-> 0, collected |-> <<>>]
NoResult == [inventory |-> {}, runnable |-> {}, blocked |-> {}]

SourceInit ==
    /\ feed \in Feeds
    /\ owner \in [items : SUBSET Blockers, sealed : {TRUE}]
    /\ graph \in Graphs \cup {NoGraph}
    /\ moves = 0 /\ ownerMoved = FALSE
    /\ pc = "idle" /\ inputs = NoInputs /\ requests = {}
    /\ scan = NoScan /\ observed = <<>> /\ reads = <<>>
    /\ result = NoResult /\ evidence = {} /\ ledger = {}

(* A graph is meaningful only when selection joins several sources. *)
GraphRequired == Len(Sources) > 1

Reject ==
    /\ pc' = "idle"
    /\ UNCHANGED <<worldVars, inputs, requests, scan, observed, reads, result, evidence, ledger>>

(***************************************************************************)
(* prepare_configured_source_ingestion.                                    *)
(***************************************************************************)
(* owner_blocker_state_receipt: what is pending, of exactly the sealed candidate *)
Receipt == owner.items

(* _create_owner_blocker_state_read_host *)
ReadOwnerState ==
    /\ pc = "idle" /\ owner.sealed
    /\ inputs' = HostInputs(Receipt, NoGraph, FALSE)
    /\ pc' = "preparing"
    /\ UNCHANGED <<worldVars, requests, scan, observed, reads, result, evidence, ledger>>

RefuseReceipt == pc = "idle" /\ ~owner.sealed /\ Reject

(* resolve_configured_source_authority reads the receipt once more, for its repository and
   task only, and the graph that is current. *)
AuthorityResolves == owner.sealed /\ (GraphRequired => graph # NoGraph)

(* _seal_configured_source_authority *)
AuthorityGraph == IF GraphRequired THEN graph ELSE NoGraph

(* create_configured_source_read_capability: the binding receipt of the issue-list endpoint
   names the repository, the task and the candidate. *)
CapabilityBinds(matching) == matching \/ \A i \in DOMAIN Sources : Sources[i] \notin Issues

(* The descriptor a request and its observation identity are made of *)
Request(i) == [receipt |-> i.receipt, graph |-> i.graph]

Prepare(matching) ==
    /\ pc = "preparing" /\ AuthorityResolves /\ CapabilityBinds(matching)
    /\ inputs' = HostInputs(inputs.receipt, AuthorityGraph, TRUE)
    /\ requests' = requests \cup {Request(inputs')}
    /\ pc' = "idle"
    /\ UNCHANGED <<worldVars, scan, observed, reads, result, evidence, ledger>>

RefusePreparation(matching) ==
    /\ pc = "preparing" /\ ~(AuthorityResolves /\ CapabilityBinds(matching))
    /\ Reject

(***************************************************************************)
(* ConfiguredSourceIngestionAdapter.execute.                               *)
(***************************************************************************)
(* validate: the request is the one these inputs make. *)
Validates(q) == inputs.prepared /\ q = Request(inputs)

(* Variant: the receipt of the preparation is good enough. *)
OwnerUnverified == TRUE

(* verify_owner_blocker_state *)
OwnerVerified == owner.sealed /\ Receipt = inputs.receipt

Execute(q) ==
    /\ pc = "idle" /\ Validates(q) /\ OwnerVerified
    /\ pc' = "scanning" /\ ownerMoved' = FALSE
    /\ scan' = NoScan /\ observed' = <<>> /\ reads' = <<>> /\ result' = NoResult
    /\ UNCHANGED <<feed, owner, graph, moves, inputs, requests, evidence, ledger>>

RefuseExecution(q) ==
    /\ pc = "idle" /\ ~(Validates(q) /\ OwnerVerified)
    /\ Reject

Source == Sources[scan.at]

(* IssueListReadHost.read_page: one issue is one page. *)
IssueIsAsked == Source \in Issues => scan.cursor = First

(* exchange_page *)
PageAnswers == scan.cursor \in DOMAIN feed[Source]

Page == feed[Source][scan.cursor]

(* ConfiguredSourceReadCapability.read: the page is of this source and this cursor. *)
PageIsThere == IssueIsAsked /\ PageAnswers /\ Page.echoes

Collected == scan.collected \o Page.items

(* Variant: a continuation is refused only after it was read. *)
OverReads == scan.pages + 1 <= MaxPages[Source] /\ Len(Collected) <= MaxItems[Source]

(* The bounds of the source; a continuation after the last page that is allowed is refused
   before it is read. *)
WithinBounds ==
    /\ scan.pages + 1 <= MaxPages[Source] /\ Len(Collected) <= MaxItems[Source]
    /\ Page.next # Last => scan.pages + 1 < MaxPages[Source]

CursorIsSafe == Page.next \notin scan.seen

NoItemRepeats == Cardinality({Collected[i].id : i \in DOMAIN Collected}) = Len(Collected)

Asked == reads' = Append(reads, <<Source, scan.cursor>>)

PageIsTaken ==
    /\ PageIsThere /\ WithinBounds
    /\ IF Page.next = Last THEN NoItemRepeats ELSE CursorIsSafe

ReadPage ==
    /\ pc = "scanning" /\ scan.at <= Len(Sources)
    /\ PageIsTaken /\ Page.next # Last
    /\ Asked
    /\ scan' = [scan EXCEPT !.cursor = Page.next, !.seen = @ \cup {Page.next},
                            !.pages = @ + 1, !.collected = Collected]
    /\ UNCHANGED <<worldVars, pc, inputs, requests, observed, result, evidence, ledger>>

ReadLastPage ==
    /\ pc = "scanning" /\ scan.at <= Len(Sources)
    /\ PageIsTaken /\ Page.next = Last
    /\ Asked
    /\ observed' = Append(observed, Collected)
    /\ scan' = [NoScan EXCEPT !.at = scan.at + 1]
    /\ UNCHANGED <<worldVars, pc, inputs, requests, result, evidence, ledger>>

RefuseRead ==
    /\ pc = "scanning" /\ scan.at <= Len(Sources) /\ ~PageIsTaken
    /\ Asked /\ pc' = "idle"
    /\ UNCHANGED <<worldVars, inputs, requests, scan, observed, result, evidence, ledger>>

(***************************************************************************)
(* _normalize and select_runnable_work.                                    *)
(***************************************************************************)
Records == UNION {{[source |-> Sources[i], item |-> observed[i][j]] : j \in DOMAIN observed[i]} :
                    i \in DOMAIN observed}

Seen == {r.item : r \in Records}

Same(field, x) == {y \in Seen : y[field] = x[field]}

Alike(field, items) == \A x, y \in items : x[field] = y[field]

(* Variant: equal content is no reason for doubt. *)
AmbiguousByIdentity(x) ==
    \/ ~Alike("member", Same("mechanical", x))
    \/ ~Alike("content", Same("mechanical", x))

(* A mechanical identity with two members or two contents, or a content with two mechanical
   identities *)
Ambiguous(x) ==
    \/ ~Alike("member", Same("mechanical", x))
    \/ ~Alike("content", Same("mechanical", x))
    \/ ~Alike("mechanical", Same("content", x))

NormalizedItem(x) ==
    [member |-> x.member, content |-> x.content, mechanical |-> x.mechanical,
     sources |-> {r.source : r \in {y \in Records :
                     y.item.member = x.member /\ y.item.content = x.content
                     /\ y.item.mechanical = x.mechanical}},
     ambiguous |-> Ambiguous(x)]

Inventory == {NormalizedItem(x) : x \in Seen}

OfMember(n) == {x \in Inventory : x.member = n.member}

InGraph(n) == <<n.member, n.content>> \in inputs.graph.members

(* Variant: a dependency outside the inventory blocks nobody. *)
DependsInside(n) ==
    \E e \in inputs.graph.edges : e[1] = n.member /\ \E x \in Inventory : x.member = e[2]

Depends(n) == \E e \in inputs.graph.edges : e[1] = n.member

(* The set of reasons why n may not run is not empty. *)
Blocked(n) ==
    \/ n.ambiguous \/ Cardinality(OfMember(n)) > 1
    \/ inputs.receipt # {}
    \/ GraphRequired /\ (~InGraph(n) \/ Depends(n))

Runnable == {n \in Inventory : ~Blocked(n)}

Select ==
    /\ pc = "scanning" /\ scan.at > Len(Sources)
    /\ result' = [inventory |-> Inventory, runnable |-> Runnable,
                  blocked |-> Inventory \ Runnable]
    /\ pc' = "executed"
    /\ UNCHANGED <<worldVars, inputs, requests, scan, observed, reads, evidence, ledger>>

(* configured_source_evidence *)
TerminalProjection == [request |-> Request(inputs), result |-> result, observed |-> observed]

Project ==
    /\ pc = "executed"
    /\ evidence' = evidence \cup {TerminalProjection}
    /\ pc' = "idle"
    /\ UNCHANGED <<worldVars, inputs, requests, scan, observed, reads, result, ledger>>

(* ConfiguredSourceStore.record: an inventory is stored once, under its digest. *)
Record ==
    /\ pc = "executed" /\ result.inventory \notin ledger
    /\ ledger' = ledger \cup {result.inventory}
    /\ UNCHANGED <<worldVars, pc, inputs, requests, scan, observed, reads, result, evidence>>

(***************************************************************************)
(* What moves meanwhile.                                                   *)
(***************************************************************************)
Move == moves < MaxMoves /\ moves' = moves + 1

LocalUnchanged ==
    UNCHANGED <<pc, inputs, requests, scan, observed, reads, result, evidence, ledger>>

(* An issue is edited; a task feed is fixed when its endpoint is sealed. *)
IssueMoves(f) ==
    /\ Move /\ f # feed
    /\ \A i \in DOMAIN Sources : Sources[i] \notin Issues => f[Sources[i]] = feed[Sources[i]]
    /\ feed' = f
    /\ UNCHANGED <<owner, graph, ownerMoved>> /\ LocalUnchanged

OwnerMoves(o) ==
    /\ Move /\ o # owner
    /\ owner' = o /\ ownerMoved' = TRUE
    /\ UNCHANGED <<feed, graph>> /\ LocalUnchanged

GraphMoves(g) ==
    /\ Move /\ g # graph
    /\ graph' = g
    /\ UNCHANGED <<feed, owner, ownerMoved>> /\ LocalUnchanged

Scan == ReadPage \/ ReadLastPage \/ RefuseRead \/ Select

World ==
    \/ \E f \in Feeds : IssueMoves(f)
    \/ \E o \in [items : SUBSET Blockers, sealed : BOOLEAN] : OwnerMoves(o)
    \/ \E g \in Graphs \cup {NoGraph} : GraphMoves(g)

SourceNext ==
    \/ ReadOwnerState \/ RefuseReceipt
    \/ \E b \in BOOLEAN : Prepare(b) \/ RefusePreparation(b)
    \/ \E q \in requests : Execute(q) \/ RefuseExecution(q)
    \/ Scan \/ Project \/ Record \/ World

SourceSpec == SourceInit /\ [][SourceNext]_sourceVars

(***************************************************************************)
(* Properties.                                                             *)
(***************************************************************************)
(* _normalize, select_runnable_work: whatever the sources say, work that may run is told apart
   by every identity it has: no item that was read shares its mechanical identity, its member
   or its content without being it. *)
Everything(e) == UNION {{e.observed[i][j] : j \in DOMAIN e.observed[i]} : i \in DOMAIN e.observed}

RunnableWorkIsUnambiguous ==
    \A e \in evidence : \A n \in e.result.runnable, x \in Everything(e) :
        \/ x.member # n.member /\ x.content # n.content /\ x.mechanical # n.mechanical
        \/ x.member = n.member /\ x.content = n.content /\ x.mechanical = n.mechanical

(* select_runnable_work: with several sources, work that may run is a member of the graph with
   the content that was read, and depends on nothing, whether or not what it would depend on
   was read. *)
RunnableWorkIsARoot ==
    \A e \in evidence : \A n \in e.result.runnable :
        GraphRequired =>
            /\ <<n.member, n.content>> \in e.request.graph.members
            /\ ~ \E d \in e.request.graph.edges : d[1] = n.member

(* verify_owner_blocker_state: unless the owner's state moves while the sources are read, no
   work is selected under a pending blocker or an unsealed candidate, however long ago the
   inputs were prepared. *)
SelectionSeesTheOwner ==
    pc = "executed" /\ result.runnable # {} /\ ~ownerMoved => owner.items = {} /\ owner.sealed

(* scan_configured_sources: no page past max_pages is asked for, no page is asked for twice,
   and no source contributes more than max_items, whatever cursors the pages name. *)
PagesAskedOf(s) == {i \in DOMAIN reads : reads[i][1] = s}

ReadsStayInBounds ==
    /\ \A i \in DOMAIN Sources : Cardinality(PagesAskedOf(Sources[i])) <= MaxPages[Sources[i]]
    /\ \A i, j \in DOMAIN reads : reads[i] = reads[j] => i = j
    /\ \A i \in DOMAIN observed : Len(observed[i]) <= MaxItems[Sources[i]]
=============================================================================
