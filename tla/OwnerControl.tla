---------------------------- MODULE OwnerControl ----------------------------
(***************************************************************************)
(* Review items and owner commands of one task (review_lifecycle.py).      *)
(* Reviews raise items about a candidate; the owner queues a command for   *)
(* an item under a grant for the sealed candidate, and the command is      *)
(* consumed later, when the seal, the grant and the item may have changed. *)
(* Every operation is one transaction under the transition lease.          *)
(***************************************************************************)
EXTENDS Naturals, FiniteSets

CONSTANTS Candidates, ItemReviews, Remarks, OwnerCommands, NoCommand

Items == [kind : {"finding", "pass-follow-up"}, candidate : Candidates, content : Remarks]
CommandRows == [target : Items, candidate : Candidates, state : {"pending", "consumed"}]

ASSUME OwnerAssumption == NoCommand \notin OwnerCommands /\ NoCommand \notin CommandRows

VARIABLES current,    \* candidate_seals: a set of at most one candidate
          provenance, \* review_item_provenance: <<item, review>>
          settled,    \* review_item_records.resolved_command_id
          queue,      \* owner_command_records: row, or NoCommand
          grants,     \* owner_authority_grants: the candidates with an active one
          accepting   \* reviews that are accepted or recorded with output

ownerVars == <<current, provenance, settled, queue, grants, accepting>>

Raised == {x \in Items : \E r \in ItemReviews : <<x, r>> \in provenance}

OwnerInit ==
    /\ current = {} /\ provenance = {} /\ settled = [x \in Items |-> NoCommand]
    /\ queue = [k \in OwnerCommands |-> NoCommand] /\ grants = {} /\ accepting = {}

(* _require_accepted_review *)
AcceptedReview(r) == r \in accepting

(* _valid_owner_grant, for the candidate that is sealed now. *)
OwnerGrant(s) == s \in current /\ s \in grants

(* OwnerCommand *)
NewCommand(x, s) == [target |-> x, candidate |-> s, state |-> "pending"]

(* _record_review_item_connection: a review whose result is durable raises
   an item, or adds its provenance to one that exists. *)
RecordItem(x, r) ==
    /\ AcceptedReview(r)
    /\ provenance' = provenance \cup {<<x, r>>}
    /\ UNCHANGED <<current, settled, queue, grants, accepting>>

(* _owner_command_target: a follow-up outlives its candidate. *)
Target(x, s) == x \in Raised /\ (x.candidate = s \/ x.kind = "pass-follow-up")

QueueOwnerCommand(k, x, s) ==
    /\ OwnerGrant(s) /\ Target(x, s)
    /\ queue[k] = NoCommand
    /\ queue' = [queue EXCEPT ![k] = NewCommand(x, s)]
    /\ UNCHANGED <<current, provenance, settled, grants, accepting>>

Queued(k) == queue[k].state = "pending"

Pending(k) == settled[queue[k].target] = NoCommand

(* The grant and the seal are the command's own; the item is still open. *)
ConsumeOwnerCommand(k) ==
    /\ queue[k] # NoCommand /\ queue[k].state = "pending" /\ Pending(k)
    /\ OwnerGrant(queue[k].candidate)
    /\ settled' = [settled EXCEPT ![queue[k].target] = k]
    /\ queue' = [queue EXCEPT ![k].state = "consumed"]
    /\ UNCHANGED <<current, provenance, grants, accepting>>

(* owner_blocker_state_receipt: the open follow-ups of the whole task. *)
OwnerBlockers == {x \in Raised : x.kind = "pass-follow-up" /\ settled[x] = NoCommand}

(* The seal moves, grants come and go, reviews are accepted and withdrawn. *)
SealMoves(s) ==
    /\ current' = s /\ s # current
    /\ UNCHANGED <<provenance, settled, queue, grants, accepting>>
GrantChanges(s) ==
    /\ grants' = (grants \ {s}) \cup ({s} \ grants)
    /\ UNCHANGED <<current, provenance, settled, queue, accepting>>
AcceptanceChanges(r) ==
    /\ accepting' = (accepting \ {r}) \cup ({r} \ accepting)
    /\ UNCHANGED <<current, provenance, settled, queue, grants>>

OwnerNext ==
    \/ \E x \in Items, r \in ItemReviews : RecordItem(x, r)
    \/ \E k \in OwnerCommands : \/ \E x \in Items, s \in Candidates : QueueOwnerCommand(k, x, s)
                                \/ ConsumeOwnerCommand(k)
    \/ \E s \in {{}} \cup {{s} : s \in Candidates} : SealMoves(s)
    \/ \E s \in Candidates : GrantChanges(s)
    \/ \E r \in ItemReviews : AcceptanceChanges(r)

OwnerSpec == OwnerInit /\ [][OwnerNext]_ownerVars

(* The owner decides an item once: the command an item names was consumed
   and meant for it, no second command was consumed for that item, and the
   decision survives a later review that raises the item again; what no
   consumed command settled still blocks the final gate, on whichever
   candidate it was raised (consume_owner_command,
   _record_review_item_connection, owner_blocker_state_receipt). *)
DecidedOnce ==
    /\ \A k \in OwnerCommands : queue[k] # NoCommand /\ queue[k].state = "consumed" =>
          settled[queue[k].target] = k
    /\ \A x \in Items : settled[x] # NoCommand =>
          /\ x \in Raised /\ x \notin OwnerBlockers
          /\ queue[settled[x]].state = "consumed" /\ queue[settled[x]].target = x
=============================================================================
