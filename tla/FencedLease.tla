----------------------------- MODULE FencedLease -----------------------------
(***************************************************************************)
(* What the transition lease promises to the transactions it guards: time  *)
(* is cut into epochs, an epoch belongs to one owner for ever, and only a  *)
(* process with a ticket of the current epoch may commit.  Clocks,         *)
(* durations, rows and races are TransitionLease's business.               *)
(***************************************************************************)
EXTENDS Naturals

CONSTANTS Processes,      \* operating system processes that use the database
          OwnerOf         \* the owner token each of them presents

VARIABLES epoch,          \* number of the current epoch, 0 before the first
          epochOwner,     \* epochOwner[n] is the owner of epoch n
          ticket,         \* ticket[p] is the epoch p believes it holds, or 0
          lastCommit      \* the epoch of the latest guarded commit

fencedVars == <<epoch, epochOwner, ticket, lastCommit>>

FencedInit ==
    /\ epoch = 0
    /\ epochOwner = <<>>
    /\ ticket = [p \in Processes |-> 0]
    /\ lastCommit = 0

(* A new epoch starts, for p's owner. *)
Take(p) ==
    /\ epoch' = epoch + 1
    /\ epochOwner' = [n \in 1..(epoch + 1) |-> IF n = epoch + 1 THEN OwnerOf[p]
                                                               ELSE epochOwner[n]]
    /\ ticket' = [ticket EXCEPT ![p] = epoch + 1]
    /\ UNCHANGED lastCommit

(* A process of the epoch's owner gets a ticket of the running epoch. *)
Share(p) ==
    /\ epoch > 0
    /\ epochOwner[epoch] = OwnerOf[p]
    /\ ticket' = [ticket EXCEPT ![p] = epoch]
    /\ UNCHANGED <<epoch, epochOwner, lastCommit>>

(* A process gives its ticket back, or dies. *)
Drop(p) ==
    /\ ticket' = [ticket EXCEPT ![p] = 0]
    /\ UNCHANGED <<epoch, epochOwner, lastCommit>>

(* Mutant: any process may commit. *)
UnfencedCommit(p) ==
    /\ epoch > 0
    /\ lastCommit' = epoch
    /\ UNCHANGED <<epoch, epochOwner, ticket>>

(* A guarded transaction commits. *)
FencedCommit(p) ==
    /\ epoch > 0
    /\ ticket[p] = epoch
    /\ lastCommit' = epoch
    /\ UNCHANGED <<epoch, epochOwner, ticket>>

FencedNext == \E p \in Processes : Take(p) \/ Share(p) \/ Drop(p) \/ FencedCommit(p)

FencedSpec == FencedInit /\ [][FencedNext]_fencedVars
==============================================================================
