--------------------------- MODULE MCTaskLifecycle ---------------------------
(***************************************************************************)
(* One task followed to the end beside a rival that is only admitted (and  *)
(* has artifacts): t2 may come with t1's branch, with another              *)
(* spelling of t1's worktree, with t1's source under the same or another   *)
(* repository, or with everything of its own.                              *)
(***************************************************************************)
EXTENDS TaskLifecycle, FiniteSetsExt

Id(task, source, repository, branch, worktree) ==
    [task |-> task, source |-> source, repository |-> repository, branch |-> branch,
     worktree |-> worktree, base |-> "base"]

OneIdentity == {Id("t1", "s1", "repo", "b1", "/w/one")}

RivalIdentities ==
    OneIdentity \cup
    {Id("t2", "s2", "repo", "b1", "/w/two"),
     Id("t2", "s2", "repo", "b2", "/w/./one"),
     Id("t2", "s1", "repo", "b2", "/w/two"),
     Id("t2", "s1", "fork", "b2", "/w/two"),
     Id("t2", "s2", "repo", "b2", "/w/two")}

MCKeyOf == [w \in Worktrees |-> IF w = "/w/two" THEN "/w/two" ELSE "/w/one"]

(***************************************************************************)
(* Fingerprints are only compared, so without loss of generality a fresh   *)
(* one is the smallest unused number.                                      *)
(***************************************************************************)
Spent == UNION {{events[t][i].evidence : i \in 1..Len(events[t])} : t \in TaskIds}

Presentable == {f \in Fingerprints : f <= Max(Spent \cup {0}) + 1}

MCNext ==
    \/ \E id \in Identities :
          \/ \E digest \in Digests : AdmitTask(id, digest)
          \/ \E kind \in ArtifactKinds : RecordArtifact(id, kind, 1)
    \/ \E id \in OneIdentity :
          \/ \E evidence \in Presentable : Advance(id, evidence)
          \/ Annotate(id)

MCSpec == TaskInit /\ [][MCNext]_taskVars
==============================================================================
