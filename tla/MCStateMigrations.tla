------------------------- MODULE MCStateMigrations -------------------------
(***************************************************************************)
(* Ledgers of earlier releases: populated with objectives, with reviews    *)
(* and dependency evidence, sound and unsound.                             *)
(***************************************************************************)
EXTENDS StateMigrations, TLC

At(v) == [NoRows EXCEPT !.version = v, !.id = 7]

(* Two spellings of one worktree, and another. *)
Keys == ("w" :> "w") @@ ("W" :> "w") @@ ("x" :> "x")

TaskRow(t, b, w) == [task |-> t, branch |-> b, worktree |-> w]

Owned ==
    {[At(v) EXCEPT !.tasks = {TaskRow(1, "main", "w"), TaskRow(2, b, w)}] :
        v \in {3, 57}, b \in {"main", "side"}, w \in {"W", "x"}}
    \cup {[At(v) EXCEPT !.tasks = {TaskRow(1, "main", "w")}, !.branches = {<<"main", 1>>},
                        !.keys = {<<k, t>>}] :
            v \in {60, Latest}, k \in {"w", "W"}, t \in {1, 2}}

Row(i, a, s) == [id |-> i, attempt |-> a, state |-> s, retry |-> 0]
Support(a, k) == [attempt |-> a, kind |-> k]

States == {"active", "completed", "cancelled"}
Kinds == {"dispatched", "recorded", "contradictory"}

InOneTable(v) ==
    {[At(v) EXCEPT !.objectives = {Row(1, 11, s)}, !.evidence = {Support(11, k)}] :
        s \in States, k \in Kinds}

InBothTables(v) ==
    {[At(v) EXCEPT !.objectives = {Row(1, 11, "active")}, !.records = {Row(i, a, "completed")},
                   !.evidence = {Support(11, "dispatched"), Support(12, k)}] :
        i \in {1, 2}, a \in {11, 12}, k \in {"recorded", "dispatched"}}

InTheNewTable(v) ==
    {[At(v) EXCEPT !.records = {[Row(1, 11, s) EXCEPT !.retry = 11]},
                   !.evidence = {Support(11, "dispatched")}] : s \in States}

Populous ==
    InOneTable(58) \cup InOneTable(61) \cup InOneTable(62)
    \cup InBothTables(59) \cup InBothTables(61) \cup InTheNewTable(63)
    \cup {[At(61) EXCEPT !.items = TRUE], [At(62) EXCEPT !.history = "changed"],
          [At(61) EXCEPT !.history = "unmanaged"], [At(61) EXCEPT !.id = Malformed],
          At(Latest + 1), [At(Latest) EXCEPT !.id = 0]}

Review(e, r, w, f, ds) ==
    [epoch |-> e, round |-> r, within |-> w, position |-> w, format |-> f, agrees |-> TRUE,
     authentic |-> ds]

Reviewed(v) ==
    {[At(v) EXCEPT !.reviews = <<Review(0, 1, x, 0, {1}), Review(e, r, w, f, ds)>>] :
        x \in {1, 2}, e \in {0, 1}, r \in {1, 2}, w \in {1, 3}, f \in {0, 1}, ds \in {{1}, {1, 2}}}

Generic(v) ==
    {[At(v) EXCEPT !.generic = {[attempt |-> 1, position |-> 0, format |-> 0,
                                 selected |-> "b", context |-> c, runtime |-> <<"a", "b">>]}] :
        c \in {<<"a", "b">>, <<"b">>}}

Evidence(v) ==
    {[At(v) EXCEPT !.seal = 1,
                   !.reviewed = {[attempt |-> 1, accepted |-> a, evidenced |-> TRUE,
                                  claim |-> cl, retained |-> TRUE, candidate |-> c,
                                  admission |-> ad]}] :
        a \in BOOLEAN, cl \in {"none", "session-opened", "turn-dispatched"}, c \in {1, 2},
        ad \in IF v < 74 THEN {"none"} ELSE {"none", "exact", "drifted"}}

OldLedgers ==
    Owned \cup Populous \cup Reviewed(70) \cup Reviewed(72) \cup Generic(80)
    \cup Evidence(72) \cup Evidence(83)

(* Objectives that version 62 of the program recorded. *)
RecordedAtGuard ==
    {[At(62) EXCEPT !.records = {Row(1, 11, s)}, !.evidence = {Support(11, k)}] :
        s \in States, k \in Kinds}
=============================================================================
