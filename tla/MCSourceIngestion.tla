------------------------- MODULE MCSourceIngestion -------------------------
(***************************************************************************)
(* A task feed and an issue that name the same or different work, and      *)
(* feeds whose pages do not fit together.                                  *)
(***************************************************************************)
EXTENDS SourceIngestion, TLC

Item(i, m, c, k) == [id |-> i, member |-> m, content |-> c, mechanical |-> k]

PageOf(items, n) == [items |-> items, next |-> n, echoes |-> TRUE]
Drifted(p) == [p EXCEPT !.echoes = FALSE]

(* Two sources: the feed names an item of its own and one that may be the issue. *)
TwoSources == <<"feed", "issue">>
ThreePages == "feed" :> 3 @@ "issue" :> 1
TwoItems == "feed" :> 2 @@ "issue" :> 1

FeedOf(own, other) ==
    First :> PageOf(<<own>>, "c1") @@ "c1" :> PageOf(<<other>>, Last)

IssueOf(c) == First :> PageOf(<<Item("issue-1", "m2", c, "k2")>>, Last)

IssuePages == {IssueOf("x"), IssueOf("y")}

(* Pages that are missing, drifted, repeated, in a circle or too many. *)
Line(a, b, c) == First :> PageOf(a, "c1") @@ "c1" :> PageOf(b, "c2") @@ "c2" :> c

Own == Item("a", "m1", "u", "k1")
Other == Item("b", "m3", "y", "k3")
Third == Item("c", "m4", "z", "k4")

OddFeeds ==
    {First :> PageOf(<<>>, Last),
     First :> PageOf(<<Own>>, "c9"),
     First :> PageOf(<<Own>>, "c1") @@ "c1" :> Drifted(PageOf(<<Other>>, Last)),
     First :> PageOf(<<Own>>, "c1") @@ "c1" :> PageOf(<<Other>>, "c1"),
     First :> PageOf(<<Own>>, "c1") @@ "c1" :> PageOf(<<Own>>, Last),
     Line(<<Own>>, <<>>, PageOf(<<Other>>, Last)),
     Line(<<Own>>, <<>>, PageOf(<<Other, Third>>, Last)),
     Line(<<Own>>, <<Other>>, PageOf(<<>>, "c1")),
     Line(<<Own>>, <<Other>>, PageOf(<<>>, "c3"))}

TwoFeeds ==
    {"feed" :> FeedOf(Item("a", "m1", c, k), Item("b", n, "x", "k2")) @@ "issue" :> p :
        c \in {"u", "x"}, k \in {"k1", "k2"}, n \in {"m1", "m2"},
        p \in IssuePages}
    \cup {"feed" :> f @@ "issue" :> IssueOf("x") : f \in OddFeeds}

Graph(members, edges) == [members |-> members, edges |-> edges]

TwoGraphs ==
    {Graph({<<"m1", "u">>, <<"m2", "x">>}, {}),
     Graph({<<"m1", "u">>, <<"m2", "x">>}, {<<"m1", "m2">>}),
     Graph({<<"m1", "u">>, <<"m2", "y">>, <<"m3", "z">>}, {<<"m1", "m3">>})}
=============================================================================
