-------------------------- MODULE MCEditorialModel --------------------------
(***************************************************************************)
(* Small models built call by call, one group requiring the other, and the *)
(* models of the repository as they stand.                                 *)
(***************************************************************************)
EXTENDS EmScripts

TwoGroups == Group("g1", << >>) \o Group("g2", <<"g1">>)
\* The second group of the uid g1 requires the first one.
ThreeGroups == TwoGroups \o Group("g1b", <<"g1">>)
MCScripts == {TwoGroups, ThreeGroups, EmSimple, EmTest, LodelSites}

\* c2b is a second class of the uid c2, g1b a second group of the uid g1.
MCUid(x) == CASE x = "c2b" -> "c2" [] x = "g1b" -> "g1" [] OTHER -> x

MCNewClasses ==
    {Class("c1", << >>, "g1", TRUE, FALSE), Class("c1", << >>, "g2", FALSE, FALSE),
     Class("c1", << >>, "g1", TRUE, TRUE), Class("c1", << >>, None, TRUE, FALSE),
     Class("c2", << >>, "g1", FALSE, FALSE), Class("c2", <<"c1">>, "g1", FALSE, FALSE),
     Class("c2", <<"c1">>, "g2", FALSE, FALSE),
     Class("c3", <<"c2">>, "g2", FALSE, FALSE), Class("c3", <<"c2", "c1">>, "g1", FALSE, FALSE),
     Class("c2b", << >>, "g1", FALSE, FALSE), Class("c2b", <<"c3">>, "g2", TRUE, FALSE)}

MCNewFields ==
    {Field("c1", "x", "varchar", g, {}, None, [max_length |-> "number"]) : g \in {"g1", "g2"}}
    \cup {Field("c2", "x", h, "g1", {}, None, [uniq |-> "True"]) : h \in {"varchar", "integer"}}
    \cup {Field("c1", "y", "link", "g2", {r}, <<r, "x">>, [default |-> "None"]) :
            r \in {"c1", "c3"}}
    \cup {Field("c3", "y", "link", "g1", {r}, None, [nullable |-> "True"]) : r \in {"c1", "c2"}}
=============================================================================
