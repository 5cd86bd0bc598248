---------------------------- MODULE MCLeObjects -----------------------------
(* A script and a worker that use a datasource with two classes.           *)
EXTENDS LeObjects

Object(u, c, n, m) == [uid |-> u, cls |-> c, n |-> n, m |-> m, d |-> <<n, m>>,
                       r |-> 1, x |-> 0]
MCStores == { <<Object(1, "A", 1, 1), Object(2, "A", 2, 1), None>>,
              <<Object(1, "A", 1, 2), Object(2, "B", 2, 2), Object(3, "B", 1, 2)>> }

MCForms == {<< >>, "n" :> 2, "n" :> Bad, "m" :> 2, "d" :> 1}

Filter(field, sub, op, val) == [field |-> field, sub |-> sub, op |-> op, val |-> val]
Atoms == {Filter("uid", None, "<=", 2), Filter("n", None, "=", 1),
          Filter("n", None, "<=", 1), Filter("n", None, "!=", 2), Filter("m", None, "<=", 1),
          Filter("cls", None, "=", "A"), Filter("r", None, "=", 1), Filter("r", "uid", "=", 0),
          Filter("r", "t", "=", 1), Filter("x", "t", "=", 1), Filter("n", "t", "=", 1)}
MCFilterLists == {<< >>} \cup [1..1 -> Atoms] \cup [1..2 -> Atoms]
                 \cup {<<Filter("n", None, "=", 1), Filter("m", None, "=", 2)>>}
                 \cup {<<Filter("n", None, "=", 1), Filter("m", None, "<=", 2), f>> : f \in Atoms}

\* The value 1 is the name of the field m, 2 that of n.
MCSpelled == <<"m", "n">>

Page(limit, offset) == [limit |-> limit, offset |-> offset]
MCPages == {None, Page(1, 0), Page(1, 1), Page(2, 0), Page(2, 1), Page(None, 1)}

\* The order from which an instance can become full the soonest.
MCDocOrders == { <<"uid", "r", "x", "n", "m", "cls", "d">> }
=============================================================================
