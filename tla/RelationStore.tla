---------------------------- MODULE RelationStore ----------------------------
(***************************************************************************)
(* What the datasource promises to a caller that is alone: objects and a   *)
(* symmetric relation between them, changed by atomic operations.          *)
(* <<x, f, y>> \in links says that field f of x lists y; then the back     *)
(* reference Inverse[f] of y lists x.                                      *)
(***************************************************************************)
EXTENDS Naturals

CONSTANTS
    Classes,    \* classes of objects
    Fields,     \* reference fields
    Inverse,    \* Inverse[f]: the back reference of f
    UidSpace        \* bound: uids an object may get

VARIABLES objects, links

vars == <<objects, links>>

Live(objs) == {o.uid : o \in objs}

\* Links join live objects and are answered by their back references.
Related(objs, rel) ==
    \A l \in rel : /\ l[1] \in Live(objs) /\ l[3] \in Live(objs)
                   /\ <<l[3], Inverse[l[2]], l[1]>> \in rel

Touching(rel, X) == {l \in rel : l[1] \in X \/ l[3] \in X}

Init == Related(objects, links)

\* The object x is stored with the links its caller gives it.
Insert(x, c) ==
    /\ x \notin Live(objects)
    /\ objects' = objects \cup {[uid |-> x, cls |-> c]}
    /\ links = links' \ Touching(links', {x})
    /\ Related(objects', links')

\* The links of x are replaced.
Update(x) ==
    /\ UNCHANGED objects
    /\ links \ Touching(links, {x}) = links' \ Touching(links', {x})
    /\ Related(objects, links')

\* The objects X disappear with all their links.
Delete(X) ==
    /\ objects' = {o \in objects : o.uid \notin X}
    /\ links' = links \ Touching(links, X)

Next ==
    \/ \E x \in UidSpace, c \in Classes : Insert(x, c)
    \/ \E x \in Live(objects) : Update(x)
    \/ \E X \in SUBSET Live(objects) : Delete(X)

Spec == Init /\ [][Next]_vars
=============================================================================
