------------------------ MODULE MCMongoStoreRefinement ------------------------
(***************************************************************************)
(* The refinement on issues and the texts they hold: the single reference  *)
(* linked_container of a text, of one of two classes, and the list         *)
(* linked_texts that answers it (editorial_models/em_simple.py).           *)
(***************************************************************************)
EXTENDS MongoStoreRefinement

IssueInverse == [f \in Fields |-> IF f = "linked_container" THEN "linked_texts"
                                                            ELSE "linked_container"]
IssueOwner == [f \in Fields |-> IF f = "linked_container" THEN {"article", "review"}
                                                          ELSE {"issue"}]

Obj(c, u, f, vals) ==
    [cls |-> c, uid |-> u, refs |-> [g \in Fields |-> IF g = f THEN vals ELSE {}]]

\* Two issues and two texts, the texts held by the first issue.
Holding(texts) ==
    LET Text(c, u) ==
            Obj(c, u, "linked_container", IF u \in texts THEN {1} ELSE {})
    IN  [s \in Slots |->
            CASE s = 1 -> Obj("issue", 1, "linked_texts", texts)
              [] s = 2 -> Obj("issue", 2, "linked_texts", {})
              [] s = 3 -> Text("article", 3)
              [] s = 4 -> Text("review", 4)
              [] OTHER -> NoDoc]

IssueStores == {Holding({3}), Holding({3, 4})}
=============================================================================
