---------------------------- MODULE MCMongoStore ----------------------------
(***************************************************************************)
(* Small schemas and small databases for MongoStore.  The fields are those *)
(* of editorial_models/em_simple.py.                                       *)
(***************************************************************************)
EXTENDS MongoStoreInv, MongoStoreClaims, TLC

\* text.linked_persons <-> person.linked_texts; articles and reviews are
\* texts.
ListInverse == [f \in Fields |-> IF f = "linked_texts" THEN "linked_persons"
                                                       ELSE "linked_texts"]
ListOwner == [f \in Fields |-> IF f = "linked_texts" THEN {"person"}
                                                     ELSE Classes \ {"person"}]

\* part.publication <-> publication.linked_parts; a part is a publication.
HierInverse == [f \in Fields |-> IF f = "publication" THEN "linked_parts"
                                                      ELSE "publication"]
HierOwner == [f \in Fields |-> IF f = "publication" THEN {"part"} ELSE Classes]

Obj(c, u, f, vals) ==
    [cls |-> c, uid |-> u, refs |-> [g \in Fields |-> IF g = f THEN vals ELSE {}]]

Store(objs) == [s \in Slots |-> IF s \in DOMAIN objs THEN objs[s] ELSE NoDoc]

EmptyStore == {Store(<< >>)}

\* An article and a review by the same person.
SharedAuthor == {Store(<<Obj("person", 1, "linked_texts", {2, 3}),
                         Obj("article", 2, "linked_persons", {1}),
                         Obj("review", 3, "linked_persons", {1})>>)}

\* An article written by a person, and one more person.
OneAuthor == {Store(<<Obj("person", 1, "linked_texts", {3}),
                      Obj("person", 2, "linked_texts", {}),
                      Obj("article", 3, "linked_persons", {1})>>)}

\* A part of an issue, and another issue.
OnePart == {Store(<<Obj("part", 1, "publication", {2}),
                    Obj("issue", 2, "linked_parts", {1}),
                    Obj("issue", 3, "linked_parts", {})>>)}
=============================================================================
