------------------------- MODULE MongoStoreRefinement -------------------------
(***************************************************************************)
(* MongoStore implements RelationStore for careful callers.  An operation  *)
(* takes effect for the caller when it stores its object (insert, update)  *)
(* or when it starts (delete).                                             *)
(***************************************************************************)
EXTENDS MongoStore

CONSTANT UidSpace   \* bound: uids an object may get

\* No worker is killed.
ASSUME CarefulAssumption == ~MayCrash

\* Some object has uid y and is of a class that field f may refer to.
Exists(f, y) ==
    \E s \in Used(docs) : docs[s].uid = y /\ docs[s].cls \in Owner[Inverse[f]]

\* The objects y and z are of one class.
SameClass(y, z) ==
    \A s, t \in Used(docs) :
        docs[s].uid = y /\ docs[t].uid = z => docs[s].cls = docs[t].cls

\* The back reference a change is to fill is a list, or holds nothing.
Vacant(ch) ==
    LET g == Inverse[ch.fld]
    IN  g \in Single =>
            \A s \in Used(docs) : docs[s].uid = ch.val => docs[s].refs[g] = {}

(***************************************************************************)
(* The changes one object asks for can all be made: no single reference is *)
(* moved from one object to another (the new one is never told), none that *)
(* another object answers is taken over (that object is never told), and   *)
(* each field is changed for objects of one class (bref_cls is rebound to  *)
(* the class of the first).                                                *)
(***************************************************************************)
Feasible(chs) ==
    \A ch \in chs : /\ ch.mode # "swap"
                    /\ ch.mode = "add" => Vacant(ch)
                    /\ \A other \in chs : other.fld = ch.fld =>
                                              SameClass(ch.val, other.val)

\* The changes a call has still to make, object by object.
Asked(c) ==
    {c.todo}
    \cup {Changes(NoRefs, c.new) : pc \in {c.pc} \cap {"insert"}}
    \cup {Changes(old.refs, IF c.kind = "delete" THEN NoRefs ELSE c.new)
             : old \in c.olds}
    \cup UNION {{Changes(docs[s].refs, item.refs)
                    : s \in Matching(c.cls, {item.uid})} : item \in c.fetched}

(***************************************************************************)
(* A call starts when no other is in flight, with data that names existing *)
(* objects other than its own, and asks for what can be done.              *)
(***************************************************************************)
CarefulCallers ==
    \A p \in Procs : ~Active(p) /\ call'[p].pc # "idle" =>
        /\ \A q \in Procs : ~Active(q)
        /\ \A refs \in {call'[p].new} \cup {i.refs : i \in call'[p].fetched} :
              \A f \in Fields : \A y \in refs[f] : y # call'[p].cur /\ Exists(f, y)
        /\ \A chs \in Asked(call'[p]) : Feasible(chs)

\* No object refers to itself.
NoSelfReference ==
    \A s \in Used(docs), f \in Fields : docs[s].uid \notin docs[s].refs[f]

CarefulInit == Init /\ NoSelfReference

CarefulNext == Next /\ CarefulCallers

CarefulSpec == CarefulInit /\ [][CarefulNext]_vars

-----------------------------------------------------------------------------
(***************************************************************************)
(* What careful callers keep out of the calls and of the database:         *)
(* suspects, references of an object to itself or to what is not there,    *)
(* and changes that can not be made.                                       *)
(***************************************************************************)
\* The data to be stored names existing objects other than its own.
CarefulData(c) ==
    c.kind # "delete" =>
        \A refs \in {c.new} \cup {i.refs : i \in c.fetched} :
            \A f \in Fields : \A y \in refs[f] : y # c.cur /\ Exists(f, y)

CarefulChanges(c) ==
    \A ch \in c.todo : /\ ch.val # c.cur
                       /\ ch.mode = "add" => Exists(ch.fld, ch.val)

\* No object read or back reference prepared is one of an object to itself.
NotSelf(c) ==
    /\ \A i \in c.olds, f \in Fields : i.uid \notin i.refs[f]
    /\ \A w \in c.upd : w.uid # c.cur /\ w.uid \notin w.val

CanBeDone(c) == \A chs \in Asked(c) : Feasible(chs)

\* The objects still to be found are of the class the lookup is narrowed to.
Findable(c) ==
    /\ c.pc = "insert" => c.narrow = {}
    /\ \A ch \in c.todo, n \in c.narrow : n[1] = ch.fld =>
          \A s \in Used(docs) : docs[s].uid = ch.val => docs[s].cls = n[2]

\* A single reference is only overwritten for the object it holds.
NoTheft(c) ==
    \A w \in c.upd : w.fld \in Single =>
        \A s \in Used(docs) : docs[s].uid = w.uid =>
                                  docs[s].refs[w.fld] \subseteq {c.cur}

CarefulCall(c) ==
    /\ c.alone /\ CarefulData(c) /\ CarefulChanges(c) /\ NotSelf(c)
    /\ CanBeDone(c) /\ Findable(c) /\ NoTheft(c)

CarefulInv ==
    /\ suspect = {}
    /\ \A p \in Procs : CarefulCall(call[p])
    /\ NoSelfReference

-----------------------------------------------------------------------------
\* Uids an insert or update has written, whose own fields say what is related.
Writing == {call[p].cur : p \in {q \in Procs : /\ call[q].pc = "bref"
                                               /\ call[q].kind # "delete"
                                               /\ call[q].dirty}}

Deleting == UNION {call[p].target : p \in {q \in Procs :
                               Active(q) /\ call[q].kind = "delete"}}

ObjectsIn(store, D) ==
    {[uid |-> store[s].uid, cls |-> store[s].cls]
        : s \in {t \in Used(store) : store[t].uid \notin D}}

AbstractObjects == ObjectsIn(docs, Deleting)

\* The links read in the objects W being written and, between others, in both.
LinksIn(store, W, D) ==
    LET Stored  == UNION {UNION {{<<store[s].uid, f, y>> : y \in store[s].refs[f]}
                                    : f \in Fields}
                             : s \in {t \in Used(store) : store[t].uid \notin D}}
        Mine    == {l \in Stored : l[1] \in W}
        Answers == {<<l[3], Inverse[l[2]], l[1]>> : l \in Mine}
    IN  Mine \cup Answers \cup
        {l \in Stored : l[1] \notin W /\ l[3] \notin W \cup D}

AbstractLinks == LinksIn(docs, Writing, Deleting)

Abstract == INSTANCE RelationStore WITH objects <- AbstractObjects,
                                        links <- AbstractLinks

(***************************************************************************)
(* The steps of an operation, its back references included, amount to one  *)
(* change of a symmetric relation; none of them is seen by the caller.     *)
(***************************************************************************)
ImplementsRelationStore == Abstract!Spec
=============================================================================
