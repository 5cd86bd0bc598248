----------------------------- MODULE MongoStore -----------------------------
(***************************************************************************)
(* The write path of the MongoDB datasource and the back references it     *)
(* maintains: MongoDbDatasource.insert, update and delete                  *)
(* (lodel/plugins/mongodb_datasource/datasource.py) as the LeAPI queries   *)
(* call them (lodel/leapi/query.py), run by worker processes that share    *)
(* one database.                                                           *)
(*                                                                         *)
(* A reference field f of an object x lists the uids of other objects.     *)
(* Its back_reference names the field Inverse[f] in which every object y   *)
(* listed by x.f is to list x in return.  The datasource has no            *)
(* transaction: each step below is one database call.                      *)
(*                                                                         *)
(* A list, a tuple or a set of uids is modelled by the set of its members, *)
(* a single reference by a set of at most one member, None by {}.          *)
(***************************************************************************)
EXTENDS Naturals, FiniteSets

CONSTANTS
    Procs,          \* worker processes
    Classes,        \* concrete classes: one MongoDB collection each
    Fields,         \* reference fields that have a back reference
    Single,         \* those that hold one uid (datahandler link)
    Inverse,        \* Inverse[f]: the field named by f's back_reference
    Owner,          \* Owner[f]: concrete classes whose objects have field f
    Slots,          \* identities of documents, MongoDB's _id
    NoDoc,          \* an unused slot
    RefUids,        \* the uids a caller may put in a reference field
    InitialStores,  \* contents of the database when the workers start
    MayCrash,       \* whether a worker may be killed within an operation
    MaxBundle,      \* bound: uids selected by one delete
    MaxOps          \* bound: operations started

Refs == [Fields -> SUBSET Nat]
Doc  == [cls : Classes, uid : Nat, refs : Refs]
Item == [slot : Slots, uid : Nat, refs : Refs]

AtMostOne(S) == \A a, b \in S : a = b

\* What the data handlers accept for an object of class c.
FitsClass(c, r) ==
    \A f \in Fields : /\ c \notin Owner[f] => r[f] = {}
                      /\ f \in Single => AtMostOne(r[f])

Used(store) == {s \in Slots : store[s] # NoDoc}
Uids(store) == {store[s].uid : s \in Used(store)}

\* Some document with uid x lists y in its field f.
Lists(store, x, f, y) ==
    \E s \in Used(store) : store[s].uid = x /\ y \in store[s].refs[f]

\* Outside the set Q of uids, a uid is the uid of one document, and a
\* reference is answered by its back reference.
UniqueOutside(store, Q) ==
    \A s, t \in Used(store) :
        store[s].uid = store[t].uid /\ store[s].uid \notin Q => s = t

AnsweredOutside(store, Q) ==
    \A s \in Used(store) : store[s].uid \notin Q =>
        \A f \in Fields : \A y \in store[s].refs[f] \ Q :
            Lists(store, y, Inverse[f], store[s].uid)

ConsistentOutside(store, Q) ==
    UniqueOutside(store, Q) /\ AnsweredOutside(store, Q)

WellFormed(store) ==
    \A s \in Used(store) : /\ store[s].uid > 0
                           /\ FitsClass(store[s].cls, store[s].refs)

ASSUME SchemaAssumption ==
    /\ Single \subseteq Fields
    /\ Inverse \in [Fields -> Fields]
    /\ \A f \in Fields : Inverse[Inverse[f]] = f
    /\ Owner \in [Fields -> SUBSET Classes]
    /\ RefUids \subseteq Nat
    /\ NoDoc \notin Doc
    /\ MayCrash \in BOOLEAN
    /\ Classes # {}
    /\ MaxOps \in Nat

ASSUME InitialAssumption ==
    \A store \in InitialStores :
        /\ store \in [Slots -> Doc \cup {NoDoc}]
        /\ WellFormed(store)
        /\ ConsistentOutside(store, {})

VARIABLES
    docs,       \* the database: slot -> document
    call,       \* the datasource call each worker is in
    suspect,    \* history: uids of objects the store can not vouch for
    started     \* number of operations started (bounded by MaxOps)

vars == <<docs, call, suspect, started>>

-----------------------------------------------------------------------------
(***************************************************************************)
(* The changes of back references an old and a new value of the reference  *)
(* fields ask for.  "swap" is the one change prepared for a single         *)
(* reference that has both an old and a new value: it names the old one.   *)
(***************************************************************************)
NoRefs == [f \in Fields |-> {}]

Change == [fld : Fields, val : Nat, mode : {"del", "add", "swap"}]

FieldChangesAddOnly(f, old, new) ==
    {[fld |-> f, val |-> v, mode |-> "add"] : v \in new \ old}

FieldChanges(f, old, new) ==
    LET Of(vals, mode) == {[fld |-> f, val |-> v, mode |-> mode] : v \in vals}
    IN  IF f \in Single /\ old # {} /\ new # {} /\ old # new
        THEN Of(old, "swap")
        ELSE Of(old \ new, "del") \cup Of(new \ old, "add")

Changes(old, new) == UNION {FieldChanges(f, old[f], new[f]) : f \in Fields}

\* One back reference g = val of an object, changed for the object x.
BrefAccepts(g, mode, val, x) ==
    IF g \in Single THEN mode = "swap" => val = {x}
                    ELSE (x \in val) <=> (mode # "add")

BrefValueAppend(g, mode, val, x) ==
    IF mode = "del" THEN val \ {x} ELSE val \cup {x}

BrefValueReplace(g, mode, val, x) ==
    IF mode = "del" THEN val \ {x} ELSE {x}

BrefValue(g, mode, val, x) ==
    CASE mode = "swap" -> val
      [] mode = "del"  -> IF g \in Single THEN {} ELSE val \ {x}
      [] mode = "add"  -> IF g \in Single THEN {x} ELSE val \cup {x}

-----------------------------------------------------------------------------
(***************************************************************************)
(* The state of a worker: the datasource call it is in.                    *)
(***************************************************************************)
BrefWrite == [cls : Classes, uid : Nat, fld : Fields, val : SUBSET Nat]

Frame == [pc      : {"idle", "insert", "set", "bref"},
          kind    : {"insert", "update", "delete"},
          cls     : Classes,           \* target
          target  : SUBSET Nat,        \* uids in the filters
          fetched : SUBSET Item,       \* merged data LeUpdateQuery has left
          olds    : SUBSET Item,       \* old_datas_l that is left
          cur     : Nat,               \* tuid
          new     : Refs,              \* upd_datas, new_datas
          todo    : SUBSET Change,     \* back references to read
          narrow  : SUBSET (Fields \X Classes), \* bref_cls as rebound by the loop
          upd     : SUBSET BrefWrite,  \* upd_dict
          alone   : BOOLEAN,           \* history: no other call overlapped
          dirty   : BOOLEAN]           \* history: it has written

Idle == [pc |-> "idle", kind |-> "insert", cls |-> CHOOSE c \in Classes : TRUE,
         target |-> {}, fetched |-> {}, olds |-> {}, cur |-> 0,
         new |-> NoRefs, todo |-> {}, narrow |-> {}, upd |-> {},
         alone |-> TRUE, dirty |-> FALSE]

Active(p) == call[p].pc # "idle"

\* Documents of collection c that a filter on the uids U selects.
Matching(c, U) == {s \in Used(docs) : docs[s].cls = c /\ docs[s].uid \in U}

Fetch(S) == {[slot |-> s, uid |-> docs[s].uid, refs |-> docs[s].refs] : s \in S}

\* Every back reference of the current object has been read.
PreparedEarly(p) == call[p].pc = "bref"

Prepared(p) == call[p].pc = "bref" /\ call[p].todo = {}

\* No back reference is left to read or to write for the current object.
SettledUnwritten(p) == Prepared(p)

Settled(p) == Prepared(p) /\ call[p].upd = {}

-----------------------------------------------------------------------------
Init == /\ docs \in InitialStores
        /\ call = [p \in Procs |-> Idle]
        /\ suspect = {}
        /\ started = 0

\* A worker enters the datasource; calls that overlap know it.
Enter(p, frame) ==
    /\ ~Active(p)
    /\ started < MaxOps
    /\ started' = started + 1
    /\ call' = [q \in Procs |->
                  IF q = p
                  THEN [frame EXCEPT !.alone = \A r \in Procs : ~Active(r)]
                  ELSE [call[q] EXCEPT !.alone = @ /\ ~Active(q)]]
    /\ UNCHANGED <<docs, suspect>>

\* The call returns (ok) or raises.  Objects a failed or overlapped call has
\* written are suspect from now on, and so are those in more.
Leave(p, ok, more) ==
    /\ call' = [call EXCEPT ![p] = Idle]
    /\ suspect' = suspect \cup more \cup
                  (IF call[p].dirty /\ ~(ok /\ call[p].alone)
                   THEN call[p].target ELSE {})
    /\ UNCHANGED started

Goto(p, frame) == call' = [call EXCEPT ![p] = frame] /\ UNCHANGED started

-----------------------------------------------------------------------------
(***************************************************************************)
(* insert: LeInsertQuery._query and MongoDbDatasource.insert.  The uid is  *)
(* one more than the greatest in use when UniqID.construct_data asks.      *)
(***************************************************************************)
Insert(p, c, refs) ==
    /\ \E top \in Uids(docs) \cup {0} :
          /\ \A u \in Uids(docs) : u <= top
          /\ Enter(p, [Idle EXCEPT !.pc = "insert", !.kind = "insert",
                                   !.cls = c, !.target = {top + 1},
                                   !.cur = top + 1, !.new = refs])

InsertDoc(p) ==
    /\ call[p].pc = "insert"
    /\ \E s \in Slots \ Used(docs) :
          docs' = [docs EXCEPT ![s] = [cls  |-> call[p].cls,
                                       uid  |-> call[p].cur,
                                       refs |-> call[p].new]]
    /\ Goto(p, [call[p] EXCEPT !.pc = "bref", !.dirty = TRUE,
                               !.todo = Changes(NoRefs, call[p].new)])
    /\ UNCHANGED suspect

(***************************************************************************)
(* update: LeUpdateQuery._query selects whole objects, merges the given    *)
(* fields into each and passes it to MongoDbDatasource.update, which reads *)
(* the current document, overwrites it, then updates the back references.  *)
(***************************************************************************)
Update(p, c, u, given, refs) ==
    LET Merge(r) == [f \in Fields |-> IF f \in given THEN refs[f] ELSE r[f]]
    IN  Enter(p, [Idle EXCEPT !.pc = "bref", !.kind = "update", !.cls = c,
                    !.target = {u}, !.cur = u,
                    !.fetched = {[i EXCEPT !.refs = Merge(i.refs)] :
                                   i \in Fetch(Matching(c, {u}))}])

FindForUpdate(p) ==
    /\ Settled(p)
    /\ call[p].olds = {}
    /\ \E item \in call[p].fetched :
          Goto(p, [call[p] EXCEPT
                     !.pc = "set", !.cur = item.uid, !.new = item.refs,
                     !.olds = Fetch(Matching(call[p].cls, {item.uid})),
                     !.fetched = @ \ {item}])
    /\ UNCHANGED <<docs, suspect>>

\* A single reference moved to another object: its new target is never told.
Retargeted(p) ==
    \E old \in call[p].olds, f \in Single :
        \E ch \in FieldChanges(f, old.refs[f], call[p].new[f]) : ch.mode = "swap"

SetDoc(p) ==
    LET found == Matching(call[p].cls, {call[p].cur})
    IN  /\ call[p].pc = "set"
        /\ \/ found = {} /\ UNCHANGED docs
           \/ \E s \in found :
                 docs' = [docs EXCEPT ![s].refs = call[p].new]
        /\ Goto(p, [call[p] EXCEPT !.pc = "bref", !.dirty = @ \/ found # {}])
        /\ suspect' = suspect \cup
                      (IF Retargeted(p) THEN call[p].target ELSE {})

(***************************************************************************)
(* delete: the documents are found, the back references of each are        *)
(* updated, and then one call removes what the filters match by now.       *)
(***************************************************************************)
Delete(p, c, U) ==
    Enter(p, [Idle EXCEPT !.pc = "bref", !.kind = "delete", !.cls = c,
                          !.target = U, !.olds = Fetch(Matching(c, U))])

RemoveDocs(p) ==
    /\ Settled(p)
    /\ call[p].kind = "delete"
    /\ call[p].olds = {}
    /\ docs' = [s \in Slots |-> IF s \in Matching(call[p].cls, call[p].target)
                                THEN NoDoc ELSE docs[s]]
    /\ Leave(p, TRUE, IF call[p].alone THEN {} ELSE call[p].target)

-----------------------------------------------------------------------------
(***************************************************************************)
(* __update_backref, for one old document: every back reference is read    *)
(* and its new value prepared (ReadBref), and only then are the prepared   *)
(* values written, one referenced document at a time (WriteBref).          *)
(***************************************************************************)
TakeOld(p) ==
    /\ Settled(p)
    /\ \E old \in call[p].olds :
          Goto(p, [call[p] EXCEPT
                     !.olds = @ \ {old}, !.cur = old.uid, !.narrow = {},
                     !.todo = Changes(old.refs, IF call[p].kind = "delete"
                                                THEN NoRefs
                                                ELSE call[p].new)])
    /\ UNCHANGED <<docs, suspect>>

\* Fields are treated one after the other, the values to delete first.
NextChange(p, ch) ==
    /\ call[p].pc = "bref"
    /\ ch \in call[p].todo
    /\ \A other \in call[p].todo :
          /\ other.fld # ch.fld =>
                 ~\E c \in Classes : <<other.fld, c>> \in call[p].narrow
          /\ other.fld = ch.fld /\ other.mode = "del" => ch.mode # "add"

\* The documents bref_cls.get_from_uid can return: after the first value of
\* a field the loop looks in the class of the object it found first.
BrefTargetsOfOwner(p, ch) ==
    {s \in Used(docs) : docs[s].uid = ch.val /\ docs[s].cls \in Owner[ch.fld]}

BrefTargets(p, ch) ==
    {s \in Used(docs) :
        /\ docs[s].uid = ch.val
        /\ docs[s].cls \in Owner[Inverse[ch.fld]]
        /\ \A c \in Classes :
              <<ch.fld, c>> \in call[p].narrow => docs[s].cls = c}

ReadBref(p) ==
    /\ \E ch \in call[p].todo :
          /\ NextChange(p, ch)
          /\ \E s \in BrefTargets(p, ch) :
                LET g   == Inverse[ch.fld]
                    val == docs[s].refs[g]
                IN  /\ BrefAccepts(g, ch.mode, val, call[p].cur)
                    /\ Goto(p, [call[p] EXCEPT
                          !.todo = @ \ {ch},
                          !.narrow = @ \cup {<<ch.fld, docs[s].cls>>},
                          !.upd = @ \cup {[cls |-> docs[s].cls, uid |-> ch.val,
                                           fld |-> g,
                                           val |-> BrefValue(g, ch.mode, val,
                                                             call[p].cur)]}])
    /\ UNCHANGED <<docs, suspect>>

\* MongoDbConsistencyError: the object is not found, or its back reference
\* is not what the change expects.
ConsistencyError(p) ==
    /\ \E ch \in call[p].todo :
          /\ NextChange(p, ch)
          /\ \/ BrefTargets(p, ch) = {}
             \/ \E s \in BrefTargets(p, ch) :
                   LET g == Inverse[ch.fld]
                   IN  ~BrefAccepts(g, ch.mode, docs[s].refs[g], call[p].cur)
    /\ Leave(p, FALSE, {})
    /\ UNCHANGED docs

\* The fields of one document, with the prepared values put in.
Overwrite(refs, writes) ==
    [f \in Fields |-> IF \E w \in writes : w.fld = f
                      THEN (CHOOSE w \in writes : w.fld = f).val
                      ELSE refs[f]]

\* A single back reference that held another object is overwritten.
Stolen(s, writes, x) ==
    \E w \in writes : w.fld \in Single /\ docs[s].refs[w.fld] \ {x} # {}

WriteBref(p) ==
    /\ Prepared(p)
    /\ \E w0 \in call[p].upd :
          LET writes == {w \in call[p].upd : w.cls = w0.cls /\ w.uid = w0.uid}
              found  == Matching(w0.cls, {w0.uid})
          IN  /\ Goto(p, [call[p] EXCEPT !.upd = @ \ writes,
                                             !.dirty = @ \/ found # {}])
              /\ \/ found = {} /\ UNCHANGED <<docs, suspect>>
                 \/ \E s \in found :
                       /\ docs' = [docs EXCEPT ![s].refs =
                                          Overwrite(docs[s].refs, writes)]
                       /\ suspect' = suspect \cup
                            (IF Stolen(s, writes, call[p].cur)
                             THEN {w0.uid} ELSE {})

-----------------------------------------------------------------------------
Return(p) ==
    /\ Settled(p)
    /\ call[p].kind # "delete"
    /\ call[p].olds = {}
    /\ call[p].fetched = {}
    /\ Leave(p, TRUE, {})
    /\ UNCHANGED docs

\* The worker process is killed; another one takes its place.
Crash(p) ==
    /\ MayCrash
    /\ Active(p)
    /\ Leave(p, FALSE, {})
    /\ UNCHANGED docs

\* What the callers may ask for.
Operation(p) ==
    \E c \in Classes :
        \/ \E refs \in [Fields -> SUBSET RefUids] :
              FitsClass(c, refs) /\ Insert(p, c, refs)
        \/ \E u \in {docs[s].uid : s \in Matching(c, Uids(docs))},
              given \in SUBSET {f \in Fields : c \in Owner[f]} :
              \E refs \in [Fields -> SUBSET RefUids] :
                 /\ FitsClass(c, refs)
                 /\ \A f \in Fields \ given : refs[f] = {}
                 /\ Update(p, c, u, given, refs)
        \/ \E U \in SUBSET {docs[s].uid : s \in Matching(c, Uids(docs))} :
              /\ U # {} /\ Cardinality(U) <= MaxBundle
              /\ Delete(p, c, U)

Step(p) ==
    \/ InsertDoc(p) \/ FindForUpdate(p) \/ SetDoc(p) \/ RemoveDocs(p)
    \/ TakeOld(p) \/ ReadBref(p) \/ ConsistencyError(p) \/ WriteBref(p)
    \/ Return(p) \/ Crash(p)

\* The bound on the operations is reached.
Stop == /\ started = MaxOps
        /\ \A p \in Procs : ~Active(p)
        /\ UNCHANGED vars

Next == (\E p \in Procs : Operation(p) \/ Step(p)) \/ Stop

Spec == Init /\ [][Next]_vars

-----------------------------------------------------------------------------
(***************************************************************************)
(* Properties.                                                             *)
(***************************************************************************)

\* Type invariant: the documents stay well formed, whatever overlaps or fails.
TypeOK == /\ docs \in [Slots -> Doc \cup {NoDoc}]
          /\ WellFormed(docs)
          /\ call \in [Procs -> Frame]
          /\ suspect \subseteq Nat
          /\ started \in 0..MaxOps

\* Objects that may be out of step with their back references: the suspects
\* and the targets of the calls that have begun to write.
Quarantine ==
    suspect \cup UNION {call[p].target : p \in {q \in Procs :
                                             Active(q) /\ call[q].dirty}}

(***************************************************************************)
(* Damage is contained: at every moment every reference is answered by its *)
(* back reference and every uid is the uid of one document, except where   *)
(* an endpoint is the target of a call that is writing, was the target of  *)
(* a call that wrote and then failed, was killed or had overlapped another *)
(* one, or had a single reference moved or overwritten.                    *)
(***************************************************************************)
Contained == ConsistentOutside(docs, Quarantine)

Refused(p, ch) ==
    \/ BrefTargets(p, ch) = {}
    \/ \E s \in BrefTargets(p, ch) :
          LET g == Inverse[ch.fld]
          IN  ~BrefAccepts(g, ch.mode, docs[s].refs[g], call[p].cur)

(***************************************************************************)
(* A call no other call overlaps raises MongoDbConsistencyError only if    *)
(* its object or the referenced object is suspect, if it refers to itself, *)
(* if the caller named an object that does not exist or is of a class the  *)
(* field does not allow, or if a field mixes objects of several classes.   *)
(***************************************************************************)
RefusalExplained ==
    \A p \in Procs : \A ch \in call[p].todo :
        call[p].alone /\ NextChange(p, ch) /\ Refused(p, ch) =>
            \/ {ch.val, call[p].cur} \cap suspect # {}
            \/ ch.val = call[p].cur
            \/ /\ ch.mode = "add"
               /\ \A s \in Used(docs) :
                     docs[s].uid = ch.val =>
                        docs[s].cls \notin Owner[Inverse[ch.fld]]
            \/ \E s \in Used(docs), c \in Classes :
                  /\ docs[s].uid = ch.val /\ docs[s].cls # c
                  /\ <<ch.fld, c>> \in call[p].narrow

(***************************************************************************)
(* A delete of one sound object that no other call overlaps and that can   *)
(* still raise MongoDbConsistencyError has written nothing: all its back   *)
(* references are read and checked before the first is written.            *)
(***************************************************************************)
RefusedDeleteHarmless ==
    \A p \in Procs :
        /\ call[p].kind = "delete" /\ call[p].alone
        /\ call[p].target = {call[p].cur} \ suspect
        /\ call[p].todo # {}
        => ~call[p].dirty
=============================================================================
