--------------------------- MODULE MongoStoreProofs ---------------------------
(***************************************************************************)
(* Theorems about MongoStore, for every schema, every number of workers    *)
(* and every set of uids.  First the types; then that damage is contained  *)
(* and refusals have a reason: IInv and, given it, RefusalInv (module      *)
(* MongoStoreInv) are inductive, and Contained, RefusalExplained and       *)
(* RefusedDeleteHarmless (module MongoStore) follow.                       *)
(***************************************************************************)
EXTENDS MongoStoreInv, TLAPS

-----------------------------------------------------------------------------
(***************************************************************************)
(* Types of the operators the actions are built from.                      *)
(***************************************************************************)
\* No reference at all suits every class.
LEMMA NoRefsFit ==
    NoRefs \in Refs /\ \A c \in Classes : FitsClass(c, NoRefs)
BY SchemaAssumption DEF NoRefs, Refs, FitsClass, AtMostOne

LEMMA IdleType == Idle \in Frame /\ Fits(Idle) /\ Idle.pc = "idle"
<1>1. (CHOOSE c \in Classes : TRUE) \in Classes
    BY SchemaAssumption
<1> QED
    BY <1>1, NoRefsFit DEF Idle, Frame, Fits

\* The back references to change for a field are those of its values.
LEMMA FieldChangesType ==
    ASSUME NEW f \in Fields, NEW old \in SUBSET Nat, NEW new \in SUBSET Nat
    PROVE  FieldChanges(f, old, new) \in SUBSET Change
BY DEF FieldChanges, Change

LEMMA ChangesType ==
    ASSUME NEW old \in Refs, NEW new \in Refs
    PROVE  Changes(old, new) \in SUBSET Change
<1>1. \A f \in Fields : FieldChanges(f, old[f], new[f]) \in SUBSET Change
    BY FieldChangesType DEF Refs
<1> QED
    BY <1>1 DEF Changes

\* What is fetched from a collection suits its class and the filter.
LEMMA FetchType ==
    ASSUME docs \in [Slots -> Doc \cup {NoDoc}], WellFormed(docs),
           NEW c \in Classes, NEW U \in SUBSET Nat
    PROVE  /\ Fetch(Matching(c, U)) \in SUBSET Item
           /\ \A i \in Fetch(Matching(c, U)) :
                 i.uid \in U /\ FitsClass(c, i.refs)
BY DEF Fetch, Matching, Used, Item, Doc, WellFormed

\* A prepared value suits the back reference it is for.
LEMMA BrefValueType ==
    ASSUME NEW g \in Fields, NEW mode \in {"del", "add", "swap"},
           NEW val \in SUBSET Nat, NEW x \in Nat, BrefAccepts(g, mode, val, x)
    PROVE  /\ BrefValue(g, mode, val, x) \in SUBSET Nat
           /\ g \in Single => BrefValue(g, mode, val, x) \subseteq {x}
BY DEF BrefAccepts, BrefValue
\* So does a document whose back references are overwritten.
LEMMA OverwriteType ==
    ASSUME NEW c \in Classes, NEW r \in Refs, FitsClass(c, r),
           NEW writes \in SUBSET BrefWrite, NEW x \in Nat,
           \A w \in writes : /\ w.cls = c
                             /\ w.cls \in Owner[w.fld]
                             /\ w.fld \in Single => w.val \subseteq {x}
    PROVE  Overwrite(r, writes) \in Refs /\ FitsClass(c, Overwrite(r, writes))
<1> DEFINE v(f) == CHOOSE w \in writes : w.fld = f
<1>1. \A f \in Fields : (\E w \in writes : w.fld = f) =>
           v(f) \in writes /\ v(f).fld = f
    OBVIOUS
<1> HIDE DEF v
<1>2. Overwrite(r, writes) =
         [f \in Fields |-> IF \E w \in writes : w.fld = f THEN v(f).val ELSE r[f]]
    BY DEF Overwrite, v
<1>3. ASSUME NEW f \in Fields
      PROVE  /\ Overwrite(r, writes)[f] \in SUBSET Nat
             /\ c \notin Owner[f] => Overwrite(r, writes)[f] = {}
             /\ f \in Single => AtMostOne(Overwrite(r, writes)[f])
    BY <1>1, <1>2 DEF FitsClass, AtMostOne, BrefWrite, Refs
<1> QED
    BY <1>2, <1>3 DEF FitsClass, Refs

-----------------------------------------------------------------------------
(***************************************************************************)
(* Type correctness.  TypeOK alone is not inductive: that a stored value   *)
(* suits the class of its document follows from the same fact about the    *)
(* values the calls carry.                                                 *)
(***************************************************************************)
Typed(c) == /\ c \in Frame
            /\ Fits(c)
            /\ c.pc = "insert" => c.cur > 0

TInv == TypeOK /\ \A p \in Procs : Typed(call[p])

LEMMA TypedInit == Init => TInv
<1> SUFFICES ASSUME Init PROVE TInv
    OBVIOUS
<1>1. docs \in [Slots -> Doc \cup {NoDoc}] /\ WellFormed(docs)
    BY InitialAssumption DEF Init
<1>2. \A p \in Procs : Typed(call[p])
    BY IdleType DEF Init, Typed
<1>3. call \in [Procs -> Frame]
    BY IdleType DEF Init
<1> QED
    BY <1>1, <1>2, <1>3, SchemaAssumption DEF Init, TInv, TypeOK

\* The three ways an action changes the state of its worker.
LEMMA TypedGoto ==
    ASSUME TInv, NEW p \in Procs, NEW frame, Typed(frame), Goto(p, frame)
    PROVE  /\ call' \in [Procs -> Frame]
           /\ \A q \in Procs : Typed(call[q])'
           /\ started' \in 0..MaxOps
BY DEF TInv, TypeOK, Typed, Fits, Goto

LEMMA TypedLeave ==
    ASSUME TInv, NEW p \in Procs, NEW ok \in BOOLEAN, NEW more \in SUBSET Nat,
           Leave(p, ok, more)
    PROVE  /\ call' \in [Procs -> Frame]
           /\ \A q \in Procs : Typed(call[q])'
           /\ suspect' \in SUBSET Nat
           /\ started' \in 0..MaxOps
<1>1. Typed(Idle)
    BY IdleType DEF Typed
<1>2. call[p].target \in SUBSET Nat
    BY DEF TInv, TypeOK, Frame
<1> QED
    BY <1>1, <1>2 DEF TInv, TypeOK, Typed, Fits, Leave

LEMMA TypedEnter ==
    ASSUME TInv, NEW p \in Procs, NEW frame, Typed(frame), Enter(p, frame)
    PROVE  TInv'
<1>1. \A c \in Frame, b \in BOOLEAN :
          Typed(c) => Typed([c EXCEPT !.alone = b])
    BY DEF Typed, Fits, Frame
<1>2. /\ (\A r \in Procs : ~Active(r)) \in BOOLEAN
      /\ \A q \in Procs : (call[q].alone /\ ~Active(q)) \in BOOLEAN
    OBVIOUS
<1>3. \A q \in Procs : Typed(call'[q])
    BY <1>1, <1>2 DEF TInv, TypeOK, Enter, Typed
<1>4. call' \in [Procs -> Frame]
    BY <1>3 DEF Enter, Typed
<1>5. started' \in 0..MaxOps
    BY SchemaAssumption DEF Enter, TInv, TypeOK
<1> QED
    BY <1>3, <1>4, <1>5 DEF Enter, TInv, TypeOK, WellFormed, Used, Typed, Fits

\* One document replaced by a well-formed one.
LEMMA StoreType ==
    ASSUME TInv, NEW s \in Slots, NEW d \in Doc,
           d.uid > 0, FitsClass(d.cls, d.refs),
           docs' = [docs EXCEPT ![s] = d]
    PROVE  docs' \in [Slots -> Doc \cup {NoDoc}] /\ WellFormed(docs')
BY SchemaAssumption DEF TInv, TypeOK, WellFormed, Used

LEMMA TypedOperation ==
    ASSUME TInv, NEW p \in Procs, Operation(p)
    PROVE  TInv'
<1>1. ASSUME NEW c \in Classes, NEW refs \in [Fields -> SUBSET RefUids],
             FitsClass(c, refs), Insert(p, c, refs)
      PROVE  TInv'
    <2> DEFINE frame(n) == [Idle EXCEPT !.pc = "insert", !.kind = "insert",
                                        !.cls = c, !.target = {n},
                                        !.cur = n, !.new = refs]
    <2>1. PICK top \in Uids(docs) \cup {0} : Enter(p, frame(top + 1))
        BY <1>1 DEF Insert
    <2>2. top + 1 \in Nat /\ top + 1 > 0
        BY DEF TInv, TypeOK, Uids, Used, Doc
    <2>3. refs \in Refs
        BY SchemaAssumption DEF Refs
    <2>4. ASSUME NEW n \in Nat, n > 0
          PROVE  Typed(frame(n))
        BY <1>1, <2>3, <2>4, IdleType, NoRefsFit DEF Typed, Fits, Frame, Idle
    <2>5. Typed(frame(top + 1))
        BY <2>2, <2>4
    <2> QED
        BY <2>1, <2>5, TypedEnter
<1>2. ASSUME NEW c \in Classes, NEW u \in Uids(docs),
             NEW given \in SUBSET {f \in Fields : c \in Owner[f]},
             NEW refs \in [Fields -> SUBSET RefUids],
             FitsClass(c, refs), Update(p, c, u, given, refs)
      PROVE  TInv'
    <2> DEFINE Merge(r) == [f \in Fields |-> IF f \in given THEN refs[f] ELSE r[f]]
               fetched == {[i EXCEPT !.refs = Merge(i.refs)] :
                                 i \in Fetch(Matching(c, {u}))}
               frame == [Idle EXCEPT !.pc = "bref", !.kind = "update", !.cls = c,
                                     !.target = {u}, !.cur = u,
                                     !.fetched = fetched]
    <2>1. Enter(p, frame)
        BY <1>2 DEF Update
    <2>2. u \in Nat
        BY DEF TInv, TypeOK, Uids, Used, Doc
    <2>3. /\ Fetch(Matching(c, {u})) \in SUBSET Item
          /\ \A i \in Fetch(Matching(c, {u})) : FitsClass(c, i.refs)
        BY <2>2, FetchType DEF TInv, TypeOK
    <2>4. ASSUME NEW r \in Refs, FitsClass(c, r)
          PROVE  Merge(r) \in Refs /\ FitsClass(c, Merge(r))
        BY <1>2, <2>4, SchemaAssumption DEF FitsClass, Refs
    <2> HIDE DEF Merge
    <2>5. /\ fetched \in SUBSET Item
          /\ \A i \in fetched : FitsClass(c, i.refs)
        BY <2>3, <2>4 DEF Item
    <2> HIDE DEF fetched
    <2>6. Typed(frame)
        BY <2>2, <2>5, IdleType, NoRefsFit DEF Typed, Fits, Frame, Idle
    <2> QED
        BY <2>1, <2>6, TypedEnter
<1>3. ASSUME NEW c \in Classes, NEW U \in SUBSET Uids(docs), Delete(p, c, U)
      PROVE  TInv'
    <2> DEFINE frame == [Idle EXCEPT !.pc = "bref", !.kind = "delete", !.cls = c,
                                     !.target = U,
                                     !.olds = Fetch(Matching(c, U))]
    <2>1. U \in SUBSET Nat
        BY DEF TInv, TypeOK, Uids, Used, Doc
    <2>2. /\ Fetch(Matching(c, U)) \in SUBSET Item
          /\ \A i \in Fetch(Matching(c, U)) : FitsClass(c, i.refs)
        BY <2>1, FetchType DEF TInv, TypeOK
    <2>3. Typed(frame)
        BY <2>1, <2>2, IdleType, NoRefsFit DEF Typed, Fits, Frame, Idle
    <2> QED
        BY <1>3, <2>3, TypedEnter DEF Delete
<1>4. \A c \in Classes : {docs[s].uid : s \in Matching(c, Uids(docs))}
                            \subseteq Uids(docs)
    BY DEF Matching, Uids
<1> QED
    BY <1>1, <1>2, <1>3, <1>4 DEF Operation

LEMMA TypedStep ==
    ASSUME TInv, NEW p \in Procs, Step(p)
    PROVE  TInv'
<1>p. call[p] \in Frame /\ Typed(call[p])
    BY DEF TInv, TypeOK
<1>d. docs \in [Slots -> Doc \cup {NoDoc}] /\ WellFormed(docs)
    BY DEF TInv, TypeOK
<1>1. CASE InsertDoc(p)
    <2> DEFINE frame == [call[p] EXCEPT !.pc = "bref", !.dirty = TRUE,
                                        !.todo = Changes(NoRefs, call[p].new)]
    <2>1. Changes(NoRefs, call[p].new) \in SUBSET Change
        BY <1>p, NoRefsFit, ChangesType DEF Frame
    <2>2. Typed(frame)
        BY <1>p, <2>1 DEF Typed, Fits, Frame
    <2>3. PICK s \in Slots \ Used(docs) :
             docs' = [docs EXCEPT ![s] = [cls  |-> call[p].cls,
                                          uid  |-> call[p].cur,
                                          refs |-> call[p].new]]
        BY <1>1 DEF InsertDoc
    <2>4. docs' \in [Slots -> Doc \cup {NoDoc}] /\ WellFormed(docs')
        <3> DEFINE d == [cls |-> call[p].cls, uid |-> call[p].cur,
                         refs |-> call[p].new]
        <3>1. d \in Doc /\ d.uid > 0 /\ FitsClass(d.cls, d.refs)
            BY <1>1, <1>p DEF InsertDoc, Typed, Fits, Frame, Doc
        <3> HIDE DEF d
        <3> QED
            BY <2>3, <3>1, StoreType DEF d
    <2> QED
        BY <1>1, <2>2, <2>4, TypedGoto DEF InsertDoc, TInv, TypeOK
<1>2. CASE FindForUpdate(p)
    <2>1. PICK item \in call[p].fetched :
             Goto(p, [call[p] EXCEPT
                        !.pc = "set", !.cur = item.uid, !.new = item.refs,
                        !.olds = Fetch(Matching(call[p].cls, {item.uid})),
                        !.fetched = @ \ {item}])
        BY <1>2 DEF FindForUpdate
    <2> DEFINE olds == Fetch(Matching(call[p].cls, {item.uid}))
               frame == [call[p] EXCEPT
                           !.pc = "set", !.cur = item.uid, !.new = item.refs,
                           !.olds = olds, !.fetched = @ \ {item}]
    <2>2. item \in Item /\ FitsClass(call[p].cls, item.refs)
        BY <1>p DEF Frame, Typed, Fits
    <2>3. /\ olds \in SUBSET Item
          /\ \A i \in olds : FitsClass(call[p].cls, i.refs)
        BY <1>p, <1>d, <2>2, FetchType DEF Frame, Item
    <2>4. Goto(p, frame) /\ call[p].upd = {}
        BY <1>2, <2>1 DEF FindForUpdate, Settled
    <2> HIDE DEF olds
    <2>5. Typed(frame)
        BY <1>p, <2>2, <2>3, <2>4 DEF Typed, Fits, Frame, Item
    <2> QED
        BY <1>2, <2>4, <2>5, TypedGoto DEF FindForUpdate, TInv, TypeOK
<1>3. CASE SetDoc(p)
    <2> DEFINE found == Matching(call[p].cls, {call[p].cur})
               frame == [call[p] EXCEPT !.pc = "bref", !.dirty = @ \/ found # {}]
    <2>1. Typed(frame)
        BY <1>p DEF Typed, Fits, Frame
    <2>2. docs' \in [Slots -> Doc \cup {NoDoc}] /\ WellFormed(docs')
        <3>1. CASE UNCHANGED docs
            BY <3>1, <1>d
        <3>2. ASSUME NEW s \in found,
                     docs' = [docs EXCEPT ![s].refs = call[p].new]
              PROVE  docs' \in [Slots -> Doc \cup {NoDoc}] /\ WellFormed(docs')
            <4> DEFINE d == [docs[s] EXCEPT !.refs = call[p].new]
            <4>1. s \in Slots /\ docs[s] \in Doc /\ docs[s].cls = call[p].cls
                  /\ docs[s].uid > 0
                BY <1>d DEF Matching, Used, WellFormed
            <4>2. d \in Doc /\ d.uid > 0 /\ FitsClass(d.cls, d.refs)
                BY <4>1, <1>p DEF Doc, Typed, Fits, Frame
            <4>3. docs' = [docs EXCEPT ![s] = d]
                BY <3>2
            <4> HIDE DEF d
            <4> QED
                BY <4>1, <4>2, <4>3, StoreType
        <3> QED
            BY <1>3, <3>1, <3>2 DEF SetDoc
    <2>3. suspect' \in SUBSET Nat
        BY <1>3, <1>p DEF SetDoc, TInv, TypeOK, Frame
    <2> QED
        BY <1>3, <2>1, <2>2, <2>3, TypedGoto DEF SetDoc, TInv, TypeOK
<1>4. CASE RemoveDocs(p)
    <2>1. docs' \in [Slots -> Doc \cup {NoDoc}] /\ WellFormed(docs')
        BY <1>4, <1>d DEF RemoveDocs, WellFormed, Used
    <2>2. (IF call[p].alone THEN {} ELSE call[p].target) \in SUBSET Nat
        BY <1>p DEF Frame
    <2> QED
        BY <1>4, <2>1, <2>2, TypedLeave DEF RemoveDocs, TInv, TypeOK
<1>5. CASE TakeOld(p)
    <2>1. PICK old \in call[p].olds :
             Goto(p, [call[p] EXCEPT
                        !.olds = @ \ {old}, !.cur = old.uid, !.narrow = {},
                        !.todo = Changes(old.refs, IF call[p].kind = "delete"
                                                   THEN NoRefs
                                                   ELSE call[p].new)])
        BY <1>5 DEF TakeOld
    <2> DEFINE todo == Changes(old.refs, IF call[p].kind = "delete"
                                         THEN NoRefs ELSE call[p].new)
               frame == [call[p] EXCEPT !.olds = @ \ {old}, !.cur = old.uid,
                                        !.narrow = {}, !.todo = todo]
    <2>2. old \in Item
        BY <1>p DEF Frame
    <2>3. todo \in SUBSET Change
        <3>1. (IF call[p].kind = "delete" THEN NoRefs ELSE call[p].new) \in Refs
            BY <1>p, NoRefsFit DEF Frame
        <3>2. old.refs \in Refs
            BY <2>2 DEF Item
        <3> QED
            BY <3>1, <3>2, ChangesType
    <2>4. Goto(p, frame) /\ call[p].upd = {} /\ call[p].pc = "bref"
        BY <1>5, <2>1 DEF TakeOld, Settled, Prepared
    <2> HIDE DEF todo
    <2>5. Typed(frame)
        BY <1>p, <2>2, <2>3, <2>4 DEF Typed, Fits, Frame, Item
    <2> QED
        BY <1>5, <2>4, <2>5, TypedGoto DEF TakeOld, TInv, TypeOK
<1>6. CASE ReadBref(p)
    <2>0. PICK ch \in call[p].todo :
             /\ call[p].pc = "bref"
             /\ \E s \in BrefTargets(p, ch) :
                   LET g   == Inverse[ch.fld]
                       val == docs[s].refs[g]
                   IN  /\ BrefAccepts(g, ch.mode, val, call[p].cur)
                       /\ Goto(p, [call[p] EXCEPT
                            !.todo = @ \ {ch},
                            !.narrow = @ \cup {<<ch.fld, docs[s].cls>>},
                            !.upd = @ \cup {[cls |-> docs[s].cls, uid |-> ch.val,
                                             fld |-> g,
                                             val |-> BrefValue(g, ch.mode, val,
                                                               call[p].cur)]}])
        BY <1>6 DEF ReadBref, NextChange
    <2>1. PICK s \in BrefTargets(p, ch) :
             LET g   == Inverse[ch.fld]
                 val == docs[s].refs[g]
             IN  /\ BrefAccepts(g, ch.mode, val, call[p].cur)
                 /\ Goto(p, [call[p] EXCEPT
                       !.todo = @ \ {ch},
                       !.narrow = @ \cup {<<ch.fld, docs[s].cls>>},
                       !.upd = @ \cup {[cls |-> docs[s].cls, uid |-> ch.val,
                                        fld |-> g,
                                        val |-> BrefValue(g, ch.mode, val,
                                                          call[p].cur)]}])
        BY <2>0
    <2> DEFINE g   == Inverse[ch.fld]
               val == docs[s].refs[g]
               new == BrefValue(g, ch.mode, val, call[p].cur)
               w == [cls |-> docs[s].cls, uid |-> ch.val, fld |-> g, val |-> new]
               frame == [call[p] EXCEPT
                           !.todo = @ \ {ch},
                           !.narrow = @ \cup {<<ch.fld, docs[s].cls>>},
                           !.upd = @ \cup {w}]
    <2>2. ch \in Change
        BY <1>p DEF Frame
    <2>3. g \in Fields
        BY <2>2, SchemaAssumption DEF Change
    <2>4. docs[s] \in Doc /\ docs[s].cls \in Owner[g]
        BY <1>d DEF BrefTargets, Used
    <2>5. new \in SUBSET Nat /\ (g \in Single => new \subseteq {call[p].cur})
        <3>1. val \in SUBSET Nat
            BY <2>3, <2>4 DEF Doc, Refs
        <3>2. call[p].cur \in Nat /\ ch.mode \in {"del", "add", "swap"}
            BY <1>p, <2>2 DEF Frame, Change
        <3> HIDE DEF g, val
        <3> QED
            BY <2>1, <2>3, <3>1, <3>2, BrefValueType DEF g, val
    <2> HIDE DEF new
    <2>6. w \in BrefWrite
        BY <2>2, <2>3, <2>4, <2>5 DEF BrefWrite, Doc, Change
    <2>7. <<ch.fld, docs[s].cls>> \in Fields \X Classes
        BY <2>2, <2>4 DEF Doc, Change
    <2>8. Goto(p, frame) /\ call[p].pc = "bref"
        BY <2>0, <2>1 DEF new
    <2>9. w.cls \in Owner[w.fld] /\ (w.fld \in Single => w.val \subseteq {call[p].cur})
        BY <2>4, <2>5
    <2> HIDE DEF w, g
    <2>10. Typed(frame)
        BY <1>p, <2>6, <2>7, <2>8, <2>9 DEF Typed, Fits, Frame
    <2> QED
        BY <1>6, <2>8, <2>10, TypedGoto DEF ReadBref, TInv, TypeOK
<1>7. CASE ConsistencyError(p)
    BY <1>7, <1>d, TypedLeave DEF ConsistencyError, TInv, TypeOK
<1>8. CASE WriteBref(p)
    <2>1. PICK w0 \in call[p].upd :
             LET writes == {w \in call[p].upd : w.cls = w0.cls /\ w.uid = w0.uid}
                 found  == Matching(w0.cls, {w0.uid})
             IN  /\ Goto(p, [call[p] EXCEPT !.upd = @ \ writes,
                                            !.dirty = @ \/ found # {}])
                 /\ \/ found = {} /\ UNCHANGED <<docs, suspect>>
                    \/ \E s \in found :
                          /\ docs' = [docs EXCEPT ![s].refs =
                                             Overwrite(docs[s].refs, writes)]
                          /\ suspect' = suspect \cup
                               (IF Stolen(s, writes, call[p].cur)
                                THEN {w0.uid} ELSE {})
        BY <1>8 DEF WriteBref
    <2> DEFINE writes == {w \in call[p].upd : w.cls = w0.cls /\ w.uid = w0.uid}
               found  == Matching(w0.cls, {w0.uid})
               frame  == [call[p] EXCEPT !.upd = @ \ writes,
                                         !.dirty = @ \/ found # {}]
    <2>2. Goto(p, frame) /\ call[p].pc = "bref"
        BY <1>8, <2>1 DEF WriteBref, Prepared
    <2>3. Typed(frame)
        BY <1>p, <2>2 DEF Typed, Fits, Frame
    <2>4. w0 \in BrefWrite
        BY <1>p DEF Frame
    <2>5. /\ docs' \in [Slots -> Doc \cup {NoDoc}] /\ WellFormed(docs')
          /\ suspect' \in SUBSET Nat
        <3>1. CASE UNCHANGED <<docs, suspect>>
            BY <3>1, <1>d DEF TInv, TypeOK
        <3>2. ASSUME NEW s \in found,
                     docs' = [docs EXCEPT ![s].refs =
                                        Overwrite(docs[s].refs, writes)],
                     suspect' = suspect \cup (IF Stolen(s, writes, call[p].cur)
                                              THEN {w0.uid} ELSE {})
              PROVE  /\ docs' \in [Slots -> Doc \cup {NoDoc}] /\ WellFormed(docs')
                     /\ suspect' \in SUBSET Nat
            <4> DEFINE d == [docs[s] EXCEPT !.refs = Overwrite(docs[s].refs, writes)]
            <4>1. /\ s \in Slots /\ docs[s] \in Doc /\ docs[s].cls = w0.cls
                  /\ docs[s].uid > 0 /\ FitsClass(w0.cls, docs[s].refs)
                BY <1>d DEF Matching, Used, WellFormed
            <4>2. writes \in SUBSET BrefWrite /\ call[p].cur \in Nat
                BY <1>p DEF Frame
            <4>3. \A w \in writes : /\ w.cls = w0.cls
                                    /\ w.cls \in Owner[w.fld]
                                    /\ w.fld \in Single => w.val \subseteq {call[p].cur}
                BY <1>p DEF Typed, Fits
            <4> HIDE DEF writes
            <4>0. w0.cls \in Classes /\ docs[s].refs \in Refs
                BY <2>4, <4>1 DEF Doc, BrefWrite
            <4>4. /\ Overwrite(docs[s].refs, writes) \in Refs
                  /\ FitsClass(w0.cls, Overwrite(docs[s].refs, writes))
                <5> DEFINE c == w0.cls
                           r == docs[s].refs
                           x == call[p].cur
                <5>1. c \in Classes /\ r \in Refs /\ FitsClass(c, r) /\ x \in Nat
                    BY <4>0, <4>1, <4>2
                <5>2. \A w \in writes : /\ w.cls = c
                                        /\ w.cls \in Owner[w.fld]
                                        /\ w.fld \in Single => w.val \subseteq {x}
                    BY <4>3
                <5> HIDE DEF c, r, x
                <5>3. Overwrite(r, writes) \in Refs /\ FitsClass(c, Overwrite(r, writes))
                    BY <4>2, <5>1, <5>2, OverwriteType
                <5> QED
                    BY <5>3 DEF c, r
            <4>5. d \in Doc /\ d.uid > 0 /\ FitsClass(d.cls, d.refs)
                BY <4>1, <4>4 DEF Doc
            <4>6. docs' = [docs EXCEPT ![s] = d]
                BY <3>2
            <4> HIDE DEF d
            <4> QED
                BY <2>4, <3>2, <4>1, <4>5, <4>6, StoreType
                DEF TInv, TypeOK, BrefWrite
        <3> QED
            BY <2>1, <3>1, <3>2
    <2> QED
        BY <2>2, <2>3, <2>5, TypedGoto DEF TInv, TypeOK
<1>9. CASE Return(p)
    BY <1>9, <1>d, TypedLeave DEF Return, TInv, TypeOK
<1>10. CASE Crash(p)
    BY <1>10, <1>d, TypedLeave DEF Crash, TInv, TypeOK
<1> QED
    BY <1>1, <1>2, <1>3, <1>4, <1>5, <1>6, <1>7, <1>8, <1>9, <1>10 DEF Step

(***************************************************************************)
(* Whatever overlaps or fails, every stored object keeps a positive uid,   *)
(* values only in the fields of its class, and at most one uid in a single *)
(* reference; the state of the calls has the type the module declares.     *)
(***************************************************************************)
THEOREM TypeCorrect == Spec => []TypeOK
<1>1. TInv /\ [Next]_vars => TInv'
    <2> SUFFICES ASSUME TInv, [Next]_vars PROVE TInv'
        OBVIOUS
    <2>1. CASE UNCHANGED vars
        BY <2>1 DEF vars, TInv, TypeOK, WellFormed, Used, Typed, Fits
    <2>2. CASE Stop
        BY <2>1, <2>2 DEF Stop
    <2> QED
        BY <2>1, <2>2, TypedOperation, TypedStep DEF Next
<1>2. TInv => TypeOK
    BY DEF TInv
<1> QED
    BY <1>1, <1>2, TypedInit, PTL DEF Spec

-----------------------------------------------------------------------------
(***************************************************************************)
(* The changes of back references two values of the fields ask for.        *)
(***************************************************************************)
NoSwap(f, old, new) == \A ch \in FieldChanges(f, old, new) : ch.mode # "swap"

\* A field without a swap asks for the values it loses and those it gains.
LEMMA FieldChangesMeaning ==
    ASSUME NEW f \in Fields, NEW old \in SUBSET Nat, NEW new \in SUBSET Nat,
           NoSwap(f, old, new)
    PROVE  /\ \A ch \in FieldChanges(f, old, new) :
                 /\ ch.fld = f
                 /\ ch.mode = "add" => ch.val \in new \ old
                 /\ ch.mode # "add" => ch.mode = "del" /\ ch.val \in old \ new
           /\ \A v \in new \ old : \E ch \in FieldChanges(f, old, new) :
                 ch.fld = f /\ ch.val = v /\ ch.mode = "add"
           /\ \A v \in old \ new : \E ch \in FieldChanges(f, old, new) :
                 ch.fld = f /\ ch.val = v /\ ch.mode # "add"
<1> DEFINE entry(v, mode) == [fld |-> f, val |-> v, mode |-> mode]
<1>1. CASE f \in Single /\ old # {} /\ new # {} /\ old # new
    <2>1. PICK v \in old : TRUE
        BY <1>1
    <2>2. entry(v, "swap") \in FieldChanges(f, old, new)
        BY <1>1 DEF FieldChanges
    <2> QED
        BY <2>2 DEF NoSwap
<1>2. CASE ~(f \in Single /\ old # {} /\ new # {} /\ old # new)
    <2>1. FieldChanges(f, old, new) = {entry(v, "del") : v \in old \ new}
                                      \cup {entry(v, "add") : v \in new \ old}
        BY <1>2 DEF FieldChanges
    <2>2. \A v, mode : /\ entry(v, mode).fld = f
                       /\ entry(v, mode).val = v
                       /\ entry(v, mode).mode = mode
        OBVIOUS
    <2> HIDE DEF entry
    <2>3. \A ch \in FieldChanges(f, old, new) :
             /\ ch.fld = f
             /\ ch.mode = "add" => ch.val \in new \ old
             /\ ch.mode # "add" => ch.mode = "del" /\ ch.val \in old \ new
        BY <2>1, <2>2
    <2>4. /\ \A v \in new \ old : entry(v, "add") \in FieldChanges(f, old, new)
          /\ \A v \in old \ new : entry(v, "del") \in FieldChanges(f, old, new)
        BY <2>1
    <2> QED
        BY <2>2, <2>3, <2>4
<1> QED
    BY <1>1, <1>2

\* The same for an object none of whose fields has a swap.
LEMMA ChangesMeaning ==
    ASSUME NEW old \in Refs, NEW new \in Refs,
           \A f \in Fields : NoSwap(f, old[f], new[f]),
           NEW f \in Fields, NEW v \in Nat
    PROVE  /\ (\E ch \in Changes(old, new) :
                  ch.fld = f /\ ch.val = v /\ ch.mode = "add")
                  <=> v \in new[f] \ old[f]
           /\ (\E ch \in Changes(old, new) :
                  ch.fld = f /\ ch.val = v /\ ch.mode # "add")
                  <=> v \in old[f] \ new[f]
<1>1. \A g \in Fields : old[g] \in SUBSET Nat /\ new[g] \in SUBSET Nat
    BY DEF Refs
<1>2. \A g \in Fields : \A ch \in FieldChanges(g, old[g], new[g]) :
          /\ ch.fld = g
          /\ ch.mode = "add" => ch.val \in new[g] \ old[g]
          /\ ch.mode # "add" => ch.val \in old[g] \ new[g]
    BY <1>1, FieldChangesMeaning
<1>3. /\ \A w \in new[f] \ old[f] : \E ch \in FieldChanges(f, old[f], new[f]) :
                 ch.fld = f /\ ch.val = w /\ ch.mode = "add"
      /\ \A w \in old[f] \ new[f] : \E ch \in FieldChanges(f, old[f], new[f]) :
                 ch.fld = f /\ ch.val = w /\ ch.mode # "add"
    BY <1>1, FieldChangesMeaning
<1>4. /\ FieldChanges(f, old[f], new[f]) \subseteq Changes(old, new)
      /\ \A ch \in Changes(old, new) :
            \E g \in Fields : ch \in FieldChanges(g, old[g], new[g])
    BY DEF Changes
<1> QED
    BY <1>2, <1>3, <1>4

\* An empty value, old or new, needs no swap.
LEMMA NothingNeedsNoSwap ==
    ASSUME NEW r \in Refs, NEW f \in Fields
    PROVE  NoSwap(f, NoRefs[f], r[f]) /\ NoSwap(f, r[f], NoRefs[f])
BY DEF NoSwap, FieldChanges, NoRefs

-----------------------------------------------------------------------------
(***************************************************************************)
(* What each call carries.                                                 *)
(***************************************************************************)
Carried(c) == Shape(c) /\ Fits(c) /\ MovedIsSuspect(c)

CallInv == /\ TypeOK
           /\ \A p \in Procs : Carried(call[p])
           /\ AloneIsAlone

\* What each call carries is well typed.
LEMMA CallInvTyped == CallInv => TInv
BY DEF CallInv, TInv, Typed, Carried, Shape, TypeOK

\* A worker between two calls carries nothing.
LEMMA CarriedIdle == Carried(Idle)
BY IdleType DEF Carried, Idle, Shape, Fits, MovedIsSuspect

\* No call is in flight at the start.
LEMMA CallInvInit == Init => CallInv
<1> SUFFICES ASSUME Init PROVE CallInv
    OBVIOUS
<1>1. TypeOK
    BY TypedInit DEF TInv
<1>2. \A p \in Procs : call[p] = Idle
    BY DEF Init
<1> QED
    BY <1>1, <1>2, CarriedIdle, IdleType DEF CallInv, AloneIsAlone, Active

\* A step of one call that knows no less suspects than before.
LEMMA CallInvGoto ==
    ASSUME CallInv, TInv', NEW p \in Procs, suspect \subseteq suspect',
           \A q \in Procs \ {p} : call'[q] = call[q],
           Active(p), call'[p].alone = call[p].alone,
           Shape(call[p])', MovedIsSuspect(call[p])'
    PROVE  CallInv'
<1>1. ASSUME NEW q \in Procs PROVE Shape(call[q])' /\ MovedIsSuspect(call[q])'
    BY <1>1 DEF CallInv, Carried, MovedIsSuspect
<1>2. AloneIsAlone'
    BY DEF CallInv, AloneIsAlone, Active
<1> QED
    BY <1>1, <1>2 DEF CallInv, Carried, TInv, Typed

\* The end of a call.
LEMMA CallInvLeave ==
    ASSUME CallInv, TInv', NEW p \in Procs, suspect \subseteq suspect',
           \A q \in Procs \ {p} : call'[q] = call[q], call'[p] = Idle
    PROVE  CallInv'
<1>1. Shape(Idle) /\ Idle.pc = "idle"
    BY CarriedIdle, IdleType DEF Carried
<1>2. ASSUME NEW q \in Procs PROVE Shape(call[q])' /\ MovedIsSuspect(call[q])'
    BY <1>1, <1>2 DEF CallInv, Carried, MovedIsSuspect, Idle
<1>3. AloneIsAlone'
    BY <1>1 DEF CallInv, AloneIsAlone, Active
<1> QED
    BY <1>2, <1>3 DEF CallInv, Carried, TInv, Typed

\* The begin of a call.
LEMMA CallInvEnter ==
    ASSUME CallInv, TInv', NEW p \in Procs, NEW frame, frame \in Frame,
           frame.pc # "idle", Enter(p, frame),
           Shape(frame), MovedIsSuspect(frame)
    PROVE  CallInv'
<1>c. call \in [Procs -> Frame] /\ call' \in [Procs -> Frame]
    BY DEF CallInv, TInv, TypeOK
<1>1. PICK b \in BOOLEAN : call'[p] = [frame EXCEPT !.alone = b]
    BY <1>c DEF Enter
<1>2. \A q \in Procs \ {p} :
          call'[q] = [call[q] EXCEPT !.alone = @ /\ ~Active(q)]
    BY DEF Enter
<1>3. ASSUME NEW c \in Frame, NEW b1 \in BOOLEAN, c.pc # "idle",
             Shape(c), MovedIsSuspect(c)
      PROVE  Shape([c EXCEPT !.alone = b1]) /\ MovedIsSuspect([c EXCEPT !.alone = b1])
    BY <1>3 DEF Shape, MovedIsSuspect, Frame
<1>4. ASSUME NEW q \in Procs \ {p}, ~Active(q) PROVE call'[q] = call[q]
    <2>1. call[q] = Idle
        BY <1>4 DEF CallInv, Carried, Shape, Active
    <2>2. (call[q].alone /\ ~Active(q)) = TRUE
        BY <1>4, <2>1 DEF Idle
    <2>3. call'[q] = [Idle EXCEPT !.alone = TRUE]
        BY <1>2, <2>1, <2>2
    <2>4. [Idle EXCEPT !.alone = TRUE] = Idle
        <3>1. Idle.alone = TRUE
            BY DEF Idle
        <3> QED
            BY <3>1, IdleType DEF Frame
    <2> QED
        BY <2>1, <2>3, <2>4
<1>5. ASSUME NEW q \in Procs
      PROVE  Shape(call[q])' /\ MovedIsSuspect(call[q])'
    <2>1. CASE q # p /\ ~Active(q)
        BY <1>4, <2>1 DEF CallInv, Carried, Enter, MovedIsSuspect
    <2>2. CASE q # p /\ Active(q)
        <3>1. PICK b1 \in BOOLEAN : call'[q] = [call[q] EXCEPT !.alone = b1]
            BY <1>2, <2>2
        <3>2. Shape(call'[q]) /\ MovedIsSuspect(call'[q])
            BY <1>3, <1>c, <2>2, <3>1 DEF CallInv, Carried, Active
        <3> QED
            BY <3>2 DEF Enter, MovedIsSuspect
    <2>3. CASE q = p
        <3>1. Shape(call'[p]) /\ MovedIsSuspect(call'[p])
            BY <1>1, <1>3
        <3> QED
            BY <2>3, <3>1 DEF Enter, MovedIsSuspect
    <2> QED
        BY <2>1, <2>2, <2>3
<1>6. ASSUME NEW q \in Procs \ {p}, Active(q) PROVE ~call'[q].alone
    BY <1>2, <1>6, <1>c DEF Frame
<1>7. \A q \in Procs \ {p} : Active(q)' <=> Active(q)
    BY <1>2, <1>4, <1>c DEF Active, Frame
<1>8. call'[p].alone => \A q \in Procs \ {p} : ~Active(q)
    BY <1>c DEF Enter, Frame
<1>9. AloneIsAlone'
    BY <1>6, <1>7, <1>8 DEF AloneIsAlone
<1> QED
    BY <1>5, <1>9 DEF CallInv, Carried, TInv, Typed

\* The call an operation begins.
InsertFrame(c) ==
    /\ c.pc = "insert" /\ c.kind = "insert" /\ c.target = {c.cur}
    /\ c.cur > 0 /\ c.cur \notin Uids(docs) /\ c.olds = {} /\ c.fetched = {}

UpdateFrame(c) ==
    /\ c.pc = "bref" /\ c.kind = "update" /\ c.target = {c.cur} /\ c.olds = {}
    /\ c.cur \in Uids(docs) /\ \A i \in c.fetched : i.uid = c.cur
    /\ AtMostOne(Matching(c.cls, {c.cur})) => AtMostOne(c.fetched)

DeleteFrame(c) ==
    /\ c.pc = "bref" /\ c.kind = "delete" /\ c.fetched = {}
    /\ c.olds = Fetch(Matching(c.cls, c.target))
    /\ \A u \in c.target : \E s \in Used(docs) :
          docs[s].uid = u /\ docs[s].cls = c.cls

Fresh(c) == /\ c.todo = {} /\ c.upd = {} /\ ~c.dirty
            /\ InsertFrame(c) \/ UpdateFrame(c) \/ DeleteFrame(c)

\* Every operation of the data source starts with nothing prepared or written.
LEMMA OperationFrame ==
    ASSUME TInv, NEW p \in Procs, Operation(p)
    PROVE  \E frame \in Frame : Enter(p, frame) /\ Fresh(frame)
<1>n. Uids(docs) \subseteq Nat
    BY DEF TInv, TypeOK, Uids, Used, Doc
<1>i. Idle \in Frame /\ Idle.olds = {} /\ Idle.todo = {} /\ Idle.upd = {}
      /\ Idle.fetched = {} /\ Idle.dirty = FALSE
    BY IdleType DEF Idle
<1>1. ASSUME NEW c \in Classes, NEW refs \in [Fields -> SUBSET RefUids],
             Insert(p, c, refs)
      PROVE  \E frame \in Frame : Enter(p, frame) /\ Fresh(frame)
    <2>1. PICK top \in Uids(docs) \cup {0} :
             /\ \A u \in Uids(docs) : u <= top
             /\ Enter(p, [Idle EXCEPT !.pc = "insert", !.kind = "insert",
                                      !.cls = c, !.target = {top + 1},
                                      !.cur = top + 1, !.new = refs])
        BY <1>1 DEF Insert
    <2>2. PICK frame : frame = [Idle EXCEPT !.pc = "insert", !.kind = "insert",
                                   !.cls = c, !.target = {top + 1},
                                   !.cur = top + 1, !.new = refs]
        OBVIOUS
    <2>3. top \in Nat
        BY <1>n
    <2>4. top + 1 \in Nat /\ top + 1 > 0 /\ top + 1 \notin Uids(docs)
        BY <1>n, <2>1, <2>3
    <2>5. refs \in Refs
        BY SchemaAssumption DEF Refs
    <2>6. frame \in Frame
        BY <1>i, <2>2, <2>4, <2>5 DEF Frame
    <2>7. Fresh(frame)
        BY <1>i, <2>2, <2>4 DEF Fresh, InsertFrame, Frame
    <2> QED
        BY <2>1, <2>2, <2>6, <2>7
<1>2. ASSUME NEW c \in Classes, NEW u \in Uids(docs),
             NEW given \in SUBSET {f \in Fields : c \in Owner[f]},
             NEW refs \in [Fields -> SUBSET RefUids],
             Update(p, c, u, given, refs)
      PROVE  \E frame \in Frame : Enter(p, frame) /\ Fresh(frame)
    <2> DEFINE Merge(r) == [f \in Fields |-> IF f \in given THEN refs[f] ELSE r[f]]
               fetched == {[i EXCEPT !.refs = Merge(i.refs)] :
                                 i \in Fetch(Matching(c, {u}))}
    <2>1. PICK frame : frame = [Idle EXCEPT !.pc = "bref", !.kind = "update",
                                            !.cls = c, !.target = {u},
                                            !.cur = u, !.fetched = fetched]
        OBVIOUS
    <2>2. Enter(p, frame)
        BY <1>2, <2>1 DEF Update
    <2>3. /\ u \in Nat
          /\ Fetch(Matching(c, {u})) \in SUBSET Item
          /\ \A i \in Fetch(Matching(c, {u})) : i.uid = u
        BY <1>n, FetchType DEF TInv, TypeOK
    <2>4. \A r \in Refs : Merge(r) \in Refs
        BY SchemaAssumption DEF Refs
    <2> HIDE DEF Merge
    <2>5. fetched \in SUBSET Item /\ \A i \in fetched : i.uid = u
        <3>1. ASSUME NEW i \in Item
              PROVE  /\ [i EXCEPT !.refs = Merge(i.refs)] \in Item
                     /\ [i EXCEPT !.refs = Merge(i.refs)].uid = i.uid
            BY <2>4 DEF Item
        <3> QED
            BY <2>3, <3>1
    <2>6. AtMostOne(Matching(c, {u})) => AtMostOne(fetched)
        BY DEF AtMostOne, Fetch
    <2> HIDE DEF fetched
    <2>7. frame \in Frame
        BY <1>i, <2>1, <2>3, <2>5 DEF Frame
    <2>8. Fresh(frame)
        BY <1>i, <2>1, <2>3, <2>5, <2>6 DEF Fresh, UpdateFrame, Frame
    <2> QED
        BY <2>2, <2>7, <2>8
<1>3. ASSUME NEW c \in Classes,
             NEW U \in SUBSET {docs[s].uid : s \in Matching(c, Uids(docs))},
             Delete(p, c, U)
      PROVE  \E frame \in Frame : Enter(p, frame) /\ Fresh(frame)
    <2>1. PICK frame : frame = [Idle EXCEPT !.pc = "bref", !.kind = "delete",
                                            !.cls = c, !.target = U,
                                            !.olds = Fetch(Matching(c, U))]
        OBVIOUS
    <2>2. U \in SUBSET Nat /\ \A u \in U : \E s \in Used(docs) :
                                  docs[s].uid = u /\ docs[s].cls = c
        BY <1>n DEF Matching, Uids
    <2>3. Fetch(Matching(c, U)) \in SUBSET Item
        BY <2>2, FetchType DEF TInv, TypeOK
    <2>4. frame \in Frame
        BY <1>i, <2>1, <2>2, <2>3 DEF Frame
    <2>5. Fresh(frame)
        BY <1>i, <2>1, <2>2 DEF Fresh, DeleteFrame, Frame
    <2> QED
        BY <1>3, <2>1, <2>4, <2>5 DEF Delete
<1>4. \A c \in Classes : {docs[s].uid : s \in Matching(c, Uids(docs))}
                            \subseteq Uids(docs)
    BY DEF Matching, Uids
<1> QED
    BY <1>1, <1>2, <1>3, <1>4 DEF Operation

\* An operation that starts leaves what the calls carry sound.
LEMMA CallInvOperation ==
    ASSUME CallInv, NEW p \in Procs, Operation(p)
    PROVE  CallInv'
<1>t. TInv /\ TInv'
    BY CallInvTyped, TypedOperation
<1>1. PICK frame \in Frame : Enter(p, frame) /\ Fresh(frame)
    BY <1>t, OperationFrame
<1>2. \A i \in Fetch(Matching(frame.cls, frame.target)) : i.uid \in frame.target
    BY DEF Fetch, Matching
<1>3. Shape(frame) /\ MovedIsSuspect(frame) /\ frame.pc # "idle"
    BY <1>1, <1>2 DEF Fresh, InsertFrame, UpdateFrame, DeleteFrame,
                      Shape, MovedIsSuspect, Frame
<1> QED
    BY <1>t, <1>1, <1>3, CallInvEnter

\* So does every step of a call, its error paths and the crash included.
LEMMA CallInvStep ==
    ASSUME CallInv, NEW p \in Procs, Step(p)
    PROVE  CallInv'
<1>t. TInv /\ TInv'
    BY CallInvTyped, TypedStep
<1>c. call \in [Procs -> Frame] /\ call[p] \in Frame
    BY DEF CallInv, TypeOK
<1>p. Shape(call[p]) /\ MovedIsSuspect(call[p])
    BY DEF CallInv, Carried
<1>g. ASSUME NEW frame, frame \in Frame, Active(p), Goto(p, frame),
             suspect \subseteq suspect', frame.alone = call[p].alone,
             Shape(frame), MovedIsSuspect(frame)'
      PROVE  CallInv'
    <2>1. call'[p] = frame /\ \A q \in Procs \ {p} : call'[q] = call[q]
        BY <1>g, <1>c DEF Goto
    <2>2. Shape(call[p])' /\ MovedIsSuspect(call[p])'
        BY <1>g, <2>1 DEF MovedIsSuspect
    <2> QED
        BY <1>g, <1>t, <2>1, <2>2, CallInvGoto
<1>l. ASSUME NEW ok, NEW more, Leave(p, ok, more)
      PROVE  CallInv'
    <2>1. call'[p] = Idle /\ \A q \in Procs \ {p} : call'[q] = call[q]
        BY <1>l, <1>c DEF Leave
    <2> QED
        BY <1>l, <1>t, <2>1, CallInvLeave DEF Leave
<1>1. CASE InsertDoc(p)
    <2>1. PICK frame : frame = [call[p] EXCEPT !.pc = "bref", !.dirty = TRUE,
                                   !.todo = Changes(NoRefs, call[p].new)]
        OBVIOUS
    <2>2. Changes(NoRefs, call[p].new) \in SUBSET Change
        BY <1>c, NoRefsFit, ChangesType DEF Frame
    <2>3. \A ch \in Changes(NoRefs, call[p].new) : ch.mode # "swap"
        BY <1>c, NothingNeedsNoSwap DEF Changes, NoSwap, Frame
    <2>4. frame \in Frame
        BY <1>c, <2>1, <2>2 DEF Frame
    <2>5. Shape(frame)
        BY <1>1, <1>c, <1>p, <2>1 DEF InsertDoc, Shape, Frame
    <2>6. MovedIsSuspect(frame)'
        BY <1>1, <1>c, <1>p, <2>1, <2>3 DEF InsertDoc, Shape, MovedIsSuspect, Frame
    <2>7. Active(p) /\ frame.alone = call[p].alone
        BY <1>1, <1>c, <2>1 DEF InsertDoc, Active, Frame
    <2> QED
        BY <1>1, <1>g, <2>1, <2>4, <2>5, <2>6, <2>7 DEF InsertDoc
<1>2. CASE FindForUpdate(p)
    <2>1. PICK item \in call[p].fetched :
             Goto(p, [call[p] EXCEPT
                        !.pc = "set", !.cur = item.uid, !.new = item.refs,
                        !.olds = Fetch(Matching(call[p].cls, {item.uid})),
                        !.fetched = @ \ {item}])
        BY <1>2 DEF FindForUpdate
    <2> DEFINE olds == Fetch(Matching(call[p].cls, {item.uid}))
    <2>2. item \in Item /\ call[p].pc = "bref"
        BY <1>2, <1>c DEF Frame, FindForUpdate, Settled, Prepared
    <2>3. olds \in SUBSET Item /\ \A i \in olds : i.uid = item.uid
        BY <1>c, <1>t, <2>2, FetchType DEF Frame, Item, TInv, TypeOK
    <2>4. call[p].todo = {} /\ call[p].upd = {} /\ call[p].kind = "update"
        BY <1>2, <1>c, <1>p DEF FindForUpdate, Settled, Prepared, Shape, Frame
    <2>5. item.uid = call[p].cur /\ call[p].target = {call[p].cur}
        BY <1>p, <2>2, <2>4 DEF Shape
    <2> HIDE DEF olds
    <2>6. PICK frame : frame = [call[p] EXCEPT
                        !.pc = "set", !.cur = item.uid, !.new = item.refs,
                        !.olds = olds, !.fetched = @ \ {item}]
        OBVIOUS
    <2>7. Goto(p, frame)
        BY <2>1, <2>6 DEF olds
    <2>8. frame \in Frame
        BY <1>c, <2>2, <2>3, <2>6 DEF Frame, Item
    <2>9. Shape(frame)
        BY <1>c, <1>p, <2>3, <2>4, <2>5, <2>6 DEF Shape, Frame
    <2>10. MovedIsSuspect(frame)'
        BY <1>c, <2>4, <2>6 DEF MovedIsSuspect, Frame
    <2>11. Active(p) /\ frame.alone = call[p].alone
        BY <1>c, <2>2, <2>6 DEF Active, Frame
    <2> QED
        BY <1>2, <1>g, <2>7, <2>8, <2>9, <2>10, <2>11 DEF FindForUpdate
<1>3. CASE SetDoc(p)
    <2> DEFINE found == Matching(call[p].cls, {call[p].cur})
    <2>1. PICK frame : frame = [call[p] EXCEPT !.pc = "bref",
                                               !.dirty = @ \/ found # {}]
        OBVIOUS
    <2>2. Goto(p, frame) /\ call[p].pc = "set" /\ suspect \subseteq suspect'
        BY <1>3, <2>1 DEF SetDoc
    <2>3. frame \in Frame
        BY <1>c, <2>1 DEF Frame
    <2>4. Shape(frame)
        BY <1>c, <1>p, <2>1, <2>2 DEF Shape, Frame
    <2>5. /\ frame.todo = {} /\ frame.upd = {} /\ frame.kind = "update"
          /\ frame.olds = call[p].olds /\ frame.new = call[p].new
          /\ frame.cur = call[p].cur /\ call[p].target = {call[p].cur}
        BY <1>c, <1>p, <2>1, <2>2 DEF Shape, Frame
    <2>6. Retargeted(p) => call[p].cur \in suspect'
        BY <1>3, <2>5 DEF SetDoc
    <2>7. MovedIsSuspect(frame)'
        BY <2>5, <2>6 DEF MovedIsSuspect, Retargeted
    <2>8. Active(p) /\ frame.alone = call[p].alone
        BY <1>c, <2>1, <2>2 DEF Active, Frame
    <2> QED
        BY <1>g, <2>2, <2>3, <2>4, <2>7, <2>8
<1>4. CASE RemoveDocs(p)
    BY <1>4, <1>l DEF RemoveDocs
<1>5. CASE TakeOld(p)
    <2> DEFINE want == IF call[p].kind = "delete" THEN NoRefs ELSE call[p].new
    <2>1. PICK old \in call[p].olds :
             Goto(p, [call[p] EXCEPT
                        !.olds = @ \ {old}, !.cur = old.uid, !.narrow = {},
                        !.todo = Changes(old.refs, want)])
        BY <1>5 DEF TakeOld
    <2>2. old \in Item /\ old.refs \in Refs /\ want \in Refs
        BY <1>c, NoRefsFit DEF Frame, Item
    <2>3. Changes(old.refs, want) \in SUBSET Change
        BY <2>2, ChangesType
    <2>4. /\ call[p].pc = "bref" /\ call[p].todo = {} /\ call[p].upd = {}
          /\ old.uid \in call[p].target /\ call[p].kind # "insert"
        BY <1>5, <1>p DEF TakeOld, Settled, Prepared, Shape
    <2>5. PICK frame : frame = [call[p] EXCEPT
                        !.olds = @ \ {old}, !.cur = old.uid, !.narrow = {},
                        !.todo = Changes(old.refs, want)]
        OBVIOUS
    <2>6. frame \in Frame
        BY <1>c, <2>2, <2>3, <2>5 DEF Frame, Item
    <2>7. Shape(frame)
        BY <1>c, <1>p, <2>4, <2>5 DEF Shape, Frame
    <2>8. /\ frame.todo = Changes(old.refs, want) /\ frame.upd = {}
          /\ frame.kind = call[p].kind /\ frame.cur = old.uid
          /\ frame.olds = call[p].olds \ {old} /\ frame.new = call[p].new
        BY <1>c, <2>4, <2>5 DEF Frame
    <2>9. CASE call[p].kind = "delete"
        <3>1. \A ch \in Changes(old.refs, NoRefs) : ch.mode = "del"
            BY <2>2, NoRefsFit, NothingNeedsNoSwap, FieldChangesMeaning
            DEF Changes, Refs, NoRefs
        <3>2. MovedIsSuspect(frame)'
            BY <2>8, <2>9, <3>1 DEF MovedIsSuspect
        <3> QED
            BY <1>5, <1>g, <1>c, <2>1, <2>4, <2>5, <2>6, <2>7, <3>2
            DEF TakeOld, Active, Frame
    <2>10. CASE call[p].kind = "update"
        <3>1. call[p].cur = old.uid
            BY <1>p, <2>4, <2>10 DEF Shape
        <3>2. \A f \in Fields \ Single : NoSwap(f, old.refs[f], call[p].new[f])
            BY DEF NoSwap, FieldChanges
        <3>3. \A ch \in Changes(old.refs, call[p].new) :
                 ch.mode = "swap" => call[p].cur \in suspect
            BY <1>p, <2>4, <2>10, <3>2 DEF MovedIsSuspect, Changes, NoSwap
        <3>4. MovedIsSuspect(frame)'
            BY <1>5, <1>p, <2>4, <2>8, <2>10, <3>1, <3>3 DEF MovedIsSuspect, TakeOld
        <3> QED
            BY <1>5, <1>g, <1>c, <2>1, <2>4, <2>5, <2>6, <2>7, <3>4
            DEF TakeOld, Active, Frame
    <2> QED
        BY <1>c, <2>4, <2>9, <2>10 DEF Frame
<1>6. CASE ReadBref(p)
    <2>1. PICK ch \in call[p].todo :
             /\ call[p].pc = "bref"
             /\ \E s \in BrefTargets(p, ch) :
                  LET g   == Inverse[ch.fld]
                      val == docs[s].refs[g]
                  IN  /\ BrefAccepts(g, ch.mode, val, call[p].cur)
                      /\ Goto(p, [call[p] EXCEPT
                           !.todo = @ \ {ch},
                           !.narrow = @ \cup {<<ch.fld, docs[s].cls>>},
                           !.upd = @ \cup {[cls |-> docs[s].cls, uid |-> ch.val,
                                            fld |-> g,
                                            val |-> BrefValue(g, ch.mode, val,
                                                              call[p].cur)]}])
        BY <1>6 DEF ReadBref, NextChange
    <2>2. PICK s \in BrefTargets(p, ch) :
             Goto(p, [call[p] EXCEPT
                  !.todo = @ \ {ch},
                  !.narrow = @ \cup {<<ch.fld, docs[s].cls>>},
                  !.upd = @ \cup {[cls |-> docs[s].cls, uid |-> ch.val,
                                   fld |-> Inverse[ch.fld],
                                   val |-> BrefValue(Inverse[ch.fld], ch.mode,
                                              docs[s].refs[Inverse[ch.fld]],
                                              call[p].cur)]}])
        BY <2>1
    <2>3. PICK w : w = [cls |-> docs[s].cls, uid |-> ch.val,
                        fld |-> Inverse[ch.fld],
                        val |-> BrefValue(Inverse[ch.fld], ch.mode,
                                          docs[s].refs[Inverse[ch.fld]],
                                          call[p].cur)]
        OBVIOUS
    <2>4. PICK frame : frame = [call[p] EXCEPT
                  !.todo = @ \ {ch},
                  !.narrow = @ \cup {<<ch.fld, docs[s].cls>>},
                  !.upd = @ \cup {w}]
        OBVIOUS
    <2>5. Goto(p, frame)
        BY <2>2, <2>3, <2>4
    <2>6. frame \in Frame
        <3>1. call'[p] = frame
            BY <1>c, <2>5 DEF Goto
        <3> QED
            BY <1>t, <3>1 DEF TInv, TypeOK
    <2>7. Shape(frame)
        BY <1>c, <1>p, <2>1, <2>4 DEF Shape, Frame
    <2>8. /\ frame.todo = call[p].todo \ {ch} /\ frame.upd = call[p].upd \cup {w}
          /\ frame.kind = call[p].kind /\ frame.cur = call[p].cur
          /\ frame.olds = call[p].olds /\ frame.new = call[p].new
          /\ frame.alone = call[p].alone
        BY <1>c, <2>4 DEF Frame
    <2>9. call[p].kind = "delete" => call[p].cur \notin w.val
        <3>1. call[p].kind = "delete" => ch.mode = "del"
            BY <1>p DEF MovedIsSuspect
        <3> QED
            BY <2>3, <3>1 DEF BrefValue
    <2>10. MovedIsSuspect(frame)'
        BY <1>6, <1>p, <2>1, <2>8, <2>9 DEF MovedIsSuspect, ReadBref
    <2> QED
        BY <1>6, <1>g, <2>1, <2>5, <2>6, <2>7, <2>8, <2>10 DEF ReadBref, Active
<1>7. CASE ConsistencyError(p)
    BY <1>7, <1>l DEF ConsistencyError
<1>8. CASE WriteBref(p)
    <2>1. PICK w0 \in call[p].upd :
             LET writes == {w \in call[p].upd : w.cls = w0.cls /\ w.uid = w0.uid}
                 found  == Matching(w0.cls, {w0.uid})
             IN  /\ Goto(p, [call[p] EXCEPT !.upd = @ \ writes,
                                            !.dirty = @ \/ found # {}])
                 /\ suspect \subseteq suspect'
        BY <1>8 DEF WriteBref
    <2> DEFINE writes == {w \in call[p].upd : w.cls = w0.cls /\ w.uid = w0.uid}
               found  == Matching(w0.cls, {w0.uid})
    <2>2. PICK frame : frame = [call[p] EXCEPT !.upd = @ \ writes,
                                               !.dirty = @ \/ found # {}]
        OBVIOUS
    <2>3. Goto(p, frame) /\ suspect \subseteq suspect' /\ call[p].pc = "bref"
        BY <1>8, <2>1, <2>2 DEF WriteBref, Prepared
    <2> HIDE DEF found
    <2>4. frame \in Frame
        BY <1>c, <2>2 DEF Frame
    <2>5. Shape(frame)
        BY <1>c, <1>p, <2>2, <2>3 DEF Shape, Frame
    <2>6. /\ frame.todo = call[p].todo /\ frame.upd \subseteq call[p].upd
          /\ frame.kind = call[p].kind /\ frame.cur = call[p].cur
          /\ frame.olds = call[p].olds /\ frame.new = call[p].new
          /\ frame.alone = call[p].alone
        BY <1>c, <2>2 DEF Frame
    <2>7. MovedIsSuspect(frame)'
        BY <1>p, <2>3, <2>6 DEF MovedIsSuspect
    <2> QED
        BY <1>g, <2>3, <2>4, <2>5, <2>6, <2>7 DEF Active
<1>9. CASE Return(p)
    BY <1>9, <1>l DEF Return
<1>10. CASE Crash(p)
    BY <1>10, <1>l DEF Crash
<1> QED
    BY <1>1, <1>2, <1>3, <1>4, <1>5, <1>6, <1>7, <1>8, <1>9, <1>10 DEF Step

-----------------------------------------------------------------------------
(***************************************************************************)
(* What the two steps of __update_backref leave as it is, and what they    *)
(* change.                                                                 *)
(***************************************************************************)
SameObject(p) ==
    /\ \A q \in Procs \ {p} : call'[q] = call[q]
    /\ call[p].pc = "bref" /\ call'[p].pc = "bref"
    /\ call'[p].kind = call[p].kind /\ call'[p].cls = call[p].cls
    /\ call'[p].target = call[p].target /\ call'[p].cur = call[p].cur
    /\ call'[p].new = call[p].new /\ call'[p].olds = call[p].olds
    /\ call'[p].fetched = call[p].fetched /\ call'[p].alone = call[p].alone

\* Reading a back reference turns one change into one prepared value.
LEMMA ReadBrefStep ==
    ASSUME CallInv, NEW p \in Procs, ReadBref(p)
    PROVE  \E ch \in call[p].todo, s \in Used(docs), w \in BrefWrite :
              /\ SameObject(p) /\ call'[p].dirty = call[p].dirty
              /\ call'[p].todo = call[p].todo \ {ch}
              /\ call'[p].upd = call[p].upd \cup {w}
              /\ w.cls = docs[s].cls /\ w.uid = ch.val /\ docs[s].uid = ch.val
              /\ w.fld = Inverse[ch.fld]
              /\ w.val = BrefValue(w.fld, ch.mode, docs[s].refs[w.fld], call[p].cur)
              /\ BrefAccepts(w.fld, ch.mode, docs[s].refs[w.fld], call[p].cur)
<1>t. TInv'
    BY CallInvTyped, TypedStep DEF Step
<1>c. call \in [Procs -> Frame] /\ call[p] \in Frame /\ call'[p] \in Frame
    BY <1>t DEF CallInv, TInv, TypeOK
<1>1. PICK ch \in call[p].todo :
         /\ call[p].pc = "bref"
         /\ \E s \in BrefTargets(p, ch) :
              LET g   == Inverse[ch.fld]
                  val == docs[s].refs[g]
              IN  /\ BrefAccepts(g, ch.mode, val, call[p].cur)
                  /\ Goto(p, [call[p] EXCEPT
                       !.todo = @ \ {ch},
                       !.narrow = @ \cup {<<ch.fld, docs[s].cls>>},
                       !.upd = @ \cup {[cls |-> docs[s].cls, uid |-> ch.val,
                                        fld |-> g,
                                        val |-> BrefValue(g, ch.mode, val,
                                                          call[p].cur)]}])
    BY DEF ReadBref, NextChange
<1>2. PICK s \in BrefTargets(p, ch) :
         /\ BrefAccepts(Inverse[ch.fld], ch.mode, docs[s].refs[Inverse[ch.fld]],
                        call[p].cur)
         /\ Goto(p, [call[p] EXCEPT
              !.todo = @ \ {ch},
              !.narrow = @ \cup {<<ch.fld, docs[s].cls>>},
              !.upd = @ \cup {[cls |-> docs[s].cls, uid |-> ch.val,
                               fld |-> Inverse[ch.fld],
                               val |-> BrefValue(Inverse[ch.fld], ch.mode,
                                          docs[s].refs[Inverse[ch.fld]],
                                          call[p].cur)]}])
    BY <1>1
<1>3. PICK w : w = [cls |-> docs[s].cls, uid |-> ch.val,
                    fld |-> Inverse[ch.fld],
                    val |-> BrefValue(Inverse[ch.fld], ch.mode,
                                      docs[s].refs[Inverse[ch.fld]],
                                      call[p].cur)]
    OBVIOUS
<1>4. call' = [call EXCEPT ![p] = [call[p] EXCEPT
              !.todo = @ \ {ch},
              !.narrow = @ \cup {<<ch.fld, docs[s].cls>>},
              !.upd = @ \cup {w}]]
    BY <1>2, <1>3 DEF Goto
<1>5. /\ SameObject(p) /\ call'[p].dirty = call[p].dirty
      /\ call'[p].todo = call[p].todo \ {ch}
      /\ call'[p].upd = call[p].upd \cup {w}
    BY <1>1, <1>4, <1>c DEF SameObject, Frame
<1>6. w \in BrefWrite
    BY <1>5, <1>c DEF Frame
<1>7. s \in Used(docs) /\ docs[s].uid = ch.val
    BY DEF BrefTargets
<1>8. /\ w.cls = docs[s].cls /\ w.uid = ch.val /\ w.fld = Inverse[ch.fld]
      /\ w.val = BrefValue(w.fld, ch.mode, docs[s].refs[w.fld], call[p].cur)
      /\ BrefAccepts(w.fld, ch.mode, docs[s].refs[w.fld], call[p].cur)
    BY <1>2, <1>3
<1> QED
    BY <1>5, <1>6, <1>7, <1>8

\* A field of an overwritten document has the value written or keeps its own.
LEMMA OverwriteValue ==
    ASSUME NEW r, NEW writes, NEW f \in Fields
    PROVE  \/ \E w \in writes : w.fld = f /\ Overwrite(r, writes)[f] = w.val
           \/ (\A w \in writes : w.fld # f) /\ Overwrite(r, writes)[f] = r[f]
<1>1. CASE \E w \in writes : w.fld = f
    <2>1. PICK v : v = CHOOSE w \in writes : w.fld = f
        OBVIOUS
    <2>2. v \in writes /\ v.fld = f
        BY <1>1, <2>1
    <2>3. Overwrite(r, writes)[f] = v.val
        BY <1>1, <2>1 DEF Overwrite
    <2> QED
        BY <2>2, <2>3
<1>2. CASE ~\E w \in writes : w.fld = f
    BY <1>2 DEF Overwrite
<1> QED
    BY <1>1, <1>2

\* Document s gets the values of the writes, and nothing else changes.
Rewrites(s, writes) ==
    /\ Used(docs') = Used(docs)
    /\ \A t \in Used(docs) : /\ docs'[t].uid = docs[t].uid
                             /\ docs'[t].cls = docs[t].cls
                             /\ t # s => docs'[t] = docs[t]
    /\ \A f \in Fields :
          \/ \E w \in writes : w.fld = f /\ docs'[s].refs[f] = w.val
          \/ /\ \A w \in writes : w.fld # f
             /\ docs'[s].refs[f] = docs[s].refs[f]

\* One update_one writes all that is prepared for one object, or matches nothing.
LEMMA WriteBrefStep ==
    ASSUME CallInv, NEW p \in Procs, WriteBref(p)
    PROVE  /\ SameObject(p) /\ call[p].todo = {} /\ call'[p].todo = {}
           /\ call[p].dirty => call'[p].dirty
           /\ \E w0 \in call[p].upd, writes \in SUBSET call[p].upd :
                 /\ \A w \in call[p].upd :
                       w \in writes <=> w.cls = w0.cls /\ w.uid = w0.uid
                 /\ call'[p].upd = call[p].upd \ writes
                 /\ \/ /\ Matching(w0.cls, {w0.uid}) = {}
                       /\ UNCHANGED <<docs, suspect>>
                    \/ \E s \in Used(docs) :
                          /\ docs[s].cls = w0.cls /\ docs[s].uid = w0.uid
                          /\ call'[p].dirty
                          /\ Rewrites(s, writes)
                          /\ suspect' = suspect \cup
                               (IF Stolen(s, writes, call[p].cur)
                                THEN {w0.uid} ELSE {})
<1>c. call \in [Procs -> Frame] /\ call[p] \in Frame
    BY DEF CallInv, TypeOK
<1>d. docs \in [Slots -> Doc \cup {NoDoc}] /\ NoDoc \notin Doc
    BY SchemaAssumption DEF CallInv, TypeOK
<1>1. PICK w0 \in call[p].upd :
         LET writes == {w \in call[p].upd : w.cls = w0.cls /\ w.uid = w0.uid}
             found  == Matching(w0.cls, {w0.uid})
         IN  /\ Goto(p, [call[p] EXCEPT !.upd = @ \ writes,
                                        !.dirty = @ \/ found # {}])
             /\ \/ found = {} /\ UNCHANGED <<docs, suspect>>
                \/ \E s \in found :
                      /\ docs' = [docs EXCEPT ![s].refs =
                                         Overwrite(docs[s].refs, writes)]
                      /\ suspect' = suspect \cup
                           (IF Stolen(s, writes, call[p].cur)
                            THEN {w0.uid} ELSE {})
    BY DEF WriteBref
<1>2. PICK writes : writes = {w \in call[p].upd : w.cls = w0.cls /\ w.uid = w0.uid}
    OBVIOUS
<1> DEFINE found == Matching(w0.cls, {w0.uid})
<1>3. /\ Goto(p, [call[p] EXCEPT !.upd = @ \ writes, !.dirty = @ \/ found # {}])
      /\ \/ found = {} /\ UNCHANGED <<docs, suspect>>
         \/ \E s \in found :
               /\ docs' = [docs EXCEPT ![s].refs = Overwrite(docs[s].refs, writes)]
               /\ suspect' = suspect \cup
                    (IF Stolen(s, writes, call[p].cur) THEN {w0.uid} ELSE {})
    BY <1>1, <1>2
<1>f. \A s \in found : s \in Used(docs) /\ docs[s].cls = w0.cls /\ docs[s].uid = w0.uid
    BY DEF Matching
<1> HIDE DEF found
<1>4. /\ SameObject(p) /\ call[p].todo = {} /\ call'[p].todo = {}
      /\ call[p].dirty => call'[p].dirty
      /\ found # {} => call'[p].dirty
      /\ call'[p].upd = call[p].upd \ writes
    BY <1>3, <1>c DEF Goto, SameObject, Frame, WriteBref, Prepared
<1>5. ASSUME NEW s \in found,
             docs' = [docs EXCEPT ![s].refs = Overwrite(docs[s].refs, writes)]
      PROVE  Rewrites(s, writes)
    <2>1. s \in Slots /\ docs[s] \in Doc
        BY <1>d, <1>f DEF Used
    <2>2. PICK r : r = Overwrite(docs[s].refs, writes)
        OBVIOUS
    <2>3. docs' = [docs EXCEPT ![s] = [docs[s] EXCEPT !.refs = r]]
        BY <1>5, <2>2
    <2>4. /\ docs'[s].refs = r /\ docs'[s].uid = docs[s].uid
          /\ docs'[s].cls = docs[s].cls
          /\ \A t \in Slots : t # s => docs'[t] = docs[t]
        BY <1>d, <2>1, <2>3 DEF Doc
    <2>5. docs'[s] \in Doc
        <3>1. r \in Refs
            <4> DEFINE v(f) == CHOOSE w \in writes : w.fld = f
            <4>1. \A f \in Fields : (\E w \in writes : w.fld = f) => v(f) \in writes
                OBVIOUS
            <4>2. writes \subseteq BrefWrite
                BY <1>2, <1>c DEF Frame
            <4>3. r = [f \in Fields |-> IF \E w \in writes : w.fld = f
                                        THEN v(f).val ELSE docs[s].refs[f]]
                BY <2>2 DEF Overwrite
            <4> HIDE DEF v
            <4> QED
                BY <2>1, <4>1, <4>2, <4>3 DEF Refs, Doc, BrefWrite
        <3> QED
            BY <1>d, <2>1, <2>3, <3>1 DEF Doc
    <2>6. Used(docs') = Used(docs)
        BY <1>d, <1>f, <2>1, <2>4, <2>5 DEF Used
    <2>7. \A t \in Used(docs) : t \in Slots
        BY DEF Used
    <2> QED
        BY <2>2, <2>4, <2>6, <2>7, OverwriteValue DEF Rewrites
<1>6. \/ found = {} /\ UNCHANGED <<docs, suspect>>
      \/ \E s \in Used(docs) :
            /\ docs[s].cls = w0.cls /\ docs[s].uid = w0.uid
            /\ call'[p].dirty
            /\ Rewrites(s, writes)
            /\ suspect' = suspect \cup
                 (IF Stolen(s, writes, call[p].cur) THEN {w0.uid} ELSE {})
    BY <1>3, <1>4, <1>5, <1>f
<1> QED
    BY <1>2, <1>4, <1>6 DEF found

-----------------------------------------------------------------------------
(***************************************************************************)
(* What a step of p leaves to the other calls.                             *)
(***************************************************************************)
\* Only documents of the targets of p change.
OwnWrite(p) ==
    /\ \A s \in Used(docs) : docs[s].uid \notin call[p].target =>
           s \in Used(docs') /\ docs'[s] = docs[s]
    /\ \A s \in Used(docs') : docs'[s].uid \notin call[p].target =>
           s \in Used(docs) /\ docs'[s] = docs[s]

\* The targets of p are in quarantine after the step.
OwnKnown(p) ==
    \/ call[p].target \subseteq suspect'
    \/ Active(p)' /\ call'[p].dirty /\ call'[p].target = call[p].target

\* A step of p leaves the other calls alone, and keeps or ends p's own.
LEMMA StepFootprint ==
    ASSUME CallInv, NEW p \in Procs, Step(p)
    PROVE  /\ Active(p) /\ suspect \subseteq suspect'
           /\ \A q \in Procs \ {p} : call'[q] = call[q]
           /\ \/ /\ Active(p)' /\ call'[p].target = call[p].target
                 /\ call'[p].alone = call[p].alone
                 /\ call[p].dirty => call'[p].dirty
              \/ /\ call'[p] = Idle
                 /\ call[p].dirty /\ ~call[p].alone =>
                        call[p].target \subseteq suspect'
           /\ \/ UNCHANGED docs
              \/ OwnWrite(p) /\ OwnKnown(p)
              \/ RemoveDocs(p) /\ call[p].alone
              \/ WriteBref(p)
<1>c. call \in [Procs -> Frame] /\ call[p] \in Frame /\ Shape(call[p])
    BY DEF CallInv, TypeOK, Carried
<1>d. docs \in [Slots -> Doc \cup {NoDoc}] /\ NoDoc \notin Doc
    BY SchemaAssumption DEF CallInv, TypeOK
<1>t. docs' \in [Slots -> Doc \cup {NoDoc}]
    BY CallInvTyped, TypedStep DEF TInv, TypeOK
<1> DEFINE Moves == /\ Active(p) /\ suspect \subseteq suspect'
                    /\ \A q \in Procs \ {p} : call'[q] = call[q]
           Stays == /\ Active(p)' /\ call'[p].target = call[p].target
                    /\ call'[p].alone = call[p].alone
                    /\ call[p].dirty => call'[p].dirty
           Goes  == /\ call'[p] = Idle
                    /\ call[p].dirty /\ ~call[p].alone =>
                           call[p].target \subseteq suspect'
<1>1. CASE InsertDoc(p)
    <2>1. Moves /\ Stays /\ call'[p].dirty /\ call[p].target = {call[p].cur}
        BY <1>1, <1>c DEF InsertDoc, Goto, Active, Frame, Shape
    <2>2. PICK s \in Slots \ Used(docs) :
             docs' = [docs EXCEPT ![s] = [cls  |-> call[p].cls,
                                          uid  |-> call[p].cur,
                                          refs |-> call[p].new]]
        BY <1>1 DEF InsertDoc
    <2>3. docs'[s].uid = call[p].cur /\ \A t \in Slots \ {s} : docs'[t] = docs[t]
        BY <1>d, <2>2
    <2>4. OwnWrite(p)
        BY <2>1, <2>2, <2>3 DEF OwnWrite, Used
    <2> QED
        BY <2>1, <2>4 DEF OwnKnown
<1>2. CASE FindForUpdate(p)
    BY <1>2, <1>c DEF FindForUpdate, Goto, Active, Frame, Settled, Prepared
<1>3. CASE SetDoc(p)
    <2>1. Moves /\ Stays /\ call[p].target = {call[p].cur}
        BY <1>3, <1>c DEF SetDoc, Goto, Active, Frame, Shape
    <2>2. ASSUME NEW s \in Matching(call[p].cls, {call[p].cur}),
                 docs' = [docs EXCEPT ![s].refs = call[p].new]
          PROVE  OwnWrite(p)
        <3>1. s \in Slots /\ docs[s] \in Doc /\ docs[s].uid = call[p].cur
            BY <1>d DEF Matching, Used
        <3>2. docs'[s].uid = call[p].cur /\ \A t \in Slots \ {s} : docs'[t] = docs[t]
            BY <1>d, <2>2, <3>1 DEF Doc
        <3> QED
            BY <2>1, <3>1, <3>2 DEF OwnWrite, Used
    <2>3. UNCHANGED docs \/ (OwnWrite(p) /\ call'[p].dirty)
        BY <1>3, <1>c, <2>2 DEF SetDoc, Goto, Frame
    <2> QED
        BY <2>1, <2>3 DEF OwnKnown
<1>4. CASE RemoveDocs(p)
    <2>1. Moves /\ Goes /\ (call[p].alone \/ call[p].target \subseteq suspect')
        BY <1>4, <1>c DEF RemoveDocs, Leave, Active, Settled, Prepared
    <2>2. OwnWrite(p)
        BY <1>4, <1>d DEF RemoveDocs, OwnWrite, Used, Matching
    <2> QED
        BY <1>4, <2>1, <2>2 DEF OwnKnown
<1>5. CASE TakeOld(p)
    BY <1>5, <1>c DEF TakeOld, Goto, Active, Frame, Settled, Prepared
<1>6. CASE ReadBref(p)
    BY <1>6, ReadBrefStep DEF SameObject, Active, ReadBref
<1>7. CASE ConsistencyError(p)
    BY <1>7, <1>c DEF ConsistencyError, NextChange, Leave, Active
<1>8. CASE WriteBref(p)
    BY <1>8, WriteBrefStep DEF SameObject, Active
<1>9. CASE Return(p)
    BY <1>9, <1>c DEF Return, Leave, Active, Settled, Prepared
<1>10. CASE Crash(p)
    BY <1>10, <1>c DEF Crash, Leave, Active
<1> QED
    BY <1>1, <1>2, <1>3, <1>4, <1>5, <1>6, <1>7, <1>8, <1>9, <1>10 DEF Step

\* The same for the begin of an operation.
LEMMA OperationFootprint ==
    ASSUME CallInv, NEW p \in Procs, Operation(p)
    PROVE  /\ ~Active(p) /\ UNCHANGED <<docs, suspect>>
           /\ Active(p)' /\ ~call'[p].dirty
           /\ call'[p].upd = {} /\ call'[p].todo = {}
           /\ call'[p].alone = \A q \in Procs : ~Active(q)
           /\ \A q \in Procs \ {p} :
                 call'[q] = [call[q] EXCEPT !.alone = @ /\ ~Active(q)]
<1>c. call \in [Procs -> Frame]
    BY DEF CallInv, TypeOK
<1>1. PICK frame \in Frame : Enter(p, frame) /\ Fresh(frame)
    BY CallInvTyped, OperationFrame
<1>2. call'[p] = [frame EXCEPT !.alone = \A q \in Procs : ~Active(q)]
    BY <1>1 DEF Enter
<1>3. \A q \in Procs \ {p} :
         call'[q] = [call[q] EXCEPT !.alone = @ /\ ~Active(q)]
    BY <1>1 DEF Enter
<1>4. frame.pc # "idle"
    BY <1>1 DEF Fresh, InsertFrame, UpdateFrame, DeleteFrame
<1>5. /\ call'[p].pc = frame.pc /\ call'[p].dirty = frame.dirty
      /\ call'[p].upd = frame.upd /\ call'[p].todo = frame.todo
      /\ call'[p].alone = \A q \in Procs : ~Active(q)
    BY <1>2 DEF Frame
<1> QED
    BY <1>1, <1>3, <1>4, <1>5 DEF Enter, Active, Fresh

-----------------------------------------------------------------------------
(***************************************************************************)
(* What is in quarantine, and for whom.                                    *)
(***************************************************************************)
HasWritten(q) == Active(q) /\ call[q].dirty

\* What the other calls may have changed: the suspect and their targets.
LEMMA ForeignMeaning ==
    ASSUME NEW p \in Procs, NEW x
    PROVE  x \in Foreign(p) <=>
               x \in suspect \/ \E q \in Procs \ {p} : HasWritten(q) /\ x \in call[q].target
BY DEF Foreign, HasWritten

\* Where damage is allowed: at the suspect and at the targets being written.
LEMMA QuarantineMeaning ==
    ASSUME NEW x
    PROVE  x \in Quarantine <=>
               x \in suspect \/ \E q \in Procs : HasWritten(q) /\ x \in call[q].target
BY DEF Quarantine, HasWritten

\* A call that overlaps the one of p knows all that p knew, and p's targets
\* if p wrote.
LEMMA ForeignStep ==
    ASSUME CallInv, NEW p \in Procs, NEW q \in Procs \ {p},
           Operation(p) \/ Step(p), Active(q)
    PROVE  /\ Foreign(q) \subseteq Foreign(q)'
           /\ OwnKnown(p) /\ Step(p) => call[p].target \subseteq Foreign(q)'
<1>c. call \in [Procs -> Frame]
    BY DEF CallInv, TypeOK
<1>1. CASE Operation(p)
    <2>1. ~Active(p) /\ suspect' = suspect
        BY <1>1, OperationFootprint
    <2>2. ~Step(p)
        BY <2>1, StepFootprint
    <2>3. ASSUME NEW r \in Procs \ {p}
          PROVE  HasWritten(r)' = HasWritten(r) /\ call'[r].target = call[r].target
        <3>1. call'[r] = [call[r] EXCEPT !.alone = @ /\ ~Active(r)]
            BY <1>1, OperationFootprint
        <3> QED
            BY <1>c, <3>1 DEF HasWritten, Active, Frame
    <2>4. ~HasWritten(p)
        BY <2>1 DEF HasWritten
    <2>5. Foreign(q) \subseteq Foreign(q)'
        <3>1. ASSUME NEW x \in Foreign(q) PROVE x \in Foreign(q)'
            <4>1. x \in suspect \/ \E r \in Procs \ {q} :
                                      HasWritten(r) /\ x \in call[r].target
                BY ForeignMeaning
            <4> QED
                BY <2>1, <2>3, <2>4, <4>1 DEF Foreign, HasWritten
        <3> QED
            BY <3>1
    <2> QED
        BY <2>2, <2>5
<1>2. CASE Step(p)
    <2>1. ~call[p].alone
        BY <1>2, StepFootprint DEF CallInv, AloneIsAlone
    <2>2. /\ suspect \subseteq suspect'
          /\ \A r \in Procs \ {p} : call'[r] = call[r]
          /\ HasWritten(p) => \/ HasWritten(p)' /\ call'[p].target = call[p].target
                           \/ call[p].target \subseteq suspect'
        BY <1>2, <2>1, StepFootprint DEF HasWritten
    <2>3. \A r \in Procs \ {p} : HasWritten(r)' = HasWritten(r)
        BY <2>2 DEF HasWritten, Active
    <2>4. ASSUME NEW x \in Foreign(q) PROVE x \in Foreign(q)'
        <3>1. x \in suspect \/ \E r \in Procs \ {q} :
                                  HasWritten(r) /\ x \in call[r].target
            BY ForeignMeaning
        <3> QED
            BY <2>2, <2>3, <3>1 DEF Foreign, HasWritten
    <2>5. OwnKnown(p) => call[p].target \subseteq Foreign(q)'
        BY DEF OwnKnown, Foreign
    <2> QED
        BY <2>4, <2>5
<1> QED
    BY <1>1, <1>2

\* Damage allowed stays allowed, except when a call on its own returns having
\* written; a call that is not on its own leaves its targets suspect.
LEMMA QuarantineStep ==
    ASSUME CallInv, NEW p \in Procs, Operation(p) \/ Step(p)
    PROVE  /\ \/ ~call[p].alone \/ Operation(p) \/ Active(p)' \/ ~call[p].dirty
              \/ ConsistencyError(p) \/ Crash(p)
              => Quarantine \subseteq Quarantine'
           /\ OwnKnown(p) /\ Step(p) => call[p].target \subseteq Quarantine'
<1>c. call \in [Procs -> Frame]
    BY DEF CallInv, TypeOK
<1>1. CASE Operation(p)
    <2>1. ~Active(p) /\ suspect' = suspect
        BY <1>1, OperationFootprint
    <2>2. ~Step(p)
        BY <2>1, StepFootprint
    <2>3. ASSUME NEW r \in Procs \ {p}
          PROVE  HasWritten(r)' = HasWritten(r) /\ call'[r].target = call[r].target
        <3>1. call'[r] = [call[r] EXCEPT !.alone = @ /\ ~Active(r)]
            BY <1>1, OperationFootprint
        <3> QED
            BY <1>c, <3>1 DEF HasWritten, Active, Frame
    <2>4. ASSUME NEW x \in Quarantine PROVE x \in Quarantine'
        <3>1. x \in suspect \/ \E r \in Procs : HasWritten(r) /\ x \in call[r].target
            BY QuarantineMeaning
        <3> QED
            BY <2>1, <2>3, <3>1 DEF Quarantine, HasWritten
    <2> QED
        BY <2>2, <2>4
<1>2. CASE Step(p)
    <2>1. /\ suspect \subseteq suspect'
          /\ \A r \in Procs \ {p} : call'[r] = call[r] /\ HasWritten(r)' = HasWritten(r)
        BY <1>2, StepFootprint DEF HasWritten, Active
    <2>0. ConsistencyError(p) \/ Crash(p) =>
              (call[p].dirty => call[p].target \subseteq suspect')
        BY DEF ConsistencyError, Crash, Leave
    <2>2. ASSUME \/ ~call[p].alone \/ Operation(p) \/ Active(p)' \/ ~call[p].dirty
                 \/ ConsistencyError(p) \/ Crash(p)
          PROVE  HasWritten(p) => \/ HasWritten(p)' /\ call'[p].target = call[p].target
                               \/ call[p].target \subseteq suspect'
        <3>1. ~Operation(p)
            BY <1>2, StepFootprint, OperationFootprint
        <3>2. Idle.pc = "idle"
            BY IdleType
        <3> QED
            BY <1>2, <2>0, <2>2, <3>1, <3>2, StepFootprint DEF HasWritten, Active
    <2>3. ASSUME \/ ~call[p].alone \/ Operation(p) \/ Active(p)' \/ ~call[p].dirty
                 \/ ConsistencyError(p) \/ Crash(p),
                 NEW x \in Quarantine
          PROVE  x \in Quarantine'
        <3>1. x \in suspect \/ \E r \in Procs : HasWritten(r) /\ x \in call[r].target
            BY QuarantineMeaning
        <3> QED
            BY <2>1, <2>2, <2>3, <3>1 DEF Quarantine, HasWritten
    <2>4. OwnKnown(p) => call[p].target \subseteq Quarantine'
        BY DEF OwnKnown, Quarantine
    <2> QED
        BY <2>3, <2>4
<1> QED
    BY <1>1, <1>2

\* A call on its own can only be disturbed by what was suspect before it.
LEMMA AloneQuarantine ==
    ASSUME CallInv, NEW p \in Procs, Active(p), call[p].alone
    PROVE  /\ Foreign(p) = suspect /\ Unreliable(p) = suspect
           /\ Quarantine = suspect \cup (IF call[p].dirty THEN call[p].target ELSE {})
           /\ \A q \in Procs \ {p} : ~Active(q)
<1>1. \A q \in Procs \ {p} : ~Active(q)
    BY DEF CallInv, AloneIsAlone
<1>2. Foreign(p) = suspect
    BY <1>1 DEF Foreign
<1>3. ASSUME NEW x
      PROVE  x \in Quarantine <=> x \in suspect \/ (call[p].dirty /\ x \in call[p].target)
    BY <1>1, QuarantineMeaning DEF HasWritten
<1> QED
    BY <1>1, <1>2, <1>3 DEF Unreliable

\* The whole invariant, for the calls and for the store.
StoreInv == /\ \A p \in Procs : PreparedAgrees(p)
            /\ Contained
            /\ \A p \in Procs : Active(p) /\ call[p].alone => AloneProgress(p, Nat)

\* The inductive invariant is that of the calls and that of the store.
LEMMA IInvParts == IInv <=> CallInv /\ StoreInv
BY DEF IInv, IInvOver, CallInv, StoreInv, Carried

\* No two documents have a uid whose stored values p can rely on.
LEMMA ReliableIsUnique ==
    ASSUME CallInv, StoreInv, NEW p \in Procs, Active(p)
    PROVE  UniqueOutside(docs, Unreliable(p))
<1>1. CASE call[p].alone
    BY <1>1, AloneQuarantine DEF StoreInv, AloneProgress
<1>2. CASE ~call[p].alone
    <2>1. Quarantine \subseteq Unreliable(p)
        <3>1. ASSUME NEW x \in Quarantine PROVE x \in Unreliable(p)
            BY <1>2, <3>1, QuarantineMeaning, ForeignMeaning DEF Unreliable
        <3> QED
            BY <3>1
    <2> QED
        BY <2>1 DEF StoreInv, Contained, ConsistentOutside, UniqueOutside
<1> QED
    BY <1>1, <1>2

\* A write changes nothing but references among the objects p or the other
\* calls are changing.
LEMMA WriteKeeps ==
    ASSUME CallInv, NEW p \in Procs, PreparedAgrees(p),
           NEW writes \in SUBSET call[p].upd, NEW s \in Used(docs),
           \A w \in writes : w.cls = docs[s].cls /\ w.uid = docs[s].uid,
           Rewrites(s, writes),
           docs[s].uid \notin Unreliable(p),
           Stolen(s, writes, call[p].cur) => docs[s].uid \in suspect',
           docs[s].uid \notin suspect',
           NEW f \in Fields, NEW z, z \notin Foreign(p) \cup Own(p)
    PROVE  z \in docs'[s].refs[f] <=> z \in docs[s].refs[f]
<1>1. CASE docs'[s].refs[f] = docs[s].refs[f]
    BY <1>1
<1>2. CASE \E w \in writes : w.fld = f /\ docs'[s].refs[f] = w.val
    <2>1. PICK w \in writes : w.fld = f /\ docs'[s].refs[f] = w.val
        BY <1>2
    <2>2. s \in Matching(w.cls, {w.uid}) /\ w \in call[p].upd
        BY DEF Matching
    <2>3. CASE f \notin Single
        BY <2>1, <2>2, <2>3 DEF PreparedAgrees
    <2>4. CASE f \in Single
        <3>1. call[p].cur \in Own(p)
            BY <2>2 DEF CallInv, Carried, Shape, Own
        <3>2. w.val \subseteq {call[p].cur}
            BY <2>1, <2>2, <2>4 DEF CallInv, Carried, Fits
        <3>3. docs[s].refs[f] \subseteq {call[p].cur}
            BY <2>1, <2>4 DEF Stolen
        <3> QED
            BY <2>1, <3>1, <3>2, <3>3
    <2> QED
        BY <2>3, <2>4
<1> QED
    BY <1>1, <1>2 DEF Rewrites

-----------------------------------------------------------------------------
(***************************************************************************)
(* PreparedAgrees is kept.                                                 *)
(***************************************************************************)
LEMMA PreparedAgreesOthers ==
    ASSUME CallInv, StoreInv, CallInv', NEW p \in Procs, NEW q \in Procs \ {p},
           Operation(p) \/ Step(p)
    PROVE  PreparedAgrees(q)'
<1>c. call \in [Procs -> Frame] /\ call[q] \in Frame
    BY DEF CallInv, TypeOK
<1>q. /\ call'[q].upd = call[q].upd /\ call'[q].target = call[q].target
      /\ call'[q].cur = call[q].cur
    <2>1. CASE Operation(p)
        <3>1. call'[q] = [call[q] EXCEPT !.alone = @ /\ ~Active(q)]
            BY <2>1, OperationFootprint
        <3> QED
            BY <1>c, <3>1 DEF Frame
    <2>2. CASE Step(p)
        BY <2>2, StepFootprint
    <2> QED
        BY <2>1, <2>2
<1>i. call[q].upd # {} => Active(q) /\ call[q].cur \in call[q].target
    BY DEF CallInv, Carried, Shape, Active
<1> SUFFICES ASSUME NEW w \in call[q].upd, w.fld \notin Single,
                    w.uid \notin Unreliable(q)',
                    NEW s \in Matching(w.cls, {w.uid})',
                    NEW z \in w.val \cup docs'[s].refs[w.fld],
                    z \notin Foreign(q)', z \notin Own(q)'
             PROVE  z \in w.val <=> z \in docs'[s].refs[w.fld]
    BY <1>q DEF PreparedAgrees
<1>1. Foreign(q) \subseteq Foreign(q)' /\ (OwnKnown(p) /\ Step(p) =>
                                              call[p].target \subseteq Foreign(q)')
    BY <1>i, ForeignStep
<1>2. ~call'[q].alone
    <2>1. CASE Operation(p)
        <3>1. call'[q] = [call[q] EXCEPT !.alone = @ /\ ~Active(q)]
            BY <2>1, OperationFootprint
        <3>2. (call[q].alone /\ ~Active(q)) = FALSE
            BY <1>i
        <3>3. call'[q] = [call[q] EXCEPT !.alone = FALSE]
            BY <3>1, <3>2
        <3> QED
            BY <1>c, <3>3 DEF Frame
    <2>2. CASE Step(p)
        BY <1>i, <2>2, StepFootprint DEF CallInv, AloneIsAlone
    <2> QED
        BY <2>1, <2>2
<1>3. /\ w.uid \notin Foreign(q)' /\ w.uid \notin call[q].target
      /\ z \notin call[q].target
    BY <1>q, <1>2 DEF Unreliable, Own
<1>4. w.uid \notin Unreliable(q) /\ z \notin Foreign(q) \cup Own(q)
    BY <1>1, <1>3, <1>i DEF Unreliable, Own
<1>5. /\ s \in Used(docs') /\ docs'[s].cls = w.cls /\ docs'[s].uid = w.uid
    BY DEF Matching
<1>6. ASSUME s \in Used(docs), docs[s].cls = w.cls, docs[s].uid = w.uid,
             z \in docs'[s].refs[w.fld] <=> z \in docs[s].refs[w.fld]
      PROVE  z \in w.val <=> z \in docs'[s].refs[w.fld]
    <2>1. s \in Matching(w.cls, {w.uid})
        BY <1>6 DEF Matching
    <2>2. PreparedAgrees(q)
        BY DEF StoreInv
    <2> QED
        BY <1>4, <1>6, <2>1, <2>2 DEF PreparedAgrees
<1>7. CASE UNCHANGED docs
    BY <1>5, <1>6, <1>7
<1>8. CASE Step(p) /\ OwnWrite(p) /\ OwnKnown(p)
    BY <1>1, <1>3, <1>5, <1>6, <1>8 DEF OwnWrite
<1>9. CASE Step(p) /\ WriteBref(p)
    <2>1. PICK w0 \in call[p].upd, writes \in SUBSET call[p].upd :
             /\ \A v \in call[p].upd : v \in writes <=> v.cls = w0.cls /\ v.uid = w0.uid
             /\ \/ Matching(w0.cls, {w0.uid}) = {} /\ UNCHANGED <<docs, suspect>>
                \/ \E t \in Used(docs) :
                      /\ docs[t].cls = w0.cls /\ docs[t].uid = w0.uid
                      /\ call'[p].dirty
                      /\ Rewrites(t, writes)
                      /\ suspect' = suspect \cup
                           (IF Stolen(t, writes, call[p].cur)
                            THEN {w0.uid} ELSE {})
        BY <1>9, WriteBrefStep
    <2>2. ASSUME NEW t \in Used(docs), docs[t].cls = w0.cls, docs[t].uid = w0.uid,
                 call'[p].dirty, Rewrites(t, writes),
                 suspect' = suspect \cup (IF Stolen(t, writes, call[p].cur)
                                          THEN {w0.uid} ELSE {})
          PROVE  z \in w.val <=> z \in docs'[s].refs[w.fld]
        <3>1. /\ s \in Used(docs) /\ docs'[s].uid = docs[s].uid
              /\ docs'[s].cls = docs[s].cls /\ (t # s => docs'[s] = docs[s])
            BY <1>5, <2>2 DEF Rewrites
        <3>2. CASE s # t
            BY <1>5, <1>6, <3>1, <3>2
        <3>3. CASE s = t
            <4>1. OwnKnown(p)
                BY <1>9, <2>2, WriteBrefStep DEF OwnKnown, SameObject, Active
            <4>2. ~call[p].alone
                BY <1>9, <1>i, StepFootprint DEF CallInv, AloneIsAlone
            <4>3. ASSUME NEW x, x \notin Foreign(q)', x \notin call[q].target
                  PROVE  x \notin Foreign(p) /\ x \notin call[p].target
                BY <1>1, <1>9, <4>1, <4>3, ForeignMeaning
            <4>4. /\ docs[s].uid \notin Unreliable(p)
                  /\ z \notin Foreign(p) \cup Own(p)
                BY <1>3, <1>5, <3>1, <4>2, <4>3 DEF Unreliable, Own
            <4>5. docs[s].uid \notin suspect'
                BY <1>3, <1>5, <3>1 DEF Foreign
            <4>6. \A v \in writes : v.cls = docs[s].cls /\ v.uid = docs[s].uid
                BY <2>1, <2>2, <3>3
            <4>7. w.fld \in Fields /\ PreparedAgrees(p)
                BY <1>c DEF StoreInv, Frame, BrefWrite
            <4>8. Stolen(s, writes, call[p].cur) => docs[s].uid \in suspect'
                BY <2>2, <3>3
            <4>9. z \in docs'[s].refs[w.fld] <=> z \in docs[s].refs[w.fld]
                BY <2>2, <3>1, <3>3, <4>4, <4>5, <4>6, <4>7, <4>8, WriteKeeps
            <4> QED
                BY <1>5, <1>6, <3>1, <4>9
        <3> QED
            BY <3>2, <3>3
    <2> QED
        BY <1>7, <2>1, <2>2
<1>10. CASE Step(p) /\ RemoveDocs(p) /\ call[p].alone
    BY <1>i, <1>10, StepFootprint DEF CallInv, AloneIsAlone
<1>11. CASE Operation(p)
    BY <1>7, <1>11, OperationFootprint
<1> QED
    BY <1>7, <1>8, <1>9, <1>10, <1>11, StepFootprint

\* The prepared value holds the object of the call if it is to be added, and
\* no other object comes or goes in a list.
LEMMA BrefValueMeaning ==
    ASSUME NEW g, NEW mode \in {"del", "add", "swap"}, NEW val, NEW x
    PROVE  /\ mode = "del" => x \notin BrefValue(g, mode, val, x)
           /\ mode = "add" => x \in BrefValue(g, mode, val, x)
           /\ g \notin Single => \A z : z # x =>
                  (z \in BrefValue(g, mode, val, x) <=> z \in val)
<1>1. CASE mode = "swap"
    <2>1. BrefValue(g, mode, val, x) = val
        BY <1>1 DEF BrefValue
    <2> QED
        BY <1>1, <2>1
<1>2. CASE mode = "del"
    <2>1. BrefValue(g, mode, val, x) = IF g \in Single THEN {} ELSE val \ {x}
        BY <1>2 DEF BrefValue
    <2> QED
        BY <1>2, <2>1
<1>3. CASE mode = "add"
    <2>1. BrefValue(g, mode, val, x) = IF g \in Single THEN {x} ELSE val \cup {x}
        BY <1>3 DEF BrefValue
    <2> QED
        BY <1>3, <2>1
<1> QED
    BY <1>1, <1>2, <1>3

\* A value prepared from what was just read agrees with the store.
LEMMA PreparedAgreesRead ==
    ASSUME CallInv, StoreInv, NEW p \in Procs, ReadBref(p)
    PROVE  PreparedAgrees(p)'
<1>s. UNCHANGED <<docs, suspect>>
    BY DEF ReadBref
<1>1. PICK ch \in call[p].todo, s \in Used(docs), w \in BrefWrite :
         /\ SameObject(p) /\ call'[p].dirty = call[p].dirty
         /\ call'[p].todo = call[p].todo \ {ch}
         /\ call'[p].upd = call[p].upd \cup {w}
         /\ w.cls = docs[s].cls /\ w.uid = ch.val /\ docs[s].uid = ch.val
         /\ w.fld = Inverse[ch.fld]
         /\ w.val = BrefValue(w.fld, ch.mode, docs[s].refs[w.fld], call[p].cur)
         /\ BrefAccepts(w.fld, ch.mode, docs[s].refs[w.fld], call[p].cur)
    BY ReadBrefStep
<1>2. Foreign(p)' = Foreign(p) /\ Own(p)' = Own(p) /\ Unreliable(p)' = Unreliable(p)
    <2>1. \A q \in Procs \ {p} : HasWritten(q)' = HasWritten(q)
        BY <1>1 DEF SameObject, HasWritten, Active
    <2>2. ASSUME NEW x PROVE x \in Foreign(p)' <=> x \in Foreign(p)
        BY <1>1, <1>s, <2>1, ForeignMeaning DEF SameObject, Foreign, HasWritten
    <2>3. Foreign(p)' = Foreign(p)
        <3>1. Foreign(p)' \subseteq Foreign(p) /\ Foreign(p) \subseteq Foreign(p)'
            BY <2>2
        <3> QED
            BY <3>1
    <2> QED
        BY <1>1, <2>3 DEF SameObject, Own, Unreliable
<1>3. call[p].cur \in Own(p) /\ Active(p)
    BY <1>1 DEF CallInv, Carried, Shape, Own, Active, SameObject
<1>4. UniqueOutside(docs, Unreliable(p))
    BY <1>3, ReliableIsUnique
<1>5. ASSUME NEW v \in call[p].upd \cup {w}, v.fld \notin Single,
             v.uid \notin Unreliable(p), NEW t \in Matching(v.cls, {v.uid}),
             NEW z, z \notin Foreign(p) \cup Own(p), z \in v.val \cup docs[t].refs[v.fld]
      PROVE  z \in v.val <=> z \in docs[t].refs[v.fld]
    <2>1. CASE v \in call[p].upd
        BY <1>5, <2>1 DEF StoreInv, PreparedAgrees
    <2>2. CASE v = w
        <3>1. t = s
            BY <1>1, <1>4, <1>5, <2>2 DEF Matching, UniqueOutside
        <3>2. z # call[p].cur
            BY <1>3, <1>5
        <3>3. ch.mode \in {"del", "add", "swap"}
            BY DEF CallInv, TypeOK, Frame, Change
        <3> QED
            BY <1>1, <1>5, <2>2, <3>1, <3>2, <3>3, BrefValueMeaning
    <2> QED
        BY <2>1, <2>2
<1> QED
    BY <1>1, <1>2, <1>5, <1>s DEF PreparedAgrees, Matching, SameObject

\* What p has prepared agrees with the store after each step of p.
LEMMA PreparedAgreesOwn ==
    ASSUME CallInv, StoreInv, NEW p \in Procs, Operation(p) \/ Step(p)
    PROVE  PreparedAgrees(p)'
<1>c. call \in [Procs -> Frame] /\ call[p] \in Frame /\ Shape(call[p])
    BY DEF CallInv, TypeOK, Carried
<1>e. call'[p].upd = {} => PreparedAgrees(p)'
    BY DEF PreparedAgrees
<1>0. CASE Operation(p)
    BY <1>0, <1>e, OperationFootprint
<1>1. CASE InsertDoc(p)
    BY <1>1, <1>c, <1>e DEF InsertDoc, Goto, Shape, Frame
<1>2. CASE FindForUpdate(p)
    BY <1>2, <1>c, <1>e DEF FindForUpdate, Settled, Goto, Frame
<1>3. CASE SetDoc(p)
    BY <1>3, <1>c, <1>e DEF SetDoc, Goto, Shape, Frame
<1>4. CASE RemoveDocs(p) \/ ConsistencyError(p) \/ Return(p) \/ Crash(p)
    <2>1. call'[p] = Idle
        BY <1>4, <1>c DEF RemoveDocs, ConsistencyError, Return, Crash, Leave
    <2> QED
        BY <1>e, <2>1 DEF Idle
<1>5. CASE TakeOld(p)
    BY <1>5, <1>c, <1>e DEF TakeOld, Settled, Goto, Frame
<1>6. CASE ReadBref(p)
    BY <1>6, PreparedAgreesRead
<1>8. CASE WriteBref(p)
    <2>1. PICK w0 \in call[p].upd, writes \in SUBSET call[p].upd :
             /\ \A w \in call[p].upd : w \in writes <=> w.cls = w0.cls /\ w.uid = w0.uid
             /\ call'[p].upd = call[p].upd \ writes
             /\ \/ Matching(w0.cls, {w0.uid}) = {} /\ UNCHANGED <<docs, suspect>>
                \/ \E t \in Used(docs) :
                      /\ docs[t].cls = w0.cls /\ docs[t].uid = w0.uid
                      /\ call'[p].dirty
                      /\ Rewrites(t, writes)
                      /\ suspect' = suspect \cup
                           (IF Stolen(t, writes, call[p].cur)
                            THEN {w0.uid} ELSE {})
        BY <1>8, WriteBrefStep
    <2>2. suspect \subseteq suspect'
        BY <2>1
    <2>3. SameObject(p)
        BY <1>8, WriteBrefStep
    <2>4. /\ Foreign(p) \subseteq Foreign(p)' /\ Own(p)' = Own(p)
          /\ Unreliable(p) \subseteq Unreliable(p)'
        <3>1. \A q \in Procs \ {p} : HasWritten(q)' = HasWritten(q)
            BY <2>3 DEF SameObject, HasWritten, Active
        <3>2. ASSUME NEW x \in Foreign(p) PROVE x \in Foreign(p)'
            BY <2>2, <2>3, <3>1, ForeignMeaning DEF SameObject, Foreign, HasWritten
        <3> QED
            BY <2>3, <3>2 DEF SameObject, Own, Unreliable
    <2>5. ASSUME NEW w \in call[p].upd \ writes, NEW s \in Matching(w.cls, {w.uid})'
          PROVE  s \in Matching(w.cls, {w.uid}) /\ docs'[s] = docs[s]
        BY <2>1 DEF Matching, Rewrites
    <2> QED
        BY <2>1, <2>3, <2>4, <2>5 DEF StoreInv, PreparedAgrees, SameObject
<1> QED
    BY <1>0, <1>1, <1>2, <1>3, <1>4, <1>5, <1>6, <1>8 DEF Step

-----------------------------------------------------------------------------
(***************************************************************************)
(* Contained is kept.                                                      *)
(***************************************************************************)
\* A store consistent outside Q remains so when nothing changes outside Q.
LEMMA Agreement ==
    ASSUME NEW store, NEW store2, NEW Q, NEW Q2, Q \subseteq Q2,
           ConsistentOutside(store, Q),
           \A s \in Used(store2) : store2[s].uid \notin Q2 =>
               /\ s \in Used(store) /\ store[s].uid = store2[s].uid
               /\ \A f \in Fields : store2[s].refs[f] \ Q2 \subseteq store[s].refs[f],
           \A s \in Used(store) : store[s].uid \notin Q2 =>
               /\ s \in Used(store2) /\ store[s].uid = store2[s].uid
               /\ \A f \in Fields : store[s].refs[f] \ Q2 \subseteq store2[s].refs[f]
    PROVE  ConsistentOutside(store2, Q2)
<1>1. UniqueOutside(store2, Q2)
    BY DEF ConsistentOutside, UniqueOutside
<1>2. ASSUME NEW s \in Used(store2), store2[s].uid \notin Q2,
             NEW f \in Fields, NEW y \in store2[s].refs[f] \ Q2
      PROVE  Lists(store2, y, Inverse[f], store2[s].uid)
    <2>1. Lists(store, y, Inverse[f], store2[s].uid)
        BY <1>2 DEF ConsistentOutside, AnsweredOutside
    <2>2. Inverse[f] \in Fields
        BY SchemaAssumption
    <2> QED
        BY <1>2, <2>1, <2>2 DEF Lists
<1> QED
    BY <1>1, <1>2 DEF ConsistentOutside, AnsweredOutside

\* What is consistent outside Q is consistent outside more than Q.
LEMMA ConsistentGrows ==
    ASSUME NEW store, NEW Q, NEW Q2, Q \subseteq Q2, ConsistentOutside(store, Q)
    PROVE  ConsistentOutside(store, Q2)
BY DEF ConsistentOutside, UniqueOutside, AnsweredOutside

\* The documents are removed whose back references are settled.
LEMMA ContainedRemove ==
    ASSUME CallInv, StoreInv, NEW p \in Procs, RemoveDocs(p), call[p].alone
    PROVE  ConsistentOutside(docs', suspect)
<1> DEFINE c == call[p]
<1>1. /\ Active(p) /\ c.kind = "delete" /\ c.olds = {} /\ c.todo = {} /\ c.upd = {}
    BY DEF RemoveDocs, Settled, Prepared, Active
<1>2. UniqueOutside(docs, suspect) /\ DeleteProgress(c)
    BY <1>1 DEF StoreInv, AloneProgress
<1>d. docs \in [Slots -> Doc \cup {NoDoc}] /\ NoDoc \notin Doc
    BY SchemaAssumption DEF CallInv, TypeOK
<1>3. /\ Used(docs') \subseteq Used(docs)
      /\ \A s \in Used(docs') : /\ docs'[s] = docs[s]
                                /\ ~(docs[s].cls = c.cls /\ docs[s].uid \in c.target)
      /\ \A s \in Used(docs) : docs[s].uid \notin c.target => s \in Used(docs')
    BY <1>d DEF RemoveDocs, Used, Matching
<1>4. ConsistentOutside(docs, suspect \cup c.target)
    <2>1. Quarantine \subseteq suspect \cup c.target
        BY <1>1, AloneQuarantine
    <2> QED
        BY <2>1, ConsistentGrows DEF StoreInv, Contained
<1> HIDE DEF c
<1>5. UniqueOutside(docs', suspect)
    BY <1>2, <1>3 DEF UniqueOutside
<1>6. ASSUME NEW s \in Used(docs'), docs'[s].uid \notin suspect,
             NEW f \in Fields, NEW x \in docs'[s].refs[f] \ suspect
      PROVE  Lists(docs', x, Inverse[f], docs'[s].uid)
    <2>1. docs'[s] = docs[s] /\ s \in Used(docs) /\ docs[s].uid \notin c.target
        BY <1>2, <1>3, <1>6 DEF DeleteProgress
    <2>2. x \notin c.target
        BY <1>1, <1>2, <1>6, <2>1 DEF DeleteProgress, Dropping, c
    <2>3. Lists(docs, x, Inverse[f], docs[s].uid)
        BY <1>4, <1>6, <2>1, <2>2 DEF ConsistentOutside, AnsweredOutside
    <2> QED
        BY <1>3, <2>1, <2>2, <2>3 DEF Lists
<1> QED
    BY <1>5, <1>6 DEF ConsistentOutside, AnsweredOutside

\* The call returns whose object and back references are settled.
LEMMA ContainedReturn ==
    ASSUME CallInv, StoreInv, NEW p \in Procs, Return(p), call[p].alone
    PROVE  ConsistentOutside(docs, suspect)
<1> DEFINE c == call[p]
           x == c.cur
<1>1. /\ Active(p) /\ c.kind # "delete" /\ c.olds = {} /\ c.todo = {} /\ c.upd = {}
      /\ c.pc = "bref" /\ c.target = {x}
    BY DEF Return, Settled, Prepared, Active, CallInv, Carried, Shape
<1>2. AloneProgress(p, Nat)
    BY <1>1 DEF StoreInv
<1>3. ConsistentOutside(docs, suspect \cup (IF c.dirty THEN {x} ELSE {}))
    BY <1>1, AloneQuarantine DEF StoreInv, Contained
<1>4. CASE ~c.dirty \/ x \in suspect
    <2>1. suspect \cup (IF c.dirty THEN {x} ELSE {}) = suspect
        BY <1>4
    <2> QED
        BY <1>3, <2>1
<1>5. CASE c.dirty /\ x \notin suspect
    <2>1. WriteProgress(c, Nat) /\ x \in Uids(docs)
        BY <1>1, <1>2, <1>5 DEF AloneProgress, ObjectProgress
    <2>2. UniqueOutside(docs, suspect)
        BY <1>2 DEF AloneProgress
    <2>3. \A f, y : ~Pending(c, f, y)
        BY <1>1 DEF Pending, Adding, Dropping
    <2>4. ASSUME NEW s \in Used(docs), docs[s].uid = x, NEW f \in Fields,
                 NEW y \in Nat \ suspect
          PROVE  y \in docs[s].refs[f] <=> Lists(docs, y, Inverse[f], x)
        BY <2>1, <2>3, <2>4 DEF WriteProgress
    <2>n. \A s \in Used(docs) : /\ docs[s].uid \in Nat
                                /\ \A f \in Fields : docs[s].refs[f] \subseteq Nat
        BY SchemaAssumption DEF CallInv, TypeOK, Used, Doc, Refs
    <2> HIDE DEF c, x
    <2>5. ASSUME NEW s \in Used(docs), docs[s].uid \notin suspect,
                 NEW f \in Fields, NEW y \in docs[s].refs[f] \ suspect
          PROVE  Lists(docs, y, Inverse[f], docs[s].uid)
        <3>1. CASE docs[s].uid = x
            BY <2>4, <2>5, <2>n, <3>1
        <3>2. CASE docs[s].uid # x /\ y = x
            <4>1. PICK t \in Used(docs) : docs[t].uid = x
                BY <2>1 DEF Uids
            <4>2. Inverse[f] \in Fields /\ Inverse[Inverse[f]] = f
                BY SchemaAssumption
            <4>3. docs[s].uid \in docs[t].refs[Inverse[f]]
                      <=> Lists(docs, docs[s].uid, f, x)
                BY <2>4, <2>5, <2>n, <4>1, <4>2
            <4> QED
                BY <2>5, <3>2, <4>1, <4>3 DEF Lists
        <3>3. CASE docs[s].uid # x /\ y # x
            BY <1>3, <1>5, <2>5, <3>3 DEF ConsistentOutside, AnsweredOutside
        <3> QED
            BY <3>1, <3>2, <3>3
    <2> QED
        BY <2>2, <2>5 DEF ConsistentOutside, AnsweredOutside
<1> QED
    BY <1>4, <1>5

\* Writing a back reference damages no object out of quarantine.
LEMMA ContainedWrite ==
    ASSUME CallInv, StoreInv, NEW p \in Procs, WriteBref(p)
    PROVE  Contained'
<1>1. PICK w0 \in call[p].upd, writes \in SUBSET call[p].upd :
         /\ \A w \in call[p].upd : w \in writes <=> w.cls = w0.cls /\ w.uid = w0.uid
         /\ call'[p].upd = call[p].upd \ writes
         /\ \/ Matching(w0.cls, {w0.uid}) = {} /\ UNCHANGED <<docs, suspect>>
            \/ \E t \in Used(docs) :
                  /\ docs[t].cls = w0.cls /\ docs[t].uid = w0.uid
                  /\ call'[p].dirty
                  /\ Rewrites(t, writes)
                  /\ suspect' = suspect \cup
                       (IF Stolen(t, writes, call[p].cur)
                        THEN {w0.uid} ELSE {})
    BY WriteBrefStep
<1>2. SameObject(p) /\ Active(p) /\ Active(p)' /\ call[p].cur \in call[p].target
    BY <1>1, WriteBrefStep DEF SameObject, Active, CallInv, Carried, Shape
<1>3. Quarantine \subseteq Quarantine'
    BY <1>2, QuarantineStep DEF Step
<1>4. ConsistentOutside(docs, Quarantine)
    BY DEF StoreInv, Contained
<1>5. CASE UNCHANGED docs
    BY <1>3, <1>4, <1>5, ConsistentGrows DEF Contained
<1>6. ASSUME NEW t \in Used(docs), docs[t].cls = w0.cls, docs[t].uid = w0.uid,
             call'[p].dirty, Rewrites(t, writes),
             suspect' = suspect \cup (IF Stolen(t, writes, call[p].cur)
                                      THEN {w0.uid} ELSE {})
      PROVE  Contained'
    <2>1. call[p].target \subseteq Quarantine' /\ suspect' \subseteq Quarantine'
        BY <1>2, <1>6 DEF SameObject, Quarantine
    <2>2. Foreign(p) \cup Own(p) \subseteq Quarantine'
        <3>1. ASSUME NEW x \in Foreign(p) PROVE x \in Quarantine
            BY ForeignMeaning, QuarantineMeaning
        <3>2. Own(p) \subseteq call[p].target
            BY <1>2 DEF Own
        <3> QED
            BY <1>3, <2>1, <3>1, <3>2
    <2>3. ASSUME docs[t].uid \notin Quarantine', NEW f \in Fields, NEW z, z \notin Quarantine'
          PROVE  z \in docs'[t].refs[f] <=> z \in docs[t].refs[f]
        <3>1. docs[t].uid \notin suspect' /\ docs[t].uid \notin Unreliable(p)
            BY <2>1, <2>2, <2>3 DEF Unreliable
        <3>2. z \notin Foreign(p) \cup Own(p) /\ PreparedAgrees(p)
            BY <2>2, <2>3 DEF StoreInv
        <3>3. \A w \in writes : w.cls = docs[t].cls /\ w.uid = docs[t].uid
            BY <1>1, <1>6
        <3>4. Stolen(t, writes, call[p].cur) => docs[t].uid \in suspect'
            BY <1>6
        <3> QED
            BY <1>6, <3>1, <3>2, <3>3, <3>4, WriteKeeps
    <2>4. Used(docs') = Used(docs)
        BY <1>6 DEF Rewrites
    <2>5. ASSUME NEW s \in Used(docs), docs[s].uid \notin Quarantine'
          PROVE  /\ docs[s].uid = docs'[s].uid
                 /\ \A f \in Fields : /\ docs'[s].refs[f] \ Quarantine' \subseteq docs[s].refs[f]
                                      /\ docs[s].refs[f] \ Quarantine' \subseteq docs'[s].refs[f]
        BY <1>6, <2>3, <2>5 DEF Rewrites
    <2>6. \A s \in Used(docs) : docs'[s].uid = docs[s].uid
        BY <1>6 DEF Rewrites
    <2>7. PICK store, store2, Q, Q2 :
             store = docs /\ store2 = docs' /\ Q = Quarantine /\ Q2 = Quarantine'
        OBVIOUS
    <2>8. ConsistentOutside(store2, Q2)
        BY <1>3, <1>4, <2>4, <2>5, <2>6, <2>7, Agreement
    <2> QED
        BY <2>7, <2>8 DEF Contained
<1> QED
    BY <1>1, <1>5, <1>6

\* The steps that take a call to its next object.
SameCall(p) ==
    /\ call'[p].kind = call[p].kind /\ call'[p].cls = call[p].cls
    /\ call'[p].target = call[p].target /\ call'[p].alone = call[p].alone
    /\ call'[p].upd = call[p].upd

\* insert_one adds one document with the uid reserved for it.
LEMMA InsertDocStep ==
    ASSUME CallInv, NEW p \in Procs, InsertDoc(p)
    PROVE  /\ SameCall(p) /\ call[p].pc = "insert" /\ call'[p].pc = "bref"
           /\ call'[p].cur = call[p].cur /\ call'[p].new = call[p].new
           /\ call'[p].olds = call[p].olds /\ call'[p].fetched = call[p].fetched
           /\ call'[p].todo = Changes(NoRefs, call[p].new) /\ call'[p].dirty
           /\ \E s \in Slots \ Used(docs) :
                 /\ Used(docs') = Used(docs) \cup {s}
                 /\ docs'[s].uid = call[p].cur /\ docs'[s].refs = call[p].new
                 /\ \A t \in Used(docs) : docs'[t] = docs[t]
<1>c. call \in [Procs -> Frame] /\ call[p] \in Frame
    BY DEF CallInv, TypeOK
<1>d. docs \in [Slots -> Doc \cup {NoDoc}] /\ NoDoc \notin Doc
    BY SchemaAssumption DEF CallInv, TypeOK
<1>1. PICK todo : todo = Changes(NoRefs, call[p].new)
    OBVIOUS
<1>2. /\ call[p].pc = "insert"
      /\ call' = [call EXCEPT ![p] = [call[p] EXCEPT !.pc = "bref",
                                         !.dirty = TRUE, !.todo = todo]]
    BY <1>1 DEF InsertDoc, Goto
<1>3. /\ SameCall(p) /\ call[p].pc = "insert" /\ call'[p].pc = "bref"
      /\ call'[p].cur = call[p].cur /\ call'[p].new = call[p].new
      /\ call'[p].olds = call[p].olds /\ call'[p].fetched = call[p].fetched
      /\ call'[p].todo = todo /\ call'[p].dirty
    BY <1>2, <1>c DEF SameCall, Frame
<1>4. PICK s \in Slots \ Used(docs) :
         docs' = [docs EXCEPT ![s] = [cls |-> call[p].cls, uid |-> call[p].cur,
                                      refs |-> call[p].new]]
    BY DEF InsertDoc
<1>5. /\ docs'[s] \in Doc /\ docs'[s].uid = call[p].cur
      /\ docs'[s].refs = call[p].new
      /\ \A t \in Slots \ {s} : docs'[t] = docs[t]
    BY <1>4, <1>c, <1>d DEF Doc, Frame
<1>6. /\ Used(docs') = Used(docs) \cup {s}
      /\ \A t \in Used(docs) : docs'[t] = docs[t]
    BY <1>4, <1>5, <1>d DEF Used
<1> QED
    BY <1>1, <1>3, <1>5, <1>6

\* The find of an update picks one of the objects fetched before.
LEMMA FindForUpdateStep ==
    ASSUME CallInv, NEW p \in Procs, FindForUpdate(p)
    PROVE  /\ SameCall(p) /\ call[p].pc = "bref" /\ call'[p].pc = "set"
           /\ call[p].kind = "update" /\ call[p].todo = {} /\ call[p].upd = {}
           /\ call[p].olds = {}
           /\ call'[p].todo = {} /\ call'[p].dirty = call[p].dirty
           /\ \E item \in call[p].fetched :
                 /\ call'[p].cur = item.uid /\ item.uid = call[p].cur
                 /\ call'[p].olds = Fetch(Matching(call[p].cls, {item.uid}))
                 /\ call'[p].fetched = call[p].fetched \ {item}
<1>c. call \in [Procs -> Frame] /\ call[p] \in Frame /\ Shape(call[p])
    BY DEF CallInv, TypeOK, Carried
<1>1. /\ call[p].pc = "bref" /\ call[p].olds = {}
      /\ call[p].todo = {} /\ call[p].upd = {}
    BY DEF FindForUpdate, Settled, Prepared
<1>2. PICK item \in call[p].fetched :
         Goto(p, [call[p] EXCEPT
                    !.pc = "set", !.cur = item.uid, !.new = item.refs,
                    !.olds = Fetch(Matching(call[p].cls, {item.uid})),
                    !.fetched = @ \ {item}])
    BY DEF FindForUpdate
<1>3. PICK olds : olds = Fetch(Matching(call[p].cls, {item.uid}))
    OBVIOUS
<1>4. call' = [call EXCEPT ![p] = [call[p] EXCEPT
                    !.pc = "set", !.cur = item.uid, !.new = item.refs,
                    !.olds = olds, !.fetched = @ \ {item}]]
    BY <1>2, <1>3 DEF Goto
<1>5. /\ SameCall(p) /\ call'[p].pc = "set"
      /\ call'[p].todo = call[p].todo /\ call'[p].dirty = call[p].dirty
      /\ call'[p].cur = item.uid /\ call'[p].olds = olds
      /\ call'[p].fetched = call[p].fetched \ {item}
    BY <1>4, <1>c DEF SameCall, Frame
<1>6. call[p].kind = "update" /\ item.uid = call[p].cur
    BY <1>1, <1>2, <1>c DEF Shape, Frame
<1> QED
    BY <1>1, <1>3, <1>5, <1>6

\* update_one rewrites one document of the uid, or matches nothing.
LEMMA SetDocStep ==
    ASSUME CallInv, NEW p \in Procs, SetDoc(p)
    PROVE  /\ SameCall(p) /\ call[p].pc = "set" /\ call'[p].pc = "bref"
           /\ call[p].kind = "update" /\ call'[p].todo = {} /\ call'[p].upd = {}
           /\ call'[p].cur = call[p].cur /\ call'[p].new = call[p].new
           /\ call'[p].olds = call[p].olds /\ call'[p].fetched = call[p].fetched
           /\ suspect \subseteq suspect'
           /\ \/ /\ Matching(call[p].cls, {call[p].cur}) = {} /\ UNCHANGED docs
                 /\ call'[p].dirty = call[p].dirty
              \/ /\ call'[p].dirty
                 /\ \E s \in Matching(call[p].cls, {call[p].cur}) :
                       /\ Used(docs') = Used(docs)
                       /\ docs'[s].uid = docs[s].uid
                       /\ docs'[s].refs = call[p].new
                       /\ \A t \in Used(docs) \ {s} : docs'[t] = docs[t]
<1>c. call \in [Procs -> Frame] /\ call[p] \in Frame /\ Shape(call[p])
    BY DEF CallInv, TypeOK, Carried
<1>d. docs \in [Slots -> Doc \cup {NoDoc}] /\ NoDoc \notin Doc
    BY SchemaAssumption DEF CallInv, TypeOK
<1>1. PICK found : found = Matching(call[p].cls, {call[p].cur})
    OBVIOUS
<1>2. /\ call[p].pc = "set" /\ suspect \subseteq suspect'
      /\ call' = [call EXCEPT ![p] = [call[p] EXCEPT !.pc = "bref",
                                         !.dirty = @ \/ found # {}]]
      /\ \/ found = {} /\ UNCHANGED docs
         \/ \E s \in found : docs' = [docs EXCEPT ![s].refs = call[p].new]
    BY <1>1 DEF SetDoc, Goto
<1>3. /\ SameCall(p) /\ call'[p].pc = "bref"
      /\ call'[p].cur = call[p].cur /\ call'[p].new = call[p].new
      /\ call'[p].olds = call[p].olds /\ call'[p].fetched = call[p].fetched
      /\ call'[p].dirty = (call[p].dirty \/ found # {})
      /\ call'[p].todo = call[p].todo
    BY <1>2, <1>c DEF SameCall, Frame
<1>4. call[p].kind = "update" /\ call[p].todo = {} /\ call[p].upd = {}
    BY <1>2, <1>c DEF Shape
<1>5. call[p].dirty \in BOOLEAN
    BY <1>c DEF Frame
<1>6. ASSUME NEW s \in found, docs' = [docs EXCEPT ![s].refs = call[p].new]
      PROVE  /\ Used(docs') = Used(docs)
             /\ docs'[s].uid = docs[s].uid /\ docs'[s].refs = call[p].new
             /\ \A t \in Used(docs) \ {s} : docs'[t] = docs[t]
    <2>1. s \in Slots /\ s \in Used(docs) /\ docs[s] \in Doc
        BY <1>1, <1>d DEF Matching, Used
    <2>2. docs' = [docs EXCEPT ![s] = [docs[s] EXCEPT !.refs = call[p].new]]
        BY <1>6
    <2>3. /\ docs'[s].uid = docs[s].uid /\ docs'[s].refs = call[p].new
          /\ docs'[s] \in Doc
          /\ \A t \in Slots \ {s} : docs'[t] = docs[t]
        BY <1>c, <1>d, <2>1, <2>2 DEF Doc, Frame
    <2> QED
        BY <1>d, <2>1, <2>3 DEF Used
<1>7. \/ found = {} /\ UNCHANGED docs /\ call'[p].dirty = call[p].dirty
      \/ /\ call'[p].dirty
         /\ \E s \in found :
               /\ Used(docs') = Used(docs)
               /\ docs'[s].uid = docs[s].uid
               /\ docs'[s].refs = call[p].new
               /\ \A t \in Used(docs) \ {s} : docs'[t] = docs[t]
    BY <1>2, <1>3, <1>5, <1>6
<1> QED
    BY <1>1, <1>2, <1>3, <1>4, <1>7 DEF SameCall

\* The next old object is compared with its new value.
LEMMA TakeOldStep ==
    ASSUME CallInv, NEW p \in Procs, TakeOld(p)
    PROVE  /\ SameCall(p) /\ call[p].pc = "bref" /\ call'[p].pc = "bref"
           /\ call[p].todo = {} /\ call[p].upd = {}
           /\ call'[p].new = call[p].new /\ call'[p].fetched = call[p].fetched
           /\ call'[p].dirty = call[p].dirty
           /\ \E old \in call[p].olds :
                 /\ call'[p].olds = call[p].olds \ {old}
                 /\ call'[p].cur = old.uid
                 /\ call'[p].todo = Changes(old.refs, IF call[p].kind = "delete"
                                                      THEN NoRefs
                                                      ELSE call[p].new)
<1>c. call \in [Procs -> Frame] /\ call[p] \in Frame
    BY DEF CallInv, TypeOK
<1>1. PICK old \in call[p].olds :
         Goto(p, [call[p] EXCEPT
                    !.olds = @ \ {old}, !.cur = old.uid, !.narrow = {},
                    !.todo = Changes(old.refs, IF call[p].kind = "delete"
                                               THEN NoRefs ELSE call[p].new)])
    BY DEF TakeOld
<1>2. PICK todo : todo = Changes(old.refs, IF call[p].kind = "delete"
                                           THEN NoRefs ELSE call[p].new)
    OBVIOUS
<1>3. call' = [call EXCEPT ![p] = [call[p] EXCEPT
                    !.olds = @ \ {old}, !.cur = old.uid, !.narrow = {},
                    !.todo = todo]]
    BY <1>1, <1>2 DEF Goto
<1>4. call[p].pc = "bref" /\ call[p].todo = {} /\ call[p].upd = {}
    BY DEF TakeOld, Settled, Prepared
<1>5. /\ SameCall(p) /\ call'[p].pc = call[p].pc
      /\ call'[p].new = call[p].new /\ call'[p].fetched = call[p].fetched
      /\ call'[p].dirty = call[p].dirty
      /\ call'[p].olds = call[p].olds \ {old}
      /\ call'[p].cur = old.uid /\ call'[p].todo = todo
    BY <1>3, <1>c DEF SameCall, Frame
<1> QED
    BY <1>2, <1>4, <1>5

\* A call ends by its return, an error or a crash, and in no other way.
LEMMA OnlyLeaves ==
    ASSUME CallInv, NEW p \in Procs, Step(p), ~Active(p)'
    PROVE  RemoveDocs(p) \/ ConsistencyError(p) \/ Return(p) \/ Crash(p)
BY InsertDocStep, FindForUpdateStep, SetDocStep, TakeOldStep, ReadBrefStep,
   WriteBrefStep DEF Step, SameObject, Active

\* Every step of a worker keeps damage contained.
LEMMA ContainedStep ==
    ASSUME CallInv, StoreInv, NEW p \in Procs, Operation(p) \/ Step(p)
    PROVE  Contained'
<1>4. ConsistentOutside(docs, Quarantine)
    BY DEF StoreInv, Contained
<1>1. CASE UNCHANGED docs /\ Quarantine \subseteq Quarantine'
    BY <1>1, <1>4, ConsistentGrows DEF Contained
<1>2. CASE Operation(p)
    BY <1>1, <1>2, OperationFootprint, QuarantineStep
<1>3. CASE Step(p) /\ OwnWrite(p) /\ OwnKnown(p) /\ (Active(p)' \/ ~call[p].alone)
    <2>1. Quarantine \subseteq Quarantine' /\ call[p].target \subseteq Quarantine'
        BY <1>3, QuarantineStep
    <2>2. PICK store, store2, Q, Q2 :
             store = docs /\ store2 = docs' /\ Q = Quarantine /\ Q2 = Quarantine'
        OBVIOUS
    <2>3. /\ \A s \in Used(docs) : docs[s].uid \notin Quarantine' =>
                s \in Used(docs') /\ docs'[s] = docs[s]
          /\ \A s \in Used(docs') : docs'[s].uid \notin Quarantine' =>
                s \in Used(docs) /\ docs'[s] = docs[s]
        BY <1>3, <2>1 DEF OwnWrite
    <2>4. ConsistentOutside(store2, Q2)
        BY <1>4, <2>1, <2>2, <2>3, Agreement
    <2> QED
        BY <2>2, <2>4 DEF Contained
<1>5. CASE RemoveDocs(p) /\ call[p].alone
    <2>1. ConsistentOutside(docs', suspect)
        BY <1>5, ContainedRemove
    <2>2. suspect \subseteq Quarantine'
        BY <1>5 DEF RemoveDocs, Leave, Quarantine
    <2> QED
        BY <2>1, <2>2, ConsistentGrows DEF Contained
<1>6. CASE Return(p) /\ call[p].alone
    <2>1. ConsistentOutside(docs, suspect) /\ UNCHANGED docs
        BY <1>6, ContainedReturn DEF Return
    <2>2. suspect \subseteq Quarantine'
        BY <1>6 DEF Return, Leave, Quarantine
    <2> QED
        BY <2>1, <2>2, ConsistentGrows DEF Contained
<1>7. CASE WriteBref(p)
    BY <1>7, ContainedWrite
<1>8. CASE Step(p) /\ UNCHANGED docs /\ ~Return(p) /\ ~RemoveDocs(p)
    <2>1. Active(p)' \/ ConsistencyError(p) \/ Crash(p)
        BY <1>8, OnlyLeaves
    <2> QED
        BY <1>1, <1>8, <2>1, QuarantineStep
<1>9. CASE (Return(p) \/ RemoveDocs(p)) /\ ~call[p].alone
    <2>1. Step(p)
        BY <1>9 DEF Step
    <2>2. UNCHANGED docs \/ (OwnWrite(p) /\ OwnKnown(p)) \/ WriteBref(p)
        BY <1>9, <2>1, StepFootprint
    <2> QED
        BY <1>1, <1>3, <1>7, <1>9, <2>1, <2>2, QuarantineStep
<1>10. CASE Step(p) /\ OwnWrite(p) /\ OwnKnown(p) /\ ~Active(p)' /\ call[p].alone
            /\ ~UNCHANGED docs
    <2>1. RemoveDocs(p)
        BY <1>10, OnlyLeaves DEF ConsistencyError, Return, Crash
    <2> QED
        BY <1>5, <1>10, <2>1
<1> QED
    BY <1>2, <1>3, <1>5, <1>6, <1>7, <1>8, <1>9, <1>10, StepFootprint

-----------------------------------------------------------------------------
(***************************************************************************)
(* AloneProgress is kept: what a call that no other overlaps has done.     *)
(***************************************************************************)
LEMMA StoredTypes ==
    ASSUME CallInv
    PROVE  \A s \in Used(docs) : /\ docs[s].uid \in Nat
                                 /\ docs[s].refs \in Refs
                                 /\ \A f \in Fields : docs[s].refs[f] \subseteq Nat
BY SchemaAssumption DEF CallInv, TypeOK, Used, Doc, Refs

\* Before the call writes, only suspects are in quarantine.
LEMMA AloneClean ==
    ASSUME CallInv, StoreInv, NEW p \in Procs, Active(p), call[p].alone,
           ~call[p].dirty
    PROVE  ConsistentOutside(docs, suspect)
<1>1. Quarantine = suspect
    BY AloneQuarantine
<1> QED
    BY <1>1 DEF StoreInv, Contained

\* A call on its own starts with all its back references settled.
LEMMA AloneOperation ==
    ASSUME CallInv, StoreInv, NEW p \in Procs, Operation(p), call'[p].alone
    PROVE  AloneProgress(p, Nat)'
<1>1. PICK frame \in Frame : Enter(p, frame) /\ Fresh(frame)
    BY CallInvTyped, OperationFrame
<1>c. call \in [Procs -> Frame]
    BY DEF CallInv, TypeOK
<1>2. call'[p] = [frame EXCEPT !.alone = \A q \in Procs : ~Active(q)]
    BY <1>1 DEF Enter
<1>3. PICK c : c = call'[p]
    OBVIOUS
<1>4. Fresh(c) /\ c.cls = frame.cls
    BY <1>1, <1>2, <1>3 DEF Fresh, InsertFrame, UpdateFrame, DeleteFrame, Frame
<1>5. UNCHANGED <<docs, suspect>>
    BY OperationFootprint
<1>6. ConsistentOutside(docs, suspect)
    <2>1. \A q \in Procs : ~Active(q)
        BY OperationFootprint
    <2>2. ASSUME NEW x PROVE x \in Quarantine <=> x \in suspect
        BY <2>1, QuarantineMeaning DEF HasWritten
    <2>3. Quarantine = suspect
        BY <2>2
    <2> QED
        BY <2>3 DEF StoreInv, Contained
<1>7. UniqueOutside(docs, suspect)
    BY <1>6 DEF ConsistentOutside
<1>8. c.pc = "insert" => c.cur \notin Uids(docs)
    BY <1>4 DEF Fresh, InsertFrame, UpdateFrame, DeleteFrame
<1>9. Aimed(c)
    BY <1>4 DEF Aimed, Fresh
<1>10. c.kind = "delete" => DeleteProgress(c)
    <2>1. SUFFICES ASSUME c.kind = "delete" PROVE DeleteProgress(c)
        OBVIOUS
    <2>2. DeleteFrame(c)
        BY <1>4, <2>1 DEF Fresh, InsertFrame, UpdateFrame
    <2>3. \A s \in Used(docs) : docs[s].uid \in c.target \ suspect =>
              docs[s].cls = c.cls
        BY <1>7, <2>2 DEF DeleteFrame, UniqueOutside
    <2>4. ASSUME NEW s \in Used(docs), NEW g \in Fields, NEW x \in docs[s].refs[g],
                 x \in c.target \ suspect, docs[s].uid \notin c.target \cup suspect
          PROVE  \E i \in c.olds : i.uid = x /\ docs[s].uid \in i.refs[Inverse[g]]
        <3>1. PICK t \in Used(docs) :
                 docs[t].uid = x /\ docs[s].uid \in docs[t].refs[Inverse[g]]
            BY <1>6, <2>4 DEF ConsistentOutside, AnsweredOutside, Lists
        <3>2. t \in Matching(c.cls, c.target)
            BY <2>3, <2>4, <3>1 DEF Matching
        <3>3. [slot |-> t, uid |-> docs[t].uid, refs |-> docs[t].refs] \in c.olds
            BY <2>2, <3>2 DEF DeleteFrame, Fetch
        <3> QED
            BY <3>1, <3>3
    <2> QED
        BY <2>3, <2>4 DEF DeleteProgress
<1>11. c.kind # "delete" /\ c.cur \notin suspect => ObjectProgress(c, Nat)
    <2>1. SUFFICES ASSUME c.kind # "delete", c.cur \notin suspect
                   PROVE  ObjectProgress(c, Nat)
        OBVIOUS
    <2>2. CASE InsertFrame(c)
        BY <1>4, <2>2 DEF ObjectProgress, InsertFrame, Fresh
    <2>3. CASE UpdateFrame(c)
        <3>1. AtMostOne(Matching(c.cls, {c.cur}))
            BY <1>7, <2>1 DEF AtMostOne, Matching, UniqueOutside
        <3> QED
            BY <1>4, <2>3, <3>1 DEF ObjectProgress, UpdateFrame, Fresh, AtMostOne
    <2> QED
        BY <1>4, <2>1, <2>2, <2>3 DEF Fresh, DeleteFrame
<1>12. AloneProgress(p, Nat)' <=>
         /\ UniqueOutside(docs, suspect)
         /\ c.pc = "insert" => c.cur \notin Uids(docs)
         /\ Aimed(c)
         /\ c.kind = "delete" => DeleteProgress(c)
         /\ c.kind # "delete" /\ c.cur \notin suspect => ObjectProgress(c, Nat)
    BY <1>3, <1>5 DEF AloneProgress, Aimed, DeleteProgress, ObjectProgress,
       WriteProgress, FreshUpdate, Matching, Fetch, Lists
<1> QED
    BY <1>7, <1>8, <1>9, <1>10, <1>11, <1>12

\* The parts of AloneProgress, put together for the state after a step.
LEMMA AloneProgressAfter ==
    ASSUME NEW p \in Procs, NEW c, c = call'[p],
           UniqueOutside(docs', suspect'),
           c.pc # "insert",
           Aimed(c)',
           c.kind = "delete" => DeleteProgress(c)',
           c.kind # "delete" /\ c.cur \notin suspect' => ObjectProgress(c, Nat)'
    PROVE  AloneProgress(p, Nat)'
<1>1. Aimed(call[p])'
    BY DEF Aimed
<1>2. call'[p].kind = "delete" => DeleteProgress(call[p])'
    BY DEF DeleteProgress, Dropping
<1>3. call'[p].kind # "delete" /\ call'[p].cur \notin suspect' =>
          ObjectProgress(call[p], Nat)'
    BY DEF ObjectProgress, WriteProgress, FreshUpdate, Pending, Adding, Dropping
<1> QED
    BY <1>1, <1>2, <1>3 DEF AloneProgress

\* The object inserted on its own is new to every back reference.
LEMMA AloneInsertDoc ==
    ASSUME CallInv, StoreInv, NEW p \in Procs, InsertDoc(p), call[p].alone
    PROVE  AloneProgress(p, Nat)'
<1> DEFINE x == call[p].cur
           new == call[p].new
<1>1. PICK c : c = call'[p]
    OBVIOUS
<1>s. suspect' = suspect
    BY DEF InsertDoc
<1>2. PICK s \in Slots \ Used(docs) :
         /\ Used(docs') = Used(docs) \cup {s}
         /\ docs'[s].uid = x /\ docs'[s].refs = new
         /\ \A t \in Used(docs) : docs'[t] = docs[t]
    BY InsertDocStep
<1>3. /\ call[p].pc = "insert" /\ call[p].kind = "insert" /\ ~call[p].dirty
      /\ call[p].olds = {} /\ call[p].fetched = {} /\ call[p].upd = {}
      /\ Active(p) /\ call[p] \in Frame
    BY InsertDocStep DEF CallInv, Carried, Shape, Active, TypeOK
<1>4. /\ c.pc = "bref" /\ c.kind = "insert" /\ c.cur = x /\ c.upd = {}
      /\ c.olds = {} /\ c.fetched = {} /\ c.dirty /\ c.todo = Changes(NoRefs, new)
    BY <1>1, <1>3, InsertDocStep DEF SameCall
<1>5. AloneProgress(p, Nat) /\ ConsistentOutside(docs, suspect)
    BY <1>3, AloneClean DEF StoreInv
<1>6. x \notin Uids(docs) /\ UniqueOutside(docs, suspect)
    BY <1>3, <1>5 DEF AloneProgress
<1>7. \A t \in Used(docs) : docs'[t].uid # x
    BY <1>2, <1>6 DEF Uids
<1>n. new \in Refs /\ x \in Nat /\ \A f \in Fields : new[f] \subseteq Nat
    BY <1>3 DEF Frame, Refs
<1> HIDE DEF x, new
<1>8. ASSUME NEW f \in Fields, NEW y \in Nat
      PROVE  /\ Adding(c, f, y) <=> y \in new[f]
             /\ ~Dropping(c, f, y)
    <2>1. \A g \in Fields : NoSwap(g, NoRefs[g], new[g])
        BY <1>n, NothingNeedsNoSwap
    <2>2. NoRefs \in Refs /\ NoRefs[f] = {}
        BY NoRefsFit DEF NoRefs
    <2>3. /\ (\E ch \in c.todo : ch.fld = f /\ ch.val = y /\ ch.mode = "add")
                  <=> y \in new[f]
          /\ ~\E ch \in c.todo : ch.fld = f /\ ch.val = y /\ ch.mode # "add"
        BY <1>4, <1>n, <2>1, <2>2, ChangesMeaning
    <2> QED
        BY <1>4, <2>3 DEF Adding, Dropping
<1>9. UniqueOutside(docs', suspect')
    BY <1>2, <1>6, <1>7, <1>s DEF UniqueOutside
<1>10. Aimed(c)'
    BY <1>4 DEF Aimed
<1>11. c.cur \notin suspect' => ObjectProgress(c, Nat)'
    <2> SUFFICES ASSUME x \notin suspect PROVE ObjectProgress(c, Nat)'
        BY <1>4, <1>s
    <2>1. x \in Uids(docs')
        BY <1>2 DEF Uids
    <2>2. ASSUME NEW f \in Fields, NEW y \in Nat \ suspect, y \notin new[f],
                 y = x => x \notin new[Inverse[f]]
          PROVE  ~Lists(docs', y, Inverse[f], x)
        <3> SUFFICES ASSUME NEW t \in Used(docs'), docs'[t].uid = y,
                            x \in docs'[t].refs[Inverse[f]]
                     PROVE  FALSE
            BY DEF Lists
        <3>1. CASE t = s
            BY <1>2, <2>2, <3>1
        <3>2. CASE t # s
            <4>1. t \in Used(docs) /\ docs'[t] = docs[t]
                BY <1>2, <3>2
            <4>2. Inverse[f] \in Fields
                BY SchemaAssumption
            <4>3. Lists(docs, x, Inverse[Inverse[f]], y)
                BY <1>5, <2>2, <4>1, <4>2 DEF ConsistentOutside, AnsweredOutside
            <4> QED
                BY <1>6, <4>3 DEF Lists, Uids
        <3> QED
            BY <3>1, <3>2
    <2>3. ASSUME NEW t \in Used(docs'), docs'[t].uid = x, NEW f \in Fields
          PROVE  /\ \A y \in Nat \ suspect :
                       /\ Adding(c, f, y) => y \in docs'[t].refs[f]
                       /\ Dropping(c, f, y) => y \notin docs'[t].refs[f]
                       /\ ~Pending(c, f, y) /\ (y = x => ~Pending(c, Inverse[f], x)) =>
                             (y \in docs'[t].refs[f] <=> Lists(docs', y, Inverse[f], x))
                 /\ ~(Adding(c, f, x) /\ Dropping(c, Inverse[f], x))
        <3>1. docs'[t].refs = new
            BY <1>2, <1>7, <2>3
        <3>2. Inverse[f] \in Fields
            BY SchemaAssumption
        <3>3. ASSUME NEW y \in Nat \ suspect,
                     ~Pending(c, f, y), y = x => ~Pending(c, Inverse[f], x)
              PROVE  y \in docs'[t].refs[f] <=> Lists(docs', y, Inverse[f], x)
            BY <1>8, <1>n, <2>2, <3>1, <3>2, <3>3 DEF Pending
        <3> QED
            BY <1>8, <1>n, <3>1, <3>2, <3>3
    <2>4. WriteProgress(c, Nat)'
        BY <1>4, <1>s, <2>3 DEF WriteProgress
    <2> QED
        BY <1>4, <2>1, <2>4 DEF ObjectProgress
<1> QED
    BY <1>1, <1>4, <1>9, <1>10, <1>11, AloneProgressAfter

\* The old value of an object updated on its own is the stored one.
LEMMA AloneFindForUpdate ==
    ASSUME CallInv, StoreInv, NEW p \in Procs, FindForUpdate(p), call[p].alone
    PROVE  AloneProgress(p, Nat)'
<1>1. PICK c : c = call'[p]
    OBVIOUS
<1>s. UNCHANGED <<docs, suspect>>
    BY DEF FindForUpdate
<1>2. PICK item \in call[p].fetched :
         /\ c.cur = item.uid /\ item.uid = call[p].cur
         /\ c.olds = Fetch(Matching(call[p].cls, {item.uid}))
         /\ c.fetched = call[p].fetched \ {item}
    BY <1>1, FindForUpdateStep
<1>3. /\ c.pc = "set" /\ c.kind = "update" /\ c.cls = call[p].cls
      /\ c.upd = {} /\ c.todo = {} /\ c.dirty = call[p].dirty
      /\ call[p].pc = "bref" /\ call[p].kind = "update" /\ Active(p)
    BY <1>1, FindForUpdateStep DEF SameCall, Active
<1>4. AloneProgress(p, Nat)
    BY <1>3 DEF StoreInv
<1>5. UniqueOutside(docs', suspect')
    BY <1>4, <1>s DEF AloneProgress
<1>6. Aimed(c)'
    BY <1>3 DEF Aimed
<1>7. c.cur \notin suspect' => ObjectProgress(c, Nat)'
    <2> SUFFICES ASSUME c.cur \notin suspect PROVE ObjectProgress(c, Nat)'
        BY <1>s
    <2>1. ObjectProgress(call[p], Nat)
        BY <1>2, <1>3, <1>4 DEF AloneProgress
    <2>2. ~c.dirty /\ c.fetched = {} /\ c.cur \in Uids(docs')
        BY <1>2, <1>3, <1>s, <2>1 DEF ObjectProgress
    <2>3. c.olds = Fetch(Matching(c.cls, {c.cur}))'
        BY <1>2, <1>3, <1>s DEF Fetch, Matching
    <2> QED
        BY <1>3, <2>2, <2>3 DEF ObjectProgress
<1> QED
    BY <1>1, <1>3, <1>5, <1>6, <1>7, AloneProgressAfter

\* After update_one the old value is what the back references still say.
LEMMA AloneSetDoc ==
    ASSUME CallInv, StoreInv, NEW p \in Procs, SetDoc(p), call[p].alone
    PROVE  AloneProgress(p, Nat)'
<1> DEFINE x == call[p].cur
           new == call[p].new
<1>1. PICK c : c = call'[p]
    OBVIOUS
<1>2. /\ c.pc = "bref" /\ c.kind = "update" /\ c.cls = call[p].cls
      /\ c.upd = {} /\ c.todo = {} /\ c.cur = x /\ c.new = new
      /\ c.olds = call[p].olds /\ c.fetched = call[p].fetched
      /\ call[p].pc = "set" /\ call[p].kind = "update" /\ Active(p)
      /\ suspect \subseteq suspect'
    BY <1>1, SetDocStep DEF SameCall, Active
<1>3. \/ /\ Matching(call[p].cls, {x}) = {} /\ UNCHANGED docs
         /\ c.dirty = call[p].dirty
      \/ /\ c.dirty
         /\ \E s \in Matching(call[p].cls, {x}) :
               /\ Used(docs') = Used(docs)
               /\ docs'[s].uid = docs[s].uid
               /\ docs'[s].refs = new
               /\ \A t \in Used(docs) \ {s} : docs'[t] = docs[t]
    BY <1>1, SetDocStep
<1>4. AloneProgress(p, Nat)
    BY <1>2 DEF StoreInv
<1>5. UniqueOutside(docs, suspect)
    BY <1>4 DEF AloneProgress
<1>6. Used(docs') = Used(docs) /\ \A t \in Used(docs) : docs'[t].uid = docs[t].uid
    BY <1>3
<1>7. UniqueOutside(docs', suspect')
    BY <1>2, <1>5, <1>6 DEF UniqueOutside
<1>8. Aimed(c)'
    BY <1>2 DEF Aimed
<1>9. c.cur \notin suspect' => ObjectProgress(c, Nat)'
    <2> SUFFICES ASSUME x \notin suspect', x \notin suspect
                 PROVE  ObjectProgress(c, Nat)'
        BY <1>2
    <2>1. ObjectProgress(call[p], Nat)
        BY <1>2, <1>4 DEF AloneProgress
    <2>2. /\ ~call[p].dirty /\ c.fetched = {} /\ x \in Uids(docs')
          /\ c.olds = Fetch(Matching(call[p].cls, {x}))
        BY <1>2, <1>6, <2>1 DEF ObjectProgress, Uids
    <2>3. CASE ~c.dirty
        <3>1. c.olds = {}
            BY <1>3, <2>2, <2>3 DEF Fetch
        <3> QED
            BY <1>2, <2>2, <2>3, <3>1 DEF ObjectProgress
    <2>4. CASE c.dirty
        <3>1. PICK s \in Matching(call[p].cls, {x}) :
                 /\ docs'[s].refs = new
                 /\ \A t \in Used(docs) \ {s} : docs'[t] = docs[t]
            BY <1>3, <2>2, <2>4
        <3>2. /\ s \in Used(docs) /\ docs[s].uid = x
              /\ \A t \in Used(docs) : docs[t].uid = x => t = s
            BY <1>5 DEF Matching, UniqueOutside
        <3>3. Matching(call[p].cls, {x}) = {s}
            BY <3>2 DEF Matching
        <3>4. c.olds = {[slot |-> s, uid |-> docs[s].uid, refs |-> docs[s].refs]}
            BY <2>2, <3>3 DEF Fetch
        <3>5. ConsistentOutside(docs, suspect)
            BY <1>2, <2>2, AloneClean
        <3>i. \A f \in Fields : Inverse[f] \in Fields /\ Inverse[Inverse[f]] = f
            BY SchemaAssumption
        <3> HIDE DEF x, new
        <3>6. ASSUME NEW f \in Fields, NEW y \in Nat \ (suspect' \cup {x})
              PROVE  y \in docs[s].refs[f] <=> Lists(docs', y, Inverse[f], x)
            <4>1. ASSUME y \in docs[s].refs[f] PROVE Lists(docs', y, Inverse[f], x)
                <5>1. Lists(docs, y, Inverse[f], x)
                    BY <1>2, <3>2, <3>5, <3>6, <4>1 DEF ConsistentOutside, AnsweredOutside
                <5> QED
                    BY <1>6, <3>1, <3>2, <3>6, <5>1 DEF Lists
            <4>2. ASSUME Lists(docs', y, Inverse[f], x) PROVE y \in docs[s].refs[f]
                <5>1. PICK t \in Used(docs) :
                         docs[t].uid = y /\ x \in docs[t].refs[Inverse[f]]
                    BY <1>6, <3>1, <3>2, <3>6, <4>2 DEF Lists
                <5>2. Lists(docs, x, f, y)
                    BY <1>2, <3>5, <3>6, <3>i, <5>1 DEF ConsistentOutside, AnsweredOutside
                <5> QED
                    BY <3>2, <5>2 DEF Lists
            <4> QED
                BY <4>1, <4>2
        <3>7. ASSUME NEW f \in Fields, x \in docs[s].refs[f]
              PROVE  x \in docs[s].refs[Inverse[f]]
            <4>1. Lists(docs, x, Inverse[f], x)
                BY <3>2, <3>5, <3>7 DEF ConsistentOutside, AnsweredOutside
            <4> QED
                BY <3>2, <4>1 DEF Lists
        <3>8. \A t \in Used(docs') : docs'[t].uid = x => docs'[t].refs = new
            BY <1>6, <3>1, <3>2
        <3>9. \A f \in Fields : x \in docs[s].refs[f] <=> x \in docs[s].refs[Inverse[f]]
            BY <3>7, <3>i
        <3>10. FreshUpdate(c, Nat)'
            BY <1>2, <3>4, <3>6, <3>8, <3>9 DEF FreshUpdate
        <3> QED
            BY <1>2, <2>2, <2>4, <3>4, <3>10 DEF ObjectProgress
    <2> QED
        BY <2>3, <2>4
<1> QED
    BY <1>1, <1>2, <1>7, <1>8, <1>9, AloneProgressAfter

\* A delete on its own takes the next object whose back references must go.
LEMMA AloneTakeOldDelete ==
    ASSUME CallInv, StoreInv, NEW p \in Procs, TakeOld(p), call[p].alone,
           call[p].kind = "delete"
    PROVE  AloneProgress(p, Nat)'
<1>1. PICK c : c = call'[p]
    OBVIOUS
<1>s. UNCHANGED <<docs, suspect>>
    BY DEF TakeOld
<1>2. PICK old \in call[p].olds :
         /\ c.olds = call[p].olds \ {old} /\ c.cur = old.uid
         /\ c.todo = Changes(old.refs, NoRefs)
    BY <1>1, TakeOldStep
<1>3. /\ c.pc = "bref" /\ c.kind = "delete" /\ c.cls = call[p].cls
      /\ c.target = call[p].target /\ c.upd = {}
      /\ call[p].todo = {} /\ call[p].upd = {} /\ Active(p)
    BY <1>1, TakeOldStep DEF SameCall, Active
<1>4. /\ UniqueOutside(docs, suspect)
      /\ DeleteProgress(call[p])
    BY <1>3 DEF StoreInv, AloneProgress
<1>n. old.refs \in Refs
    BY DEF CallInv, TypeOK, Frame, Item
<1>5. ASSUME NEW f \in Fields, NEW y \in Nat, y \in old.refs[f]
      PROVE  Dropping(c, f, y)
    <2>1. \A g \in Fields : NoSwap(g, old.refs[g], NoRefs[g])
        BY <1>n, NothingNeedsNoSwap
    <2>2. NoRefs \in Refs /\ NoRefs[f] = {}
        BY NoRefsFit DEF NoRefs
    <2>3. \E ch \in c.todo : ch.fld = f /\ ch.val = y /\ ch.mode # "add"
        BY <1>2, <1>5, <1>n, <2>1, <2>2, ChangesMeaning
    <2> QED
        BY <2>3 DEF Dropping
<1>6. ASSUME NEW s \in Used(docs), NEW g \in Fields, NEW x \in docs[s].refs[g],
             x \in c.target \ suspect, docs[s].uid \notin c.target \cup suspect
      PROVE  \/ \E i \in c.olds : i.uid = x /\ docs[s].uid \in i.refs[Inverse[g]]
             \/ x = c.cur /\ Dropping(c, Inverse[g], docs[s].uid)
    <2>1. ~Dropping(call[p], Inverse[g], docs[s].uid)
        BY <1>3 DEF Dropping
    <2>2. PICK i \in call[p].olds : i.uid = x /\ docs[s].uid \in i.refs[Inverse[g]]
        BY <1>3, <1>4, <1>6, <2>1 DEF DeleteProgress
    <2>3. Inverse[g] \in Fields /\ docs[s].uid \in Nat
        BY SchemaAssumption, StoredTypes
    <2> QED
        BY <1>2, <1>5, <2>2, <2>3
<1>7. DeleteProgress(c)'
    BY <1>3, <1>4, <1>6, <1>s DEF DeleteProgress
<1>8. UniqueOutside(docs', suspect') /\ Aimed(c)'
    BY <1>3, <1>4, <1>s DEF Aimed
<1> QED
    BY <1>1, <1>3, <1>7, <1>8, AloneProgressAfter

\* An update on its own lists the changes that bring its back references up
\* to date.
LEMMA AloneTakeOldUpdate ==
    ASSUME CallInv, StoreInv, NEW p \in Procs, TakeOld(p), call[p].alone,
           call[p].kind # "delete"
    PROVE  AloneProgress(p, Nat)'
<1> DEFINE x == call[p].cur
           new == call[p].new
<1>1. PICK c : c = call'[p]
    OBVIOUS
<1>s. UNCHANGED <<docs, suspect>>
    BY DEF TakeOld
<1>2. PICK old \in call[p].olds :
         /\ c.olds = call[p].olds \ {old} /\ c.cur = old.uid
         /\ c.todo = Changes(old.refs, new)
    BY <1>1, TakeOldStep
<1>3. /\ c.pc = "bref" /\ c.kind = call[p].kind /\ c.cls = call[p].cls
      /\ c.target = call[p].target /\ c.upd = {} /\ c.new = new
      /\ c.dirty = call[p].dirty /\ c.fetched = call[p].fetched
      /\ call[p].todo = {} /\ call[p].upd = {} /\ Active(p) /\ call[p].pc = "bref"
    BY <1>1, TakeOldStep DEF SameCall, Active
<1>4. /\ Shape(call[p]) /\ MovedIsSuspect(call[p]) /\ call[p] \in Frame
    BY DEF CallInv, Carried, TypeOK
<1>5. c.cur = x /\ call[p].kind = "update"
    BY <1>2, <1>3, <1>4 DEF Shape, Frame
<1>6. AloneProgress(p, Nat) /\ UniqueOutside(docs, suspect)
    BY <1>3 DEF StoreInv, AloneProgress
<1>n. old.refs \in Refs /\ new \in Refs /\ x \in Nat
    BY <1>4 DEF Frame, Item
<1>7. UniqueOutside(docs', suspect') /\ Aimed(c)'
    BY <1>3, <1>6, <1>s DEF Aimed
<1>8. c.cur \notin suspect' => ObjectProgress(c, Nat)'
    <2> SUFFICES ASSUME x \notin suspect PROVE ObjectProgress(c, Nat)'
        BY <1>5, <1>s
    <2>1. ObjectProgress(call[p], Nat)
        BY <1>6 DEF AloneProgress
    <2>2. /\ call[p].dirty /\ call[p].fetched = {} /\ x \in Uids(docs)
          /\ FreshUpdate(call[p], Nat)
        BY <1>3, <2>1 DEF ObjectProgress
    <2>3. c.olds = {}
        BY <1>2, <2>2 DEF FreshUpdate
    <2>4. ASSUME NEW f \in Fields PROVE NoSwap(f, old.refs[f], new[f])
        <3>1. CASE f \in Single
            BY <1>3, <1>4, <1>5, <3>1 DEF MovedIsSuspect, NoSwap
        <3>2. CASE f \notin Single
            BY <3>2 DEF NoSwap, FieldChanges
        <3> QED
            BY <3>1, <3>2
    <2>5. /\ \A s \in Used(docs) : docs[s].uid = x => docs[s].refs = new
          /\ \A f \in Fields : \A y \in Nat \ (suspect \cup {x}) :
                y \in old.refs[f] <=> Lists(docs, y, Inverse[f], x)
          /\ \A f \in Fields : x \in old.refs[f] <=> x \in old.refs[Inverse[f]]
        BY <2>2 DEF FreshUpdate
    <2> HIDE DEF x, new
    <2>6. ASSUME NEW f \in Fields, NEW y \in Nat
          PROVE  /\ Adding(c, f, y) <=> y \in new[f] \ old.refs[f]
                 /\ Dropping(c, f, y) <=> y \in old.refs[f] \ new[f]
        <3>1. /\ (\E ch \in c.todo : ch.fld = f /\ ch.val = y /\ ch.mode = "add")
                      <=> y \in new[f] \ old.refs[f]
              /\ (\E ch \in c.todo : ch.fld = f /\ ch.val = y /\ ch.mode # "add")
                      <=> y \in old.refs[f] \ new[f]
            BY <1>2, <1>n, <2>4, ChangesMeaning
        <3> QED
            BY <1>3, <3>1 DEF Adding, Dropping
    <2>i. \A f \in Fields : Inverse[f] \in Fields
        BY SchemaAssumption
    <2>7. PICK t \in Used(docs) : docs[t].uid = x
        BY <2>2 DEF Uids
    <2>8. \A g \in Fields : Lists(docs, x, g, x) <=> x \in new[g]
        BY <2>5, <2>7 DEF Lists
    <2>9. ASSUME NEW f \in Fields, NEW y \in Nat \ suspect,
                 ~Pending(c, f, y), y = x => ~Pending(c, Inverse[f], x)
          PROVE  y \in new[f] <=> Lists(docs, y, Inverse[f], x)
        <3>1. y \in new[f] <=> y \in old.refs[f]
            BY <2>6, <2>9 DEF Pending
        <3>2. CASE y # x
            BY <2>5, <3>1, <3>2
        <3>3. CASE y = x
            <4>1. x \in new[Inverse[f]] <=> x \in old.refs[Inverse[f]]
                BY <1>n, <2>6, <2>9, <2>i, <3>3 DEF Pending
            <4> QED
                BY <2>5, <2>8, <2>i, <3>1, <3>3, <4>1
        <3> QED
            BY <3>2, <3>3
    <2>10. ASSUME NEW f \in Fields
           PROVE  /\ \A y \in Nat \ suspect : /\ Adding(c, f, y) => y \in new[f]
                                              /\ Dropping(c, f, y) => y \notin new[f]
                  /\ ~(Adding(c, f, x) /\ Dropping(c, Inverse[f], x))
        BY <1>n, <2>5, <2>6, <2>i
    <2>11. WriteProgress(c, Nat)'
        BY <1>5, <1>s, <2>5, <2>9, <2>10 DEF WriteProgress
    <2> QED
        BY <1>3, <1>5, <1>s, <2>2, <2>3, <2>11 DEF ObjectProgress
<1> QED
    BY <1>1, <1>3, <1>5, <1>7, <1>8, AloneProgressAfter

\* Preparing a value on its own neither adds nor loses a pending change.
LEMMA AloneReadBref ==
    ASSUME CallInv, StoreInv, NEW p \in Procs, ReadBref(p), call[p].alone
    PROVE  AloneProgress(p, Nat)'
<1> DEFINE x == call[p].cur
<1>1. PICK c : c = call'[p]
    OBVIOUS
<1>s. UNCHANGED <<docs, suspect>>
    BY DEF ReadBref
<1>2. PICK ch \in call[p].todo, s \in Used(docs), w \in BrefWrite :
         /\ SameObject(p) /\ call'[p].dirty = call[p].dirty
         /\ call'[p].todo = call[p].todo \ {ch}
         /\ call'[p].upd = call[p].upd \cup {w}
         /\ w.cls = docs[s].cls /\ w.uid = ch.val /\ docs[s].uid = ch.val
         /\ w.fld = Inverse[ch.fld]
         /\ w.val = BrefValue(w.fld, ch.mode, docs[s].refs[w.fld], x)
         /\ BrefAccepts(w.fld, ch.mode, docs[s].refs[w.fld], x)
    BY ReadBrefStep
<1>3. /\ c.pc = "bref" /\ c.kind = call[p].kind /\ c.cls = call[p].cls
      /\ c.target = call[p].target /\ c.cur = x /\ c.olds = call[p].olds
      /\ c.fetched = call[p].fetched /\ c.dirty = call[p].dirty
      /\ c.todo = call[p].todo \ {ch} /\ c.upd = call[p].upd \cup {w}
      /\ Active(p) /\ call[p].pc = "bref"
    BY <1>1, <1>2 DEF SameObject, Active
<1>4. Carried(call[p]) /\ call[p] \in Frame /\ ch \in Change
    BY DEF CallInv, TypeOK, Frame
<1>5. AloneProgress(p, Nat)
    BY <1>3 DEF StoreInv
<1>6. UniqueOutside(docs', suspect') /\ Aimed(c)'
    <2>1. s \in Matching(w.cls, {w.uid})
        BY <1>2 DEF Matching
    <2> QED
        BY <1>3, <1>5, <1>s, <2>1 DEF AloneProgress, Aimed, Matching
<1> HIDE DEF x
<1>7. ASSUME ch.mode # "swap", NEW f \in Fields, NEW y
      PROVE  /\ Adding(c, f, y) <=> Adding(call[p], f, y)
             /\ Dropping(c, f, y) <=> Dropping(call[p], f, y)
    <2>1. ch.mode \in {"del", "add"} /\ ch.fld \in Fields
        BY <1>4, <1>7 DEF Change
    <2>2. x \in w.val <=> ch.mode = "add"
        <3>1. PICK val : val = docs[s].refs[w.fld]
            OBVIOUS
        <3>2. /\ ch.mode = "del" => x \notin BrefValue(w.fld, ch.mode, val, x)
              /\ ch.mode = "add" => x \in BrefValue(w.fld, ch.mode, val, x)
            BY <2>1, BrefValueMeaning
        <3>3. w.val = BrefValue(w.fld, ch.mode, val, x)
            BY <1>2, <3>1
        <3> QED
            BY <2>1, <3>2, <3>3
    <2>3. w.fld = Inverse[f] <=> ch.fld = f
        BY <1>2, <2>1, SchemaAssumption
    <2> QED
        BY <1>2, <1>3, <2>2, <2>3 DEF Adding, Dropping, x
<1>8. c.kind = "delete" => DeleteProgress(c)'
    <2> SUFFICES ASSUME c.kind = "delete" PROVE DeleteProgress(c)'
        OBVIOUS
    <2>1. DeleteProgress(call[p]) /\ ch.mode # "swap"
        BY <1>3, <1>4, <1>5 DEF AloneProgress, Carried, MovedIsSuspect
    <2>2. \A f \in Fields : \A y : Dropping(c, f, y) <=> Dropping(call[p], f, y)
        BY <1>7, <2>1
    <2>3. \A g \in Fields : Inverse[g] \in Fields
        BY SchemaAssumption
    <2> QED
        BY <1>3, <1>s, <2>1, <2>2, <2>3 DEF DeleteProgress, x
<1>9. c.kind # "delete" /\ c.cur \notin suspect' => ObjectProgress(c, Nat)'
    <2> SUFFICES ASSUME c.kind # "delete", x \notin suspect
                 PROVE  ObjectProgress(c, Nat)'
        BY <1>3, <1>s
    <2>1. ObjectProgress(call[p], Nat) /\ ch.mode # "swap"
        BY <1>3, <1>4, <1>5 DEF AloneProgress, Carried, MovedIsSuspect, x
    <2>2. call[p].dirty /\ call[p].olds = {}
        BY <1>3, <2>1 DEF ObjectProgress, FreshUpdate
    <2>3. WriteProgress(call[p], Nat)
        BY <2>1, <2>2 DEF ObjectProgress
    <2>4. \A f \in Fields : \A y : /\ Adding(c, f, y) <=> Adding(call[p], f, y)
                                   /\ Dropping(c, f, y) <=> Dropping(call[p], f, y)
        BY <1>7, <2>1
    <2>5. \A f \in Fields : Inverse[f] \in Fields
        BY SchemaAssumption
    <2>6. \A f \in Fields : \A y : Pending(c, f, y) <=> Pending(call[p], f, y)
        BY <2>4 DEF Pending
    <2>7. WriteProgress(c, Nat)'
        BY <1>3, <1>s, <2>3, <2>4, <2>5, <2>6 DEF WriteProgress, x
    <2> QED
        BY <1>3, <1>s, <2>1, <2>2, <2>7 DEF ObjectProgress, x
<1> QED
    BY <1>1, <1>3, <1>6, <1>8, <1>9, AloneProgressAfter

-----------------------------------------------------------------------------
(***************************************************************************)
(* WriteBref of a call on its own.                                         *)
(***************************************************************************)
\* The writes to one document, and what is left to write.
Chosen(p, c, w0, writes) ==
    /\ writes \subseteq call[p].upd
    /\ \A w \in call[p].upd : w \in writes <=> w.cls = w0.cls /\ w.uid = w0.uid
    /\ c.upd = call[p].upd \ writes
    /\ call[p].todo = {} /\ c.todo = {} /\ c.cur = call[p].cur

\* Changes for other objects stay pending.
LEMMA ChosenApart ==
    ASSUME NEW p, NEW c, NEW w0, NEW writes, Chosen(p, c, w0, writes),
           NEW f, NEW y, y # w0.uid
    PROVE  /\ Adding(c, f, y) <=> Adding(call[p], f, y)
           /\ Dropping(c, f, y) <=> Dropping(call[p], f, y)
           /\ Pending(c, f, y) <=> Pending(call[p], f, y)
BY DEF Chosen, Adding, Dropping, Pending

\* Those for the object written are no longer, and its back references tell
\* what they were.
LEMMA ChosenWritten ==
    ASSUME CallInv, NEW p \in Procs, NEW c, NEW w0 \in call[p].upd, NEW writes,
           Chosen(p, c, w0, writes),
           UniqueOutside(docs, suspect), Aimed(call[p]),
           NEW s \in Used(docs), docs[s].uid = w0.uid, docs[s].cls = w0.cls,
           Rewrites(s, writes), w0.uid \notin suspect,
           NEW f \in Fields
    PROVE  /\ ~Adding(c, f, w0.uid) /\ ~Dropping(c, f, w0.uid)
           /\ \/ /\ Adding(call[p], f, w0.uid)
                 /\ call[p].cur \in docs'[s].refs[Inverse[f]]
              \/ /\ Dropping(call[p], f, w0.uid)
                 /\ call[p].cur \notin docs'[s].refs[Inverse[f]]
              \/ /\ ~Pending(call[p], f, w0.uid)
                 /\ docs'[s].refs[Inverse[f]] = docs[s].refs[Inverse[f]]
<1>1. ASSUME NEW w \in call[p].upd, w.uid = w0.uid PROVE w \in writes
    <2>1. PICK t \in Used(docs) : docs[t].cls = w.cls /\ docs[t].uid = w.uid
        BY <1>1 DEF Aimed, Matching
    <2>2. t = s
        BY <1>1, <2>1 DEF UniqueOutside
    <2> QED
        BY <1>1, <2>1, <2>2 DEF Chosen
<1>2. ~Adding(c, f, w0.uid) /\ ~Dropping(c, f, w0.uid)
    BY <1>1 DEF Chosen, Adding, Dropping
<1>3. \A w \in writes : w \in call[p].upd /\ w.uid = w0.uid
    BY DEF Chosen
<1>4. Inverse[f] \in Fields
    BY SchemaAssumption
<1>5. CASE \E w \in writes : w.fld = Inverse[f]
                             /\ docs'[s].refs[Inverse[f]] = w.val
    BY <1>2, <1>3, <1>5 DEF Adding, Dropping
<1>6. CASE /\ \A w \in writes : w.fld # Inverse[f]
           /\ docs'[s].refs[Inverse[f]] = docs[s].refs[Inverse[f]]
    BY <1>1, <1>2, <1>6 DEF Adding, Dropping, Pending, Chosen
<1> QED
    BY <1>4, <1>5, <1>6, <1>2 DEF Rewrites

\* Writing a back reference of an insert or update on its own settles that
\* change and disturbs no other.
LEMMA WriteProgressKept ==
    ASSUME CallInv, StoreInv, NEW p \in Procs, WriteBref(p), call[p].alone,
           NEW c, NEW w0 \in call[p].upd, NEW writes, Chosen(p, c, w0, writes),
           NEW s \in Used(docs), docs[s].uid = w0.uid, docs[s].cls = w0.cls,
           Rewrites(s, writes),
           suspect' = suspect \cup (IF Stolen(s, writes, call[p].cur)
                                    THEN {w0.uid} ELSE {}),
           Active(p), call[p].cur \notin suspect', WriteProgress(call[p], Nat)
    PROVE  WriteProgress(c, Nat)'
<1> DEFINE x == call[p].cur
           u == w0.uid
<1>1. AloneProgress(p, Nat) /\ UniqueOutside(docs, suspect) /\ Aimed(call[p])
    BY DEF StoreInv, AloneProgress
<1>2. /\ Foreign(p) = suspect /\ Unreliable(p) = suspect /\ Own(p) = {x}
      /\ PreparedAgrees(p)
    BY AloneQuarantine DEF Own, StoreInv
<1>3. /\ suspect \subseteq suspect' /\ c.cur = x
      /\ Stolen(s, writes, x) => u \in suspect'
      /\ \A w \in writes : w.cls = docs[s].cls /\ w.uid = docs[s].uid
    BY DEF Chosen
<1>4. Used(docs') = Used(docs) /\ \A t \in Used(docs) :
          docs'[t].uid = docs[t].uid /\ (t # s => docs'[t] = docs[t])
    BY DEF Rewrites
<1>i. \A f \in Fields : Inverse[f] \in Fields /\ Inverse[Inverse[f]] = f
    BY SchemaAssumption
<1>n. x \in Nat /\ u \in Nat
    BY DEF CallInv, TypeOK, Frame, BrefWrite
<1>5. ASSUME NEW f \in Fields, NEW y \in Nat, y # u
      PROVE  Lists(docs', y, f, x) <=> Lists(docs, y, f, x)
    BY <1>4, <1>5 DEF Lists
<1>6. ASSUME NEW f \in Fields, u \notin suspect'
      PROVE  /\ Lists(docs', u, f, x) <=> x \in docs'[s].refs[f]
             /\ Lists(docs, u, f, x) <=> x \in docs[s].refs[f]
    <2>1. \A t \in Used(docs) : docs[t].uid = u => t = s
        BY <1>1, <1>3, <1>6 DEF UniqueOutside
    <2> QED
        BY <1>4, <2>1 DEF Lists
<1>7. ASSUME NEW f \in Fields, u \notin suspect'
      PROVE  /\ ~Adding(c, f, u) /\ ~Dropping(c, f, u)
             /\ \/ Adding(call[p], f, u) /\ x \in docs'[s].refs[Inverse[f]]
                \/ Dropping(call[p], f, u) /\ x \notin docs'[s].refs[Inverse[f]]
                \/ /\ ~Pending(call[p], f, u)
                   /\ docs'[s].refs[Inverse[f]] = docs[s].refs[Inverse[f]]
    BY <1>1, <1>3, <1>7, ChosenWritten
<1>8. ASSUME NEW f \in Fields, NEW y \in Nat, y # u
      PROVE  /\ Adding(c, f, y) <=> Adding(call[p], f, y)
             /\ Dropping(c, f, y) <=> Dropping(call[p], f, y)
             /\ Pending(c, f, y) <=> Pending(call[p], f, y)
    BY <1>8, ChosenApart
<1>9. ASSUME NEW t \in Used(docs), docs[t].uid = x, NEW f \in Fields
      PROVE  /\ \A y \in Nat \ suspect :
                   /\ Adding(call[p], f, y) => y \in docs[t].refs[f]
                   /\ Dropping(call[p], f, y) => y \notin docs[t].refs[f]
                   /\ ~Pending(call[p], f, y)
                      /\ (y = x => ~Pending(call[p], Inverse[f], x)) =>
                         (y \in docs[t].refs[f] <=> Lists(docs, y, Inverse[f], x))
             /\ ~(Adding(call[p], f, x) /\ Dropping(call[p], Inverse[f], x))
    BY <1>9 DEF WriteProgress
<1>x. x \notin suspect' /\ x \notin suspect
    BY <1>3
<1> HIDE DEF x, u
<1>10. ASSUME NEW t \in Used(docs), docs[t].uid = x, NEW f \in Fields
       PROVE  /\ \A y \in Nat \ suspect' :
                    /\ Adding(c, f, y) => y \in docs'[t].refs[f]
                    /\ Dropping(c, f, y) => y \notin docs'[t].refs[f]
                    /\ ~Pending(c, f, y) /\ (y = x => ~Pending(c, Inverse[f], x)) =>
                         (y \in docs'[t].refs[f] <=> Lists(docs', y, Inverse[f], x))
              /\ ~(Adding(c, f, x) /\ Dropping(c, Inverse[f], x))
    <2>1. CASE u # x
        <3>1. docs'[t] = docs[t]
            BY <1>4, <1>10, <2>1 DEF u
        <3>2. ~(Adding(c, f, x) /\ Dropping(c, Inverse[f], x))
            BY <1>8, <1>9, <1>10, <1>i, <1>n, <2>1
        <3>3. ASSUME NEW y \in Nat \ suspect', y # u
              PROVE  /\ Adding(c, f, y) => y \in docs'[t].refs[f]
                     /\ Dropping(c, f, y) => y \notin docs'[t].refs[f]
                     /\ ~Pending(c, f, y) /\ (y = x => ~Pending(c, Inverse[f], x)) =>
                         (y \in docs'[t].refs[f] <=> Lists(docs', y, Inverse[f], x))
            <4>1. y \in Nat \ suspect
                BY <1>3
            <4>2. /\ Adding(c, f, y) <=> Adding(call[p], f, y)
                  /\ Dropping(c, f, y) <=> Dropping(call[p], f, y)
                  /\ Pending(c, f, y) <=> Pending(call[p], f, y)
                  /\ Pending(c, Inverse[f], x) <=> Pending(call[p], Inverse[f], x)
                BY <1>8, <1>i, <1>n, <2>1, <3>3
            <4>3. Lists(docs', y, Inverse[f], x) <=> Lists(docs, y, Inverse[f], x)
                BY <1>5, <1>i, <3>3
            <4> QED
                BY <1>9, <1>10, <3>1, <4>1, <4>2, <4>3
        <3>4. ASSUME u \notin suspect'
              PROVE  /\ ~Adding(c, f, u) /\ ~Dropping(c, f, u)
                     /\ u \in docs'[t].refs[f] <=> Lists(docs', u, Inverse[f], x)
            <4>1. u \in Nat \ suspect
                BY <1>3, <1>n, <3>4
            <4>2. Lists(docs', u, Inverse[f], x) <=> x \in docs'[s].refs[Inverse[f]]
                BY <1>6, <1>i, <3>4
            <4>3. Lists(docs, u, Inverse[f], x) <=> x \in docs[s].refs[Inverse[f]]
                BY <1>6, <1>i, <3>4
            <4> QED
                BY <1>7, <1>9, <1>10, <2>1, <3>1, <3>4, <4>1, <4>2, <4>3
        <3> QED
            BY <3>2, <3>3, <3>4
    <2>2. CASE u = x
        <3>1. t = s
            BY <1>1, <1>10, <1>x, <2>2 DEF UniqueOutside, u
        <3>2. /\ ~Adding(c, f, x) /\ ~Dropping(c, f, x)
              /\ ~Adding(c, Inverse[f], x) /\ ~Dropping(c, Inverse[f], x)
            BY <1>7, <1>i, <1>x, <2>2
        <3>3. ASSUME NEW y \in Nat \ suspect', y # x
              PROVE  /\ Adding(c, f, y) => y \in docs'[t].refs[f]
                     /\ Dropping(c, f, y) => y \notin docs'[t].refs[f]
                     /\ ~Pending(c, f, y) =>
                         (y \in docs'[t].refs[f] <=> Lists(docs', y, Inverse[f], x))
            <4>1. y \in Nat \ suspect
                BY <1>3
            <4>2. /\ Adding(c, f, y) <=> Adding(call[p], f, y)
                  /\ Dropping(c, f, y) <=> Dropping(call[p], f, y)
                  /\ Pending(c, f, y) <=> Pending(call[p], f, y)
                BY <1>8, <2>2, <3>3
            <4>3. Lists(docs', y, Inverse[f], x) <=> Lists(docs, y, Inverse[f], x)
                BY <1>5, <1>i, <2>2, <3>3
            <4>4. y \in docs'[s].refs[f] <=> y \in docs[s].refs[f]
                <5>1. y \notin Foreign(p) \cup Own(p)
                    BY <1>2, <3>3, <4>1
                <5>2. docs[s].uid \notin Unreliable(p) /\ docs[s].uid \notin suspect'
                    BY <1>2, <1>x, <2>2 DEF u
                <5>3. Stolen(s, writes, call[p].cur) => docs[s].uid \in suspect'
                    BY <1>3 DEF x, u
                <5>4. writes \in SUBSET call[p].upd
                    BY DEF Chosen
                <5> QED
                    BY <1>2, <1>3, <5>1, <5>2, <5>3, <5>4, WriteKeeps
            <4> QED
                BY <1>9, <1>10, <3>1, <3>3, <4>1, <4>2, <4>3, <4>4
        <3>4. x \in docs'[s].refs[f] <=> Lists(docs', x, Inverse[f], x)
            <4>1. Lists(docs', x, Inverse[f], x) <=> x \in docs'[s].refs[Inverse[f]]
                BY <1>6, <1>i, <1>x, <2>2
            <4>2. Lists(docs, x, Inverse[f], x) <=> x \in docs[s].refs[Inverse[f]]
                BY <1>6, <1>i, <1>x, <2>2
            <4>3. \/ Adding(call[p], f, x) /\ x \in docs'[s].refs[Inverse[f]]
                  \/ Dropping(call[p], f, x) /\ x \notin docs'[s].refs[Inverse[f]]
                  \/ /\ ~Pending(call[p], f, x)
                     /\ docs'[s].refs[Inverse[f]] = docs[s].refs[Inverse[f]]
                BY <1>7, <1>x, <2>2
            <4>4. \/ Adding(call[p], Inverse[f], x) /\ x \in docs'[s].refs[f]
                  \/ Dropping(call[p], Inverse[f], x) /\ x \notin docs'[s].refs[f]
                  \/ /\ ~Pending(call[p], Inverse[f], x)
                     /\ docs'[s].refs[f] = docs[s].refs[f]
                BY <1>7, <1>i, <1>x, <2>2
            <4>5. x \in Nat \ suspect
                BY <1>n, <1>x
            <4>6. /\ Adding(call[p], f, x) => x \in docs[s].refs[f]
                  /\ Dropping(call[p], f, x) => x \notin docs[s].refs[f]
                  /\ ~(Adding(call[p], f, x) /\ Dropping(call[p], Inverse[f], x))
                  /\ ~Pending(call[p], f, x) /\ ~Pending(call[p], Inverse[f], x) =>
                        (x \in docs[s].refs[f] <=> Lists(docs, x, Inverse[f], x))
                BY <1>9, <1>10, <3>1, <4>5
            <4>7. /\ Adding(call[p], Inverse[f], x) => x \in docs[s].refs[Inverse[f]]
                  /\ Dropping(call[p], Inverse[f], x) => x \notin docs[s].refs[Inverse[f]]
                  /\ ~(Adding(call[p], Inverse[f], x) /\ Dropping(call[p], f, x))
                BY <1>9, <1>10, <1>i, <3>1, <4>5
            <4> QED
                BY <4>1, <4>2, <4>3, <4>4, <4>6, <4>7
        <3> QED
            BY <3>1, <3>2, <3>3, <3>4
    <2> QED
        BY <2>1, <2>2
<1> QED
    BY <1>3, <1>4, <1>10 DEF WriteProgress

\* Writing a back reference of a delete on its own leaves its targets listed
\* only by objects still to be treated.
LEMMA DeleteProgressKept ==
    ASSUME CallInv, StoreInv, NEW p \in Procs, call[p].alone, Active(p),
           call[p].kind = "delete",
           NEW c, NEW w0 \in call[p].upd, NEW writes, Chosen(p, c, w0, writes),
           NEW s \in Used(docs), docs[s].uid = w0.uid, docs[s].cls = w0.cls,
           Rewrites(s, writes), suspect \subseteq suspect',
           Stolen(s, writes, call[p].cur) => w0.uid \in suspect',
           c.olds = call[p].olds, c.target = call[p].target, c.cls = call[p].cls
    PROVE  DeleteProgress(c)'
<1>1. /\ UniqueOutside(docs, suspect) /\ Aimed(call[p]) /\ DeleteProgress(call[p])
    BY DEF StoreInv, AloneProgress
<1>2. /\ Foreign(p) = suspect /\ Unreliable(p) = suspect
      /\ Own(p) = {call[p].cur} /\ PreparedAgrees(p)
    BY AloneQuarantine DEF Own, StoreInv
<1>4. Used(docs') = Used(docs) /\ \A t \in Used(docs) :
          /\ docs'[t].uid = docs[t].uid /\ docs'[t].cls = docs[t].cls
          /\ t # s => docs'[t] = docs[t]
    BY DEF Rewrites
<1>i. \A f \in Fields : Inverse[f] \in Fields /\ Inverse[Inverse[f]] = f
    BY SchemaAssumption
<1>5. ASSUME NEW t \in Used(docs), NEW g \in Fields, NEW x \in docs'[t].refs[g],
             x \in c.target \ suspect', docs[t].uid \notin c.target \cup suspect'
      PROVE  \/ \E i \in c.olds : i.uid = x /\ docs[t].uid \in i.refs[Inverse[g]]
             \/ x = c.cur /\ Dropping(c, Inverse[g], docs[t].uid)
    <2>0. x \in c.target \ suspect /\ docs[t].uid \notin c.target \cup suspect
        BY <1>5
    <2>1. CASE t # s
        <3>1. docs[t].uid # w0.uid
            BY <1>1, <2>0, <2>1 DEF UniqueOutside
        <3>2. Dropping(c, Inverse[g], docs[t].uid)
                 <=> Dropping(call[p], Inverse[g], docs[t].uid)
            BY <3>1, ChosenApart
        <3>3. c.cur = call[p].cur
            BY DEF Chosen
        <3> QED
            BY <1>1, <1>4, <1>5, <2>0, <2>1, <3>2, <3>3 DEF DeleteProgress
    <2>2. CASE t = s
        <3>1. \/ /\ Dropping(call[p], Inverse[g], w0.uid)
                 /\ call[p].cur \notin docs'[s].refs[g]
              \/ /\ ~Dropping(call[p], Inverse[g], w0.uid)
                 /\ docs'[s].refs[g] = docs[s].refs[g]
            <4>1. ~Adding(call[p], Inverse[g], w0.uid)
                BY DEF Adding, Chosen, CallInv, Carried, MovedIsSuspect
            <4>2. w0.uid \notin suspect
                BY <2>0, <2>2
            <4>3. \/ /\ Adding(call[p], Inverse[g], w0.uid)
                     /\ call[p].cur \in docs'[s].refs[Inverse[Inverse[g]]]
                  \/ /\ Dropping(call[p], Inverse[g], w0.uid)
                     /\ call[p].cur \notin docs'[s].refs[Inverse[Inverse[g]]]
                  \/ /\ ~Pending(call[p], Inverse[g], w0.uid)
                     /\ docs'[s].refs[Inverse[Inverse[g]]] =
                            docs[s].refs[Inverse[Inverse[g]]]
                BY <1>1, <1>i, <4>2, ChosenWritten
            <4> QED
                BY <1>i, <4>1, <4>3 DEF Pending
        <3>2. CASE ~Dropping(call[p], Inverse[g], w0.uid)
            BY <1>1, <1>5, <2>0, <2>2, <3>1, <3>2 DEF DeleteProgress
        <3>3. CASE /\ Dropping(call[p], Inverse[g], w0.uid)
                   /\ call[p].cur \notin docs'[s].refs[g]
            <4>1. x # call[p].cur
                BY <1>5, <2>2, <3>3
            <4>2. x \in docs[s].refs[g]
                <5>1. x \notin Foreign(p) \cup Own(p)
                    BY <1>2, <2>0, <4>1
                <5>2. docs[s].uid \notin Unreliable(p) /\ docs[s].uid \notin suspect'
                    BY <1>2, <1>5, <2>0, <2>2
                <5>3. /\ \A w \in writes : w.cls = docs[s].cls /\ w.uid = docs[s].uid
                      /\ writes \in SUBSET call[p].upd
                    BY DEF Chosen
                <5> QED
                    BY <1>2, <1>5, <2>2, <5>1, <5>2, <5>3, WriteKeeps
            <4> QED
                BY <1>1, <2>0, <2>2, <4>1, <4>2 DEF DeleteProgress
        <3> QED
            BY <3>1, <3>2, <3>3
    <2> QED
        BY <2>1, <2>2
<1> QED
    BY <1>1, <1>4, <1>5 DEF DeleteProgress

\* Writing a back reference on its own makes progress.
LEMMA AloneWriteBref ==
    ASSUME CallInv, StoreInv, NEW p \in Procs, WriteBref(p), call[p].alone
    PROVE  AloneProgress(p, Nat)'
<1>1. PICK c : c = call'[p]
    OBVIOUS
<1>2. PICK w0 \in call[p].upd, writes \in SUBSET call[p].upd :
         /\ \A w \in call[p].upd : w \in writes <=> w.cls = w0.cls /\ w.uid = w0.uid
         /\ call'[p].upd = call[p].upd \ writes
         /\ \/ /\ Matching(w0.cls, {w0.uid}) = {}
               /\ UNCHANGED <<docs, suspect>>
            \/ \E s \in Used(docs) :
                  /\ docs[s].cls = w0.cls /\ docs[s].uid = w0.uid
                  /\ call'[p].dirty
                  /\ Rewrites(s, writes)
                  /\ suspect' = suspect \cup
                       (IF Stolen(s, writes, call[p].cur)
                        THEN {w0.uid} ELSE {})
    BY WriteBrefStep
<1>3. /\ c.pc = "bref" /\ c.kind = call[p].kind /\ c.cls = call[p].cls
      /\ c.target = call[p].target /\ c.cur = call[p].cur /\ c.olds = call[p].olds
      /\ c.fetched = call[p].fetched /\ (call[p].dirty => c.dirty)
      /\ Active(p) /\ call[p].pc = "bref" /\ call[p].todo = {} /\ c.todo = {}
      /\ c.upd = call[p].upd \ writes
    BY <1>1, <1>2, WriteBrefStep DEF SameObject, Active
<1>4. Chosen(p, c, w0, writes)
    BY <1>2, <1>3 DEF Chosen
<1>5. /\ AloneProgress(p, Nat) /\ UniqueOutside(docs, suspect) /\ Aimed(call[p])
    BY <1>3 DEF StoreInv, AloneProgress
<1>i. \A f \in Fields : Inverse[f] \in Fields
    BY SchemaAssumption
<1>6. ASSUME call[p].kind # "delete", call[p].cur \notin suspect
      PROVE  /\ ObjectProgress(call[p], Nat) /\ call[p].dirty /\ call[p].olds = {}
             /\ WriteProgress(call[p], Nat)
    <2>1. ObjectProgress(call[p], Nat)
        BY <1>5, <1>6 DEF AloneProgress
    <2>2. call[p].dirty /\ call[p].olds = {}
        BY <1>3, <2>1 DEF ObjectProgress, FreshUpdate
    <2> QED
        BY <2>1, <2>2 DEF ObjectProgress
<1>7. CASE Matching(w0.cls, {w0.uid}) = {} /\ UNCHANGED <<docs, suspect>>
    <2>1. w0.uid \in suspect
        BY <1>5, <1>7 DEF Aimed
    <2>2. UniqueOutside(docs', suspect') /\ Aimed(c)'
        BY <1>3, <1>5, <1>7 DEF Aimed, Matching
    <2>3. \A f, y : y \notin suspect =>
             /\ Adding(c, f, y) <=> Adding(call[p], f, y)
             /\ Dropping(c, f, y) <=> Dropping(call[p], f, y)
             /\ Pending(c, f, y) <=> Pending(call[p], f, y)
        BY <1>4, <2>1, ChosenApart
    <2>4. c.kind = "delete" => DeleteProgress(c)'
        <3>1. call[p].kind = "delete" => DeleteProgress(call[p])
            BY <1>5 DEF AloneProgress
        <3> QED
            BY <1>3, <1>7, <2>3, <3>1 DEF DeleteProgress
    <2>5. c.kind # "delete" /\ c.cur \notin suspect' => ObjectProgress(c, Nat)'
        <3> SUFFICES ASSUME c.kind # "delete", call[p].cur \notin suspect
                     PROVE  ObjectProgress(c, Nat)'
            BY <1>3, <1>7
        <3>1. WriteProgress(c, Nat)'
            BY <1>3, <1>6, <1>7, <1>i, <2>3 DEF WriteProgress
        <3> QED
            BY <1>3, <1>6, <1>7, <3>1 DEF ObjectProgress
    <2> QED
        BY <1>1, <1>3, <2>2, <2>4, <2>5, AloneProgressAfter
<1>8. ASSUME NEW s \in Used(docs),
             docs[s].cls = w0.cls, docs[s].uid = w0.uid,
             call'[p].dirty, Rewrites(s, writes),
             suspect' = suspect \cup (IF Stolen(s, writes, call[p].cur)
                                      THEN {w0.uid} ELSE {})
      PROVE  AloneProgress(p, Nat)'
    <2>1. Used(docs') = Used(docs) /\ \A t \in Used(docs) :
             docs'[t].uid = docs[t].uid /\ docs'[t].cls = docs[t].cls
        BY <1>8 DEF Rewrites
    <2>2. suspect \subseteq suspect' /\
             (Stolen(s, writes, call[p].cur) => w0.uid \in suspect')
        BY <1>8
    <2>3. UniqueOutside(docs', suspect') /\ Aimed(c)'
        BY <1>3, <1>5, <2>1, <2>2 DEF Aimed, Matching, UniqueOutside
    <2>4. c.kind = "delete" => DeleteProgress(c)'
        BY <1>3, <1>4, <1>8, <2>2, DeleteProgressKept
    <2>5. c.kind # "delete" /\ c.cur \notin suspect' => ObjectProgress(c, Nat)'
        <3> SUFFICES ASSUME c.kind # "delete", call[p].cur \notin suspect'
                     PROVE  ObjectProgress(c, Nat)'
            BY <1>3
        <3>1. call[p].kind # "delete" /\ call[p].cur \notin suspect
            BY <1>3, <2>2
        <3>2. WriteProgress(c, Nat)'
            BY <1>3, <1>4, <1>6, <1>8, <3>1, WriteProgressKept
        <3>3. call[p].cur \in Uids(docs')
            BY <1>3, <1>6, <2>1, <3>1 DEF ObjectProgress, Uids
        <3> QED
            BY <1>3, <1>6, <3>1, <3>2, <3>3 DEF ObjectProgress
    <2> QED
        BY <1>1, <1>3, <2>3, <2>4, <2>5, AloneProgressAfter
<1> QED
    BY <1>2, <1>7, <1>8

-----------------------------------------------------------------------------
(***************************************************************************)
(* The invariant is inductive.                                             *)
(***************************************************************************)
LEMMA AloneStep ==
    ASSUME CallInv, StoreInv, NEW p \in Procs, Operation(p) \/ Step(p)
    PROVE  \A q \in Procs : Active(q)' /\ call'[q].alone => AloneProgress(q, Nat)'
<1>c. call \in [Procs -> Frame]
    BY DEF CallInv, TypeOK
<1>1. ASSUME NEW q \in Procs \ {p}, Active(q)', call'[q].alone PROVE FALSE
    <2>1. CASE Operation(p)
        <3>1. call'[q] = [call[q] EXCEPT !.alone = @ /\ ~Active(q)]
            BY <2>1, OperationFootprint
        <3>2. call'[q].alone = (call[q].alone /\ ~Active(q)) /\ call'[q].pc = call[q].pc
            BY <1>c, <3>1 DEF Frame
        <3> QED
            BY <1>1, <3>2 DEF Active
    <2>2. CASE Step(p)
        BY <1>1, <2>2, StepFootprint DEF CallInv, AloneIsAlone, Active
    <2> QED
        BY <2>1, <2>2
<1>2. ASSUME Active(p)', call'[p].alone PROVE AloneProgress(p, Nat)'
    <2>1. CASE Operation(p)
        BY <1>2, <2>1, AloneOperation
    <2>2. CASE Step(p)
        <3>1. call[p].alone
            BY <1>2, <2>2, IdleType, StepFootprint DEF Active
        <3>2. ~(RemoveDocs(p) \/ ConsistencyError(p) \/ Return(p) \/ Crash(p))
            BY <1>2, <1>c, IdleType
            DEF RemoveDocs, ConsistencyError, Return, Crash, Leave, Active
        <3>3. CASE TakeOld(p)
            BY <3>1, <3>3, AloneTakeOldDelete, AloneTakeOldUpdate
        <3> QED
            BY <2>2, <3>1, <3>2, <3>3, AloneInsertDoc, AloneFindForUpdate,
               AloneSetDoc, AloneReadBref, AloneWriteBref DEF Step
    <2> QED
        BY <2>1, <2>2
<1> QED
    BY <1>1, <1>2

\* The inductive invariant holds at the start.
LEMMA IInvInit == Init => IInv
<1> SUFFICES ASSUME Init PROVE IInv
    OBVIOUS
<1>1. CallInv
    BY CallInvInit
<1>2. \A p \in Procs : call[p] = Idle
    BY DEF Init
<1>3. \A p \in Procs : PreparedAgrees(p)
    <2>1. Idle.upd = {}
        BY DEF Idle
    <2> QED
        BY <1>2, <2>1 DEF PreparedAgrees
<1>4. \A p \in Procs : ~Active(p)
    BY <1>2, IdleType DEF Active
<1>5. Contained
    <2>1. ConsistentOutside(docs, {})
        BY InitialAssumption DEF Init
    <2> QED
        BY <2>1, ConsistentGrows DEF Contained
<1> QED
    BY <1>1, <1>3, <1>4, <1>5, IInvParts DEF StoreInv

\* The inductive invariant is kept by every step of the program.
LEMMA IInvNext == IInv /\ [Next]_vars => IInv'
<1> SUFFICES ASSUME IInv, [Next]_vars PROVE IInv'
    OBVIOUS
<1>1. CallInv /\ StoreInv
    BY IInvParts
<1>2. CASE UNCHANGED vars
    BY <1>2 DEF vars, IInv, IInvOver, TypeOK, WellFormed, Used, Shape, Fits,
       MovedIsSuspect, PreparedAgrees, Unreliable, Foreign, Own, Active, Matching,
       AloneIsAlone, Contained, Quarantine, AloneProgress, Aimed, DeleteProgress,
       ObjectProgress, WriteProgress, FreshUpdate, Fetch, Uids
<1>3. ASSUME NEW p \in Procs, Operation(p) \/ Step(p) PROVE IInv'
    <2>1. CallInv'
        BY <1>1, <1>3, CallInvOperation, CallInvStep
    <2>2. \A q \in Procs : PreparedAgrees(q)'
        BY <1>1, <1>3, <2>1, PreparedAgreesOwn, PreparedAgreesOthers
    <2>3. Contained'
        BY <1>1, <1>3, ContainedStep
    <2>4. \A q \in Procs : Active(q)' /\ call'[q].alone => AloneProgress(q, Nat)'
        BY <1>1, <1>3, AloneStep
    <2> QED
        BY <2>1, <2>2, <2>3, <2>4
        DEF IInv, IInvOver, CallInv, Carried
<1>4. CASE Stop
    BY <1>2, <1>4 DEF Stop
<1> QED
    BY <1>2, <1>3, <1>4 DEF Next

(***************************************************************************)
(* Between any two steps of the workers, what each call has read, prepared *)
(* and written agrees with the database as IInv says: the invariant that   *)
(* makes Contained inductive.                                              *)
(***************************************************************************)
THEOREM CallsAgreeWithStore == Spec => []IInv
BY IInvInit, IInvNext, PTL DEF Spec

(***************************************************************************)
(* Whatever overlaps, fails or is killed: at every moment every reference  *)
(* is answered by its back reference and every uid is the uid of one       *)
(* document, except at the targets of a call that is writing and at the    *)
(* objects known to be suspect.                                            *)
(***************************************************************************)
THEOREM DamageContained == Spec => []Contained
<1>1. IInv => Contained
    BY DEF IInv, IInvOver
<1> QED
    BY <1>1, CallsAgreeWithStore, PTL
-----------------------------------------------------------------------------
(***************************************************************************)
(* What a call on its own is refused: RefusalInv is inductive.             *)
(***************************************************************************)
DueAt(p) == /\ UnreadIsDue(call[p])
            /\ call[p].kind = "delete" => DeleteDue(call[p])

\* The parts of DueAt, put together for the state after a step.
LEMMA DueAfter ==
    ASSUME NEW p \in Procs, NEW c, c = call'[p],
           UnreadIsDue(c)', c.kind = "delete" => DeleteDue(c)'
    PROVE  DueAt(p)'
BY DEF DueAt, UnreadIsDue, DeleteDue, OldsAnswered, OldsDistinct, ReadsFirst

\* A delete on its own starts with what its documents list, and so do those.
LEMMA DueOperation ==
    ASSUME CallInv, StoreInv, NEW p \in Procs, Operation(p), call'[p].alone
    PROVE  DueAt(p)'
<1>1. PICK frame \in Frame : Enter(p, frame) /\ Fresh(frame)
    BY CallInvTyped, OperationFrame
<1>3. PICK c : c = call'[p]
    OBVIOUS
<1>a. call'[p] = [frame EXCEPT !.alone = \A q \in Procs : ~Active(q)]
    BY <1>1 DEF Enter
<1>4. Fresh(c) /\ c.cls = frame.cls
    BY <1>1, <1>a, <1>3 DEF Fresh, InsertFrame, UpdateFrame, DeleteFrame, Frame
<1>5. UNCHANGED <<docs, suspect>>
    BY OperationFootprint
<1>6. ConsistentOutside(docs, suspect)
    <2>1. \A q \in Procs : ~Active(q)
        BY OperationFootprint
    <2>2. ASSUME NEW x PROVE x \in Quarantine <=> x \in suspect
        BY <2>1, QuarantineMeaning DEF HasWritten
    <2>3. Quarantine = suspect
        BY <2>2
    <2> QED
        BY <2>3 DEF StoreInv, Contained
<1>7. UnreadIsDue(c)'
    BY <1>4 DEF Fresh, UnreadIsDue
<1>8. c.kind = "delete" => DeleteDue(c)'
    <2> SUFFICES ASSUME c.kind = "delete" PROVE DeleteDue(c)'
        OBVIOUS
    <2>1. c.olds = Fetch(Matching(c.cls, c.target))
        BY <1>4 DEF Fresh, InsertFrame, UpdateFrame, DeleteFrame
    <2>2. ASSUME NEW i \in c.olds
          PROVE  /\ i.slot \in Used(docs) /\ i.uid = docs[i.slot].uid
                 /\ i.refs = docs[i.slot].refs
                 /\ i = [slot |-> i.slot, uid |-> docs[i.slot].uid, refs |-> docs[i.slot].refs]
        BY <2>1 DEF Fetch, Matching
    <2>3. OldsAnswered(c)'
        BY <1>5, <1>6, <2>2 DEF OldsAnswered, ConsistentOutside, AnsweredOutside, Lists, Used
    <2>4. OldsDistinct(c)'
        <3>1. \A i, j \in c.olds : i.uid = j.uid /\ i.uid \notin suspect => i.slot = j.slot
            BY <1>6, <2>2 DEF ConsistentOutside, UniqueOutside
        <3>2. \A i, j \in c.olds : i.uid = j.uid /\ i.uid \notin suspect => i = j
            BY <2>2, <3>1
        <3> QED
            BY <1>4, <1>5, <3>2 DEF OldsDistinct, Fresh
    <2>5. ReadsFirst(c)'
        BY <1>4 DEF ReadsFirst, Fresh
    <2> QED
        BY <2>3, <2>4, <2>5 DEF DeleteDue
<1> QED
    BY <1>3, <1>7, <1>8, DueAfter

\* The object inserted on its own is one no back reference can list yet.
LEMMA DueInsertDoc ==
    ASSUME CallInv, StoreInv, NEW p \in Procs, InsertDoc(p), call[p].alone
    PROVE  DueAt(p)'
<1> DEFINE x == call[p].cur
           new == call[p].new
<1>1. PICK c : c = call'[p]
    OBVIOUS
<1>s. suspect' = suspect
    BY DEF InsertDoc
<1>2. PICK s \in Slots \ Used(docs) :
         /\ Used(docs') = Used(docs) \cup {s}
         /\ docs'[s].uid = x
         /\ \A t \in Used(docs) : docs'[t] = docs[t]
    BY InsertDocStep
<1>3. /\ call[p].pc = "insert" /\ call[p].kind = "insert" /\ ~call[p].dirty
      /\ Active(p) /\ call[p] \in Frame
    BY InsertDocStep DEF CallInv, Carried, Shape, Active, TypeOK
<1>4. c.kind = "insert" /\ c.cur = x /\ c.todo = Changes(NoRefs, new)
    BY <1>1, <1>3, InsertDocStep DEF SameCall
<1>5. ConsistentOutside(docs, suspect) /\ x \notin Uids(docs)
    BY <1>3, AloneClean DEF StoreInv, AloneProgress
<1>n. new \in Refs
    BY <1>3 DEF Frame, Refs
<1> HIDE DEF x, new
<1>6. ASSUME NEW ch \in c.todo, {ch.val, x} \cap suspect = {}, ch.val # x
      PROVE  ch.mode = "add" /\ ~Lists(docs', ch.val, Inverse[ch.fld], x)
    <2>1. PICK f \in Fields : ch \in FieldChanges(f, NoRefs[f], new[f])
        BY <1>4 DEF Changes
    <2>2. NoRefs[f] = {}
        BY DEF NoRefs
    <2>3. ch.mode = "add" /\ ch.fld = f
        BY <2>1, <2>2 DEF FieldChanges
    <2>4. ASSUME NEW t \in Used(docs'), docs'[t].uid = ch.val,
                 x \in docs'[t].refs[Inverse[f]]
          PROVE  FALSE
        <3>1. t \in Used(docs) /\ docs'[t] = docs[t]
            BY <1>2, <1>6, <2>4
        <3>2. Inverse[f] \in Fields
            BY SchemaAssumption
        <3>3. Lists(docs, x, Inverse[Inverse[f]], ch.val)
            BY <1>5, <1>6, <2>4, <3>1, <3>2 DEF ConsistentOutside, AnsweredOutside
        <3> QED
            BY <1>5, <3>3 DEF Lists, Uids
    <2> QED
        BY <2>3, <2>4 DEF Lists
<1>7. UnreadIsDue(c)'
    BY <1>4, <1>6, <1>s DEF UnreadIsDue
<1> QED
    BY <1>1, <1>4, <1>7, DueAfter

\* What an update on its own has to change is what its old value tells.
LEMMA DueTakeOldUpdate ==
    ASSUME CallInv, StoreInv, NEW p \in Procs, TakeOld(p), call[p].alone,
           call[p].kind # "delete"
    PROVE  DueAt(p)'
<1> DEFINE x == call[p].cur
           new == call[p].new
<1>1. PICK c : c = call'[p]
    OBVIOUS
<1>s. UNCHANGED <<docs, suspect>>
    BY DEF TakeOld
<1>2. PICK old \in call[p].olds :
         c.cur = old.uid /\ c.todo = Changes(old.refs, new)
    BY <1>1, TakeOldStep
<1>3. /\ c.kind = call[p].kind
      /\ call[p].todo = {} /\ call[p].upd = {} /\ Active(p) /\ call[p].pc = "bref"
    BY <1>1, TakeOldStep DEF SameCall, Active
<1>4. /\ Shape(call[p]) /\ MovedIsSuspect(call[p]) /\ call[p] \in Frame
    BY DEF CallInv, Carried, TypeOK
<1>5. c.cur = x /\ call[p].kind = "update"
    BY <1>2, <1>3, <1>4 DEF Shape, Frame
<1>6. AloneProgress(p, Nat)
    BY <1>3 DEF StoreInv
<1>n. old.refs \in Refs /\ new \in Refs
    BY <1>4 DEF Frame, Item
<1>7. UnreadIsDue(c)'
    <2> SUFFICES ASSUME NEW ch \in c.todo, ch.val \notin suspect, x \notin suspect, ch.val # x
                 PROVE  ch.mode = "add" <=> ~Lists(docs, ch.val, Inverse[ch.fld], x)
        BY <1>5, <1>s DEF UnreadIsDue
    <2>1. FreshUpdate(call[p], Nat)
        BY <1>2, <1>3, <1>6 DEF AloneProgress, ObjectProgress
    <2>2. PICK f \in Fields : ch \in FieldChanges(f, old.refs[f], new[f])
        BY <1>2 DEF Changes
    <2>3. NoSwap(f, old.refs[f], new[f])
        <3>1. CASE f \in Single
            BY <1>3, <1>4, <1>5, <3>1 DEF MovedIsSuspect, NoSwap
        <3>2. CASE f \notin Single
            BY <3>2 DEF NoSwap, FieldChanges
        <3> QED
            BY <3>1, <3>2
    <2>4. /\ ch.fld = f
          /\ ch.mode = "add" => ch.val \in new[f] \ old.refs[f]
          /\ ch.mode # "add" => ch.val \in old.refs[f] \ new[f]
        BY <1>n, <2>2, <2>3, FieldChangesMeaning DEF Refs
    <2>5. ch.val \in Nat
        BY <1>n, <2>4 DEF Refs
    <2>6. ch.val \in old.refs[f] <=> Lists(docs, ch.val, Inverse[f], x)
        BY <2>1, <2>5 DEF FreshUpdate
    <2> QED
        BY <2>4, <2>6
<1> QED
    BY <1>1, <1>3, <1>7, DueAfter

\* A delete on its own tells what the old object lists.
LEMMA DueTakeOldDelete ==
    ASSUME CallInv, StoreInv, NEW p \in Procs, TakeOld(p), call[p].alone,
           call[p].kind = "delete", DueAt(p)
    PROVE  DueAt(p)'
<1>1. PICK c : c = call'[p]
    OBVIOUS
<1>s. UNCHANGED <<docs, suspect>>
    BY DEF TakeOld
<1>2. PICK old \in call[p].olds :
         /\ c.olds = call[p].olds \ {old} /\ c.cur = old.uid
         /\ c.todo = Changes(old.refs, NoRefs)
    BY <1>1, TakeOldStep
<1>3. /\ c.kind = "delete" /\ c.target = call[p].target /\ c.upd = {}
      /\ c.dirty = call[p].dirty /\ call[p].todo = {} /\ call[p].upd = {}
    BY <1>1, TakeOldStep DEF SameCall
<1>4. DeleteDue(call[p])
    BY DEF DueAt
<1>n. old.refs \in Refs /\ \A i \in call[p].olds : i.uid \in call[p].target
    BY DEF CallInv, Carried, Shape, TypeOK, Frame, Item
<1>5. UnreadIsDue(c)'
    <2> SUFFICES ASSUME NEW ch \in c.todo, ch.val \notin suspect, old.uid \notin suspect,
                        ch.val # old.uid
                 PROVE  ch.mode # "add" /\ Lists(docs, ch.val, Inverse[ch.fld], old.uid)
        BY <1>2, <1>s DEF UnreadIsDue
    <2>1. PICK f \in Fields : ch \in FieldChanges(f, old.refs[f], NoRefs[f])
        BY <1>2 DEF Changes
    <2>2. NoRefs[f] = {}
        BY DEF NoRefs
    <2>3. ch.mode # "add" /\ ch.fld = f /\ ch.val \in old.refs[f]
        BY <2>1, <2>2 DEF FieldChanges
    <2> QED
        BY <1>4, <2>3 DEF DeleteDue, OldsAnswered
<1>6. OldsAnswered(c)'
    BY <1>2, <1>4, <1>s DEF DeleteDue, OldsAnswered
<1>7. OldsDistinct(c)'
    BY <1>2, <1>4, <1>s DEF DeleteDue, OldsDistinct
<1>8. ReadsFirst(c)'
    <2> SUFFICES ASSUME NEW u \in c.target, c.target = {u}, u \notin suspect
                 PROVE  c.olds = {} /\ ~c.dirty
        BY <1>s DEF ReadsFirst
    <2>1. \A i \in call[p].olds : i = old
        BY <1>3, <1>4, <1>n DEF DeleteDue, OldsDistinct
    <2>2. ~call[p].dirty
        BY <1>3, <1>4 DEF DeleteDue, ReadsFirst
    <2> QED
        BY <1>2, <1>3, <2>1, <2>2
<1> QED
    BY <1>1, <1>3, <1>5, <1>6, <1>7, <1>8, DueAfter DEF DeleteDue

\* Reading a back reference changes nothing that is still to be read.
LEMMA DueReadBref ==
    ASSUME CallInv, StoreInv, NEW p \in Procs, ReadBref(p), call[p].alone, DueAt(p)
    PROVE  DueAt(p)'
<1>1. PICK c : c = call'[p]
    OBVIOUS
<1>s. UNCHANGED <<docs, suspect>>
    BY DEF ReadBref
<1>2. PICK ch \in call[p].todo :
         /\ SameObject(p) /\ call'[p].dirty = call[p].dirty
         /\ call'[p].todo = call[p].todo \ {ch}
    BY ReadBrefStep
<1>3. /\ c.kind = call[p].kind /\ c.target = call[p].target /\ c.cur = call[p].cur
      /\ c.olds = call[p].olds /\ c.dirty = call[p].dirty /\ c.todo = call[p].todo \ {ch}
    BY <1>1, <1>2 DEF SameObject
<1>4. UnreadIsDue(c)'
    BY <1>3, <1>s DEF DueAt, UnreadIsDue
<1>5. c.kind = "delete" => DeleteDue(c)'
    BY <1>3, <1>s DEF DueAt, DeleteDue, OldsAnswered, OldsDistinct, ReadsFirst
<1> QED
    BY <1>1, <1>4, <1>5, DueAfter

\* Writing the back references of one object leaves the others' alone.
LEMMA DueWriteBref ==
    ASSUME CallInv, StoreInv, NEW p \in Procs, WriteBref(p), call[p].alone, DueAt(p)
    PROVE  DueAt(p)'
<1>1. PICK c : c = call'[p]
    OBVIOUS
<1>2. PICK w0 \in call[p].upd, writes \in SUBSET call[p].upd :
         /\ \A w \in call[p].upd : w \in writes <=> w.cls = w0.cls /\ w.uid = w0.uid
         /\ call'[p].upd = call[p].upd \ writes
         /\ \/ /\ Matching(w0.cls, {w0.uid}) = {}
               /\ UNCHANGED <<docs, suspect>>
            \/ \E s \in Used(docs) :
                  /\ docs[s].cls = w0.cls /\ docs[s].uid = w0.uid
                  /\ call'[p].dirty
                  /\ Rewrites(s, writes)
                  /\ suspect' = suspect \cup
                       (IF Stolen(s, writes, call[p].cur)
                        THEN {w0.uid} ELSE {})
    BY WriteBrefStep
<1>3. /\ c.kind = call[p].kind /\ c.target = call[p].target /\ c.cur = call[p].cur
      /\ c.olds = call[p].olds /\ c.todo = {} /\ call[p].upd # {} /\ Active(p)
    BY <1>1, <1>2, WriteBrefStep DEF SameObject, Active
<1>4. suspect \subseteq suspect'
    BY <1>2
<1>5. UnreadIsDue(c)'
    BY <1>3 DEF UnreadIsDue
<1>6. ASSUME c.kind = "delete" PROVE DeleteDue(c)'
    <2>1. DeleteDue(call[p])
        BY <1>3, <1>6 DEF DueAt
    <2>2. OldsDistinct(c)' /\ ReadsFirst(c)'
        BY <1>3, <1>4, <2>1 DEF DeleteDue, OldsDistinct, ReadsFirst
    <2>3. ASSUME NEW i \in c.olds, NEW f \in Fields, NEW y \in i.refs[f],
                 y \notin suspect', i.uid \notin suspect', y # i.uid
          PROVE  Lists(docs', y, Inverse[f], i.uid)
        <3>1. PICK t \in Used(docs) : docs[t].uid = y /\ i.uid \in docs[t].refs[Inverse[f]]
            BY <1>3, <1>4, <2>1, <2>3 DEF DeleteDue, OldsAnswered, Lists
        <3>2. CASE UNCHANGED <<docs, suspect>>
            BY <3>1, <3>2 DEF Lists
        <3>3. ASSUME NEW s \in Used(docs),
                     docs[s].cls = w0.cls, docs[s].uid = w0.uid, Rewrites(s, writes),
                     suspect' = suspect \cup
                         (IF Stolen(s, writes, call[p].cur) THEN {w0.uid} ELSE {})
              PROVE  Lists(docs', y, Inverse[f], i.uid)
            <4>1. t \in Used(docs') /\ docs'[t].uid = y
                BY <3>1, <3>3 DEF Rewrites
            <4>2. CASE t # s
                BY <3>1, <3>3, <4>1, <4>2 DEF Rewrites, Lists
            <4>3. CASE t = s
                <5>1. i.uid # call[p].cur
                    BY <1>3, <1>4, <2>1, <2>3 DEF DeleteDue, OldsDistinct
                <5>2. Foreign(p) = suspect /\ Unreliable(p) = suspect /\ Own(p) = {call[p].cur}
                    BY <1>3, AloneQuarantine DEF Own
                <5>3. i.uid \notin Foreign(p) \cup Own(p) /\ docs[s].uid \notin Unreliable(p)
                    BY <1>4, <2>3, <3>1, <4>3, <5>1, <5>2
                <5>4. /\ docs[s].uid \notin suspect'
                      /\ Stolen(s, writes, call[p].cur) => docs[s].uid \in suspect'
                      /\ \A w \in writes : w.cls = docs[s].cls /\ w.uid = docs[s].uid
                    BY <1>2, <2>3, <3>1, <3>3, <4>3
                <5>5. Inverse[f] \in Fields /\ PreparedAgrees(p)
                    BY SchemaAssumption DEF StoreInv
                <5>6. i.uid \in docs'[s].refs[Inverse[f]] <=> i.uid \in docs[s].refs[Inverse[f]]
                    BY <3>3, <5>3, <5>4, <5>5, WriteKeeps
                <5> QED
                    BY <3>1, <4>1, <4>3, <5>6 DEF Lists
            <4> QED
                BY <4>2, <4>3
        <3> QED
            BY <1>2, <3>2, <3>3
    <2>4. OldsAnswered(c)'
        BY <2>3 DEF OldsAnswered
    <2> QED
        BY <2>2, <2>4 DEF DeleteDue
<1> QED
    BY <1>1, <1>5, <1>6, DueAfter

\* The steps that prepare nothing.
LEMMA DueUpdate ==
    ASSUME CallInv, NEW p \in Procs, FindForUpdate(p) \/ SetDoc(p)
    PROVE  DueAt(p)'
<1>1. PICK c : c = call'[p]
    OBVIOUS
<1>2. c.kind = "update" /\ c.todo = {}
    <2>1. CASE FindForUpdate(p)
        BY <1>1, <2>1, FindForUpdateStep DEF SameCall
    <2>2. CASE SetDoc(p)
        BY <1>1, <2>2, SetDocStep DEF SameCall
    <2> QED
        BY <2>1, <2>2
<1>3. UnreadIsDue(c)'
    BY <1>2 DEF UnreadIsDue
<1> QED
    BY <1>1, <1>2, <1>3, DueAfter

\* Every step of a worker keeps what the calls on their own expect.
LEMMA DueStep ==
    ASSUME CallInv, StoreInv, RefusalInv, NEW p \in Procs, Operation(p) \/ Step(p)
    PROVE  RefusalInv'
<1>c. call \in [Procs -> Frame]
    BY DEF CallInv, TypeOK
<1>1. ASSUME NEW q \in Procs \ {p}, Active(q)', call'[q].alone PROVE FALSE
    <2>1. CASE Operation(p)
        <3>1. call'[q] = [call[q] EXCEPT !.alone = @ /\ ~Active(q)]
            BY <2>1, OperationFootprint
        <3>2. call'[q].alone = (call[q].alone /\ ~Active(q)) /\ call'[q].pc = call[q].pc
            BY <1>c, <3>1 DEF Frame
        <3> QED
            BY <1>1, <3>2 DEF Active
    <2>2. CASE Step(p)
        BY <1>1, <2>2, StepFootprint DEF CallInv, AloneIsAlone, Active
    <2> QED
        BY <2>1, <2>2
<1>2. ASSUME Active(p)', call'[p].alone PROVE DueAt(p)'
    <2>1. CASE Operation(p)
        BY <1>2, <2>1, DueOperation
    <2>2. CASE Step(p)
        <3>1. call[p].alone /\ Active(p)
            BY <1>2, <2>2, IdleType, StepFootprint DEF Active
        <3>2. DueAt(p)
            BY <3>1 DEF RefusalInv, DueAt
        <3>3. ~(RemoveDocs(p) \/ ConsistencyError(p) \/ Return(p) \/ Crash(p))
            BY <1>2, <1>c, IdleType
            DEF RemoveDocs, ConsistencyError, Return, Crash, Leave, Active
        <3> QED
            BY <2>2, <3>1, <3>2, <3>3, DueInsertDoc, DueUpdate, DueTakeOldUpdate,
               DueTakeOldDelete, DueReadBref, DueWriteBref DEF Step
    <2> QED
        BY <2>1, <2>2
<1>3. \A q \in Procs : Active(q)' /\ call'[q].alone => DueAt(q)'
    BY <1>1, <1>2
<1> QED
    BY <1>3 DEF RefusalInv, DueAt, Active

\* What calls on their own expect holds with the inductive invariant.
LEMMA RefusalInvNext == IInv /\ RefusalInv /\ [Next]_vars => RefusalInv'
<1> SUFFICES ASSUME IInv, RefusalInv, [Next]_vars PROVE RefusalInv'
    OBVIOUS
<1>1. CallInv /\ StoreInv
    BY IInvParts
<1>2. CASE UNCHANGED vars
    BY <1>2 DEF vars, RefusalInv, UnreadIsDue, DeleteDue, OldsAnswered, OldsDistinct,
       ReadsFirst, Active, Lists, Used
<1>3. ASSUME NEW p \in Procs, Operation(p) \/ Step(p) PROVE RefusalInv'
    BY <1>1, <1>3, DueStep
<1>4. CASE Stop
    BY <1>2, <1>4 DEF Stop
<1> QED
    BY <1>2, <1>3, <1>4 DEF Next

\* The invariant of the calls on their own holds between any two steps.
THEOREM ChangesAreDue == Spec => []RefusalInv
<1>1. Init => RefusalInv
    BY IdleType DEF Init, RefusalInv, Active
<1> QED
    BY <1>1, RefusalInvNext, CallsAgreeWithStore, PTL DEF Spec

\* A refused change of two sound objects names one that does not exist, or one
\* of a class the loop does not look in.
LEMMA RefusalHasReason ==
    ASSUME CallInv, StoreInv, RefusalInv, NEW p \in Procs, NEW ch \in call[p].todo,
           call[p].alone, Refused(p, ch),
           {ch.val, call[p].cur} \cap suspect = {}, ch.val # call[p].cur
    PROVE  \/ /\ ch.mode = "add"
              /\ \A s \in Used(docs) :
                    docs[s].uid = ch.val => docs[s].cls \notin Owner[Inverse[ch.fld]]
           \/ \E s \in Used(docs), c \in Classes :
                 /\ docs[s].uid = ch.val /\ docs[s].cls # c
                 /\ <<ch.fld, c>> \in call[p].narrow
<1> DEFINE g == Inverse[ch.fld]
           x == call[p].cur
<1>1. /\ Active(p) /\ call[p] \in Frame /\ ch \in Change /\ Carried(call[p])
    BY IdleType DEF CallInv, TypeOK, Carried, Shape, Active, Frame
<1>2. UnreadIsDue(call[p]) /\ UniqueOutside(docs, suspect)
    BY <1>1 DEF RefusalInv, StoreInv, AloneProgress
<1>3. ch.mode \in {"add", "del"} /\ ch.fld \in Fields /\ g \in Fields
    BY <1>1, SchemaAssumption DEF Carried, MovedIsSuspect, Change
<1>4. ch.mode = "add" <=> ~Lists(docs, ch.val, g, x)
    BY <1>2 DEF UnreadIsDue
<1>5. ASSUME NEW s \in Used(docs), docs[s].uid = ch.val, docs[s].cls \in Owner[g],
             \A c \in Classes : <<ch.fld, c>> \in call[p].narrow => docs[s].cls = c
      PROVE  FALSE
    <2>1. s \in BrefTargets(p, ch)
        BY <1>5 DEF BrefTargets
    <2>2. PICK t \in BrefTargets(p, ch) : ~BrefAccepts(g, ch.mode, docs[t].refs[g], x)
        BY <2>1 DEF Refused
    <2>3. t \in Used(docs) /\ docs[t].uid = ch.val
        BY DEF BrefTargets
    <2>4. (x \in docs[t].refs[g]) <=> (ch.mode = "add")
        BY <1>3, <2>2 DEF BrefAccepts
    <2>5. x \in docs[t].refs[g] <=> Lists(docs, ch.val, g, x)
        BY <1>2, <2>3 DEF Lists, UniqueOutside
    <2> QED
        BY <1>4, <2>4, <2>5
<1>6. CASE ch.mode = "add"
    BY <1>5, <1>6
<1>7. CASE ch.mode # "add"
    <2>1. PICK s \in Used(docs) : docs[s].uid = ch.val /\ x \in docs[s].refs[g]
        BY <1>4, <1>7 DEF Lists
    <2>2. docs[s].cls \in Owner[g]
        BY <1>3, <2>1 DEF CallInv, TypeOK, WellFormed, FitsClass
    <2> QED
        BY <1>5, <2>1, <2>2
<1> QED
    BY <1>6, <1>7

(***************************************************************************)
(* A call on its own raises MongoDbConsistencyError only over a suspect    *)
(* object, over one that refers to itself, over an object that the caller  *)
(* named and that is not there, or over a field of several classes.        *)
(***************************************************************************)
THEOREM RefusalsExplained == Spec => []RefusalExplained
<1>1. IInv /\ RefusalInv => RefusalExplained
    BY IInvParts, RefusalHasReason DEF RefusalExplained
<1> QED
    BY <1>1, CallsAgreeWithStore, ChangesAreDue, PTL

(***************************************************************************)
(* The delete of one sound object that can still be refused has not        *)
(* written anything.                                                       *)
(***************************************************************************)
THEOREM RefusedDeletesHarmless == Spec => []RefusedDeleteHarmless
<1>1. ASSUME CallInv, RefusalInv, NEW p \in Procs, call[p].kind = "delete", call[p].alone,
             call[p].target = {call[p].cur} \ suspect, call[p].todo # {}
      PROVE  ~call[p].dirty
    <2>1. Active(p) /\ call[p].cur \in call[p].target
        BY <1>1 DEF CallInv, Carried, Shape, Active
    <2>2. ReadsFirst(call[p])
        BY <1>1, <2>1 DEF RefusalInv, DeleteDue
    <2> QED
        BY <1>1, <2>1, <2>2 DEF ReadsFirst
<1>2. IInv /\ RefusalInv => RefusedDeleteHarmless
    BY <1>1, IInvParts DEF RefusedDeleteHarmless
<1> QED
    BY <1>2, CallsAgreeWithStore, ChangesAreDue, PTL
-----------------------------------------------------------------------------
(***************************************************************************)
(* The invariants over the uids a state names.                             *)
(***************************************************************************)
\* What a call or a document names is known.
LEMMA KnownNames ==
    /\ \A p \in Procs : call[p].cur \in Known
    /\ \A p \in Procs : \A y : y \notin Known => \A f :
          ~Adding(call[p], f, y) /\ ~Dropping(call[p], f, y)
    /\ \A p \in Procs : \A y : y \notin Known =>
          \A o \in call[p].olds, f \in Fields : y \notin o.refs[f]
    /\ \A s \in Used(docs) : \A y : y \notin Known =>
          \A f \in Fields : y \notin docs[s].refs[f]
    /\ \A y, f, x : y \notin Known => ~Lists(docs, y, f, x)
<1>1. ASSUME NEW p \in Procs, NEW y \in NamedBy(call[p]) PROVE y \in Known
    BY <1>1 DEF Known
<1>2. Uids(docs) \subseteq Known
    BY DEF Known
<1>3. ASSUME NEW s \in Used(docs) PROVE Listed(docs[s].refs) \subseteq Known
    BY DEF Known
<1>4. \A refs : \A f \in Fields : refs[f] \subseteq Listed(refs)
    BY DEF Listed
<1>5. ASSUME NEW c, NEW y, y \notin NamedBy(c)
      PROVE  /\ y # c.cur
             /\ \A ch \in c.todo : ch.val # y
             /\ \A w \in c.upd : w.uid # y
             /\ \A o \in c.olds : y \notin Listed(o.refs)
    BY <1>5 DEF NamedBy
<1>6. ASSUME NEW p \in Procs PROVE call[p].cur \in Known
    BY <1>1, <1>5
<1>7. ASSUME NEW p \in Procs, NEW y, y \notin Known, NEW f
      PROVE  ~Adding(call[p], f, y) /\ ~Dropping(call[p], f, y)
    BY <1>1, <1>5, <1>7 DEF Adding, Dropping
<1>8. ASSUME NEW p \in Procs, NEW y, y \notin Known,
             NEW o \in call[p].olds, NEW f \in Fields
      PROVE  y \notin o.refs[f]
    BY <1>1, <1>4, <1>5, <1>8
<1>9. ASSUME NEW y, NEW f, NEW x, y \notin Known PROVE ~Lists(docs, y, f, x)
    BY <1>2, <1>9 DEF Lists, Uids
<1> QED
    BY <1>3, <1>4, <1>6, <1>7, <1>8, <1>9

\* A uid the state does not name says nothing about a call.
LEMMA ProgressKnown ==
    ASSUME NEW p \in Procs, Known \subseteq Nat
    PROVE  AloneProgress(p, Nat) <=> AloneProgress(p, Known)
<1>1. PICK c : c = call[p]
    OBVIOUS
<1>2. /\ c.cur \in Known
      /\ \A y : y \notin Known => \A f :
            /\ ~Adding(c, f, y) /\ ~Dropping(c, f, y)
            /\ \A o \in c.olds : f \in Fields => y \notin o.refs[f]
            /\ \A s \in Used(docs) : f \in Fields => y \notin docs[s].refs[f]
            /\ \A x : ~Lists(docs, y, f, x)
    BY <1>1, KnownNames
<1>3. FreshUpdate(c, Nat) <=> FreshUpdate(c, Known)
    BY <1>2 DEF FreshUpdate
<1>4. WriteProgress(c, Nat) <=> WriteProgress(c, Known)
    BY <1>2 DEF WriteProgress, Pending
<1>5. ObjectProgress(c, Nat) <=> ObjectProgress(c, Known)
    BY <1>3, <1>4 DEF ObjectProgress
<1> QED
    BY <1>1, <1>5 DEF AloneProgress

\* What a run checks over the uids of its states is the invariant.
LEMMA InvariantKnown == InductiveInvariant <=> IInv /\ RefusalInv
<1>1. ASSUME TypeOK PROVE Known \subseteq Nat
    <2>1. \A refs \in Refs : Listed(refs) \subseteq Nat
        BY DEF Listed, Refs
    <2>2. Uids(docs) \subseteq Nat /\ \A s \in Used(docs) : Listed(docs[s].refs) \subseteq Nat
        BY <1>1, <2>1 DEF TypeOK, Uids, Used, Doc
    <2>3. ASSUME NEW p \in Procs PROVE NamedBy(call[p]) \subseteq Nat
        <3>1. call[p] \in Frame
            BY <1>1 DEF TypeOK
        <3>2. \A i \in call[p].olds : Listed(i.refs) \subseteq Nat
            BY <2>1, <3>1 DEF Frame, Item
        <3>3. /\ call[p].cur \in Nat
              /\ \A ch \in call[p].todo : ch.val \in Nat
              /\ \A w \in call[p].upd : w.uid \in Nat
            BY <3>1 DEF Frame, Change, BrefWrite
        <3>4. UNION {Listed(i.refs) : i \in call[p].olds} \subseteq Nat
            BY <3>2
        <3> QED
            BY <3>3, <3>4 DEF NamedBy
    <2> QED
        BY <2>2, <2>3 DEF Known
<1>2. IInvOver(Known) <=> IInvOver(Nat)
    BY <1>1, ProgressKnown DEF IInvOver
<1> QED
    BY <1>2 DEF InductiveInvariant, IInv

(***************************************************************************)
(* The two invariants above, over the uids a state names: however calls    *)
(* overlap, fail or are killed, a call on its own has exactly the changes  *)
(* still to make that set a field and its back references apart.           *)
(***************************************************************************)
THEOREM CallsOweTheDifference == Spec => []InductiveInvariant
BY InvariantKnown, CallsAgreeWithStore, ChangesAreDue, PTL
=============================================================================
