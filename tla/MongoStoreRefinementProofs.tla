---------------------- MODULE MongoStoreRefinementProofs ----------------------
(***************************************************************************)
(* MongoStore implements RelationStore: the proof that the calls of        *)
(* careful callers are changes of a symmetric relation, for every schema,  *)
(* every database to start from and every data.                            *)
(***************************************************************************)
EXTENDS MongoStoreProofs, MongoStoreRefinement

-----------------------------------------------------------------------------
(***************************************************************************)
(* The links a store shows while the objects W are being written and the   *)
(* objects D are being deleted.                                            *)
(***************************************************************************)
Shown(store, W, D, x, f, y) ==
    \/ x \in W \ D /\ Lists(store, x, f, y)
    \/ y \in W \ D /\ Lists(store, y, Inverse[f], x)
    \/ x \notin W \cup D /\ y \notin W \cup D /\ Lists(store, x, f, y)

StoreTyped(store) ==
    \A s \in Used(store) : store[s].uid \in Nat /\ store[s].refs \in Refs

\* A link is a field of an object and the object it lists.
LEMMA LinksMeaning ==
    ASSUME NEW store, StoreTyped(store), NEW W, NEW D, NEW l
    PROVE  l \in LinksIn(store, W, D) <=>
               \E x \in Nat, f \in Fields, y \in Nat :
                   l = <<x, f, y>> /\ Shown(store, W, D, x, f, y)
<1> DEFINE K == {t \in Used(store) : store[t].uid \notin D}
           Stored == UNION {UNION {{<<store[s].uid, f, y>> : y \in store[s].refs[f]}
                                      : f \in Fields} : s \in K}
           Mine == {k \in Stored : k[1] \in W}
           Answers == {<<k[3], Inverse[k[2]], k[1]>> : k \in Mine}
           Rest == {k \in Stored : k[1] \notin W /\ k[3] \notin W \cup D}
<1>1. LinksIn(store, W, D) = Mine \cup Answers \cup Rest
    BY DEF LinksIn
<1>2. ASSUME NEW k
      PROVE  k \in Stored <=> \E x \in Nat, f \in Fields, y \in Nat :
                                 /\ k = <<x, f, y>>
                                 /\ x \notin D /\ Lists(store, x, f, y)
    BY DEF StoreTyped, Refs, Lists
<1> HIDE DEF Stored
<1>i. \A f \in Fields : Inverse[f] \in Fields /\ Inverse[Inverse[f]] = f
    BY SchemaAssumption
<1>3. l \in Mine <=> \E x \in Nat, f \in Fields, y \in Nat :
         l = <<x, f, y>> /\ x \in W \ D /\ Lists(store, x, f, y)
    BY <1>2
<1>4. l \in Rest <=> \E x \in Nat, f \in Fields, y \in Nat :
         /\ l = <<x, f, y>> /\ x \notin W \cup D /\ y \notin W \cup D
         /\ Lists(store, x, f, y)
    BY <1>2
<1>5. l \in Answers <=> \E x \in Nat, f \in Fields, y \in Nat :
         l = <<x, f, y>> /\ y \in W \ D /\ Lists(store, y, Inverse[f], x)
    <2>1. ASSUME l \in Answers
          PROVE  \E x \in Nat, f \in Fields, y \in Nat :
                    l = <<x, f, y>> /\ y \in W \ D /\ Lists(store, y, Inverse[f], x)
        <3>1. PICK k \in Mine : l = <<k[3], Inverse[k[2]], k[1]>>
            BY <2>1
        <3>2. PICK x \in Nat, f \in Fields, y \in Nat :
                 k = <<x, f, y>> /\ x \in W \ D /\ Lists(store, x, f, y)
            BY <1>2
        <3>3. l = <<y, Inverse[f], x>>
            BY <3>1, <3>2
        <3> QED
            BY <1>i, <3>2, <3>3
    <2>2. ASSUME NEW x \in Nat, NEW f \in Fields, NEW y \in Nat,
                 l = <<x, f, y>>, y \in W \ D, Lists(store, y, Inverse[f], x)
          PROVE  l \in Answers
        <3>1. PICK k : k = <<y, Inverse[f], x>>
            OBVIOUS
        <3>2. k \in Mine
            BY <1>2, <1>i, <2>2, <3>1
        <3>3. l = <<k[3], Inverse[k[2]], k[1]>>
            BY <1>i, <2>2, <3>1
        <3> QED
            BY <3>2, <3>3
    <2> QED
        BY <2>1, <2>2
<1> HIDE DEF Mine, Answers, Rest
<1> QED
    BY <1>1, <1>3, <1>4, <1>5 DEF Shown

\* Stores that show the same show the same links.
LEMMA LinksEqual ==
    ASSUME NEW s1, NEW s2, StoreTyped(s1), StoreTyped(s2),
           NEW W1, NEW D1, NEW W2, NEW D2,
           \A x \in Nat, f \in Fields, y \in Nat :
               Shown(s1, W1, D1, x, f, y) <=> Shown(s2, W2, D2, x, f, y)
    PROVE  LinksIn(s1, W1, D1) = LinksIn(s2, W2, D2)
<1>1. ASSUME NEW l PROVE l \in LinksIn(s1, W1, D1) <=> l \in LinksIn(s2, W2, D2)
    BY LinksMeaning
<1> QED
    BY <1>1

\* Where every reference is answered, it does not matter who is asked.
LEMMA ShownIsListed ==
    ASSUME NEW store, StoreTyped(store), ConsistentOutside(store, {}),
           NEW W, NEW x \in Nat, NEW f \in Fields, NEW y \in Nat
    PROVE  Shown(store, W, {}, x, f, y) <=> Lists(store, x, f, y)
<1>i. Inverse[f] \in Fields /\ Inverse[Inverse[f]] = f
    BY SchemaAssumption
<1>1. \A a, b, g : g \in Fields /\ Lists(store, a, g, b) => Lists(store, b, Inverse[g], a)
    BY DEF ConsistentOutside, AnsweredOutside, Lists
<1>2. Lists(store, y, Inverse[f], x) <=> Lists(store, x, f, y)
    BY <1>i, <1>1
<1> QED
    BY <1>2 DEF Shown

\* The objects that live are those that are not being deleted.
LEMMA LiveObjects ==
    ASSUME NEW store, NEW D
    PROVE  Abstract!Live(ObjectsIn(store, D)) = Uids(store) \ D
<1>1. \A o : o \in ObjectsIn(store, D) <=>
         \E s \in Used(store) : /\ store[s].uid \notin D
                               /\ o = [uid |-> store[s].uid, cls |-> store[s].cls]
    BY DEF ObjectsIn
<1>2. \A x : x \in Abstract!Live(ObjectsIn(store, D)) <=>
         \E o \in ObjectsIn(store, D) : x = o.uid
    BY DEF Abstract!Live
<1>3. ASSUME NEW x, x \in Uids(store) \ D
      PROVE  x \in Abstract!Live(ObjectsIn(store, D))
    <2>1. PICK s \in Used(store) : store[s].uid = x
        BY <1>3 DEF Uids
    <2>2. PICK o : o = [uid |-> store[s].uid, cls |-> store[s].cls]
        OBVIOUS
    <2>3. o \in ObjectsIn(store, D) /\ o.uid = x
        BY <1>1, <1>3, <2>1, <2>2
    <2> QED
        BY <1>2, <2>3
<1>4. ASSUME NEW x, x \in Abstract!Live(ObjectsIn(store, D))
      PROVE  x \in Uids(store) \ D
    <2>1. PICK o \in ObjectsIn(store, D) : x = o.uid
        BY <1>2, <1>4
    <2>2. PICK s \in Used(store) : /\ store[s].uid \notin D
                                  /\ o = [uid |-> store[s].uid, cls |-> store[s].cls]
        BY <1>1
    <2> QED
        BY <2>1, <2>2 DEF Uids
<1> QED
    BY <1>3, <1>4

\* Links are related if the objects written list what is there, and the
\* others are answered.
LEMMA LinksRelated ==
    ASSUME NEW store, StoreTyped(store), NEW W,
           \A x, y : \A f \in Fields : Lists(store, x, f, y) =>
               IF x \in W THEN y \in Uids(store)
                          ELSE y \notin W => Lists(store, y, Inverse[f], x)
    PROVE  Abstract!Related(ObjectsIn(store, {}), LinksIn(store, W, {}))
<1>i. \A f \in Fields : Inverse[f] \in Fields /\ Inverse[Inverse[f]] = f
    BY SchemaAssumption
<1>1. ASSUME NEW l \in LinksIn(store, W, {})
      PROVE  /\ l[1] \in Uids(store) /\ l[3] \in Uids(store)
             /\ <<l[3], Inverse[l[2]], l[1]>> \in LinksIn(store, W, {})
    <2>1. PICK x \in Nat, f \in Fields, y \in Nat :
             l = <<x, f, y>> /\ Shown(store, W, {}, x, f, y)
        BY LinksMeaning
    <2>2. x \in Uids(store) /\ y \in Uids(store)
        BY <1>i, <2>1 DEF Shown, Lists, Uids
    <2>3. Shown(store, W, {}, y, Inverse[f], x)
        BY <1>i, <2>1 DEF Shown
    <2>4. <<y, Inverse[f], x>> \in LinksIn(store, W, {})
        BY <1>i, <2>3, LinksMeaning
    <2> QED
        BY <2>1, <2>2, <2>4
<1>2. Abstract!Live(ObjectsIn(store, {})) = Uids(store)
    BY LiveObjects
<1> QED
    BY <1>1, <1>2 DEF Abstract!Related

-----------------------------------------------------------------------------
(***************************************************************************)
(* The worker: what it is writing or deleting.                             *)
(***************************************************************************)
WritingBy(c) == IF c.pc = "bref" /\ c.kind # "delete" /\ c.dirty THEN {c.cur} ELSE {}

DeletingBy(c) == IF c.pc # "idle" /\ c.kind = "delete" THEN c.target ELSE {}

\* No other call than that of p is in flight, before and after its step.
Turn(p) == \A q \in Procs \ {p} : call[q] = Idle /\ call'[q] = Idle

\* Careful calls take turns.
LEMMA TakesTurns ==
    ASSUME CallInv, CarefulInv, CarefulCallers, NEW p \in Procs,
           Operation(p) \/ Step(p)
    PROVE  Turn(p)
<1>1. \A q \in Procs : ~Active(q) => call[q] = Idle
    BY DEF CallInv, Carried, Shape, Active
<1>2. CASE Step(p)
    <2>1. Active(p) /\ call[p].alone /\ \A q \in Procs \ {p} : call'[q] = call[q]
        BY <1>2, StepFootprint DEF CarefulInv, CarefulCall
    <2> QED
        BY <1>1, <2>1, AloneQuarantine DEF Turn
<1>3. CASE Operation(p)
    <2>1. /\ ~Active(p) /\ call'[p].pc # "idle"
          /\ \A q \in Procs \ {p} :
                call'[q] = [call[q] EXCEPT !.alone = @ /\ ~Active(q)]
        BY <1>3, OperationFootprint DEF Active
    <2>2. \A q \in Procs : ~Active(q)
        BY <2>1 DEF CarefulCallers
    <2>3. Idle \in Frame /\ Idle.alone = TRUE
        BY IdleType DEF Idle
    <2>4. [Idle EXCEPT !.alone = TRUE] = Idle
        BY <2>3 DEF Frame
    <2>5. ASSUME NEW q \in Procs \ {p} PROVE call[q] = Idle /\ call'[q] = Idle
        <3>1. call[q] = Idle /\ ~Active(q)
            BY <1>1, <2>2
        <3>2. call'[q] = [Idle EXCEPT !.alone = TRUE]
            BY <2>1, <2>3, <3>1
        <3> QED
            BY <2>4, <3>1, <3>2
    <2> QED
        BY <2>5 DEF Turn
<1> QED
    BY <1>2, <1>3

\* What is being written or deleted is what p writes or deletes.
LEMMA OneWorker ==
    ASSUME NEW p \in Procs, Turn(p)
    PROVE  /\ Writing = WritingBy(call[p]) /\ Deleting = DeletingBy(call[p])
           /\ Writing' = WritingBy(call'[p]) /\ Deleting' = DeletingBy(call'[p])
<1>1. /\ \A q \in Procs : q # p => call[q].pc = "idle" /\ call'[q].pc = "idle"
    BY IdleType DEF Turn
<1>2. Writing = WritingBy(call[p]) /\ Deleting = DeletingBy(call[p])
    BY <1>1 DEF Writing, Deleting, WritingBy, DeletingBy, Active
<1>3. Writing' = WritingBy(call'[p]) /\ Deleting' = DeletingBy(call'[p])
    BY <1>1 DEF Writing, Deleting, WritingBy, DeletingBy, Active
<1> QED
    BY <1>2, <1>3

\* The state the caller sees, before and after a step.
LEMMA AbstractState ==
    ASSUME NEW p \in Procs, Turn(p)
    PROVE  /\ AbstractObjects = ObjectsIn(docs, DeletingBy(call[p]))
           /\ AbstractLinks = LinksIn(docs, WritingBy(call[p]), DeletingBy(call[p]))
           /\ AbstractObjects' = ObjectsIn(docs', DeletingBy(call'[p]))
           /\ AbstractLinks' = LinksIn(docs', WritingBy(call'[p]), DeletingBy(call'[p]))
BY OneWorker DEF AbstractObjects, AbstractLinks

\* While nobody has written, every reference is answered.
LEMMA NobodyWrites ==
    ASSUME StoreInv, suspect = {}, \A q \in Procs : ~HasWritten(q)
    PROVE  ConsistentOutside(docs, {})
<1>1. \A x : x \notin Quarantine
    BY QuarantineMeaning
<1>2. Quarantine = {}
    BY <1>1
<1> QED
    BY <1>2 DEF StoreInv, Contained

\* What a worker whose turn it is knows of the database.
LEMMA Knowledge ==
    ASSUME CallInv, StoreInv, CarefulInv, NEW p \in Procs, Turn(p)
    PROVE  /\ StoreTyped(docs) /\ suspect = {} /\ CarefulCall(call[p])
           /\ call[p] \in Frame /\ Carried(call[p]) /\ call[p].alone
           /\ Active(p) => AloneProgress(p, Nat) /\ UniqueOutside(docs, {})
           /\ ~Active(p) \/ ~call[p].dirty => ConsistentOutside(docs, {})
<1>1. /\ suspect = {} /\ CarefulCall(call[p]) /\ call[p].alone
      /\ call[p] \in Frame /\ Carried(call[p])
    BY DEF CarefulInv, CarefulCall, CallInv, TypeOK
<1>2. StoreTyped(docs)
    BY StoredTypes DEF StoreTyped
<1>3. Active(p) => AloneProgress(p, Nat) /\ UniqueOutside(docs, {})
    BY <1>1 DEF StoreInv, AloneProgress
<1>4. ASSUME ~Active(p) \/ ~call[p].dirty PROVE ConsistentOutside(docs, {})
    <2>1. \A q \in Procs : ~HasWritten(q)
        BY <1>4, IdleType DEF HasWritten, Turn, Active
    <2> QED
        BY <1>1, <2>1, NobodyWrites
<1> QED
    BY <1>1, <1>2, <1>3, <1>4

-----------------------------------------------------------------------------
(***************************************************************************)
(* CarefulInv is inductive.                                                *)
(***************************************************************************)
\* No careful change is ever refused.
LEMMA NeverRefused ==
    ASSUME CallInv, StoreInv, RefusalInv, CarefulInv, NEW p \in Procs
    PROVE  ~ConsistencyError(p)
<1>1. ASSUME NEW ch \in call[p].todo, NextChange(p, ch), Refused(p, ch) PROVE FALSE
    <2>1. suspect = {} /\ CarefulCall(call[p]) /\ call[p].alone
        BY DEF CarefulInv, CarefulCall
    <2>2. ch.val # call[p].cur /\ (ch.mode = "add" => Exists(ch.fld, ch.val))
        BY <2>1 DEF CarefulCall, CarefulChanges
    <2>3. \/ /\ ch.mode = "add"
             /\ \A s \in Used(docs) :
                   docs[s].uid = ch.val => docs[s].cls \notin Owner[Inverse[ch.fld]]
          \/ \E s \in Used(docs), c \in Classes :
                /\ docs[s].uid = ch.val /\ docs[s].cls # c
                /\ <<ch.fld, c>> \in call[p].narrow
        BY <1>1, <2>1, <2>2, RefusalHasReason
    <2>4. PICK s \in Used(docs), c \in Classes :
             /\ docs[s].uid = ch.val /\ docs[s].cls # c
             /\ <<ch.fld, c>> \in call[p].narrow
        BY <2>2, <2>3 DEF Exists
    <2>5. PICK n : n = <<ch.fld, c>>
        OBVIOUS
    <2>6. n \in call[p].narrow /\ n[1] = ch.fld /\ n[2] = c
        BY <2>4, <2>5
    <2> QED
        BY <2>1, <2>4, <2>6 DEF CarefulCall, Findable
<1> QED
    BY <1>1 DEF ConsistencyError, Refused

\* A set of changes is one the call asks for.
Asks(c, chs) ==
    \/ chs = c.todo
    \/ c.pc = "insert" /\ chs = Changes(NoRefs, c.new)
    \/ \E old \in c.olds :
          chs = Changes(old.refs, IF c.kind = "delete" THEN NoRefs ELSE c.new)
    \/ \E item \in c.fetched : \E s \in Matching(c.cls, {item.uid}) :
          chs = Changes(docs[s].refs, item.refs)

\* What a call asks for, before and after a step.
LEMMA AskedMeaning ==
    ASSUME NEW c, NEW chs
    PROVE  /\ chs \in Asked(c) <=> Asks(c, chs)
           /\ chs \in Asked(c)' <=> Asks(c, chs)'
<1> DEFINE Entered == {Changes(NoRefs, c.new) : pc \in {c.pc} \cap {"insert"}}
           Left    == {Changes(old.refs, IF c.kind = "delete" THEN NoRefs ELSE c.new)
                          : old \in c.olds}
           Of(item) == {Changes(docs[s].refs, item.refs)
                          : s \in Matching(c.cls, {item.uid})}
           Found   == UNION {Of(item) : item \in c.fetched}
<1>1. chs \in Entered <=> c.pc = "insert" /\ chs = Changes(NoRefs, c.new)
    OBVIOUS
<1>2. chs \in Left <=> \E old \in c.olds :
         chs = Changes(old.refs, IF c.kind = "delete" THEN NoRefs ELSE c.new)
    OBVIOUS
<1>3. \A item : chs \in Of(item) <=> \E s \in Matching(c.cls, {item.uid}) :
         chs = Changes(docs[s].refs, item.refs)
    OBVIOUS
<1>4. \A item : chs \in Of(item)' <=> \E s \in Matching(c.cls, {item.uid})' :
         chs = Changes(docs'[s].refs, item.refs)
    OBVIOUS
<1>5. Asked(c) = {c.todo} \cup Entered \cup Left \cup Found
    BY DEF Asked
<1>6. Asked(c)' = {c.todo} \cup Entered \cup Left \cup Found'
    BY DEF Asked
<1> HIDE DEF Entered, Left, Of
<1>7. chs \in Found <=> \E item \in c.fetched : chs \in Of(item)
    OBVIOUS
<1>8. chs \in Found' <=> \E item \in c.fetched : chs \in Of(item)'
    OBVIOUS
<1> HIDE DEF Found
<1>9. chs \in Asked(c) <=> Asks(c, chs)
    BY <1>1, <1>2, <1>3, <1>5, <1>7 DEF Asks
<1>10. chs \in Asked(c)' <=> Asks(c, chs)'
    BY <1>1, <1>2, <1>4, <1>6, <1>8 DEF Asks
<1> QED
    BY <1>9, <1>10

\* What can be done can be done while the database is left alone.
LEMMA CanBeDoneSame ==
    ASSUME NEW c, CanBeDone(c), UNCHANGED docs
    PROVE  CanBeDone(c)'
<1>1. \A k, U : Matching(k, U)' = Matching(k, U)
    BY DEF Matching, Used
<1>2. \A chs : Asks(c, chs)' <=> Asks(c, chs)
    BY <1>1 DEF Asks
<1>3. \A chs : Feasible(chs)' <=> Feasible(chs)
    BY DEF Feasible, SameClass, Vacant, Used
<1> QED
    BY <1>2, <1>3, AskedMeaning DEF CanBeDone

\* The changes of an object that is left to treat can be made.
LEMMA AskedOfOld ==
    ASSUME NEW c, CanBeDone(c), NEW old \in c.olds
    PROVE  Feasible(Changes(old.refs, IF c.kind = "delete" THEN NoRefs ELSE c.new))
BY DEF CanBeDone, Asked

\* No object that carefully changes its references has a single one moved.
LEMMA NotRetargeted ==
    ASSUME NEW p \in Procs, CarefulCall(call[p]), call[p].kind = "update"
    PROVE  ~Retargeted(p)
<1>1. ASSUME NEW old \in call[p].olds, NEW f \in Single,
             NEW ch \in FieldChanges(f, old.refs[f], call[p].new[f])
      PROVE  ch.mode # "swap"
    <2>1. Feasible(Changes(old.refs, call[p].new))
        BY AskedOfOld DEF CarefulCall
    <2>2. ch \in Changes(old.refs, call[p].new)
        BY SchemaAssumption DEF Changes
    <2> QED
        BY <2>1, <2>2 DEF Feasible
<1> QED
    BY <1>1 DEF Retargeted

\* Nothing becomes suspect.
LEMMA NoSuspect ==
    ASSUME CallInv, StoreInv, RefusalInv, CarefulInv, NEW p \in Procs,
           Operation(p) \/ Step(p)
    PROVE  suspect' = {}
<1>1. /\ suspect = {} /\ CarefulCall(call[p]) /\ call[p].alone /\ MayCrash = FALSE
    BY CarefulAssumption, SchemaAssumption DEF CarefulInv, CarefulCall
<1>3. ~ConsistencyError(p) /\ ~Crash(p)
    BY <1>1, NeverRefused DEF Crash
<1>4. CASE Operation(p)
    BY <1>1, <1>4, OperationFootprint
<1>5. CASE InsertDoc(p) \/ FindForUpdate(p) \/ TakeOld(p) \/ ReadBref(p)
    BY <1>1, <1>5 DEF InsertDoc, FindForUpdate, TakeOld, ReadBref
<1>6. CASE SetDoc(p)
    BY <1>1, <1>6, NotRetargeted, SetDocStep DEF SetDoc
<1>7. CASE WriteBref(p)
    <2>1. ASSUME NEW w0 \in call[p].upd, NEW writes \in SUBSET call[p].upd,
                 \A w \in call[p].upd : w \in writes <=> w.cls = w0.cls /\ w.uid = w0.uid,
                 NEW s \in Used(docs), docs[s].uid = w0.uid
          PROVE  ~Stolen(s, writes, call[p].cur)
        BY <1>1, <2>1 DEF Stolen, CarefulCall, NoTheft
    <2> QED
        BY <1>1, <1>7, <2>1, WriteBrefStep
<1>8. CASE RemoveDocs(p) \/ Return(p)
    BY <1>1, <1>8 DEF RemoveDocs, Return, Leave
<1> QED
    BY <1>3, <1>4, <1>5, <1>6, <1>7, <1>8 DEF Step

\* A call that is not in flight is careful whatever the database.
LEMMA IdleCareful == CarefulCall(Idle) /\ CarefulCall(Idle)'
<1>1. /\ Idle.alone = TRUE /\ Idle.new = NoRefs /\ Idle.fetched = {} /\ Idle.olds = {}
      /\ Idle.narrow = {} /\ Idle.todo = {} /\ Idle.upd = {} /\ Idle.pc = "idle"
    BY DEF Idle
<1>2. CarefulData(Idle) /\ CarefulData(Idle)'
    BY <1>1 DEF CarefulData, NoRefs
<1>3. CarefulChanges(Idle) /\ CarefulChanges(Idle)' /\ NotSelf(Idle)
    BY <1>1 DEF CarefulChanges, NotSelf
<1>4. Findable(Idle) /\ Findable(Idle)' /\ NoTheft(Idle) /\ NoTheft(Idle)'
    BY <1>1 DEF Findable, NoTheft
<1>5. Asked(Idle) \subseteq {{}} /\ Asked(Idle)' \subseteq {{}}
    BY <1>1 DEF Asked
<1>6. CanBeDone(Idle) /\ CanBeDone(Idle)'
    BY <1>5 DEF CanBeDone, Feasible
<1> QED
    BY <1>1, <1>2, <1>3, <1>4, <1>6 DEF CarefulCall

\* The parts, put together for the state after a step.
LEMMA CarefulAfter ==
    ASSUME NEW p \in Procs, Turn(p), NEW c, c = call'[p], suspect' = {},
           NoSelfReference', c.alone, CarefulData(c)', CarefulChanges(c)', NotSelf(c),
           CanBeDone(c)', Findable(c)', NoTheft(c)'
    PROVE  CarefulInv'
<1>1. CarefulCall(c)' /\ CarefulCall(Idle)'
    BY IdleCareful DEF CarefulCall
<1>2. \A q \in Procs : call'[q] \in {c, Idle}
    BY DEF Turn
<1>3. \A q \in Procs : CarefulCall(call[q])'
    BY <1>1, <1>2
<1> QED
    BY <1>3 DEF CarefulInv

\* Changes that could be made still can after a step that changes no class
\* and not the objects to be told of a new reference.
LEMMA FeasibleKept ==
    ASSUME NEW chs, Feasible(chs),
           \A ch \in chs : \A s \in Used(docs') : docs'[s].uid = ch.val =>
               /\ s \in Used(docs) /\ docs[s].uid = ch.val /\ docs'[s].cls = docs[s].cls
               /\ ch.mode = "add" => docs'[s].refs = docs[s].refs
    PROVE  Feasible(chs)'
<1>1. ASSUME NEW ch \in chs, NEW other \in chs, other.fld = ch.fld
      PROVE  SameClass(ch.val, other.val)'
    BY <1>1 DEF Feasible, SameClass
<1>2. ASSUME NEW ch \in chs, ch.mode = "add" PROVE Vacant(ch)'
    BY <1>2 DEF Feasible, Vacant
<1> QED
    BY <1>1, <1>2 DEF Feasible

\* What an operation starts with, beside what Fresh says.
LEMMA OperationStart ==
    ASSUME CallInv, NEW p \in Procs, Operation(p)
    PROVE  /\ call'[p].narrow = {}
           /\ call'[p].kind = "update" => call'[p].new = NoRefs
           /\ call'[p].fetched # {} => Matching(call'[p].cls, {call'[p].cur}) # {}
<1>i. /\ Idle \in Frame /\ Idle.narrow = {} /\ Idle.new = NoRefs /\ Idle.fetched = {}
      /\ Idle.kind = "insert"
    BY IdleType DEF Idle
<1> DEFINE Start == /\ call'[p].narrow = {}
                    /\ call'[p].kind = "update" => call'[p].new = NoRefs
                    /\ call'[p].fetched # {} =>
                           Matching(call'[p].cls, {call'[p].cur}) # {}
<1>1. ASSUME NEW frame, Enter(p, frame)
      PROVE  \E b \in BOOLEAN : call'[p] = [frame EXCEPT !.alone = b]
    BY <1>1 DEF Enter
<1>2. ASSUME NEW c, NEW refs, Insert(p, c, refs) PROVE Start
    <2>1. PICK top : Enter(p, [Idle EXCEPT !.pc = "insert", !.kind = "insert",
                                 !.cls = c, !.target = {top + 1},
                                 !.cur = top + 1, !.new = refs])
        BY <1>2 DEF Insert
    <2>2. PICK b \in BOOLEAN : call'[p] =
             [[Idle EXCEPT !.pc = "insert", !.kind = "insert",
                           !.cls = c, !.target = {top + 1},
                           !.cur = top + 1, !.new = refs] EXCEPT !.alone = b]
        BY <1>1, <2>1
    <2> QED
        BY <1>i, <2>2 DEF Frame
<1>3. ASSUME NEW c, NEW u, NEW given, NEW refs, Update(p, c, u, given, refs) PROVE Start
    <2> DEFINE Merge(r) == [f \in Fields |-> IF f \in given THEN refs[f] ELSE r[f]]
    <2>1. PICK fetched : fetched = {[i EXCEPT !.refs = Merge(i.refs)] :
                                       i \in Fetch(Matching(c, {u}))}
        OBVIOUS
    <2>2. fetched # {} => Matching(c, {u}) # {}
        BY <2>1 DEF Fetch
    <2>3. Enter(p, [Idle EXCEPT !.pc = "bref", !.kind = "update", !.cls = c,
                       !.target = {u}, !.cur = u, !.fetched = fetched])
        BY <1>3, <2>1 DEF Update
    <2>4. PICK b \in BOOLEAN : call'[p] =
             [[Idle EXCEPT !.pc = "bref", !.kind = "update", !.cls = c, !.target = {u},
                           !.cur = u, !.fetched = fetched] EXCEPT !.alone = b]
        BY <1>1, <2>3
    <2>5. /\ call'[p].narrow = {} /\ call'[p].new = NoRefs /\ call'[p].cls = c
          /\ call'[p].cur = u /\ call'[p].fetched = fetched
        BY <1>i, <2>4 DEF Frame
    <2> QED
        BY <2>2, <2>5
<1>4. ASSUME NEW c, NEW U, Delete(p, c, U) PROVE Start
    <2>1. PICK olds : olds = Fetch(Matching(c, U))
        OBVIOUS
    <2>2. Enter(p, [Idle EXCEPT !.pc = "bref", !.kind = "delete", !.cls = c,
                                !.target = U, !.olds = olds])
        BY <1>4, <2>1 DEF Delete
    <2>3. PICK b \in BOOLEAN : call'[p] =
             [[Idle EXCEPT !.pc = "bref", !.kind = "delete", !.cls = c,
                           !.target = U, !.olds = olds] EXCEPT !.alone = b]
        BY <1>1, <2>2
    <2> QED
        BY <1>i, <2>3 DEF Frame
<1> HIDE DEF Start
<1>5. Start
    BY <1>2, <1>3, <1>4 DEF Operation
<1> QED
    BY <1>5 DEF Start

\* A call of a careful caller starts careful.
LEMMA CarefulOperation ==
    ASSUME CallInv, StoreInv, RefusalInv, CarefulInv, NEW p \in Procs, Turn(p),
           Operation(p), CarefulCallers
    PROVE  CarefulInv'
<1>1. PICK frame \in Frame : Enter(p, frame) /\ Fresh(frame)
    BY CallInvTyped, OperationFrame
<1>2. PICK c : c = call'[p]
    OBVIOUS
<1>3. call'[p] = [frame EXCEPT !.alone = \A q \in Procs : ~Active(q)]
    BY <1>1 DEF Enter
<1>4. Fresh(c)
    BY <1>1, <1>2, <1>3 DEF Fresh, InsertFrame, UpdateFrame, DeleteFrame, Frame
<1>5. ~Active(p) /\ UNCHANGED <<docs, suspect>> /\ c.pc # "idle" /\ c.alone
    <2>1. \A q \in Procs : ~Active(q)
        BY OperationFootprint, IdleType DEF Turn, Active
    <2> QED
        BY <1>2, <2>1, OperationFootprint DEF Active
<1>7. Findable(c)' /\ NoTheft(c)'
    BY <1>2, <1>4, OperationStart DEF Fresh, Findable, NoTheft
<1>8. CarefulData(c)'
    BY <1>2, <1>5 DEF CarefulCallers, CarefulData, Exists
<1>6. CanBeDone(c)'
    <2>1. CanBeDone(c)
        BY <1>2, <1>5 DEF CarefulCallers, CanBeDone
    <2> QED
        BY <1>5, <2>1, CanBeDoneSame
<1>9. c.upd = {} /\ CarefulChanges(c)'
    BY <1>4 DEF Fresh, CarefulChanges
<1>10. NoSelfReference
    BY DEF NoSelfReference, CarefulInv
<1>11. NotSelf(c)
    <2>1. ASSUME NEW i \in c.olds, NEW f \in Fields PROVE i.uid \notin i.refs[f]
        <3>1. c.olds = {} \/ c.olds = Fetch(Matching(c.cls, c.target))
            BY <1>4 DEF Fresh, InsertFrame, UpdateFrame, DeleteFrame
        <3>2. PICK s \in Used(docs) : i.uid = docs[s].uid /\ i.refs = docs[s].refs
            BY <2>1, <3>1 DEF Fetch, Matching
        <3> QED
            BY <1>10, <3>2 DEF NoSelfReference
    <2> QED
        BY <1>9, <2>1 DEF NotSelf
<1>12. suspect' = {} /\ NoSelfReference'
    BY <1>5, <1>10 DEF CarefulInv, NoSelfReference
<1> QED
    BY <1>2, <1>5, <1>6, <1>7, <1>8, <1>9, <1>11, <1>12, CarefulAfter

\* Only the removal of a delete takes objects away, and no step changes the
\* uid or the class of one.
KeepsObjects ==
    \A s \in Used(docs) : /\ s \in Used(docs') /\ docs'[s].uid = docs[s].uid
                          /\ docs'[s].cls = docs[s].cls

\* What exists goes on to exist.
LEMMA ExistsKept ==
    ASSUME KeepsObjects, NEW f, NEW y, Exists(f, y)
    PROVE  Exists(f, y)'
<1>1. PICK s \in Used(docs) : docs[s].uid = y /\ docs[s].cls \in Owner[Inverse[f]]
    BY DEF Exists
<1>2. /\ s \in Used(docs') /\ docs'[s].uid = y
      /\ docs'[s].cls \in Owner[Inverse[f]]
    BY <1>1 DEF KeepsObjects
<1> QED
    BY <1>2 DEF Exists

\* Every step but the removal keeps the objects.
LEMMA StepKeepsObjects ==
    ASSUME CallInv, NEW p \in Procs, Step(p), ~RemoveDocs(p)
    PROVE  KeepsObjects
<1>d. docs \in [Slots -> Doc \cup {NoDoc}] /\ NoDoc \notin Doc
    BY SchemaAssumption DEF CallInv, TypeOK
<1>1. CASE InsertDoc(p)
    BY <1>1, InsertDocStep DEF KeepsObjects
<1>2. CASE SetDoc(p)
    <2>1. ASSUME NEW s \in Matching(call[p].cls, {call[p].cur}),
                 docs' = [docs EXCEPT ![s].refs = call[p].new]
          PROVE  KeepsObjects
        <3>1. s \in Slots /\ docs[s] \in Doc
            BY <1>d DEF Matching, Used
        <3>2. /\ docs'[s] \in [cls : Classes, uid : Nat, refs : {call[p].new}]
              /\ docs'[s].uid = docs[s].uid /\ docs'[s].cls = docs[s].cls
              /\ \A t \in Slots \ {s} : docs'[t] = docs[t]
            BY <1>d, <2>1, <3>1 DEF Doc
        <3>3. s \in Used(docs')
            BY <3>1, <1>2, SetDocStep, <2>1 DEF Matching
        <3> QED
            BY <3>2, <3>3 DEF KeepsObjects, Used
    <2> QED
        BY <1>2, <2>1 DEF SetDoc, KeepsObjects
<1>3. CASE WriteBref(p)
    BY <1>3, WriteBrefStep DEF KeepsObjects, Rewrites
<1> QED
    BY <1>1, <1>2, <1>3
    DEF Step, KeepsObjects, FindForUpdate, TakeOld, ReadBref, ConsistencyError, Return, Crash

\* The object stored by an insert lists what is there.
LEMMA CarefulInsertDoc ==
    ASSUME CallInv, StoreInv, RefusalInv, CarefulInv, NEW p \in Procs, Turn(p), InsertDoc(p)
    PROVE  CarefulInv'
<1>1. PICK c : c = call'[p]
    OBVIOUS
<1>2. Step(p) /\ suspect' = {} /\ KeepsObjects
    BY NoSuspect, StepKeepsObjects, InsertDocStep DEF Step, RemoveDocs, Settled, Prepared
<1>3. /\ c.alone = call[p].alone /\ c.upd = call[p].upd /\ c.kind = call[p].kind
      /\ c.pc = "bref" /\ call[p].pc = "insert"
      /\ c.cur = call[p].cur /\ c.new = call[p].new
      /\ c.olds = call[p].olds /\ c.fetched = call[p].fetched
      /\ c.todo = Changes(NoRefs, c.new)
    BY <1>1, InsertDocStep DEF SameCall
<1>4. /\ call[p].alone /\ CarefulData(call[p]) /\ NotSelf(call[p])
      /\ CanBeDone(call[p]) /\ Findable(call[p]) /\ call[p].upd = {}
    BY <1>3, Knowledge DEF CarefulCall, Carried, Shape
<1>5. Findable(c)' /\ NoTheft(c)'
    <2>1. PICK todo : Goto(p, [call[p] EXCEPT !.pc = "bref", !.dirty = TRUE, !.todo = todo])
        BY DEF InsertDoc
    <2>2. call \in [Procs -> Frame]
        BY DEF CallInv, TypeOK
    <2>3. c.narrow = call[p].narrow
        BY <1>1, <2>1, <2>2 DEF Goto, Frame
    <2> QED
        BY <1>3, <1>4, <2>3 DEF Findable, NoTheft
<1>6. CarefulData(c)'
    BY <1>2, <1>3, <1>4, ExistsKept DEF CarefulData
<1>7. NotSelf(c)
    BY <1>3, <1>4 DEF NotSelf
<1>8. call[p].kind = "insert"
    BY <1>3, Knowledge DEF Carried, Shape
<1>9. CarefulChanges(c)'
    <2> SUFFICES ASSUME NEW ch \in c.todo
                 PROVE  ch.val # c.cur /\ Exists(ch.fld, ch.val)'
        BY DEF CarefulChanges, Exists
    <2>1. PICK f \in Fields : ch \in FieldChanges(f, NoRefs[f], c.new[f])
        BY <1>3 DEF Changes
    <2>2. NoRefs[f] = {}
        BY DEF NoRefs
    <2>3. ch.fld = f /\ ch.val \in c.new[f]
        BY <2>1, <2>2 DEF FieldChanges
    <2>4. ch.val # c.cur /\ Exists(f, ch.val)
        BY <1>3, <1>4, <1>8, <2>3 DEF CarefulData
    <2>5. Exists(f, ch.val)'
        BY <1>2, <2>4, ExistsKept
    <2> QED
        BY <2>3, <2>4, <2>5
<1>10. NoSelfReference'
    <2>1. PICK s \in Slots \ Used(docs) :
             /\ Used(docs') = Used(docs) \cup {s}
             /\ docs'[s].uid = call[p].cur /\ docs'[s].refs = call[p].new
             /\ \A t \in Used(docs) : docs'[t] = docs[t]
        BY InsertDocStep
    <2>2. \A f \in Fields : call[p].cur \notin call[p].new[f]
        BY <1>4, <1>8 DEF CarefulData
    <2> QED
        BY <2>1, <2>2 DEF NoSelfReference, CarefulInv
<1>11. CanBeDone(c)'
    <2>1. c.olds = {} /\ c.fetched = {}
        BY <1>3, Knowledge DEF Carried, Shape
    <2>5. ASSUME NEW chs \in Asked(c)' PROVE chs = c.todo
        BY <1>3, <2>1, AskedMeaning DEF Asks
    <2>2. Feasible(c.todo)
        BY <1>3, <1>4 DEF CanBeDone, Asked
    <2>3. \A ch \in c.todo : ch.val # call[p].cur
        BY <1>3, <1>9 DEF CarefulChanges
    <2>4. Feasible(c.todo)'
        <3>1. PICK s \in Slots \ Used(docs) :
                 /\ Used(docs') = Used(docs) \cup {s} /\ docs'[s].uid = call[p].cur
                 /\ \A t \in Used(docs) : docs'[t] = docs[t]
            BY InsertDocStep
        <3> QED
            BY <2>2, <2>3, <3>1, FeasibleKept
    <2> QED
        BY <2>4, <2>5 DEF CanBeDone
<1> QED
    BY <1>1, <1>2, <1>3, <1>4, <1>5, <1>6, <1>7, <1>9, <1>10, <1>11, CarefulAfter

\* The find of an update takes over the data it was given.
LEMMA CarefulFindForUpdate ==
    ASSUME CallInv, StoreInv, RefusalInv, CarefulInv, NEW p \in Procs, Turn(p), FindForUpdate(p)
    PROVE  CarefulInv'
<1>1. PICK c : c = call'[p]
    OBVIOUS
<1>2. Step(p) /\ suspect' = {} /\ UNCHANGED docs
    BY NoSuspect DEF Step, FindForUpdate
<1>3. /\ c.alone = call[p].alone /\ c.upd = {} /\ c.kind = "update" /\ c.pc = "set"
      /\ c.todo = {} /\ call[p].kind = "update" /\ c.cls = call[p].cls
    BY <1>1, FindForUpdateStep DEF SameCall
<1>4. PICK item \in call[p].fetched :
         /\ c.cur = item.uid /\ item.uid = call[p].cur
         /\ c.olds = Fetch(Matching(call[p].cls, {item.uid}))
         /\ c.fetched = call[p].fetched \ {item}
    BY <1>1, FindForUpdateStep
<1>5. call[p].alone /\ CarefulData(call[p]) /\ CanBeDone(call[p])
    BY Knowledge DEF CarefulCall
<1>6. Findable(c)' /\ NoTheft(c)'
    BY <1>3 DEF Findable, NoTheft
<1>7. \E i \in call[p].fetched : c.new = i.refs /\ c.cur = i.uid
    <2>1. PICK i \in call[p].fetched : \E olds :
             Goto(p, [call[p] EXCEPT !.pc = "set", !.cur = i.uid, !.new = i.refs,
                                     !.olds = olds, !.fetched = @ \ {i}])
        BY DEF FindForUpdate
    <2>2. call \in [Procs -> Frame]
        BY DEF CallInv, TypeOK
    <2> QED
        BY <1>1, <2>1, <2>2 DEF Goto, Frame
<1>8. CarefulData(c)'
    BY <1>2, <1>3, <1>4, <1>5, <1>7 DEF CarefulData, Exists
<1>9. NoSelfReference
    BY DEF NoSelfReference, CarefulInv
<1>10. NotSelf(c)
    BY <1>3, <1>4, <1>9 DEF NotSelf, Fetch, Matching, NoSelfReference
<1>11. CarefulChanges(c)'
    BY <1>3 DEF CarefulChanges
<1>15. call[p].todo = {}
    BY FindForUpdateStep
<1>12. CanBeDone(c)
    <2>1. PICK i \in call[p].fetched : c.new = i.refs /\ i.uid = item.uid
        BY <1>4, <1>7
    <2>2. ASSUME NEW chs \in Asked(c) PROVE chs \in Asked(call[p])
        <3>1. CASE chs = {}
            BY <1>15, <3>1, AskedMeaning DEF Asks
        <3>2. CASE \E old \in c.olds : chs = Changes(old.refs, c.new)
            <4>2. PICK old \in c.olds : chs = Changes(old.refs, c.new)
                BY <3>2
            <4>3. PICK s \in Matching(call[p].cls, {i.uid}) : old.refs = docs[s].refs
                BY <1>4, <2>1 DEF Fetch
            <4>1. chs = Changes(docs[s].refs, i.refs)
                BY <2>1, <4>2, <4>3
            <4> QED
                BY <4>1, AskedMeaning DEF Asks
        <3>3. CASE \E j \in c.fetched : \E s \in Matching(c.cls, {j.uid}) :
                      chs = Changes(docs[s].refs, j.refs)
            <4>1. PICK j \in c.fetched : \E s \in Matching(call[p].cls, {j.uid}) :
                     chs = Changes(docs[s].refs, j.refs)
                BY <1>3, <3>3
            <4>2. j \in call[p].fetched
                BY <1>4
            <4> QED
                BY <4>1, <4>2, AskedMeaning DEF Asks
        <3>4. Asks(c, chs)
            BY <2>2, AskedMeaning
        <3>5. \/ chs = {}
              \/ \E old \in c.olds : chs = Changes(old.refs, c.new)
              \/ \E j \in c.fetched : \E s \in Matching(c.cls, {j.uid}) :
                    chs = Changes(docs[s].refs, j.refs)
            BY <1>3, <3>4 DEF Asks
        <3> QED
            BY <3>1, <3>2, <3>3, <3>5
    <2> QED
        BY <1>5, <2>2 DEF CanBeDone
<1>13. CanBeDone(c)'
    BY <1>2, <1>12, CanBeDoneSame
<1>14. NoSelfReference'
    BY <1>2, <1>9 DEF NoSelfReference
<1> QED
    BY <1>1, <1>2, <1>3, <1>5, <1>6, <1>8, <1>10, <1>11, <1>13, <1>14, CarefulAfter

\* The object stored by an update lists what is there.
LEMMA CarefulSetDoc ==
    ASSUME CallInv, StoreInv, RefusalInv, CarefulInv, NEW p \in Procs, Turn(p), SetDoc(p)
    PROVE  CarefulInv'
<1>1. PICK c : c = call'[p]
    OBVIOUS
<1>2. Step(p) /\ suspect' = {} /\ KeepsObjects
    BY NoSuspect, StepKeepsObjects, SetDocStep DEF Step, RemoveDocs, Settled, Prepared
<1>3. /\ c.alone = call[p].alone /\ c.upd = {} /\ c.kind = "update" /\ c.pc = "bref"
      /\ c.todo = {} /\ call[p].kind = "update" /\ c.cur = call[p].cur
      /\ c.new = call[p].new /\ c.olds = call[p].olds /\ c.fetched = call[p].fetched
    BY <1>1, SetDocStep DEF SameCall
<1>4. /\ call[p].alone /\ CarefulData(call[p]) /\ NotSelf(call[p])
      /\ CanBeDone(call[p])
    BY Knowledge DEF CarefulCall
<1>5. Findable(c)' /\ NoTheft(c)'
    BY <1>3 DEF Findable, NoTheft
<1>6. CarefulData(c)'
    BY <1>2, <1>3, <1>4, ExistsKept DEF CarefulData
<1>7. NotSelf(c)
    BY <1>3, <1>4 DEF NotSelf
<1>8. CarefulChanges(c)'
    BY <1>3 DEF CarefulChanges
<1>9. NoSelfReference'
    <2>1. NoSelfReference
        BY DEF NoSelfReference, CarefulInv
    <2>2. ASSUME NEW s \in Matching(call[p].cls, {call[p].cur}),
                 Used(docs') = Used(docs), docs'[s].uid = docs[s].uid,
                 docs'[s].refs = call[p].new,
                 \A t \in Used(docs) \ {s} : docs'[t] = docs[t]
          PROVE  NoSelfReference'
        <3>1. docs'[s].uid = call[p].cur
            BY <2>2 DEF Matching
        <3>2. \A f \in Fields : call[p].cur \notin call[p].new[f]
            BY <1>3, <1>4 DEF CarefulData
        <3> QED
            BY <2>1, <2>2, <3>1, <3>2 DEF NoSelfReference
    <2>3. ASSUME UNCHANGED docs PROVE NoSelfReference'
        BY <2>1, <2>3 DEF NoSelfReference
    <2> QED
        BY <2>2, <2>3, SetDocStep
<1>10. CanBeDone(c)'
    <2>1. call[p].pc = "set" /\ call[p].fetched = {}
        BY Knowledge, SetDocStep DEF Active, AloneProgress, ObjectProgress
    <2>2. ASSUME NEW chs \in Asked(c)'
          PROVE  chs = {} \/ \E old \in call[p].olds : chs = Changes(old.refs, call[p].new)
        BY <1>3, <2>1 DEF Asked
    <2>3. ASSUME NEW old \in call[p].olds, NEW chs, chs = Changes(old.refs, call[p].new)
          PROVE  Feasible(chs)'
        <3>1. Feasible(chs)
            BY <1>3, <1>4, <2>3, AskedOfOld
        <3>2. ASSUME NEW ch \in chs, ch.mode = "add" PROVE ch.val # call[p].cur
            <4>1. PICK f \in Fields : ch \in FieldChanges(f, old.refs[f], call[p].new[f])
                BY <2>3 DEF Changes
            <4>2. ch.val \in call[p].new[f]
                BY <3>2, <4>1 DEF FieldChanges
            <4> QED
                BY <1>3, <1>4, <4>2 DEF CarefulData
        <3>3. CASE UNCHANGED docs
            BY <3>1, <3>3, FeasibleKept
        <3>4. ASSUME NEW s \in Matching(call[p].cls, {call[p].cur}), Used(docs') = Used(docs),
                     \A t \in Used(docs) \ {s} : docs'[t] = docs[t]
              PROVE  Feasible(chs)'
            <4>1. docs[s].uid = call[p].cur
                BY <3>4 DEF Matching
            <4> QED
                BY <1>2, <3>1, <3>2, <3>4, <4>1, FeasibleKept DEF KeepsObjects
        <3> QED
            BY <3>3, <3>4, SetDocStep
    <2> QED
        BY <2>2, <2>3 DEF CanBeDone, Feasible
<1> QED
    BY <1>1, <1>2, <1>3, <1>4, <1>5, <1>6, <1>7, <1>8, <1>9, <1>10, CarefulAfter

\* The changes an object asks for are of other objects.
LEMMA CarefulTakeOld ==
    ASSUME CallInv, StoreInv, RefusalInv, CarefulInv, NEW p \in Procs, Turn(p), TakeOld(p)
    PROVE  CarefulInv'
<1>1. PICK c : c = call'[p]
    OBVIOUS
<1>2. Step(p) /\ suspect' = {} /\ UNCHANGED docs
    BY NoSuspect DEF Step, TakeOld
<1>3. /\ c.alone = call[p].alone /\ c.upd = {} /\ c.kind = call[p].kind /\ c.pc = "bref"
      /\ c.new = call[p].new /\ c.fetched = call[p].fetched /\ call[p].pc = "bref"
    BY <1>1, TakeOldStep DEF SameCall
<1>4. PICK new : new = IF call[p].kind = "delete" THEN NoRefs ELSE call[p].new
    OBVIOUS
<1>5. PICK old \in call[p].olds :
         /\ c.olds = call[p].olds \ {old} /\ c.cur = old.uid
         /\ c.todo = Changes(old.refs, new)
    BY <1>1, <1>4, TakeOldStep
<1>6. /\ call[p].alone /\ CarefulData(call[p]) /\ NotSelf(call[p])
      /\ CanBeDone(call[p])
    BY Knowledge DEF CarefulCall
<1>7. call[p].kind # "delete" => old.uid = call[p].cur
    BY <1>3, <1>5, Knowledge DEF Carried, Shape
<1>8. Findable(c)' /\ NoTheft(c)'
    <2>1. PICK olds, cur, todo : Goto(p, [call[p] EXCEPT
             !.olds = olds, !.cur = cur, !.narrow = {}, !.todo = todo])
        BY DEF TakeOld
    <2>2. call \in [Procs -> Frame]
        BY DEF CallInv, TypeOK
    <2>3. c.narrow = {}
        BY <1>1, <2>1, <2>2 DEF Goto, Frame
    <2> QED
        BY <1>3, <2>3 DEF Findable, NoTheft
<1>9. CarefulData(c)'
    BY <1>2, <1>3, <1>5, <1>6, <1>7 DEF CarefulData, Exists
<1>10. NotSelf(c)
    BY <1>3, <1>5, <1>6 DEF NotSelf
<1>11. CarefulChanges(c)'
    <2> SUFFICES ASSUME NEW ch \in c.todo
                 PROVE  /\ ch.val # c.cur
                        /\ ch.mode = "add" => Exists(ch.fld, ch.val)
        BY <1>2 DEF CarefulChanges, Exists
    <2>1. PICK f \in Fields : ch \in FieldChanges(f, old.refs[f], new[f])
        BY <1>5 DEF Changes
    <2>2. ch.mode # "swap"
        BY <1>4, <1>5, <1>6, AskedOfOld DEF Feasible
    <2>3. /\ ch.fld = f
          /\ \/ ch.mode = "del" /\ ch.val \in old.refs[f]
             \/ ch.mode = "add" /\ ch.val \in new[f]
        BY <2>1, <2>2 DEF FieldChanges
    <2>4. CASE ch.mode = "del" /\ ch.val \in old.refs[f]
        BY <1>5, <1>6, <2>4 DEF NotSelf
    <2>5. CASE ch.mode = "add" /\ ch.val \in new[f]
        <3>1. call[p].kind # "delete" /\ ch.val \in call[p].new[f]
            BY <1>4, <2>5 DEF NoRefs
        <3> QED
            BY <1>5, <1>6, <1>7, <2>3, <3>1 DEF CarefulData
    <2> QED
        BY <2>3, <2>4, <2>5
<1>12. NoSelfReference'
    BY <1>2 DEF NoSelfReference, CarefulInv
<1>13. CanBeDone(c)
    <2>1. Asked(c) \subseteq Asked(call[p])
        BY <1>1, <1>3, <1>4, <1>5, TakeOldStep DEF Asked, SameCall
    <2> QED
        BY <1>6, <2>1 DEF CanBeDone
<1>14. CanBeDone(c)'
    BY <1>2, <1>13, CanBeDoneSame
<1> QED
    BY <1>1, <1>2, <1>3, <1>6, <1>8, <1>9, <1>10, <1>11, <1>12, <1>14, CarefulAfter

\* The loop narrows its search to the class of the object it has found.
LEMMA ReadBrefNarrows ==
    ASSUME CallInv, NEW p \in Procs, ReadBref(p), NEW ch \in call[p].todo,
           call'[p].todo = call[p].todo \ {ch}
    PROVE  \E n \in Fields \X Classes, s \in Used(docs) :
              /\ docs[s].uid = ch.val /\ n[1] = ch.fld /\ n[2] = docs[s].cls
              /\ call'[p].narrow = call[p].narrow \cup {n}
<1>1. call \in [Procs -> Frame] /\ docs \in [Slots -> Doc \cup {NoDoc}]
    BY DEF CallInv, TypeOK
<1>2. PICK d \in call[p].todo : \E s \in BrefTargets(p, d) : \E upd :
         Goto(p, [call[p] EXCEPT !.todo = @ \ {d},
                     !.narrow = @ \cup {<<d.fld, docs[s].cls>>}, !.upd = upd])
    BY DEF ReadBref
<1>3. PICK s \in BrefTargets(p, d) : \E upd :
         Goto(p, [call[p] EXCEPT !.todo = @ \ {d},
                     !.narrow = @ \cup {<<d.fld, docs[s].cls>>}, !.upd = upd])
    BY <1>2
<1>4. PICK n : n = <<d.fld, docs[s].cls>>
    OBVIOUS
<1>5. call'[p].narrow = call[p].narrow \cup {n} /\ call'[p].todo = call[p].todo \ {d}
    BY <1>1, <1>3, <1>4 DEF Goto, Frame
<1>6. d = ch
    BY <1>5
<1>7. s \in Used(docs) /\ docs[s].uid = ch.val /\ docs[s] \in Doc
    BY <1>1, <1>3, <1>6 DEF BrefTargets, Used
<1>8. n \in Fields \X Classes /\ n[1] = ch.fld /\ n[2] = docs[s].cls
    BY <1>1, <1>4, <1>6, <1>7 DEF Frame, Change, Doc
<1> QED
    BY <1>5, <1>7, <1>8

\* No value is prepared for the object itself.
LEMMA CarefulReadBref ==
    ASSUME CallInv, StoreInv, RefusalInv, CarefulInv, NEW p \in Procs, Turn(p), ReadBref(p)
    PROVE  CarefulInv'
<1>1. PICK c : c = call'[p]
    OBVIOUS
<1>2. Step(p) /\ suspect' = {} /\ UNCHANGED docs
    BY NoSuspect DEF Step, ReadBref
<1>3. PICK ch \in call[p].todo, s \in Used(docs), w \in BrefWrite :
         /\ SameObject(p) /\ call'[p].dirty = call[p].dirty
         /\ call'[p].todo = call[p].todo \ {ch}
         /\ call'[p].upd = call[p].upd \cup {w}
         /\ w.cls = docs[s].cls /\ w.uid = ch.val /\ docs[s].uid = ch.val
         /\ w.fld = Inverse[ch.fld]
         /\ w.val = BrefValue(w.fld, ch.mode, docs[s].refs[w.fld], call[p].cur)
         /\ BrefAccepts(w.fld, ch.mode, docs[s].refs[w.fld], call[p].cur)
    BY ReadBrefStep
<1>4. /\ c.alone = call[p].alone /\ c.kind = call[p].kind /\ c.pc = "bref"
      /\ c.new = call[p].new /\ c.fetched = call[p].fetched /\ c.cur = call[p].cur
      /\ c.olds = call[p].olds /\ c.todo = call[p].todo \ {ch}
      /\ c.upd = call[p].upd \cup {w}
    BY <1>1, <1>3 DEF SameObject
<1>5. /\ call[p].alone /\ CarefulData(call[p]) /\ NotSelf(call[p])
      /\ CarefulChanges(call[p]) /\ CanBeDone(call[p]) /\ Findable(call[p])
      /\ NoTheft(call[p]) /\ UniqueOutside(docs, {})
    BY <1>3, Knowledge DEF CarefulCall, SameObject, Active
<1>t. call \in [Procs -> Frame] /\ ch \in Change
    BY DEF CallInv, TypeOK, Frame
<1>f. Feasible(call[p].todo)
    BY <1>5 DEF CanBeDone, Asked
<1>7. CarefulData(c)'
    BY <1>2, <1>4, <1>5 DEF CarefulData, Exists
<1>8. CarefulChanges(c)'
    BY <1>2, <1>4, <1>5 DEF CarefulChanges, Exists
<1>9. NoSelfReference
    BY DEF NoSelfReference, CarefulInv
<1>10. NotSelf(c)
    <2>1. ch \in Change /\ ch.val # call[p].cur
        BY <1>5, Knowledge DEF CarefulChanges, Frame
    <2>2. w.val \subseteq docs[s].refs[w.fld] \cup {call[p].cur}
        BY <1>3, <2>1 DEF BrefValue, Change
    <2>3. w.uid \notin docs[s].refs[w.fld]
        BY <1>3, <1>9 DEF NoSelfReference, BrefWrite
    <2>4. w.uid # call[p].cur /\ w.uid \notin w.val
        BY <1>3, <2>1, <2>2, <2>3
    <2> QED
        BY <1>4, <1>5, <2>4 DEF NotSelf
<1>11. Findable(c)'
    <2>1. PICK n \in Fields \X Classes, s1 \in Used(docs) :
             /\ docs[s1].uid = ch.val /\ n[1] = ch.fld /\ n[2] = docs[s1].cls
             /\ c.narrow = call[p].narrow \cup {n}
        BY <1>1, <1>3, ReadBrefNarrows
    <2>2. ASSUME NEW d \in c.todo, NEW m \in c.narrow, m[1] = d.fld,
                 NEW r \in Used(docs), docs[r].uid = d.val
          PROVE  docs[r].cls = m[2]
        <3>1. CASE m \in call[p].narrow
            BY <1>4, <1>5, <2>2, <3>1 DEF Findable
        <3>2. CASE m = n
            BY <1>4, <1>f, <2>1, <2>2, <3>2 DEF Feasible, SameClass
        <3> QED
            BY <2>1, <3>1, <3>2
    <2> QED
        BY <1>2, <1>4, <2>2 DEF Findable
<1>12. NoTheft(c)'
    <2>1. ASSUME w.fld \in Single PROVE docs[s].refs[w.fld] \subseteq {c.cur}
        <3>1. CASE ch.mode = "add"
            BY <1>3, <1>f, <2>1, <3>1 DEF Feasible, Vacant
        <3>2. CASE ch.mode # "add"
            <4>1. Lists(docs, ch.val, w.fld, c.cur)
                BY <1>3, <1>4, <1>5, <3>2 DEF RefusalInv, UnreadIsDue, CarefulInv,
                   CarefulChanges, SameObject, Active
            <4>2. c.cur \in docs[s].refs[w.fld]
                BY <1>3, <1>5, <4>1 DEF Lists, UniqueOutside
            <4>3. AtMostOne(docs[s].refs[w.fld])
                BY <1>3, <2>1 DEF CallInv, TypeOK, WellFormed, FitsClass, BrefWrite
            <4> QED
                BY <4>2, <4>3 DEF AtMostOne
        <3> QED
            BY <3>1, <3>2
    <2>2. \A r \in Used(docs) : docs[r].uid = w.uid => r = s
        BY <1>3, <1>5 DEF UniqueOutside
    <2> QED
        BY <1>2, <1>4, <1>5, <2>1, <2>2 DEF NoTheft
<1>13. CanBeDone(c)'
    <2>1. ASSUME NEW chs \in Asked(c)
          PROVE  chs = call[p].todo \ {ch} \/ chs \in Asked(call[p])
        <3>1. c.cls = call[p].cls /\ call[p].pc = "bref"
            BY <1>1, <1>3 DEF SameObject
        <3>2. Asks(c, chs)
            BY <2>1, AskedMeaning
        <3>3. chs = c.todo \/ Asks(call[p], chs)
            BY <1>4, <3>1, <3>2 DEF Asks
        <3> QED
            BY <1>4, <3>3, AskedMeaning
    <2>2. Feasible(call[p].todo \ {ch})
        BY <1>f DEF Feasible
    <2>3. CanBeDone(c)
        BY <1>5, <2>1, <2>2 DEF CanBeDone
    <2> QED
        BY <1>2, <2>3, CanBeDoneSame
<1>14. NoSelfReference'
    BY <1>2, <1>9 DEF NoSelfReference
<1> QED
    BY <1>1, <1>2, <1>4, <1>5, <1>7, <1>8, <1>10, <1>11, <1>12, <1>13, <1>14, CarefulAfter

\* No back reference written is one of its own object.
LEMMA CarefulWriteBref ==
    ASSUME CallInv, StoreInv, RefusalInv, CarefulInv, NEW p \in Procs, Turn(p), WriteBref(p)
    PROVE  CarefulInv'
<1>1. PICK c : c = call'[p]
    OBVIOUS
<1>2. Step(p) /\ suspect' = {} /\ KeepsObjects
    BY NoSuspect, StepKeepsObjects, WriteBrefStep
    DEF Step, RemoveDocs, Settled, Prepared
<1>3. PICK w0 \in call[p].upd, writes \in SUBSET call[p].upd :
         /\ \A w \in call[p].upd : w \in writes <=> w.cls = w0.cls /\ w.uid = w0.uid
         /\ call'[p].upd = call[p].upd \ writes
         /\ \/ /\ Matching(w0.cls, {w0.uid}) = {}
               /\ UNCHANGED <<docs, suspect>>
            \/ \E s \in Used(docs) :
                  /\ docs[s].cls = w0.cls /\ docs[s].uid = w0.uid
                  /\ call'[p].dirty
                  /\ Rewrites(s, writes)
                  /\ suspect' = suspect \cup
                       (IF Stolen(s, writes, call[p].cur)
                        THEN {w0.uid} ELSE {})
    BY WriteBrefStep
<1>4. /\ c.alone = call[p].alone /\ c.kind = call[p].kind /\ c.pc = "bref"
      /\ c.new = call[p].new /\ c.fetched = call[p].fetched /\ c.cur = call[p].cur
      /\ c.olds = call[p].olds /\ c.todo = {} /\ c.upd = call[p].upd \ writes
    BY <1>1, <1>3, WriteBrefStep DEF SameObject
<1>5. /\ call[p].alone /\ CarefulData(call[p]) /\ NotSelf(call[p])
      /\ CanBeDone(call[p]) /\ NoTheft(call[p])
    BY Knowledge DEF CarefulCall
<1>7. CarefulData(c)'
    BY <1>2, <1>4, <1>5, ExistsKept DEF CarefulData
<1>8. CarefulChanges(c)'
    BY <1>4 DEF CarefulChanges
<1>9. NotSelf(c)
    BY <1>4, <1>5 DEF NotSelf
<1>10. NoSelfReference'
    <2>1. NoSelfReference
        BY DEF NoSelfReference, CarefulInv
    <2>2. ASSUME NEW s \in Used(docs), docs[s].uid = w0.uid, Rewrites(s, writes)
          PROVE  NoSelfReference'
        <3>1. \A w \in writes : w.uid = docs[s].uid /\ w.uid \notin w.val
            BY <1>3, <1>5, <2>2 DEF NotSelf
        <3>2. \A f \in Fields : docs'[s].uid \notin docs'[s].refs[f]
            BY <2>1, <2>2, <3>1 DEF Rewrites, NoSelfReference
        <3> QED
            BY <2>1, <2>2, <3>2 DEF Rewrites, NoSelfReference
    <2>3. ASSUME UNCHANGED docs PROVE NoSelfReference'
        BY <2>1, <2>3 DEF NoSelfReference
    <2> QED
        BY <1>3, <2>2, <2>3
<1>11. Findable(c)'
    BY <1>4 DEF Findable
<1>12. NoTheft(c)'
    <2> SUFFICES ASSUME NEW w \in call[p].upd, w.fld \in Single,
                        NEW r \in Used(docs'), docs'[r].uid = w.uid
                 PROVE  docs'[r].refs[w.fld] \subseteq {call[p].cur}
        BY <1>4 DEF NoTheft
    <2>1. Used(docs') = Used(docs) /\ docs[r].uid = w.uid
        BY <1>3 DEF Rewrites
    <2>2. docs[r].refs[w.fld] \subseteq {call[p].cur}
        BY <1>5, <2>1 DEF NoTheft
    <2>3. CASE docs'[r].refs[w.fld] = docs[r].refs[w.fld]
        BY <2>2, <2>3
    <2>4. CASE \E v \in writes : v.fld = w.fld /\ docs'[r].refs[w.fld] = v.val
        BY <2>4, Knowledge DEF Carried, Fits
    <2>5. w.fld \in Fields
        BY SchemaAssumption
    <2> QED
        BY <1>3, <2>1, <2>3, <2>4, <2>5 DEF Rewrites
<1>13. CanBeDone(c)'
    <2>1. Active(p) /\ call[p].upd # {} /\ call[p].pc = "bref"
        BY <1>3, WriteBrefStep DEF SameObject, Active
    <2>2. call[p].fetched = {} /\ (call[p].kind # "delete" => call[p].olds = {})
        BY <2>1, Knowledge
        DEF AloneProgress, ObjectProgress, FreshUpdate, Carried, Shape
    <2>3. ASSUME NEW chs \in Asked(c)'
          PROVE  chs = {} \/ \E old \in call[p].olds : chs = Changes(old.refs, NoRefs)
        BY <1>4, <2>2 DEF Asked
    <2>4. ASSUME NEW old \in call[p].olds, NEW chs, chs = Changes(old.refs, NoRefs)
          PROVE  Feasible(chs)'
        <3>1. Feasible(chs)
            BY <1>5, <2>2, <2>4, AskedOfOld
        <3>2. ASSUME NEW ch \in chs PROVE ch.mode # "add"
            <4>1. PICK f \in Fields : ch \in FieldChanges(f, old.refs[f], NoRefs[f])
                BY <2>4 DEF Changes
            <4> QED
                BY <4>1 DEF FieldChanges, NoRefs
        <3>3. Used(docs') = Used(docs)
            BY <1>3 DEF Rewrites
        <3> QED
            BY <1>2, <3>1, <3>2, <3>3, FeasibleKept DEF KeepsObjects
    <2> QED
        BY <2>3, <2>4 DEF CanBeDone, Feasible
<1> QED
    BY <1>1, <1>2, <1>4, <1>5, <1>7, <1>8, <1>9, <1>10, <1>11, <1>12, <1>13, CarefulAfter

\* A call that ends leaves nothing behind.
LEMMA CarefulEnd ==
    ASSUME CallInv, StoreInv, RefusalInv, CarefulInv, NEW p \in Procs, Turn(p),
           RemoveDocs(p) \/ Return(p)
    PROVE  CarefulInv'
<1>1. suspect' = {}
    BY NoSuspect DEF Step
<1>2. \A q \in Procs : call'[q] = Idle
    BY DEF RemoveDocs, Return, Leave, CallInv, TypeOK, Turn
<1>3. \A q \in Procs : CarefulCall(call[q])'
    BY <1>2, IdleCareful
<1>4. NoSelfReference'
    <2>1. \A s \in Used(docs') : s \in Used(docs) /\ docs'[s] = docs[s]
        BY DEF RemoveDocs, Return, Used
    <2> QED
        BY <2>1 DEF NoSelfReference, CarefulInv
<1> QED
    BY <1>1, <1>3, <1>4 DEF CarefulInv

\* Every step of a careful caller's call stays careful.
LEMMA CarefulStep ==
    ASSUME CallInv, StoreInv, RefusalInv, CarefulInv, CarefulCallers,
           NEW p \in Procs, Operation(p) \/ Step(p)
    PROVE  CarefulInv'
<1>1. ~ConsistencyError(p) /\ Turn(p)
    BY NeverRefused, TakesTurns
<1>2. ~Crash(p)
    BY CarefulAssumption DEF Crash
<1> QED
    BY <1>1, <1>2, CarefulOperation, CarefulInsertDoc, CarefulFindForUpdate,
       CarefulSetDoc, CarefulTakeOld, CarefulReadBref, CarefulWriteBref, CarefulEnd
    DEF Step

\* The workers start careful.
LEMMA CarefulInvInit == Init /\ NoSelfReference => CarefulInv
BY IdleCareful DEF Init, CarefulInv

-----------------------------------------------------------------------------
(***************************************************************************)
(* Every step is a step of RelationStore or leaves what it shows alone.    *)
(***************************************************************************)
\* Objects and links are unchanged.
Stutters == UNCHANGED <<AbstractObjects, AbstractLinks>>

\* A step after which the same objects show the same is not seen.
LEMMA StutterWhen ==
    ASSUME NEW p \in Procs, Turn(p), StoreTyped(docs), StoreTyped(docs'),
           DeletingBy(call'[p]) = DeletingBy(call[p]),
           KeepsObjects, Used(docs') = Used(docs),
           \A x \in Nat, f \in Fields, y \in Nat :
               Shown(docs, WritingBy(call[p]), DeletingBy(call[p]), x, f, y)
                 <=> Shown(docs', WritingBy(call'[p]), DeletingBy(call[p]), x, f, y)
    PROVE  Stutters
<1>1. ObjectsIn(docs', DeletingBy(call[p])) = ObjectsIn(docs, DeletingBy(call[p]))
    BY DEF ObjectsIn, KeepsObjects
<1>2. LinksIn(docs, WritingBy(call[p]), DeletingBy(call[p]))
         = LinksIn(docs', WritingBy(call'[p]), DeletingBy(call[p]))
    BY LinksEqual
<1> QED
    BY <1>1, <1>2, AbstractState DEF Stutters

\* A step that neither changes the store nor what is being written or deleted.
LEMMA StutterAlone ==
    ASSUME NEW p \in Procs, Turn(p), UNCHANGED docs,
           WritingBy(call'[p]) = WritingBy(call[p]),
           DeletingBy(call'[p]) = DeletingBy(call[p])
    PROVE  Stutters
BY AbstractState DEF Stutters

\* The begin of an operation: a delete takes effect, the others do not.
LEMMA OperationShown ==
    ASSUME CallInv, StoreInv, CarefulInv, NEW p \in Procs, Turn(p), Operation(p)
    PROVE  Stutters \/ \E X \in SUBSET Abstract!Live(AbstractObjects) : Abstract!Delete(X)
<1>1. PICK frame \in Frame : Enter(p, frame) /\ Fresh(frame)
    BY CallInvTyped, OperationFrame
<1>2. PICK c : c = call'[p]
    OBVIOUS
<1>3. call'[p] = [frame EXCEPT !.alone = \A q \in Procs : ~Active(q)]
    BY <1>1 DEF Enter
<1>4. Fresh(c)
    BY <1>1, <1>2, <1>3 DEF Fresh, InsertFrame, UpdateFrame, DeleteFrame, Frame
<1>5. ~Active(p) /\ UNCHANGED docs
    BY OperationFootprint
<1>6. /\ WritingBy(call[p]) = {} /\ DeletingBy(call[p]) = {} /\ WritingBy(c) = {}
    BY <1>4, <1>5 DEF WritingBy, DeletingBy, Active, Fresh
<1>t. StoreTyped(docs) /\ ConsistentOutside(docs, {})
    BY <1>5, Knowledge
<1>7. CASE c.kind # "delete"
    BY <1>2, <1>5, <1>6, <1>7, StutterAlone DEF DeletingBy
<1>8. CASE c.kind = "delete"
    <2>1. DeletingBy(c) = c.target
        BY <1>4, <1>8 DEF DeletingBy, Fresh, InsertFrame, UpdateFrame, DeleteFrame
    <2>2. c.target \subseteq Uids(docs)
        BY <1>4, <1>8 DEF Fresh, InsertFrame, UpdateFrame, DeleteFrame, Uids
    <2>3. /\ AbstractObjects = ObjectsIn(docs, {}) /\ AbstractLinks = LinksIn(docs, {}, {})
          /\ AbstractObjects' = ObjectsIn(docs, c.target)
          /\ AbstractLinks' = LinksIn(docs, {}, c.target)
        BY <1>2, <1>5, <1>6, <2>1, AbstractState
    <2>4. Abstract!Live(AbstractObjects) = Uids(docs)
        BY <2>3, LiveObjects
    <2>5. AbstractObjects' = {o \in AbstractObjects : o.uid \notin c.target}
        <3>1. \A o, D : o \in ObjectsIn(docs, D) <=>
                 \E s \in Used(docs) : /\ docs[s].uid \notin D
                                       /\ o = [uid |-> docs[s].uid, cls |-> docs[s].cls]
            BY DEF ObjectsIn
        <3>2. \A o : o \in AbstractObjects' <=> o \in AbstractObjects /\ o.uid \notin c.target
            BY <2>3, <3>1
        <3> QED
            BY <3>2
    <2>6. AbstractLinks' = AbstractLinks \ Abstract!Touching(AbstractLinks, c.target)
        <3>1. ASSUME NEW l
              PROVE  l \in LinksIn(docs, {}, c.target) <=>
                        /\ l \in LinksIn(docs, {}, {})
                        /\ l[1] \notin c.target /\ l[3] \notin c.target
            <4>1. l \in LinksIn(docs, {}, c.target) <=>
                     \E x \in Nat, f \in Fields, y \in Nat :
                        l = <<x, f, y>> /\ Shown(docs, {}, c.target, x, f, y)
                BY <1>t, LinksMeaning
            <4>2. l \in LinksIn(docs, {}, {}) <=>
                     \E x \in Nat, f \in Fields, y \in Nat :
                        l = <<x, f, y>> /\ Shown(docs, {}, {}, x, f, y)
                BY <1>t, LinksMeaning
            <4> QED
                BY <4>1, <4>2 DEF Shown
        <3> QED
            BY <2>3, <3>1 DEF Abstract!Touching
    <2>7. Abstract!Delete(c.target)
        BY <2>5, <2>6 DEF Abstract!Delete
    <2> QED
        BY <2>2, <2>4, <2>7
<1> QED
    BY <1>7, <1>8

\* The document an insert adds appears with its links.
LEMMA InsertDocShown ==
    ASSUME CallInv, StoreInv, CarefulInv, NEW p \in Procs, Turn(p), InsertDoc(p),
           StoreTyped(docs'), TypeOK', Nat \subseteq UidSpace
    PROVE  \E x \in UidSpace, c \in Classes : Abstract!Insert(x, c)
<1> DEFINE x == call[p].cur
           new == call[p].new
<1>1. PICK s \in Slots \ Used(docs) :
         /\ Used(docs') = Used(docs) \cup {s}
         /\ docs'[s].uid = x /\ docs'[s].refs = new
         /\ \A t \in Used(docs) : docs'[t] = docs[t]
    BY InsertDocStep
<1>2. /\ call[p].pc = "insert" /\ Active(p) /\ x \in Nat /\ call[p].kind = "insert"
      /\ ~call[p].dirty
    BY InsertDocStep, Knowledge DEF Carried, Shape, Active, Frame
<1>3. /\ StoreTyped(docs) /\ ConsistentOutside(docs, {}) /\ x \notin Uids(docs)
      /\ CarefulData(call[p])
    BY <1>2, Knowledge DEF AloneProgress, CarefulCall
<1>4. /\ DeletingBy(call[p]) = {} /\ WritingBy(call[p]) = {}
      /\ DeletingBy(call'[p]) = {} /\ WritingBy(call'[p]) = {x}
    BY <1>2, InsertDocStep DEF SameCall, DeletingBy, WritingBy
<1>5. /\ AbstractObjects = ObjectsIn(docs, {}) /\ AbstractLinks = LinksIn(docs, {}, {})
      /\ AbstractObjects' = ObjectsIn(docs', {})
      /\ AbstractLinks' = LinksIn(docs', {x}, {})
    BY <1>4, AbstractState
<1>6. x \notin Abstract!Live(AbstractObjects)
    BY <1>3, <1>5, LiveObjects
<1>7. PICK c : c = docs'[s].cls
    OBVIOUS
<1>8. c \in Classes
    BY <1>1, <1>7 DEF TypeOK, Used, Doc
<1> HIDE DEF x, new
<1>9. AbstractObjects' = AbstractObjects \cup {[uid |-> x, cls |-> c]}
    BY <1>1, <1>5, <1>7 DEF ObjectsIn
<1>10. \A a, f, b : a # x => (Lists(docs', a, f, b) <=> Lists(docs, a, f, b))
    BY <1>1 DEF Lists
<1>11. \A a, f, b : f \in Fields /\ Lists(docs, a, f, b) =>
          Lists(docs, b, Inverse[f], a) /\ a # x /\ b # x
    BY <1>3 DEF ConsistentOutside, AnsweredOutside, Lists, Uids
<1>12. AbstractLinks = AbstractLinks' \ Abstract!Touching(AbstractLinks', {x})
    <2>1. ASSUME NEW l
          PROVE  l \in LinksIn(docs, {}, {}) <=>
                    l \in LinksIn(docs', {x}, {}) /\ l[1] # x /\ l[3] # x
        <3>1. l \in LinksIn(docs, {}, {}) <=>
                 \E a \in Nat, f \in Fields, b \in Nat :
                    l = <<a, f, b>> /\ Shown(docs, {}, {}, a, f, b)
            BY <1>3, LinksMeaning
        <3>2. l \in LinksIn(docs', {x}, {}) <=>
                 \E a \in Nat, f \in Fields, b \in Nat :
                    l = <<a, f, b>> /\ Shown(docs', {x}, {}, a, f, b)
            BY LinksMeaning
        <3>3. \A a \in Nat, f \in Fields, b \in Nat :
                 Shown(docs, {}, {}, a, f, b) <=>
                    Shown(docs', {x}, {}, a, f, b) /\ a # x /\ b # x
            BY <1>10, <1>11 DEF Shown
        <3> QED
            BY <3>1, <3>2, <3>3
    <2> QED
        BY <1>5, <2>1 DEF Abstract!Touching
<1>13. Abstract!Related(AbstractObjects', AbstractLinks')
    <2>1. ASSUME NEW a, NEW b, NEW f \in Fields, Lists(docs', a, f, b)
          PROVE  IF a \in {x} THEN b \in Uids(docs')
                              ELSE b \notin {x} => Lists(docs', b, Inverse[f], a)
        <3>1. CASE a = x
            <4>1. b \in new[f]
                BY <1>1, <1>3, <2>1, <3>1 DEF Lists, Uids
            <4>2. Exists(f, b)
                BY <1>2, <1>3, <4>1 DEF CarefulData, new
            <4>3. b \in Uids(docs')
                BY <1>1, <4>2 DEF Exists, Uids
            <4> QED
                BY <3>1, <4>3
        <3>2. CASE a # x
            BY <1>10, <1>11, <2>1, <3>2
        <3> QED
            BY <3>1, <3>2
    <2> QED
        BY <1>5, <2>1, LinksRelated
<1>14. Abstract!Insert(x, c)
    BY <1>6, <1>9, <1>12, <1>13 DEF Abstract!Insert
<1>15. x \in UidSpace
    BY <1>2 DEF x
<1> QED
    BY <1>8, <1>14, <1>15

\* The document an update overwrites shows its new links.
LEMMA SetDocShown ==
    ASSUME CallInv, StoreInv, CarefulInv, NEW p \in Procs, Turn(p), SetDoc(p), StoreTyped(docs')
    PROVE  Stutters \/ \E x \in Abstract!Live(AbstractObjects) : Abstract!Update(x)
<1> DEFINE x == call[p].cur
           new == call[p].new
<1>1. /\ call[p].pc = "set" /\ call'[p].pc = "bref" /\ Active(p) /\ call[p].kind = "update"
      /\ call'[p].kind = "update" /\ call'[p].cur = x
    BY SetDocStep DEF SameCall, Active
<1>2. ~call[p].dirty
    BY <1>1, Knowledge DEF AloneProgress, ObjectProgress
<1>3. /\ StoreTyped(docs) /\ ConsistentOutside(docs, {}) /\ CarefulData(call[p])
    BY <1>2, Knowledge DEF CarefulCall
<1>4. /\ DeletingBy(call[p]) = {} /\ WritingBy(call[p]) = {} /\ DeletingBy(call'[p]) = {}
    BY <1>1 DEF DeletingBy, WritingBy
<1>5. CASE UNCHANGED docs /\ call'[p].dirty = call[p].dirty
    <2>1. WritingBy(call'[p]) = {}
        BY <1>2, <1>5 DEF WritingBy
    <2> QED
        BY <1>4, <1>5, <2>1, StutterAlone
<1>6. ASSUME NEW s \in Matching(call[p].cls, {x}), call'[p].dirty,
             Used(docs') = Used(docs), docs'[s].uid = docs[s].uid,
             docs'[s].refs = new, \A t \in Used(docs) \ {s} : docs'[t] = docs[t]
      PROVE  \E y \in Abstract!Live(AbstractObjects) : Abstract!Update(y)
    <2>1. WritingBy(call'[p]) = {x}
        BY <1>1, <1>6 DEF WritingBy
    <2>2. s \in Used(docs) /\ docs[s].uid = x
        BY <1>6 DEF Matching
    <2>3. /\ AbstractObjects = ObjectsIn(docs, {}) /\ AbstractLinks = LinksIn(docs, {}, {})
          /\ AbstractObjects' = ObjectsIn(docs', {})
          /\ AbstractLinks' = LinksIn(docs', {x}, {})
        BY <1>4, <2>1, AbstractState
    <2>4. Uids(docs') = Uids(docs)
        BY <1>6 DEF Uids
    <2>5. x \in Abstract!Live(AbstractObjects)
        BY <2>2, <2>3, LiveObjects DEF Uids
    <2>6. KeepsObjects
        BY <1>1, StepKeepsObjects DEF Step, RemoveDocs, Settled, Prepared
    <2>7. UNCHANGED AbstractObjects
        BY <1>6, <2>3, <2>6 DEF ObjectsIn, KeepsObjects
    <2>8. \A t \in Used(docs) : docs[t].uid = x => t = s
        BY <1>3, <2>2 DEF ConsistentOutside, UniqueOutside
    <2> HIDE DEF x, new
    <2>9. \A a, f, b : a # x => (Lists(docs', a, f, b) <=> Lists(docs, a, f, b))
        BY <1>6, <2>2 DEF Lists
    <2>10. \A a, f, b : f \in Fields /\ Lists(docs, a, f, b) =>
              Lists(docs, b, Inverse[f], a)
        BY <1>3 DEF ConsistentOutside, AnsweredOutside, Lists
    <2>11. AbstractLinks \ Abstract!Touching(AbstractLinks, {x})
              = AbstractLinks' \ Abstract!Touching(AbstractLinks', {x})
        <3>1. ASSUME NEW l
              PROVE  l \in LinksIn(docs, {}, {}) /\ l[1] # x /\ l[3] # x <=>
                        l \in LinksIn(docs', {x}, {}) /\ l[1] # x /\ l[3] # x
            <4>1. l \in LinksIn(docs, {}, {}) <=>
                     \E a \in Nat, f \in Fields, b \in Nat :
                        l = <<a, f, b>> /\ Shown(docs, {}, {}, a, f, b)
                BY <1>3, LinksMeaning
            <4>2. l \in LinksIn(docs', {x}, {}) <=>
                     \E a \in Nat, f \in Fields, b \in Nat :
                        l = <<a, f, b>> /\ Shown(docs', {x}, {}, a, f, b)
                BY LinksMeaning
            <4>3. \A a \in Nat, f \in Fields, b \in Nat : a # x /\ b # x =>
                     (Shown(docs, {}, {}, a, f, b) <=> Shown(docs', {x}, {}, a, f, b))
                BY <2>9 DEF Shown
            <4> QED
                BY <4>1, <4>2, <4>3
        <3> QED
            BY <2>3, <3>1 DEF Abstract!Touching
    <2>12. Abstract!Related(AbstractObjects', AbstractLinks')
        <3>1. ASSUME NEW a, NEW b, NEW f \in Fields, Lists(docs', a, f, b)
              PROVE  IF a \in {x} THEN b \in Uids(docs')
                                  ELSE b \notin {x} => Lists(docs', b, Inverse[f], a)
            <4>1. CASE a = x
                <5>1. b \in new[f]
                    BY <1>6, <2>2, <2>6, <2>8, <3>1, <4>1 DEF Lists, KeepsObjects
                <5>2. Exists(f, b)
                    BY <1>1, <1>3, <5>1 DEF CarefulData, new
                <5>3. b \in Uids(docs')
                    BY <2>4, <5>2 DEF Exists, Uids
                <5> QED
                    BY <4>1, <5>3
            <4>2. CASE a # x
                BY <2>9, <2>10, <3>1, <4>2
            <4> QED
                BY <4>1, <4>2
        <3> QED
            BY <2>3, <3>1, LinksRelated
    <2>13. Abstract!Update(x)
        BY <2>7, <2>11, <2>12 DEF Abstract!Update
    <2> QED
        BY <2>5, <2>13
<1> QED
    BY <1>5, <1>6, SetDocStep

\* The find of an update shows nothing.
LEMMA FindShown ==
    ASSUME CallInv, StoreInv, CarefulInv, NEW p \in Procs, Turn(p), FindForUpdate(p)
    PROVE  Stutters
<1>1. /\ call[p].pc = "bref" /\ call'[p].pc = "set" /\ call[p].kind = "update"
      /\ call'[p].kind = "update" /\ call[p].fetched # {}
    BY FindForUpdateStep DEF SameCall
<1>2. ~call[p].dirty
    BY <1>1, Knowledge DEF Active, AloneProgress, ObjectProgress
<1> QED
    BY <1>1, <1>2, StutterAlone DEF FindForUpdate, WritingBy, DeletingBy

\* Comparing and reading show nothing.
LEMMA PrepareShown ==
    ASSUME CallInv, StoreInv, CarefulInv, NEW p \in Procs, Turn(p),
           TakeOld(p) \/ ReadBref(p)
    PROVE  Stutters
<1>1. CASE ReadBref(p)
    <2>1. SameObject(p) /\ call'[p].dirty = call[p].dirty
        BY <1>1, ReadBrefStep
    <2> QED
        BY <1>1, <2>1, StutterAlone DEF ReadBref, SameObject, WritingBy, DeletingBy
<1>2. CASE TakeOld(p)
    <2>1. /\ SameCall(p) /\ call[p].pc = "bref" /\ call'[p].pc = "bref"
          /\ call'[p].dirty = call[p].dirty
        BY <1>2, TakeOldStep
    <2>2. PICK old \in call[p].olds : call'[p].cur = old.uid
        BY <1>2, TakeOldStep
    <2>3. call[p].kind # "delete" => call'[p].cur = call[p].cur
        BY <2>1, <2>2, Knowledge DEF Carried, Shape
    <2> QED
        BY <1>2, <2>1, <2>3, StutterAlone DEF TakeOld, SameCall, WritingBy, DeletingBy
<1> QED
    BY <1>1, <1>2

\* A back reference is not shown while its object is being treated.
LEMMA WriteBrefShown ==
    ASSUME CallInv, StoreInv, CarefulInv, NEW p \in Procs, Turn(p), WriteBref(p),
           StoreTyped(docs'), suspect' = {}
    PROVE  Stutters
<1> DEFINE x == call[p].cur
           W == WritingBy(call[p])
           D == DeletingBy(call[p])
<1>1. PICK w0 \in call[p].upd, writes \in SUBSET call[p].upd :
         /\ \A w \in call[p].upd : w \in writes <=> w.cls = w0.cls /\ w.uid = w0.uid
         /\ call'[p].upd = call[p].upd \ writes
         /\ \/ /\ Matching(w0.cls, {w0.uid}) = {}
               /\ UNCHANGED <<docs, suspect>>
            \/ \E s \in Used(docs) :
                  /\ docs[s].cls = w0.cls /\ docs[s].uid = w0.uid
                  /\ call'[p].dirty
                  /\ Rewrites(s, writes)
                  /\ suspect' = suspect \cup
                       (IF Stolen(s, writes, call[p].cur)
                        THEN {w0.uid} ELSE {})
    BY WriteBrefStep
<1>2. /\ SameObject(p) /\ call[p].pc = "bref" /\ Active(p) /\ call[p].upd # {}
      /\ call[p].dirty => call'[p].dirty
    BY <1>1, WriteBrefStep DEF SameObject, Active
<1>3. call[p].kind # "delete" => call[p].dirty
    BY <1>2, Knowledge DEF AloneProgress, ObjectProgress
<1>4. /\ WritingBy(call'[p]) = W /\ DeletingBy(call'[p]) = D
      /\ IF call[p].kind = "delete" THEN W = {} /\ x \in D ELSE W = {x} /\ D = {}
    BY <1>2, <1>3, Knowledge
    DEF SameObject, WritingBy, DeletingBy, Carried, Shape, Active
<1>5. /\ suspect = {} /\ call[p].alone /\ StoreTyped(docs) /\ UniqueOutside(docs, {})
      /\ NotSelf(call[p])
    BY <1>2, Knowledge DEF CarefulCall
<1>6. CASE UNCHANGED <<docs, suspect>>
    BY <1>4, <1>6, StutterAlone
<1>7. ASSUME NEW s \in Used(docs), docs[s].cls = w0.cls, docs[s].uid = w0.uid,
             Rewrites(s, writes),
             suspect' = suspect \cup (IF Stolen(s, writes, x) THEN {w0.uid} ELSE {})
      PROVE  Stutters
    <2>1. /\ Foreign(p) = {} /\ Unreliable(p) = {} /\ Own(p) = {x} /\ PreparedAgrees(p)
        BY <1>2, <1>5, AloneQuarantine DEF Own, StoreInv
    <2>2. /\ \A w \in writes : w.cls = docs[s].cls /\ w.uid = docs[s].uid
          /\ ~Stolen(s, writes, x)
          /\ w0.uid # x
        BY <1>1, <1>5, <1>7 DEF NotSelf
    <2>3. \A f \in Fields : \A b : b # x =>
             (b \in docs'[s].refs[f] <=> b \in docs[s].refs[f])
        BY <1>7, <2>1, <2>2, WriteKeeps
    <2>4. Used(docs') = Used(docs) /\ KeepsObjects
        BY <1>7 DEF Rewrites, KeepsObjects
    <2> HIDE DEF x, W, D
    <2>5. \A a, b : \A f \in Fields : b # x \/ a # w0.uid =>
             (Lists(docs', a, f, b) <=> Lists(docs, a, f, b))
        BY <1>7, <2>3 DEF Lists, Rewrites
    <2>6. ASSUME NEW a \in Nat, NEW f \in Fields, NEW b \in Nat
          PROVE  Shown(docs, W, D, a, f, b) <=> Shown(docs', W, D, a, f, b)
        <3>1. Inverse[f] \in Fields
            BY SchemaAssumption
        <3>2. a \in W \ D => (Lists(docs', a, f, b) <=> Lists(docs, a, f, b))
            BY <1>4, <2>2, <2>5
        <3>3. b \in W \ D => (Lists(docs', b, Inverse[f], a) <=> Lists(docs, b, Inverse[f], a))
            BY <1>4, <2>2, <2>5, <3>1
        <3>4. b \notin W \cup D => (Lists(docs', a, f, b) <=> Lists(docs, a, f, b))
            BY <1>4, <2>5
        <3> QED
            BY <3>2, <3>3, <3>4 DEF Shown
    <2> QED
        BY <1>4, <1>5, <2>4, <2>6, StutterWhen DEF W, D
<1> QED
    BY <1>1, <1>6, <1>7

\* What a delete removes was not shown any more.
LEMMA RemoveDocsShown ==
    ASSUME CallInv, StoreInv, CarefulInv, NEW p \in Procs, Turn(p), RemoveDocs(p),
           StoreTyped(docs'), CallInv', StoreInv', CarefulInv'
    PROVE  Stutters
<1> DEFINE D == call[p].target
<1>1. /\ call[p].pc = "bref" /\ call[p].kind = "delete" /\ Active(p)
      /\ call'[p] = Idle /\ call[p].alone
    BY Knowledge DEF RemoveDocs, Settled, Prepared, Active, Leave, CallInv, TypeOK
<1>2. /\ WritingBy(call[p]) = {} /\ DeletingBy(call[p]) = D
      /\ WritingBy(call'[p]) = {} /\ DeletingBy(call'[p]) = {}
    BY <1>1, IdleType DEF WritingBy, DeletingBy
<1>3. \A s \in Used(docs) : docs[s].uid \in D => docs[s].cls = call[p].cls
    BY <1>1, Knowledge DEF AloneProgress, DeleteProgress
<1>4. /\ Used(docs') = {s \in Used(docs) : docs[s].uid \notin D}
      /\ \A s \in Used(docs') : docs'[s] = docs[s]
    BY <1>3 DEF RemoveDocs, Matching, Used
<1>5. ConsistentOutside(docs', {})
    <2>1. \A q \in Procs : ~HasWritten(q)'
        BY <1>1, IdleType DEF Turn, HasWritten, Active
    <2>2. ASSUME NEW x PROVE x \notin Quarantine'
        BY <2>1 DEF HasWritten, Quarantine, CarefulInv
    <2>3. Quarantine' = {}
        BY <2>2
    <2> QED
        BY <2>3 DEF StoreInv, Contained
<1>6. StoreTyped(docs)
    BY Knowledge
<1> HIDE DEF D
<1>7. ObjectsIn(docs', {}) = ObjectsIn(docs, D)
    BY <1>4 DEF ObjectsIn
<1>8. ASSUME NEW a \in Nat, NEW f \in Fields, NEW b \in Nat
      PROVE  Shown(docs, {}, D, a, f, b) <=> Shown(docs', {}, {}, a, f, b)
    <2>1. a \notin D => (Lists(docs', a, f, b) <=> Lists(docs, a, f, b))
        BY <1>4 DEF Lists
    <2>2. Lists(docs', a, f, b) => a \notin D
        BY <1>4 DEF Lists
    <2>3. Lists(docs', a, f, b) => Lists(docs', b, Inverse[f], a)
        BY <1>5 DEF ConsistentOutside, AnsweredOutside, Lists
    <2>4. Lists(docs', b, Inverse[f], a) => b \notin D
        BY <1>4 DEF Lists
    <2> QED
        BY <2>1, <2>2, <2>3, <2>4 DEF Shown
<1>9. LinksIn(docs, {}, D) = LinksIn(docs', {}, {})
    BY <1>6, <1>8, LinksEqual
<1> QED
    BY <1>2, <1>7, <1>9, AbstractState DEF Stutters

\* When an insert or update returns, its back references show what it shows.
LEMMA ReturnShown ==
    ASSUME CallInv, StoreInv, CarefulInv, NEW p \in Procs, Turn(p), Return(p),
           CallInv', StoreInv', CarefulInv'
    PROVE  Stutters
<1>1. /\ call[p].kind # "delete" /\ call'[p] = Idle /\ UNCHANGED docs
    BY DEF Return, Leave, CallInv, TypeOK
<1>2. DeletingBy(call[p]) = {} /\ DeletingBy(call'[p]) = {}
    BY <1>1, IdleType DEF DeletingBy
<1>3. ConsistentOutside(docs, {})
    <2>1. \A q \in Procs : ~HasWritten(q)'
        BY <1>1, IdleType DEF Turn, HasWritten, Active
    <2>2. ASSUME NEW x PROVE x \notin Quarantine'
        BY <2>1 DEF HasWritten, Quarantine, CarefulInv
    <2>3. Quarantine' = {}
        BY <2>2
    <2> QED
        BY <1>1, <2>3 DEF StoreInv, Contained
<1>4. StoreTyped(docs)
    BY Knowledge
<1>5. LinksIn(docs, WritingBy(call[p]), {}) = LinksIn(docs, WritingBy(call'[p]), {})
    BY <1>3, <1>4, LinksEqual, ShownIsListed
<1> QED
    BY <1>1, <1>2, <1>5, AbstractState DEF Stutters

-----------------------------------------------------------------------------
(***************************************************************************)
(* The refinement.                                                         *)
(***************************************************************************)
CInv == IInv /\ RefusalInv /\ CarefulInv

\* The workers start with no call in flight.
LEMMA CInvInit == Init /\ NoSelfReference => CInv
BY IInvInit, CarefulInvInit, IdleType DEF CInv, Init, RefusalInv, Active

\* Nothing careful depends on is changed when nothing is.
LEMMA CarefulSame ==
    ASSUME CarefulInv, UNCHANGED vars
    PROVE  CarefulInv'
<1>1. UNCHANGED <<docs, call, suspect>>
    BY DEF vars
<1>2. ASSUME NEW p \in Procs PROVE CarefulCall(call[p])'
    <2>1. PICK c : c = call[p]
        OBVIOUS
    <2>2. call'[p] = c /\ CarefulCall(c)
        BY <1>1, <2>1 DEF CarefulInv
    <2>3. CarefulData(c)' /\ CarefulChanges(c)'
        BY <1>1, <2>2 DEF CarefulCall, CarefulData, CarefulChanges, Exists
    <2>4. CanBeDone(c)'
        BY <1>1, <2>2, CanBeDoneSame DEF CarefulCall
    <2>5. Findable(c)' /\ NoTheft(c)'
        BY <1>1, <2>2 DEF CarefulCall, Findable, NoTheft
    <2>6. CarefulCall(c)'
        BY <2>2, <2>3, <2>4, <2>5 DEF CarefulCall
    <2> QED
        BY <2>2, <2>6
<1>3. NoSelfReference'
    BY <1>1 DEF CarefulInv, NoSelfReference
<1> QED
    BY <1>1, <1>2, <1>3 DEF CarefulInv

\* The invariant of careful workers is inductive.
LEMMA CInvNext == CInv /\ [CarefulNext]_vars => CInv'
<1> SUFFICES ASSUME CInv, [CarefulNext]_vars PROVE CInv'
    OBVIOUS
<1>1. IInv' /\ RefusalInv'
    BY IInvNext, RefusalInvNext DEF CInv, CarefulNext
<1>2. ASSUME UNCHANGED vars PROVE CarefulInv'
    BY <1>2, CarefulSame DEF CInv
<1>3. ASSUME NEW p \in Procs, Operation(p) \/ Step(p), CarefulCallers PROVE CarefulInv'
    BY <1>3, IInvParts, CarefulStep DEF CInv
<1>4. CarefulInv'
    BY <1>2, <1>3 DEF CarefulNext, Next, Stop
<1> QED
    BY <1>1, <1>4 DEF CInv

\* A store that starts consistent shows a symmetric relation.
LEMMA InitShown == Init => Abstract!Init
<1> SUFFICES ASSUME Init PROVE Abstract!Init
    OBVIOUS
<1>1. CallInv
    BY CallInvInit
<1>2. StoreTyped(docs) /\ ConsistentOutside(docs, {})
    BY <1>1, StoredTypes, InitialAssumption DEF Init, StoreTyped
<1>3. Writing = {} /\ Deleting = {}
    BY IdleType DEF Init, Writing, Deleting, Active
<1>4. AbstractObjects = ObjectsIn(docs, {}) /\ AbstractLinks = LinksIn(docs, {}, {})
    BY <1>3 DEF AbstractObjects, AbstractLinks
<1>5. \A x, y : \A f \in Fields : Lists(docs, x, f, y) => Lists(docs, y, Inverse[f], x)
    BY <1>2 DEF ConsistentOutside, AnsweredOutside, Lists
<1> QED
    BY <1>2, <1>4, <1>5, LinksRelated DEF Abstract!Init

\* Every step of a careful worker is one of RelationStore, or shows nothing.
LEMMA StepShown ==
    ASSUME Nat \subseteq UidSpace, CInv, CInv', [CarefulNext]_vars
    PROVE  Abstract!Next \/ UNCHANGED Abstract!vars
<1>1. /\ CallInv /\ StoreInv /\ RefusalInv /\ CarefulInv
      /\ CallInv' /\ StoreInv' /\ CarefulInv'
    BY DEF CInv, IInv, IInvOver, CallInv, StoreInv, Carried
<1>2. StoreTyped(docs') /\ TypeOK' /\ suspect' = {}
    <2>1. docs' \in [Slots -> Doc \cup {NoDoc}]
        BY <1>1 DEF CallInv, TypeOK
    <2>2. StoreTyped(docs')
        BY <2>1, SchemaAssumption DEF StoreTyped, Used, Doc
    <2> QED
        BY <1>1, <2>2 DEF CallInv, CarefulInv
<1>3. CASE UNCHANGED vars
    BY <1>3 DEF vars, Abstract!vars, AbstractObjects, AbstractLinks, Writing, Deleting, Active
<1>4. ASSUME NEW p \in Procs, Operation(p), Turn(p) PROVE Abstract!Next \/ Stutters
    BY <1>1, <1>4, OperationShown DEF Abstract!Next
<1>5. ASSUME NEW p \in Procs, Step(p), Turn(p) PROVE Abstract!Next \/ Stutters
    <2>1. CASE InsertDoc(p)
        BY <1>1, <1>2, <1>5, <2>1, InsertDocShown DEF Abstract!Next
    <2>2. CASE SetDoc(p)
        BY <1>1, <1>2, <1>5, <2>2, SetDocShown DEF Abstract!Next
    <2>3. CASE FindForUpdate(p)
        BY <1>1, <1>5, <2>3, FindShown
    <2>4. CASE TakeOld(p) \/ ReadBref(p)
        BY <1>1, <1>5, <2>4, PrepareShown
    <2>5. CASE WriteBref(p)
        BY <1>1, <1>2, <1>5, <2>5, WriteBrefShown
    <2>6. CASE RemoveDocs(p)
        BY <1>1, <1>2, <1>5, <2>6, RemoveDocsShown
    <2>7. CASE Return(p)
        BY <1>1, <1>5, <2>7, ReturnShown
    <2>8. ~ConsistencyError(p)
        BY <1>1, NeverRefused
    <2>9. ~Crash(p)
        BY CarefulAssumption DEF Crash
    <2> QED
        BY <1>5, <2>1, <2>2, <2>3, <2>4, <2>5, <2>6, <2>7, <2>8, <2>9 DEF Step
<1>6. ASSUME NEW p \in Procs, Operation(p) \/ Step(p), CarefulCallers
      PROVE  Abstract!Next \/ Stutters
    BY <1>1, <1>4, <1>5, <1>6, TakesTurns
<1>7. CASE CarefulNext
    BY <1>3, <1>6, <1>7 DEF CarefulNext, Next, Stop, Stutters, Abstract!vars
<1> QED
    BY <1>3, <1>7

(***************************************************************************)
(* The calls of workers that take turns and are not killed, whose callers  *)
(* name existing objects other than the one they store and neither move    *)
(* nor take over a single reference, are atomic changes of a symmetric     *)
(* relation: what the datasource reads and writes in between is not seen.  *)
(***************************************************************************)
THEOREM StoreImplementsRelation ==
    ASSUME Nat \subseteq UidSpace
    PROVE  CarefulSpec => ImplementsRelationStore
<1>1. CarefulInit => CInv
    BY CInvInit DEF CarefulInit
<1>2. CInv /\ [CarefulNext]_vars => CInv'
    BY CInvNext
<1>3. CInv /\ CInv' /\ [CarefulNext]_vars => [Abstract!Next]_(Abstract!vars)
    BY StepShown
<1>4. CarefulInit => Abstract!Init
    BY InitShown DEF CarefulInit
<1> QED
    BY <1>1, <1>2, <1>3, <1>4, PTL DEF CarefulSpec, ImplementsRelationStore, Abstract!Spec

(***************************************************************************)
(* MongoDbConsistencyError is never raised for such callers: every back    *)
(* reference found is the one the change expects.                          *)
(***************************************************************************)
THEOREM CarefulNeverRefused ==
    CarefulSpec => [][\A p \in Procs : ~ConsistencyError(p)]_vars
<1>1. CInv /\ [CarefulNext]_vars => [\A p \in Procs : ~ConsistencyError(p)]_vars
    BY IInvParts, NeverRefused DEF CInv
<1>2. CarefulInit => CInv
    BY CInvInit DEF CarefulInit
<1> QED
    BY <1>1, <1>2, CInvNext, PTL DEF CarefulSpec
=============================================================================
