--------------------------- MODULE LeObjectsProofs ---------------------------
(***************************************************************************)
(* What is stored satisfies the data handlers and its derived field fits,  *)
(* and selections and pages have the objects that were asked for:          *)
(* LeObjects, for any classes, clients, filters and forms and any number   *)
(* of calls.                                                               *)
(***************************************************************************)
EXTENDS LeObjects, FiniteSetTheorems, SequenceTheorems, WellFoundedInduction, TLAPS

\* A call about to write has selected stored objects; one about to insert has
\* the data it has just checked.
CallFits(call) ==
    /\ DOMAIN call = DOMAIN Idle
    /\ call.pc = "write" => \A o \in call.left : "n" \in DOMAIN o
    /\ call.pc = "insert" => "n" \in DOMAIN call.data /\ Valid(call.data)

StoreInv == DOMAIN store = Slots /\ \A o \in Objects : Stored(o)
ClientInv == DOMAIN client = Clients /\ \A c \in Clients : CallFits(client[c])
Inv == StoreInv /\ ClientInv
-----------------------------------------------------------------------------
\* What the data handlers construct from valid values can be stored, and the
\* field with the class is not among those that matter.
LEMMA ConstructedIsStored ==
    ASSUME NEW o, "n" \in DOMAIN o, Valid(o), NEW cls
    PROVE  /\ Stored(ConstructDatas(o))
           /\ Stored([ConstructDatas(o) EXCEPT !.cls = cls])
<1> DEFINE full == Updated([m |-> Default, r |-> 0, x |-> 0], o)
           made == ConstructDatas(o)
<1>1. /\ DOMAIN full = DOMAIN o \cup {"m", "r", "x"}
      /\ full.n = o.n
      /\ full.m = IF "m" \in DOMAIN o THEN o.m ELSE Default
  BY DEF Updated
<1>2. /\ DOMAIN made = DOMAIN full \cup {"d"}
      /\ made.n = full.n /\ made.m = full.m /\ made.d = Derived(full)
  BY <1>1 DEF Updated, ConstructDatas
<1>3. full.n # Bad /\ full.m # Bad
  BY <1>1 DEF Valid, Editable, Default, Bad
<1>4. Stored(made)
  BY <1>1, <1>2, <1>3 DEF Stored, Valid, Editable, Derived
<1>5. made = [f \in DOMAIN made |-> made[f]]
  BY DEF ConstructDatas, Updated
<1>6. /\ DOMAIN [made EXCEPT !.cls = cls] = DOMAIN made
      /\ \A f \in {"n", "m", "d"} \cap DOMAIN made : [made EXCEPT !.cls = cls][f] = made[f]
  OBVIOUS
<1>7. {"n", "m", "d"} \subseteq DOMAIN made
  BY <1>1, <1>2
<1>8. Stored([made EXCEPT !.cls = cls])
  BY <1>4, <1>6, <1>7 DEF Stored, Valid, Editable, Derived
<1> QED
  BY <1>4, <1>8

\* Data laid over an object leave it its fields.
LEMMA UpdatedKeepsFields ==
    ASSUME NEW o, NEW by, "n" \in DOMAIN o
    PROVE  "n" \in DOMAIN Updated(o, by)
BY DEF Updated

\* What a query finds is stored.
LEMMA FoundIsStored ==
    ASSUME NEW call PROVE Found(call) \subseteq Objects
BY DEF Found, FindAll, Find

\* A call that goes on, neither to write nor to insert, carries nothing new.
LEMMA RunsFits ==
    ASSUME ClientInv, NEW c \in Clients, NEW call, Runs(c, call),
           DOMAIN call \subseteq DOMAIN Idle, "pc" \in DOMAIN call,
           call.pc \notin {"write", "insert"}
    PROVE  ClientInv'
<1>1. CallFits(Updated(client[c], call))
  BY DEF ClientInv, CallFits, Updated
<1> QED
  BY <1>1 DEF ClientInv, Runs

\* Nor does one that is over.
LEMMA OverFits ==
    ASSUME ClientInv, NEW c \in Clients, Over(c)
    PROVE  ClientInv'
<1>1. CallFits([Idle EXCEPT !.inst = client[c].inst])
  BY DEF CallFits, Idle
<1> QED
  BY <1>1 DEF ClientInv, Over

\* A query that is asked runs or is over.
LEMMA AsksFits ==
    ASSUME ClientInv, NEW c \in Clients, NEW kind, NEW target, NEW fs, NEW page,
           NEW data, Asks(c, kind, target, fs, page, data)
    PROVE  ClientInv'
<1>1. CASE Over(c)
  BY <1>1, OverFits
<1>2. CASE Runs(c, [pc |-> "run", kind |-> kind, target |-> target,
                    filters |-> fs, page |-> page, data |-> data])
  <2> DEFINE call == [pc |-> "run", kind |-> kind, target |-> target,
                      filters |-> fs, page |-> page, data |-> data]
  <2>1. DOMAIN call \subseteq DOMAIN Idle /\ "pc" \in DOMAIN call
        /\ call.pc \notin {"write", "insert"}
    BY DEF Idle
  <2> HIDE DEF call
  <2> QED
    BY <1>2, <2>1, RunsFits DEF call
<1> QED
  BY <1>1, <1>2 DEF Asks

\* The initial stores satisfy the invariant.
LEMMA InitInv == Init => Inv
<1> SUFFICES ASSUME Init PROVE Inv
  OBVIOUS
<1>1. CallFits(Idle)
  BY DEF CallFits, Idle
<1>2. ClientInv
  BY <1>1 DEF Init, ClientInv
<1>3. StoreInv
  BY StoresAssumption DEF Init, StoreInv, Objects
<1> QED
  BY <1>2, <1>3 DEF Inv

\* The calls of a script that write nothing.
LEMMA ScriptInv ==
    ASSUME Inv, NEW c \in Clients, Query(c) \/ Set(c) \/ UpdateInstance(c) \/ Get(c)
    PROVE  Inv'
<1>1. StoreInv' /\ ClientInv
  BY DEF Inv, StoreInv, Objects, Query, Set, UpdateInstance, Get
<1>2. CASE Query(c)
  <2>1. PICK kind \in {"get", "delete", "update"}, target \in Classes,
             fs \in FilterLists, page \in Pages, data \in Forms :
             Asks(c, kind, target, fs, page, data)
    BY <1>2 DEF Query
  <2> QED
    BY <1>1, <2>1, AsksFits DEF Inv
<1>3. CASE Set(c)
  <2>1. PICK inst : client' = [client EXCEPT ![c].inst = inst]
    BY <1>3 DEF Set
  <2>2. CallFits(client'[c])
    BY <1>1, <1>3, <2>1 DEF Set, ClientInv, CallFits
  <2> QED
    BY <1>1, <2>1, <2>2 DEF Inv, ClientInv
<1>4. CASE UpdateInstance(c)
  <2> DEFINE inst == client[c].inst
  <2>1. \/ Over(c)
        \/ Asks(c, "update", inst.cls, UidFilter(inst.uid), None, Shown(inst))
    BY <1>4 DEF UpdateInstance
  <2> QED
    BY <1>1, <2>1, AsksFits, OverFits DEF Inv
<1>5. CASE Get(c)
  <2>1. CASE Over(c)
    BY <1>1, <2>1, OverFits DEF Inv
  <2>2. CASE \E inst : client' = [client EXCEPT ![c] = [Idle EXCEPT !.inst = inst]]
    <3>1. PICK inst : client' = [client EXCEPT ![c] = [Idle EXCEPT !.inst = inst]]
      BY <2>2
    <3>2. CallFits([Idle EXCEPT !.inst = inst])
      BY DEF CallFits, Idle
    <3> QED
      BY <1>1, <3>1, <3>2 DEF Inv, ClientInv
  <2> QED
    BY <1>5, <2>1, <2>2 DEF Get
<1> QED
  BY <1>2, <1>3, <1>4, <1>5

\* The requests of a worker up to the query they make.
LEMMA WorkerInv ==
    ASSUME Inv, NEW c \in Clients, SubmitUpdate(c) \/ FetchForUpdate(c) \/ SubmitDelete(c)
    PROVE  Inv'
<1>1. StoreInv' /\ ClientInv
  BY DEF Inv, StoreInv, Objects, SubmitUpdate, FetchForUpdate, SubmitDelete
<1>2. CASE SubmitUpdate(c)
  <2>1. PICK cls, u, data :
            Runs(c, [pc |-> "fetch", target |-> cls, uid |-> u, data |-> data])
    BY <1>2 DEF SubmitUpdate
  <2> DEFINE call == [pc |-> "fetch", target |-> cls, uid |-> u, data |-> data]
  <2>2. DOMAIN call \subseteq DOMAIN Idle /\ "pc" \in DOMAIN call
        /\ call.pc \notin {"write", "insert"}
    BY DEF Idle
  <2> HIDE DEF call
  <2> QED
    BY <1>1, <2>1, <2>2, RunsFits DEF Inv, call
<1>3. CASE FetchForUpdate(c)
  <2>1. \/ Over(c)
        \/ Asks(c, "update", client[c].target, UidFilter(client[c].uid), None, client[c].data)
    BY <1>3 DEF FetchForUpdate
  <2> QED
    BY <1>1, <2>1, AsksFits, OverFits DEF Inv
<1>4. CASE SubmitDelete(c)
  <2>1. PICK cls, u : Asks(c, "delete", cls, UidFilter(u), None, << >>)
    BY <1>4 DEF SubmitDelete
  <2> QED
    BY <1>1, <2>1, AsksFits DEF Inv
<1> QED
  BY <1>2, <1>3, <1>4

\* An insert: its data are checked when they are given and when its identifier
\* is chosen, and only then stored.
LEMMA InsertInv ==
    ASSUME Inv, NEW c \in Clients, Insert(c) \/ Prepare(c) \/ InsertObject(c)
    PROVE  Inv'
<1>1. CASE Insert(c)
  <2>1. StoreInv' /\ ClientInv
    BY <1>1 DEF Inv, StoreInv, Objects, Insert
  <2>2. PICK cls, data : \/ Over(c)
                         \/ Runs(c, [pc |-> "prepare", kind |-> "insert", target |-> cls,
                                     data |-> data])
    BY <1>1 DEF Insert
  <2> DEFINE call == [pc |-> "prepare", kind |-> "insert", target |-> cls, data |-> data]
  <2>3. DOMAIN call \subseteq DOMAIN Idle /\ "pc" \in DOMAIN call
        /\ call.pc \notin {"write", "insert"}
    BY DEF Idle
  <2> HIDE DEF call
  <2> QED
    BY <2>1, <2>2, <2>3, RunsFits, OverFits DEF Inv, call
<1>2. CASE Prepare(c)
  <2>1. StoreInv' /\ ClientInv
    BY <1>2 DEF Inv, StoreInv, Objects, Prepare
  <2>2. CASE Over(c)
    BY <2>1, <2>2, OverFits DEF Inv
  <2>3. CASE ~Over(c)
    <3> DEFINE call == Updated(client[c], [pc |-> "insert", uid |-> NewNumericId(Objects)])
    <3>1. CheckDatasValue(client[c].data, TRUE) /\ client' = [client EXCEPT ![c] = call]
      BY <1>2, <2>3 DEF Prepare, Runs
    <3>2. "n" \in DOMAIN client[c].data /\ Valid(client[c].data)
      BY <3>1 DEF CheckDatasValue, CheckNames
    <3>3. DOMAIN client[c] = DOMAIN Idle
      BY <2>1 DEF ClientInv, CallFits
    <3>4. DOMAIN call = DOMAIN Idle /\ call.pc = "insert" /\ call.data = client[c].data
      BY <3>3 DEF Updated, Idle
    <3>5. CallFits(call)
      BY <3>2, <3>4 DEF CallFits
    <3> HIDE DEF call
    <3> QED
      BY <2>1, <3>1, <3>5 DEF Inv, ClientInv
  <2> QED
    BY <2>2, <2>3
<1>3. CASE InsertObject(c)
  <2> DEFINE data == Updated(client[c].data, [uid |-> client[c].uid, cls |-> client[c].target])
  <2>1. "n" \in DOMAIN client[c].data /\ Valid(client[c].data)
    BY <1>3 DEF Inv, ClientInv, CallFits, InsertObject
  <2>2. /\ DOMAIN data = DOMAIN client[c].data \cup {"uid", "cls"}
        /\ \A f \in DOMAIN client[c].data \ {"uid", "cls"} : data[f] = client[c].data[f]
    BY DEF Updated
  <2>3. "n" \in DOMAIN data /\ Valid(data)
    BY <2>1, <2>2 DEF Valid, Editable
  <2> HIDE DEF data
  <2>4. Stored(ConstructDatas(data))
    BY <2>3, ConstructedIsStored
  <2>5. PICK s \in Slots : store' = [store EXCEPT ![s] = ConstructDatas(data)]
    BY <1>3 DEF InsertObject, data
  <2>6. StoreInv'
    BY <2>4, <2>5 DEF Inv, StoreInv, Objects
  <2> QED
    BY <1>3, <2>6, OverFits DEF Inv, InsertObject
<1> QED
  BY <1>1, <1>2, <1>3

\* An update and a delete: what was selected is checked and constructed again
\* before it is written.
LEMMA WriteInv ==
    ASSUME Inv, NEW c \in Clients,
           SelectForUpdate(c) \/ Write(c) \/ Wrote(c) \/ Delete(c)
    PROVE  Inv'
<1>1. CASE SelectForUpdate(c)
  <2> DEFINE call == Updated(client[c], [pc |-> "write", left |-> Found(client[c])])
  <2>1. StoreInv' /\ ClientInv /\ client' = [client EXCEPT ![c] = call]
    BY <1>1 DEF Inv, StoreInv, Objects, SelectForUpdate, Runs
  <2>2. DOMAIN client[c] = DOMAIN Idle
    BY <2>1 DEF ClientInv, CallFits
  <2>3. DOMAIN call = DOMAIN Idle /\ call.pc = "write" /\ call.left = Found(client[c])
    BY <2>2 DEF Updated, Idle
  <2>4. \A o \in Found(client[c]) : "n" \in DOMAIN o
    BY FoundIsStored DEF Inv, StoreInv, Stored
  <2>5. CallFits(call)
    BY <2>3, <2>4 DEF CallFits
  <2> HIDE DEF call
  <2> QED
    BY <2>1, <2>5 DEF Inv, ClientInv
<1>2. CASE Write(c)
  <2> DEFINE call == client[c]
  <2>1. PICK o \in call.left :
            IF Valid(Updated(o, call.data))
            THEN /\ store' = [s \in Slots |->
                        IF s \in FirstOf(call.target, o.uid)
                        THEN [Written(store[s], o, call.data) EXCEPT !.cls = store[s].cls]
                        ELSE store[s]]
                 /\ client' = [client EXCEPT ![c].left = @ \ {o}]
            ELSE Over(c) /\ UNCHANGED store
    BY <1>2 DEF Write
  <2>2. CASE ~Valid(Updated(o, call.data))
    BY <2>1, <2>2, OverFits DEF Inv, StoreInv, Objects
  <2>3. CASE Valid(Updated(o, call.data))
    <3>1. "n" \in DOMAIN o /\ call.pc = "write"
      BY <1>2, <2>1 DEF Inv, ClientInv, CallFits, Write
    <3>2. "n" \in DOMAIN Updated(o, call.data)
      BY <3>1, UpdatedKeepsFields
    <3>3. \A v : Stored([Prepared(o, call.data) EXCEPT !.cls = v])
      BY <2>3, <3>2, ConstructedIsStored DEF Prepared
    <3>4. DOMAIN store' = Slots
      BY <2>1, <2>3
    <3>5. ASSUME NEW s \in Slots
          PROVE  store'[s] = store[s] \/ Stored(store'[s])
      <4>1. CASE s \in FirstOf(call.target, o.uid)
        <5>1. store'[s] = [Prepared(o, call.data) EXCEPT !.cls = store[s].cls]
          BY <2>1, <2>3, <4>1 DEF Written
        <5> QED
          BY <3>3, <5>1
      <4>2. CASE s \notin FirstOf(call.target, o.uid)
        BY <2>1, <2>3, <4>2
      <4> QED
        BY <4>1, <4>2
    <3>6. StoreInv'
      BY <3>4, <3>5 DEF Inv, StoreInv, Objects
    <3>7. client' = [client EXCEPT ![c].left = @ \ {o}]
      BY <2>1, <2>3
    <3>8. CallFits(client'[c])
      BY <3>1, <3>7 DEF Inv, ClientInv, CallFits, Idle
    <3>9. ClientInv'
      BY <3>7, <3>8 DEF Inv, ClientInv
    <3> QED
      BY <3>6, <3>9 DEF Inv
  <2> QED
    BY <2>2, <2>3
<1>3. CASE Wrote(c)
  BY <1>3, OverFits DEF Inv, StoreInv, Objects, Wrote
<1>4. CASE Delete(c)
  <2>1. DOMAIN store' = Slots /\ \A s \in Slots : store'[s] \in {store[s], None}
    BY <1>4 DEF Delete
  <2>2. StoreInv'
    BY <2>1 DEF Inv, StoreInv, Objects
  <2> QED
    BY <1>4, <2>2, OverFits DEF Inv, Delete
<1> QED
  BY <1>1, <1>2, <1>3, <1>4

\* The invariant holds in every state.
LEMMA Invariance == Spec => []Inv
<1>1. Inv /\ [Next]_vars => Inv'
  <2> SUFFICES ASSUME Inv, [Next]_vars PROVE Inv'
    OBVIOUS
  <2>1. CASE Next
    BY <2>1, ScriptInv, WorkerInv, InsertInv, WriteInv DEF Next, Clients
  <2>2. CASE UNCHANGED vars
    BY <2>2 DEF vars, Inv, StoreInv, ClientInv, CallFits, Objects
  <2> QED
    BY <2>1, <2>2
<1> QED
  BY InitInv, <1>1, PTL DEF Spec

\* No value that a data handler refuses is ever stored, whatever queries, forms
\* and instances carry and however the steps of updates interleave (query.py,
\* leobject.py).
THEOREM OnlyValidStored == Spec => []RefusedStaysOut
<1>1. Inv => RefusedStaysOut
  BY DEF Inv, StoreInv, Stored, RefusedStaysOut
<1> QED
  BY Invariance, <1>1, PTL

\* The derived field of a stored object always fits the fields it is made of,
\* although an update writes long after it has selected (query.py, _query).
THEOREM DerivedFieldFits == Spec => []DerivedFits
<1>1. Inv => DerivedFits
  BY DEF Inv, StoreInv, Stored, DerivedFits
<1> QED
  BY Invariance, <1>1, PTL
-----------------------------------------------------------------------------
(* Finite sets of objects, and the order of their identifiers. *)

\* A set of numbers that is not empty has a least one.
LEMMA LeastNumber ==
    ASSUME NEW T, T \subseteq Nat, T # {}
    PROVE  \E x \in T : \A y \in T : x <= y
<1> DEFINE Less == {ss \in Nat \X Nat : ss[1] < ss[2]}
<1>1. IsWellFoundedOn(Less, Nat)
  BY NatLessThanWellFounded DEF OpToRel
<1>2. PICK x \in T : \A y \in T : <<y, x>> \notin Less
  BY <1>1, WFMin, Zenon
<1>3. ASSUME NEW y \in T PROVE x <= y
  <2>1. x \in Nat /\ y \in Nat
    OBVIOUS
  <2>2. <<y, x>> \in Nat \X Nat /\ <<y, x>>[1] = y /\ <<y, x>>[2] = x
    BY <2>1
  <2>3. ~(y < x)
    BY <1>2, <2>2
  <2> QED
    BY <2>1, <2>3
<1> QED
  BY <1>3

HaveUids(objs) == IsFiniteSet(objs) /\ \A o \in objs : o.uid \in Int

\* Among finitely many objects one has the greatest identifier.
LEMMA GreatestUid ==
    ASSUME NEW objs, HaveUids(objs), objs # {}
    PROVE  \E m \in objs : \A o \in objs : o.uid <= m.uid
<1> DEFINE Top(T, m) == m \in T /\ \A o \in T : o.uid <= m.uid
           Fails(T) == T \in SUBSET objs /\ T # {} /\ ~\E m : Top(T, m)
           sizes == {k \in Nat : \E T : Fails(T) /\ Cardinality(T) = k}
<1> SUFFICES ASSUME Fails(objs) PROVE FALSE
  OBVIOUS
<1>1. \A T \in SUBSET objs : IsFiniteSet(T) /\ Cardinality(T) \in Nat
  BY FS_Subset, FS_CardinalityType DEF HaveUids
<1>2. sizes # {} /\ sizes \subseteq Nat
  BY <1>1
<1>3. PICK k \in sizes : \A j \in sizes : k <= j
  <2> HIDE DEF sizes
  <2> QED
    BY <1>2, LeastNumber
<1>4. PICK T : Fails(T) /\ Cardinality(T) = k
  OBVIOUS
<1>5. PICK x : x \in T
  BY <1>4
<1> DEFINE rest == T \ {x}
<1>6. rest \in SUBSET objs /\ IsFiniteSet(T) /\ x.uid \in Int
  BY <1>1, <1>4, <1>5 DEF HaveUids
<1>7. Cardinality(rest) = k - 1 /\ k \in Nat /\ k - 1 \in Nat
  <2>1. Cardinality(rest) = Cardinality(T) - 1
    BY <1>5, <1>6, FS_RemoveElement
  <2>2. Cardinality(rest) \in Nat
    BY <1>1, <1>6
  <2> QED
    BY <2>1, <2>2, <1>4
<1>8. ~Fails(rest)
  <2>1. k - 1 \notin sizes
    <3> HIDE DEF sizes
    <3> QED
      BY <1>3, <1>7
  <2> HIDE DEF Fails, rest
  <2> QED
    BY <2>1, <1>7
<1>9. CASE rest = {}
  <2>1. Top(T, x)
    BY <1>5, <1>6, <1>9
  <2> QED
    BY <2>1, <1>4
<1>10. CASE rest # {}
  <2>1. PICK m : Top(rest, m)
    BY <1>6, <1>8, <1>10
  <2>2. m \in T /\ m.uid \in Int /\ \A o \in T : o.uid \in Int
    BY <2>1, <1>4 DEF HaveUids
  <2>3. CASE x.uid <= m.uid
    <3>1. Top(T, m)
      BY <2>1, <2>2, <2>3
    <3> QED
      BY <3>1, <1>4
  <2>4. CASE m.uid <= x.uid
    <3>1. \A o \in T : o.uid <= x.uid
      <4> TAKE o \in T
      <4>1. o = x \/ o \in rest
        OBVIOUS
      <4> QED
        BY <4>1, <2>1, <2>2, <2>4, <1>6
    <3>2. Top(T, x)
      BY <3>1, <1>5
    <3> QED
      BY <3>2, <1>4
  <2> QED
    BY <2>2, <2>3, <2>4, <1>6
<1> QED
  BY <1>9, <1>10

Sorted(s) == \A i, j \in DOMAIN s : i < j => s[i].uid <= s[j].uid

\* So finitely many objects can be put in the order of their identifiers: all
\* but one with the greatest in order, and that one behind them.
LEMMA OrderExists ==
    ASSUME NEW objs, HaveUids(objs)
    PROVE  \E s \in Injection(1..Cardinality(objs), objs) : Sorted(s)
<1> DEFINE Orders(T, s) == s \in Injection(1..Cardinality(T), T) /\ Sorted(s)
           Fails(T) == T \in SUBSET objs /\ ~\E s : Orders(T, s)
           sizes == {k \in Nat : \E T : Fails(T) /\ Cardinality(T) = k}
<1> SUFFICES ASSUME Fails(objs) PROVE FALSE
  OBVIOUS
<1>1. \A T \in SUBSET objs : IsFiniteSet(T) /\ Cardinality(T) \in Nat
  BY FS_Subset, FS_CardinalityType DEF HaveUids
<1>2. sizes # {} /\ sizes \subseteq Nat
  BY <1>1
<1>3. PICK k \in sizes : \A j \in sizes : k <= j
  <2> HIDE DEF sizes
  <2> QED
    BY <1>2, LeastNumber
<1>4. PICK T : Fails(T) /\ Cardinality(T) = k
  OBVIOUS
<1>5. T # {}
  <2> SUFFICES ASSUME T = {} PROVE FALSE
    OBVIOUS
  <2>1. Cardinality(T) = 0 /\ 1..0 = {}
    BY FS_EmptySet
  <2> DEFINE none == [i \in 1..0 |-> i]
  <2>2. none \in [1..0 -> T] /\ IsInjective(none) /\ Sorted(none)
    BY DEF IsInjective, Sorted
  <2> QED
    BY <2>1, <2>2, <1>4 DEF Injection
<1>6. HaveUids(T) /\ T \in SUBSET objs /\ IsFiniteSet(T)
  BY <1>1, <1>4 DEF HaveUids
<1>7. PICK m \in T : \A o \in T : o.uid <= m.uid
  BY <1>5, <1>6, GreatestUid
<1> DEFINE rest == T \ {m}
<1>8. rest \in SUBSET objs /\ Cardinality(rest) = k - 1 /\ k \in Nat /\ k - 1 \in Nat
  <2>1. Cardinality(rest) = Cardinality(T) - 1
    BY <1>6, <1>7, FS_RemoveElement
  <2>2. rest \in SUBSET objs /\ Cardinality(rest) \in Nat
    BY <1>1, <1>6
  <2> QED
    BY <2>1, <2>2, <1>4
<1>9. ~Fails(rest)
  <2>1. k - 1 \notin sizes
    <3> HIDE DEF sizes
    <3> QED
      BY <1>3, <1>8
  <2> HIDE DEF Fails, rest
  <2> QED
    BY <2>1, <1>8
<1>10. PICK s : Orders(rest, s)
  BY <1>8, <1>9
<1> DEFINE t == [i \in 1..k |-> IF i = k THEN m ELSE s[i]]
<1>11. s \in [1..(k - 1) -> rest] /\ IsInjective(s) /\ Sorted(s)
  BY <1>8, <1>10 DEF Injection
<1>12. t[k] = m /\ \A i \in 1..k : i # k => i \in 1..(k - 1) /\ t[i] = s[i] /\ s[i] \in rest
  BY <1>8, <1>11
<1>13. t \in [1..k -> T]
  BY <1>12
<1> HIDE DEF t
<1>14. IsInjective(t)
  <2> SUFFICES ASSUME NEW i \in 1..k, NEW j \in 1..k, t[i] = t[j] PROVE i = j
    BY <1>13 DEF IsInjective
  <2>1. CASE i = k \/ j = k
    BY <2>1, <1>12
  <2>2. CASE i # k /\ j # k
    BY <2>2, <1>11, <1>12 DEF IsInjective
  <2> QED
    BY <2>1, <2>2
<1>15. Sorted(t)
  <2> SUFFICES ASSUME NEW i \in 1..k, NEW j \in 1..k, i < j PROVE t[i].uid <= t[j].uid
    BY <1>13 DEF Sorted
  <2>1. CASE j = k
    BY <2>1, <1>7, <1>12, <1>13
  <2>2. CASE j # k
    <3>1. i # k
      BY <2>2, <1>8
    <3> QED
      BY <2>2, <3>1, <1>11, <1>12 DEF Sorted
  <2> QED
    BY <2>1, <2>2
<1>16. Orders(T, t)
  BY <1>4, <1>13, <1>14, <1>15 DEF Injection
<1> QED
  BY <1>4, <1>16

\* What a selection returns in order has all the objects, each once.
LEMMA ByUidOrders ==
    ASSUME NEW objs, HaveUids(objs)
    PROVE  LET s == ByUid(objs) IN
           /\ Len(s) \in Nat /\ Len(s) = Cardinality(objs)
           /\ s \in Seq(objs) /\ DOMAIN s = 1..Len(s)
           /\ ToSet(s) = objs
           /\ IsInjective(s) /\ Sorted(s)
<1> DEFINE s == ByUid(objs)
           n == Cardinality(objs)
<1>1. s \in Injection(1..n, objs) /\ Sorted(s)
  <2>1. \E z \in Injection(1..n, objs) : Sorted(z)
    BY OrderExists
  <2> QED
    BY <2>1 DEF ByUid, Sorted
<1> HIDE DEF s
<1>2. n \in Nat /\ IsFiniteSet(objs)
  BY FS_CardinalityType DEF HaveUids
<1>3. s \in [1..n -> objs] /\ IsInjective(s)
  BY <1>1 DEF Injection
<1>4. s \in Seq(objs) /\ Len(s) = n /\ DOMAIN s = 1..n
  BY <1>2, <1>3
<1>5. s \in Surjection(1..n, objs)
  <2>1. Cardinality(1..n) = n
    BY <1>2, FS_Interval
  <2> QED
    BY <2>1, <1>1, <1>2, FS_Injection
<1>6. ToSet(s) = objs
  BY <1>3, <1>5 DEF ToSet, Surjection
<1> QED
  BY <1>1, <1>2, <1>3, <1>4, <1>6 DEF s

UidsDiffer(objs) == \A o, p \in objs : o.uid = p.uid => o = p
Below(objs, o) == {p \in objs : p.uid < o.uid}

\* The place of an object among others, if their identifiers differ, is that of
\* its identifier.
LEMMA Rank ==
    ASSUME NEW objs, HaveUids(objs), UidsDiffer(objs),
           NEW i \in DOMAIN ByUid(objs)
    PROVE  /\ Below(objs, ByUid(objs)[i]) = {ByUid(objs)[j] : j \in 1..(i - 1)}
           /\ Cardinality(Below(objs, ByUid(objs)[i])) = i - 1
<1> DEFINE s == ByUid(objs)
           n == Len(s)
<1>1. /\ n \in Nat /\ s \in [1..n -> objs] /\ ToSet(s) = objs
      /\ IsInjective(s) /\ Sorted(s) /\ i \in 1..n
      /\ \A o \in objs : o.uid \in Int
  BY ByUidOrders DEF HaveUids
<1> HIDE DEF s
<1>2. \A j, k \in 1..n : s[j].uid < s[k].uid <=> j < k
  <2> TAKE j, k \in 1..n
  <2>1. j \in Int /\ k \in Int /\ s[j] \in objs /\ s[k] \in objs
        /\ s[j].uid \in Int /\ s[k].uid \in Int
    BY <1>1
  <2>2. CASE j = k
    BY <2>1, <2>2
  <2>3. CASE j < k
    <3>1. s[j].uid <= s[k].uid
      BY <1>1, <2>3 DEF Sorted
    <3>2. s[j] # s[k]
      BY <1>1, <2>1, <2>3 DEF IsInjective
    <3>3. s[j].uid # s[k].uid
      BY <2>1, <3>2 DEF UidsDiffer
    <3> QED
      BY <2>1, <2>3, <3>1, <3>3
  <2>4. CASE k < j
    <3>1. s[k].uid <= s[j].uid
      BY <1>1, <2>4 DEF Sorted
    <3> QED
      BY <2>1, <2>4, <3>1
  <2> QED
    BY <2>1, <2>2, <2>3, <2>4
<1>3. 1..(i - 1) \subseteq 1..n /\ \A j \in 1..n : j < i <=> j \in 1..(i - 1)
  BY <1>1
<1> DEFINE below == Below(objs, s[i])
<1>4. below = {s[j] : j \in 1..(i - 1)}
  <2>1. ASSUME NEW o \in below PROVE \E j \in 1..(i - 1) : o = s[j]
    <3>1. o \in objs /\ o.uid < s[i].uid
      BY DEF Below
    <3>2. PICK j \in 1..n : o = s[j]
      BY <3>1, <1>1 DEF ToSet
    <3> QED
      BY <3>1, <3>2, <1>1, <1>2, <1>3
  <2>2. ASSUME NEW j \in 1..(i - 1) PROVE s[j] \in below
    BY <1>1, <1>2, <1>3 DEF Below
  <2> QED
    BY <2>1, <2>2
<1> DEFINE first == [j \in 1..(i - 1) |-> s[j]]
<1>5. first \in Bijection(1..(i - 1), below)
  <2>1. first \in [1..(i - 1) -> below]
    BY <1>4
  <2>2. IsInjective(first)
    BY <1>1, <1>3 DEF IsInjective
  <2>3. \A o \in below : \E j \in 1..(i - 1) : first[j] = o
    BY <1>4
  <2> HIDE DEF first, below
  <2> QED
    BY <2>1, <2>2, <2>3 DEF Bijection, Injection, Surjection
<1>6. IsFiniteSet(1..(i - 1)) /\ Cardinality(1..(i - 1)) = i - 1
  <2>1. i - 1 = IF 1 > i - 1 THEN 0 ELSE (i - 1) - 1 + 1
    BY <1>1
  <2>2. 1 \in Int /\ i - 1 \in Int
    BY <1>1
  <2> QED
    BY <2>1, <2>2, FS_Interval
<1>7. Cardinality(below) = i - 1
  BY <1>5, <1>6, FS_Bijection DEF ExistsBijection
<1> QED
  BY <1>4, <1>7 DEF s

-----------------------------------------------------------------------------
(* Loops, and the filters of a query. *)

\* What holds of 0 and goes from each number to the next holds up to any.
LEMMA UpTo ==
    ASSUME NEW n \in Nat, NEW good, 0 \in good,
           \A i \in 1..n : i - 1 \in good => i \in good
    PROVE  0..n \subseteq good
<1> DEFINE bad == (0..n) \ good
<1> SUFFICES ASSUME bad # {} PROVE FALSE
  OBVIOUS
<1>1. PICK i \in bad : \A j \in bad : i <= j
  <2>1. bad \subseteq Nat
    OBVIOUS
  <2> HIDE DEF bad
  <2> QED
    BY <2>1, LeastNumber
<1>2. i \in 1..n /\ i - 1 \in 0..n /\ ~(i <= i - 1)
  OBVIOUS
<1>3. i - 1 \notin bad
  <2> HIDE DEF bad
  <2> QED
    BY <1>1, <1>2
<1> QED
  BY <1>2, <1>3

Passes(n, X) == [1..n -> [X -> X]]
LoopValues(f, n, X, first, pass) ==
    f \in [0..n -> X] /\ f[0] = first /\ \A i \in 1..n : f[i] = pass[i][f[i - 1]]

\* A loop has a value after each of its passes.
LEMMA LoopDefined ==
    ASSUME NEW n \in Nat, NEW X, NEW first \in X, NEW pass \in Passes(n, X)
    PROVE  \E f : LoopValues(f, n, X, first, pass)
<1> USE DEF Passes
<1> DEFINE Gives(f, m) == LoopValues(f, m, X, first, pass)
           good == {m \in 0..n : \E f : Gives(f, m)}
<1>1. 0 \in good
  <2> DEFINE f == [i \in 0..0 |-> first]
  <2>1. Gives(f, 0) /\ 0 \in 0..n
    BY DEF LoopValues
  <2> HIDE DEF Gives
  <2> QED
    BY <2>1
<1>2. ASSUME NEW m \in 1..n, m - 1 \in good PROVE m \in good
  <2>1. PICK f : Gives(f, m - 1)
    BY <1>2
  <2> DEFINE g == [i \in 0..m |-> IF i = m THEN pass[m][f[m - 1]] ELSE f[i]]
  <2>2. m - 1 \in 0..(m - 1) /\ f[m - 1] \in X /\ pass[m][f[m - 1]] \in X
    BY <2>1 DEF LoopValues
  <2>3. g[m] = pass[m][f[m - 1]] /\ \A i \in 0..(m - 1) : g[i] = f[i]
    OBVIOUS
  <2>4. g \in [0..m -> X]
    BY <2>1, <2>2 DEF LoopValues
  <2> HIDE DEF g
  <2>5. g[0] = first
    BY <2>1, <2>3 DEF LoopValues
  <2>6. ASSUME NEW i \in 1..m PROVE g[i] = pass[i][g[i - 1]]
    <3>1. CASE i = m
      BY <3>1, <2>2, <2>3
    <3>2. CASE i # m
      <4>1. i \in 1..(m - 1) /\ i - 1 \in 0..(m - 1) /\ i \in 0..(m - 1)
        BY <3>2
      <4>2. g[i] = f[i] /\ g[i - 1] = f[i - 1]
        BY <4>1, <2>3
      <4> QED
        BY <2>1, <4>1, <4>2 DEF LoopValues
    <3> QED
      BY <3>1, <3>2
  <2>7. Gives(g, m)
    BY <2>4, <2>5, <2>6 DEF LoopValues
  <2> QED
    BY <2>7
<1>3. n \in good
  <2> HIDE DEF good
  <2>1. 0..n \subseteq good
    BY <1>1, <1>2, UpTo
  <2> QED
    BY <2>1
<1> QED
  BY <1>3

\* Filters are records in a list.
Filters(fs) == fs \in Seq(ToSet(fs))
StdOf(fs) == {Simple(f) : f \in ToSet(fs)}

\* The filters of a list that are kept, as the datasource gets them, are those
\* wanted, in as many places, and on different fields if the filters are.
LEMMA StdOfThose ==
    ASSUME NEW fs, Filters(fs), NEW those
    PROVE  /\ AsStd(fs, those) \in Seq(StdOf(fs))
           /\ ToSet(AsStd(fs, those)) = {Simple(f) : f \in ToSet(fs) \cap those}
           /\ FieldsDiffer(fs) => FieldsDiffer(AsStd(fs, those))
<1> DEFINE n == Len(fs)
           X == Seq(StdOf(fs))
           Pass(s, i) == IF fs[i] \in those THEN Append(s, Simple(fs[i])) ELSE s
           pass == [i \in 1..n |-> [s \in X |-> Pass(s, i)]]
           Std(f) == [i \in 0..n |-> IF i = 0 THEN << >>
                        ELSE IF fs[i] \in those THEN Append(f[i - 1], Simple(fs[i]))
                        ELSE f[i - 1]]
<1>1. n \in Nat /\ DOMAIN fs = 1..n /\ \A i \in 1..n : Simple(fs[i]) \in StdOf(fs)
  BY DEF Filters, StdOf, ToSet
<1>2. \E f : f = Std(f)
  <2>1. << >> \in X
    OBVIOUS
  <2>2. ASSUME NEW i \in 1..n, NEW s \in X PROVE Pass(s, i) \in X
    BY <1>1
  <2>3. pass \in Passes(n, X)
    <3> HIDE DEF Pass, X
    <3> QED
      BY <2>2 DEF Passes
  <2>4. PICK f : LoopValues(f, n, X, << >>, pass)
    <3> DEFINE none == << >>
    <3>1. n \in Nat /\ none \in X
      BY <1>1, <2>1
    <3> HIDE DEF X, pass, n, none
    <3>2. \E f : LoopValues(f, n, X, none, pass)
      BY <2>3, <3>1, LoopDefined
    <3> QED
      BY <3>2 DEF none
  <2>5. ASSUME NEW i \in 0..n PROVE f[i] = Std(f)[i]
    <3>1. CASE i = 0
      BY <3>1, <2>4 DEF LoopValues
    <3>2. CASE i # 0
      <4>1. i \in 1..n /\ i - 1 \in 0..n /\ f[i - 1] \in X
        BY <3>2, <2>4, <1>1 DEF LoopValues
      <4>2. f[i] = Pass(f[i - 1], i)
        BY <4>1, <2>4 DEF LoopValues
      <4> QED
        BY <3>2, <4>2
    <3> QED
      BY <3>1, <3>2
  <2>6. f = Std(f)
    <3>1. f = [i \in 0..n |-> f[i]]
      BY <2>4 DEF LoopValues
    <3> QED
      BY <2>5, <3>1
  <2> QED
    BY <2>6
<1> DEFINE std == CHOOSE f : f = Std(f)
<1>3. std = Std(std) /\ AsStd(fs, those) = std[n]
  BY <1>2 DEF AsStd
<1> HIDE DEF std
<1>4. std[0] = << >> /\ \A i \in 1..n : std[i] = Pass(std[i - 1], i)
  <2>1. \A i \in 0..n : std[i] = Std(std)[i]
    BY <1>3
  <2> QED
    BY <2>1, <1>1
<1> DEFINE Done(i) == {Simple(fs[j]) : j \in {j \in 1..i : fs[j] \in those}}
           Holding(i) == /\ std[i] \in X
                         /\ ToSet(std[i]) = Done(i)
                         /\ FieldsDiffer(fs) => FieldsDiffer(std[i])
           good == {i \in 0..n : Holding(i)}
<1>5. 0 \in good
  <2>1. Done(0) = {} /\ ToSet(<< >>) = {} /\ FieldsDiffer(<< >>)
    BY DEF ToSet, FieldsDiffer
  <2>2. Holding(0) /\ 0 \in 0..n
    BY <2>1, <1>1, <1>4
  <2> HIDE DEF Holding
  <2> QED
    BY <2>2
<1>6. ASSUME NEW i \in 1..n, i - 1 \in good PROVE i \in good
  <2> DEFINE s == std[i - 1]
             f == Simple(fs[i])
  <2>1. Holding(i - 1) /\ std[i] = Pass(s, i) /\ f \in StdOf(fs)
    BY <1>1, <1>4, <1>6
  <2>2. CASE fs[i] \notin those
    <3>1. std[i] = s
      BY <2>1, <2>2
    <3>2. Done(i) = Done(i - 1)
      <4>1. \A j \in 1..i : fs[j] \in those => j \in 1..(i - 1)
        BY <2>2
      <4>2. \A j \in 1..(i - 1) : j \in 1..i
        OBVIOUS
      <4> QED
        BY <4>1, <4>2
    <3> QED
      BY <2>1, <3>1, <3>2
  <2>3. CASE fs[i] \in those
    <3> DEFINE t == Append(s, f)
    <3>1. std[i] = t /\ s \in X
      BY <2>1, <2>3
    <3>2. /\ t \in X /\ Len(t) = Len(s) + 1 /\ Len(s) \in Nat
          /\ DOMAIN s = 1..Len(s) /\ DOMAIN t = 1..(Len(s) + 1)
          /\ t[Len(s) + 1] = f /\ \A k \in 1..Len(s) : t[k] = s[k]
      BY <2>1, <3>1
    <3> HIDE DEF t
    <3>3. ToSet(t) = ToSet(s) \cup {f}
      <4>1. \A k \in DOMAIN t : k \in DOMAIN s \/ k = Len(s) + 1
        BY <3>2
      <4>2. \A k \in DOMAIN s : k \in DOMAIN t
        BY <3>2
      <4>3. Len(s) + 1 \in DOMAIN t
        BY <3>2
      <4> QED
        BY <4>1, <4>2, <4>3, <3>2 DEF ToSet
    <3>4. Done(i) = Done(i - 1) \cup {f}
      <4>1. \A j \in 1..i : j \in 1..(i - 1) \/ j = i
        OBVIOUS
      <4>2. \A j \in 1..(i - 1) : j \in 1..i
        OBVIOUS
      <4>3. i \in 1..i
        OBVIOUS
      <4> QED
        BY <4>1, <4>2, <4>3, <2>3
    <3>5. FieldsDiffer(fs) => FieldsDiffer(t)
      <4> SUFFICES ASSUME FieldsDiffer(fs), NEW k \in DOMAIN t, NEW l \in DOMAIN t, k # l
                   PROVE  t[k].field # t[l].field
        BY DEF FieldsDiffer
      <4>1. \A m \in DOMAIN s : s[m].field # f.field
        <5> TAKE m \in DOMAIN s
        <5>1. s[m] \in Done(i - 1)
          BY <2>1 DEF ToSet
        <5>2. PICK j \in 1..(i - 1) : s[m] = Simple(fs[j])
          BY <5>1
        <5>3. j # i /\ j \in 1..n /\ i \in 1..n
          BY <1>1
        <5>4. fs[j].field # fs[i].field
          BY <5>3, <1>1 DEF FieldsDiffer
        <5> QED
          BY <5>2, <5>4 DEF Simple
      <4>2. FieldsDiffer(s)
        BY <2>1
      <4>3. CASE k \in DOMAIN s /\ l \in DOMAIN s
        BY <4>2, <4>3, <3>2 DEF FieldsDiffer
      <4>4. CASE k \notin DOMAIN s
        <5>1. k = Len(s) + 1 /\ l \in DOMAIN s
          BY <4>4, <3>2
        <5> QED
          BY <5>1, <4>1, <3>2
      <4>5. CASE l \notin DOMAIN s
        <5>1. l = Len(s) + 1 /\ k \in DOMAIN s
          BY <4>5, <3>2
        <5> QED
          BY <5>1, <4>1, <3>2
      <4> QED
        BY <4>3, <4>4, <4>5
    <3> QED
      BY <2>1, <3>1, <3>2, <3>3, <3>4, <3>5
  <2> QED
    BY <2>2, <2>3
<1>7. Holding(n)
  <2> HIDE DEF Holding
  <2>1. 0..n \subseteq good
    <3> HIDE DEF good
    <3> QED
      BY <1>1, <1>5, <1>6, UpTo
  <2> QED
    BY <2>1, <1>1
<1>8. Done(n) = {Simple(f) : f \in ToSet(fs) \cap those}
  BY <1>1 DEF ToSet
<1> QED
  BY <1>3, <1>7, <1>8

\* A filter that is taken from a list leaves the others.
LEMMA RemoveAtKeeps ==
    ASSUME NEW F, NEW s \in Seq(F), NEW i \in 1..Len(s)
    PROVE  RemoveAt(s, i) \in Seq(F)
<1>1. Len(s) \in Nat /\ \A j \in 1..Len(s) : s[j] \in F
  OBVIOUS
<1>2. SubSeq(s, 1, i - 1) \in Seq(F)
  <2>1. 1 \in Int /\ i - 1 \in Int /\ \A j \in 1..(i - 1) : s[j] \in F
    BY <1>1
  <2> QED
    BY <2>1, SubSeqProperties
<1>3. SubSeq(s, i + 1, Len(s)) \in Seq(F)
  <2>1. i + 1 \in Int /\ Len(s) \in Int /\ \A j \in (i + 1)..Len(s) : s[j] \in F
    BY <1>1
  <2> QED
    BY <2>1, SubSeqProperties
<1> QED
  BY <1>2, <1>3, ConcatProperties DEF RemoveAt

\* Removing duplicates adds no filter, and removes none if they are on
\* different fields and no one of them is masked.
LEMMA DedupKeeps ==
    ASSUME NEW fs, Filters(fs)
    PROVE  /\ Dedup(fs) \in Seq(ToSet(fs))
           /\ FieldsDiffer(fs) /\ ~Masked(fs) => Dedup(fs) = fs
<1> DEFINE n == Len(fs)
           F == ToSet(fs)
           P == UNION {Parts(f) : f \in F}
           X == [left : Seq(F), seen : SUBSET P]
           first == [left |-> fs, seen |-> {}]
           Pass(s, i) ==
                IF i > Len(s.left) THEN s
                ELSE [left |-> IF Duplicate(s.left, i, s.seen)
                               THEN RemoveAt(s.left, i) ELSE s.left,
                      seen |-> s.seen \cup Parts(s.left[i])]
           pass == [i \in 1..n |-> [s \in X |-> Pass(s, i)]]
           After(f) == [i \in 0..n |-> IF i = 0 THEN first ELSE Pass(f[i - 1], i)]
<1>1. n \in Nat /\ DOMAIN fs = 1..n /\ fs \in Seq(F)
  BY DEF Filters
<1>2. first \in X
  BY <1>1
<1>3. ASSUME NEW i \in 1..n, NEW s \in X PROVE Pass(s, i) \in X
  <2>1. CASE i > Len(s.left)
    BY <2>1
  <2>2. CASE ~(i > Len(s.left))
    <3>1. s.left \in Seq(F) /\ Len(s.left) \in Nat /\ i \in 1..Len(s.left)
          /\ s.seen \in SUBSET P
      BY <2>2
    <3>2. RemoveAt(s.left, i) \in Seq(F)
      BY <3>1, RemoveAtKeeps
    <3>3. s.left[i] \in F
      BY <3>1
    <3>4. Parts(s.left[i]) \subseteq P
      BY <3>3
    <3> HIDE DEF F, P
    <3> QED
      BY <2>2, <3>1, <3>2, <3>4
  <2> QED
    BY <2>1, <2>2
<1>4. \E f : f = After(f)
  <2>1. pass \in Passes(n, X)
    <3> HIDE DEF Pass, X
    <3> QED
      BY <1>3 DEF Passes
  <2>2. PICK f : LoopValues(f, n, X, first, pass)
    <3>1. n \in Nat
      BY <1>1
    <3> HIDE DEF X, pass, n, first
    <3> QED
      BY <1>2, <2>1, <3>1, LoopDefined
  <2> HIDE DEF X, first, Pass, F
  <2>3. ASSUME NEW i \in 0..n PROVE f[i] = After(f)[i]
    <3>1. CASE i = 0
      BY <3>1, <2>2 DEF LoopValues
    <3>2. CASE i # 0
      <4>1. i \in 1..n /\ i - 1 \in 0..n /\ f[i - 1] \in X
        BY <3>2, <2>2, <1>1 DEF LoopValues
      <4>2. f[i] = Pass(f[i - 1], i)
        BY <4>1, <2>2 DEF LoopValues
      <4> QED
        BY <3>2, <4>2
    <3> QED
      BY <3>1, <3>2
  <2>4. f = After(f)
    <3>1. f = [i \in 0..n |-> f[i]]
      BY <2>2 DEF LoopValues
    <3> QED
      BY <2>3, <3>1
  <2> QED
    BY <2>4
<1> DEFINE after == CHOOSE f : f = After(f)
<1>5. after = After(after)
  <2> HIDE DEF After
  <2> QED
    BY <1>4
<1>6. Dedup(fs) = after[n].left
  BY <1>1 DEF Dedup
<1> HIDE DEF after
<1>7. after[0] = first /\ \A i \in 1..n : after[i] = Pass(after[i - 1], i)
  <2> HIDE DEF first, Pass, F
  <2>1. \A i \in 0..n : after[i] = After(after)[i]
    BY <1>5
  <2> QED
    BY <2>1, <1>1
<1> DEFINE Seen(i) == UNION {Parts(fs[j]) : j \in 1..i}
           Holding(i) == /\ after[i] \in X
                         /\ FieldsDiffer(fs) /\ ~Masked(fs) =>
                              after[i].left = fs /\ after[i].seen \subseteq Seen(i)
           good == {i \in 0..n : Holding(i)}
<1>8. 0 \in good
  BY <1>1, <1>2, <1>7
<1>9. ASSUME NEW i \in 1..n, i - 1 \in good PROVE i \in good
  <2> DEFINE s == after[i - 1]
  <2>1. s \in X /\ after[i] = Pass(s, i)
    BY <1>7, <1>9
  <2>2. after[i] \in X
    <3> HIDE DEF X, Pass
    <3> QED
      BY <2>1, <1>3
  <2>3. ASSUME FieldsDiffer(fs), ~Masked(fs)
        PROVE  after[i].left = fs /\ after[i].seen \subseteq Seen(i)
    <3>1. s.left = fs /\ s.seen \subseteq Seen(i - 1) /\ ~(i > Len(fs))
      BY <1>1, <1>9, <2>3
    <3>2. ~Duplicate(fs, i, s.seen)
      <4> SUFFICES ASSUME Parts(fs[i]) \subseteq s.seen PROVE FALSE
        BY DEF Duplicate
      <4>1. fs[i] \in F /\ \A j \in 1..(i - 1) : fs[j] \in F \ {fs[i]}
        <5>1. ASSUME NEW j \in 1..(i - 1) PROVE fs[j] \in F /\ fs[j].field # fs[i].field
          BY <1>1, <2>3 DEF FieldsDiffer, ToSet
        <5> QED
          BY <5>1, <1>1 DEF ToSet
      <4> HIDE DEF F
      <4>2. Seen(i - 1) \subseteq UNION {Parts(g) : g \in F \ {fs[i]}}
        BY <4>1
      <4>3. Parts(fs[i]) \subseteq UNION {Parts(g) : g \in F \ {fs[i]}}
        <5> HIDE DEF Seen
        <5> QED
          BY <3>1, <4>2
      <4> QED
        BY <4>1, <4>3, <2>3 DEF Masked, F
    <3>3. after[i] = [left |-> fs, seen |-> s.seen \cup Parts(fs[i])]
      <4> HIDE DEF X
      <4> QED
        BY <2>1, <3>1, <3>2
    <3>4. Seen(i - 1) \cup Parts(fs[i]) \subseteq Seen(i)
      <4>1. i \in 1..i /\ \A j \in 1..(i - 1) : j \in 1..i
        OBVIOUS
      <4> QED
        BY <4>1
    <3> HIDE DEF Seen
    <3> QED
      BY <3>1, <3>3, <3>4
  <2> QED
    BY <2>2, <2>3
<1>10. Holding(n)
  <2> HIDE DEF Holding
  <2>1. 0..n \subseteq good
    <3> HIDE DEF good
    <3> QED
      BY <1>1, <1>8, <1>9, UpTo
  <2> QED
    BY <2>1, <1>1
<1> QED
  BY <1>6, <1>10

\* The filters of a query that can be answered get to the datasource, except
\* duplicates, and all of them if they are on different fields and none is masked.
LEMMA StdFiltersOf ==
    ASSUME NEW fs, Filters(fs)
    PROVE  /\ Filters(StdFilters(fs)) /\ ToSet(StdFilters(fs)) \subseteq StdOf(fs)
           /\ FieldsDiffer(fs) /\ ~Masked(fs) /\ ~Unanswerable(fs) =>
                FieldsDiffer(StdFilters(fs)) /\ ToSet(StdFilters(fs)) = StdOf(fs)
<1> DEFINE plain == {f \in ToSet(fs) : Plain(f)}
           onUid == {f \in ToSet(fs) : OnUid(f)}
           a == AsStd(fs, plain)
           b == AsStd(fs, onUid)
           c == a \o b
<1>1. /\ a \in Seq(StdOf(fs)) /\ ToSet(a) = {Simple(f) : f \in plain}
      /\ FieldsDiffer(fs) => FieldsDiffer(a)
  <2>1. ToSet(fs) \cap plain = plain
    OBVIOUS
  <2> HIDE DEF plain
  <2> QED
    BY <2>1, StdOfThose
<1>2. /\ b \in Seq(StdOf(fs)) /\ ToSet(b) = {Simple(f) : f \in onUid}
      /\ FieldsDiffer(fs) => FieldsDiffer(b)
  <2>1. ToSet(fs) \cap onUid = onUid
    OBVIOUS
  <2> HIDE DEF onUid
  <2> QED
    BY <2>1, StdOfThose
<1> HIDE DEF a, b
<1>3. /\ c \in Seq(StdOf(fs)) /\ DOMAIN c = 1..(Len(a) + Len(b))
      /\ Len(a) \in Nat /\ Len(b) \in Nat
      /\ DOMAIN a = 1..Len(a) /\ DOMAIN b = 1..Len(b)
      /\ \A i \in 1..Len(a) : c[i] = a[i]
      /\ \A i \in (Len(a) + 1)..(Len(a) + Len(b)) : c[i] = b[i - Len(a)]
  <2> DEFINE F == StdOf(fs)
  <2>1. a \in Seq(F) /\ b \in Seq(F)
    BY <1>1, <1>2
  <2> HIDE DEF F
  <2>2. /\ c \in Seq(F) /\ Len(c) = Len(a) + Len(b)
        /\ \A i \in 1..(Len(a) + Len(b)) :
                c[i] = IF i <= Len(a) THEN a[i] ELSE b[i - Len(a)]
    BY <2>1, ConcatProperties
  <2> HIDE DEF c
  <2>3. /\ Len(a) \in Nat /\ Len(b) \in Nat
        /\ DOMAIN a = 1..Len(a) /\ DOMAIN b = 1..Len(b) /\ DOMAIN c = 1..Len(c)
    BY <2>1, <2>2
  <2> QED
    BY <2>2, <2>3 DEF F
<1> HIDE DEF c
<1>4. ToSet(c) = ToSet(a) \cup ToSet(b)
  <2>1. ASSUME NEW i \in DOMAIN c PROVE c[i] \in ToSet(a) \cup ToSet(b)
    <3>1. i \in 1..Len(a) \/ (i \in (Len(a) + 1)..(Len(a) + Len(b)) /\ i - Len(a) \in 1..Len(b))
      BY <1>3
    <3> QED
      BY <3>1, <1>3 DEF ToSet
  <2>2. ASSUME NEW i \in DOMAIN a PROVE a[i] \in ToSet(c)
    <3>1. i \in DOMAIN c /\ c[i] = a[i]
      BY <1>3
    <3> QED
      BY <3>1 DEF ToSet
  <2>3. ASSUME NEW i \in DOMAIN b PROVE b[i] \in ToSet(c)
    <3>1. i + Len(a) \in DOMAIN c /\ c[i + Len(a)] = b[(i + Len(a)) - Len(a)]
          /\ (i + Len(a)) - Len(a) = i
      BY <1>3
    <3> QED
      BY <3>1 DEF ToSet
  <2> QED
    BY <2>1, <2>2, <2>3 DEF ToSet
<1>5. Filters(c) /\ ToSet(c) \subseteq StdOf(fs)
  <2>1. \A i \in DOMAIN c : c[i] \in ToSet(c)
    BY DEF ToSet
  <2>2. c \in [1..Len(c) -> ToSet(c)] /\ Len(c) \in Nat
    BY <2>1, <1>3
  <2>3. c \in Seq(ToSet(c))
    BY <2>2
  <2> QED
    BY <2>3, <1>3 DEF Filters, ToSet
<1>6. StdFilters(fs) = Dedup(c)
  BY DEF StdFilters, a, b, c
<1>7. Filters(StdFilters(fs)) /\ ToSet(StdFilters(fs)) \subseteq ToSet(c)
  <2> DEFINE d == Dedup(c)
  <2>1. d \in Seq(ToSet(c))
    BY <1>5, DedupKeeps
  <2> HIDE DEF d
  <2>2. \A i \in DOMAIN d : d[i] \in ToSet(d)
    BY DEF ToSet
  <2>3. d \in [1..Len(d) -> ToSet(d)] /\ Len(d) \in Nat
    BY <2>1, <2>2
  <2>4. d \in Seq(ToSet(d))
    BY <2>3
  <2>5. ToSet(d) \subseteq ToSet(c)
    BY <2>1 DEF ToSet
  <2> QED
    BY <2>4, <2>5, <1>6 DEF Filters, d
<1>8. ASSUME FieldsDiffer(fs), ~Masked(fs), ~Unanswerable(fs)
      PROVE  FieldsDiffer(StdFilters(fs)) /\ ToSet(StdFilters(fs)) = StdOf(fs)
  <2>1. FieldsDiffer(c)
    <3> SUFFICES ASSUME NEW i \in DOMAIN c, NEW j \in DOMAIN c, i < j
                 PROVE  c[i].field # c[j].field
      BY <1>3 DEF FieldsDiffer
    <3>1. \A f \in ToSet(a) : f.field \notin References
      BY <1>1 DEF Plain, Simple
    <3>2. \A f \in ToSet(b) : f.field \in References
      BY <1>2 DEF OnUid, Simple
    <3>3. CASE j <= Len(a)
      <4>1. i \in DOMAIN a /\ j \in DOMAIN a /\ c[i] = a[i] /\ c[j] = a[j] /\ i # j
        BY <3>3, <1>3
      <4> QED
        BY <4>1, <1>1, <1>8 DEF FieldsDiffer
    <3>4. CASE ~(j <= Len(a))
      <4> DEFINE k == j - Len(a)
      <4>1. k \in DOMAIN b /\ c[j] = b[k]
        BY <3>4, <1>3
      <4>2. CASE i <= Len(a)
        <5>1. c[i] = a[i] /\ i \in DOMAIN a
          BY <4>2, <1>3
        <5>2. c[i] \in ToSet(a) /\ c[j] \in ToSet(b)
          BY <4>1, <5>1 DEF ToSet
        <5> QED
          BY <5>2, <3>1, <3>2
      <4>3. CASE ~(i <= Len(a))
        <5> DEFINE l == i - Len(a)
        <5>1. l \in DOMAIN b /\ c[i] = b[l] /\ k # l
          BY <4>3, <1>3
        <5> HIDE DEF k, l
        <5> QED
          BY <4>1, <5>1, <1>2, <1>8 DEF FieldsDiffer
      <4> QED
        BY <4>2, <4>3
    <3> QED
      BY <3>3, <3>4
  <2>3. plain \cup onUid = ToSet(fs)
    BY <1>8 DEF Unanswerable, Relational, ToSet
  <2>4. ToSet(c) = StdOf(fs)
    BY <2>3, <1>1, <1>2, <1>4 DEF StdOf
  <2>5. ~Masked(c)
    <3> SUFFICES ASSUME NEW h \in ToSet(c),
                        Parts(h) \subseteq UNION {Parts(g) : g \in ToSet(c) \ {h}}
                 PROVE  FALSE
      BY DEF Masked
    <3>1. PICK f \in ToSet(fs) : h = Simple(f)
      BY <2>4 DEF StdOf
    <3>2. \A g : Parts(Simple(g)) = Parts(g)
      BY DEF Parts, ValuePart, Simple
    <3>3. ASSUME NEW k \in ToSet(c) \ {h}
          PROVE  \E g \in ToSet(fs) \ {f} : Parts(k) = Parts(g)
      BY <2>4, <3>1, <3>2 DEF StdOf
    <3>4. Parts(f) \subseteq UNION {Parts(g) : g \in ToSet(fs) \ {f}}
      BY <3>1, <3>2, <3>3
    <3> QED
      BY <3>4, <1>8 DEF Masked
  <2>2. StdFilters(fs) = c
    BY <2>1, <2>5, <1>5, <1>6, DedupKeeps
  <2> QED
    BY <2>1, <2>2, <2>4
<1> QED
  BY <1>5, <1>7, <1>8

\* What satisfies all the filters is found ...
LEMMA AskedIsFound ==
    ASSUME NEW objs, NEW c, NEW fs, Filters(fs)
    PROVE  Asked(objs, c, fs) \subseteq FindAll(objs, c, StdFilters(fs))
<1> DEFINE std == StdFilters(fs)
<1> SUFFICES ASSUME NEW o \in Asked(objs, c, fs) PROVE o \in FindAll(objs, c, std)
  OBVIOUS
<1>1. ASSUME NEW f \in Conditions(std) PROVE Holds(o, f)
  <2>1. f \in ToSet(std)
    BY DEF Conditions, ToSet
  <2>2. f \in StdOf(fs)
    BY <2>1, StdFiltersOf
  <2>3. PICK i \in DOMAIN fs : f = Simple(fs[i])
    BY <2>2 DEF StdOf, ToSet
  <2>4. Holds(o, fs[i])
    BY DEF Asked
  <2>5. f.field = fs[i].field /\ f.op = fs[i].op /\ f.val = fs[i].val
    BY <2>3 DEF Simple
  <2> QED
    BY <2>4, <2>5 DEF Holds
<1>2. Matches(o, std)
  BY <1>1 DEF Matches
<1> QED
  BY <1>2 DEF Asked, FindAll, Find

\* ... and if the filters are on different fields and none is masked, nothing else.
LEMMA FoundIsAsked ==
    ASSUME NEW objs, NEW c, NEW fs, Filters(fs), FieldsDiffer(fs), ~Masked(fs),
           ~Unanswerable(fs)
    PROVE  FindAll(objs, c, StdFilters(fs)) = Asked(objs, c, fs)
<1> DEFINE std == StdFilters(fs)
<1>1. Conditions(std) = StdOf(fs)
  <2>1. \A i \in DOMAIN std : ~Replaced(std, i)
    <3>1. FieldsDiffer(std) /\ Filters(std)
      BY StdFiltersOf
    <3> HIDE DEF std
    <3>2. \A i \in DOMAIN std : i \in Int
      BY <3>1 DEF Filters
    <3> QED
      BY <3>1, <3>2 DEF FieldsDiffer, Replaced
  <2>2. Conditions(std) = ToSet(std)
    BY <2>1 DEF Conditions, ToSet
  <2> QED
    BY <2>2, StdFiltersOf
<1>2. ASSUME NEW o, Matches(o, std), NEW i \in DOMAIN fs PROVE Holds(o, fs[i])
  <2> DEFINE f == Simple(fs[i])
  <2>1. f \in Conditions(std)
    BY <1>1 DEF StdOf, ToSet
  <2>2. Holds(o, f)
    BY <2>1, <1>2 DEF Matches
  <2>3. f.field = fs[i].field /\ f.op = fs[i].op /\ f.val = fs[i].val
    BY DEF Simple
  <2> QED
    BY <2>2, <2>3 DEF Holds
<1>3. FindAll(objs, c, std) \subseteq Asked(objs, c, fs)
  BY <1>2 DEF Asked, FindAll, Find
<1> QED
  BY <1>3, AskedIsFound

\* A selection that is not limited returns what is found.
LEMMA SelectsFound ==
    ASSUME NEW objs, HaveUids(objs), NEW c, NEW fs
    PROVE  ToSet(Select(objs, c, fs, None, 0)) = FindAll(objs, c, fs)
<1>1. ASSUME NEW k PROVE ToSet(SelectConcrete(objs, k, fs, None, 0)) = Find(objs, k, fs)
  <2> DEFINE found == Find(objs, k, fs)
             s == ByUid(found)
  <2>1. HaveUids(found)
    BY FS_Subset DEF HaveUids, Find
  <2>2. s \in Seq(found) /\ ToSet(s) = found
    BY <2>1, ByUidOrders
  <2>3. SubSeq(s, 1, Len(s)) = s
    <3> HIDE DEF s, found
    <3> QED
      BY <2>2, SubSeqFull
  <2>4. Skip(s, 0) = s
    BY <2>3 DEF Skip
  <2>5. SelectConcrete(objs, k, fs, None, 0) = s
    BY <2>4 DEF SelectConcrete, Limited
  <2> QED
    BY <2>2, <2>5
<1>2. CASE ~IsAbstract(c)
  BY <1>1, <1>2 DEF Select, FindAll, Children
<1>3. CASE IsAbstract(c)
  <2> DEFINE all == UNION {ToSet(SelectConcrete(objs, k, fs, None, 0)) : k \in Concrete}
             s == ByUid(all)
  <2>1. all = FindAll(objs, c, fs)
    BY <1>1, <1>3 DEF FindAll, Children
  <2>2. HaveUids(all)
    <3>1. all \subseteq objs
      BY <2>1 DEF FindAll, Find
    <3> QED
      BY <3>1, FS_Subset DEF HaveUids
  <2>3. Len(s) \in Nat /\ ToSet(s) = all
    <3> HIDE DEF all
    <3> QED
      BY <2>2, ByUidOrders
  <2>4. Cut(s, None, 0) = s
    <3> HIDE DEF s
    <3>1. ~(0 > Len(s)) /\ 0 <= Len(s)
      BY <2>3
    <3> QED
      BY <3>1 DEF Cut
  <2> QED
    BY <2>1, <2>3, <2>4, <1>3 DEF Select, Merged
<1> QED
  BY <1>2, <1>3

-----------------------------------------------------------------------------
(* Queries that run: unlimited selections. *)

\* A query that runs can be answered, what a write has selected has identifiers,
\* and no update has one among its data.
HasUid(o) == "uid" \in DOMAIN o /\ o.uid \in Int
CallAnswerable(call) ==
    /\ call.pc = "run" => Filters(call.filters) /\ ~Unanswerable(call.filters)
    /\ call.pc = "write" \/ (call.pc = "run" /\ call.kind = "update")
            => "uid" \notin DOMAIN call.data
    /\ call.pc = "write" => \A o \in call.left : HasUid(o)
    /\ call.pc = "insert" => call.uid \in Int
ObjectsHaveUids == \A o \in Objects : HasUid(o)
CallsAnswerable == \A c \in Clients : CallAnswerable(client[c])
AskInv == ObjectsHaveUids /\ CallsAnswerable

\* The client goes on with the call x.
Goes(c, x) == client' = [client EXCEPT ![c] = x]

\* A call that goes on as one that can be answered leaves the others.
LEMMA GoesOn ==
    ASSUME Inv, CallsAnswerable, NEW c \in Clients, NEW x, Goes(c, x), CallAnswerable(x)
    PROVE  CallsAnswerable'
BY DEF Inv, ClientInv, CallsAnswerable, Goes

\* A call that is over goes on as none.
LEMMA GoesOver ==
    ASSUME NEW c \in Clients, Over(c)
    PROVE  \E x : Goes(c, x) /\ x.pc = "idle"
<1> DEFINE x == [Idle EXCEPT !.inst = client[c].inst]
<1>1. Goes(c, x) /\ x.pc = "idle"
  BY DEF Over, Goes, Idle
<1> QED
  BY <1>1

\* A call that has not asked yet, or is over, carries nothing.
LEMMA IdleAnswerable ==
    ASSUME NEW x, x.pc \in {"idle", "fetch", "prepare"}
    PROVE  CallAnswerable(x)
BY DEF CallAnswerable

\* A query goes on to run if it can be answered.
LEMMA AsksGoes ==
    ASSUME Inv, NEW c \in Clients, NEW kind, NEW target, NEW fs, NEW page, NEW data,
           Asks(c, kind, target, fs, page, data), Filters(fs)
    PROVE  \E x : /\ Goes(c, x) /\ CallAnswerable(x)
                  /\ x.pc = "idle" \/ (x.pc = "run" /\ x.page = page)
<1>1. CASE Over(c)
  BY <1>1, GoesOver, IdleAnswerable
<1>2. CASE ~Over(c)
  <2> DEFINE call == [pc |-> "run", kind |-> kind, target |-> target,
                      filters |-> fs, page |-> page, data |-> data]
             x == Updated(client[c], call)
  <2>1. Goes(c, x)
    BY <1>2 DEF Asks, Runs, Goes
  <2>2. ~Unanswerable(fs) /\ (kind = "update" => "uid" \notin DOMAIN data)
    BY <1>2 DEF Asks, CheckDatasValue, CheckNames, Internal
  <2>3. DOMAIN client[c] = DOMAIN Idle
    BY DEF Inv, ClientInv, CallFits
  <2>4. /\ x.pc = "run" /\ x.kind = kind /\ x.filters = fs
        /\ x.page = page /\ x.data = data
    BY <2>3 DEF Updated
  <2> HIDE DEF x, call
  <2>5. CallAnswerable(x)
    BY <2>2, <2>4 DEF CallAnswerable
  <2> QED
    BY <2>1, <2>4, <2>5
<1> QED
  BY <1>1, <1>2

\* The filter on an identifier is a list, ...
LEMMA UidFilters == ASSUME NEW u PROVE Filters(UidFilter(u))
BY DEF UidFilter, Filters, ToSet

\* ... and so are those a query is given.
LEMMA GivenFilters == ASSUME NEW fs \in FilterLists PROVE Filters(fs)
<1>1. fs \in Seq(UNION {ToSet(gs) : gs \in FilterLists})
  BY QueriesAssumption
<1>2. fs \in [1..Len(fs) -> ToSet(fs)] /\ Len(fs) \in Nat
  BY <1>1 DEF ToSet
<1>3. fs \in Seq(ToSet(fs))
  BY <1>2
<1> QED
  BY <1>3 DEF Filters

\* There are finitely many objects, so that they can be put in order.
LEMMA StoredHaveUids == ASSUME Inv, ObjectsHaveUids PROVE HaveUids(Objects)
<1> DEFINE all == {store[s] : s \in Slots}
           f == [s \in Slots |-> store[s]]
<1>1. f \in Surjection(Slots, all)
  BY DEF Surjection
<1>2. IsFiniteSet(Slots)
  BY StoresAssumption
<1>3. IsFiniteSet(all)
  <2> HIDE DEF f, all
  <2> QED
    BY <1>1, <1>2, FS_Surjection
<1>4. IsFiniteSet(Objects)
  BY <1>3, FS_Subset DEF Objects
<1> QED
  BY <1>4 DEF HaveUids, ObjectsHaveUids, HasUid

\* The next identifier is a number, for there is a greatest.
LEMMA NumericIdIsOne == ASSUME Inv, ObjectsHaveUids PROVE NewNumericId(Objects) \in Int
<1> DEFINE uids == {o.uid : o \in Objects}
<1>1. CASE uids = {}
  BY <1>1 DEF NewNumericId
<1>2. CASE uids # {}
  <2>1. HaveUids(Objects) /\ Objects # {}
    BY <1>2, StoredHaveUids
  <2>2. \E u \in uids : \A v \in uids : u >= v
    <3>1. PICK m \in Objects : \A o \in Objects : o.uid <= m.uid
      BY <2>1, GreatestUid
    <3>2. m.uid \in uids /\ \A v \in uids : m.uid >= v
      BY <3>1, <2>1 DEF HaveUids
    <3> QED
      BY <3>2
  <2>3. uids \subseteq Int
    BY <2>1 DEF HaveUids
  <2> HIDE DEF uids
  <2> DEFINE last == CHOOSE u \in uids : \A v \in uids : u >= v
  <2>4. last \in uids
    BY <2>2
  <2>5. NewNumericId(Objects) = 1 + last
    BY <1>2 DEF NewNumericId, uids
  <2> HIDE DEF last
  <2> QED
    BY <2>3, <2>4, <2>5
<1> QED
  BY <1>1, <1>2

\* What is constructed keeps the identifier.
LEMMA ConstructedKeepsUid ==
    ASSUME NEW o, HasUid(o), NEW cls
    PROVE  HasUid(ConstructDatas(o)) /\ HasUid([ConstructDatas(o) EXCEPT !.cls = cls])
<1> DEFINE full == Updated([m |-> Default, r |-> 0, x |-> 0], o)
           made == ConstructDatas(o)
<1>1. "uid" \in DOMAIN full /\ full.uid = o.uid
  BY DEF Updated, HasUid
<1>2. made = [f \in DOMAIN made |-> made[f]] /\ "uid" \in DOMAIN made /\ made.uid = full.uid
  BY <1>1 DEF ConstructDatas, Updated
<1> HIDE DEF made, full
<1>3. /\ DOMAIN [made EXCEPT !.cls = cls] = DOMAIN made
      /\ [made EXCEPT !.cls = cls].uid = made.uid
  BY <1>2
<1> QED
  BY <1>1, <1>2, <1>3 DEF HasUid, made

\* The objects to begin with have identifiers, and no call runs.
LEMMA InitAsk == Init => AskInv
<1> SUFFICES ASSUME Init PROVE AskInv
  OBVIOUS
<1>1. CallAnswerable(Idle)
  BY DEF CallAnswerable, Idle
<1>2. ObjectsHaveUids
  BY StoresAssumption DEF Init, Objects, ObjectsHaveUids, HasUid
<1> QED
  BY <1>1, <1>2 DEF Init, AskInv, CallsAnswerable

\* Calls that begin.
LEMMA BeginAsk ==
    ASSUME Inv, AskInv, NEW c \in Clients,
           Query(c) \/ Insert(c) \/ UpdateInstance(c) \/ SubmitUpdate(c) \/ SubmitDelete(c)
    PROVE  AskInv'
<1>1. ObjectsHaveUids'
  BY DEF AskInv, ObjectsHaveUids, Objects, Query, Insert, UpdateInstance, SubmitUpdate, SubmitDelete
<1>2. \E x : Goes(c, x) /\ CallAnswerable(x)
  <2>1. CASE Query(c)
    <3>1. PICK kind \in {"get", "delete", "update"}, target \in Classes,
               fs \in FilterLists, page \in Pages, data \in Forms :
               Asks(c, kind, target, fs, page, data)
      BY <2>1 DEF Query
    <3> QED
      BY <3>1, GivenFilters, AsksGoes
  <2>2. CASE Insert(c)
    <3>1. PICK cls, data : \/ Over(c)
                           \/ Runs(c, [pc |-> "prepare", kind |-> "insert", target |-> cls,
                                       data |-> data])
      BY <2>2 DEF Insert
    <3>2. CASE Over(c)
      BY <3>2, GoesOver, IdleAnswerable
    <3>3. CASE ~Over(c)
      <4> DEFINE x == Updated(client[c], [pc |-> "prepare", kind |-> "insert",
                                          target |-> cls, data |-> data])
      <4>1. Goes(c, x) /\ x.pc = "prepare"
        BY <3>1, <3>3 DEF Runs, Goes, Updated
      <4> HIDE DEF x
      <4> QED
        BY <4>1, IdleAnswerable
    <3> QED
      BY <3>2, <3>3
  <2>3. CASE UpdateInstance(c)
    <3> DEFINE inst == client[c].inst
    <3>1. CASE Over(c)
      BY <3>1, GoesOver, IdleAnswerable
    <3>2. CASE Asks(c, "update", inst.cls, UidFilter(inst.uid), None, Shown(inst))
      BY <3>2, UidFilters, AsksGoes
    <3> QED
      BY <2>3, <3>1, <3>2 DEF UpdateInstance
  <2>4. CASE SubmitUpdate(c)
    <3>1. PICK cls, u, data :
              Runs(c, [pc |-> "fetch", target |-> cls, uid |-> u, data |-> data])
      BY <2>4 DEF SubmitUpdate
    <3> DEFINE x == Updated(client[c], [pc |-> "fetch", target |-> cls, uid |-> u,
                                        data |-> data])
    <3>2. Goes(c, x) /\ x.pc = "fetch"
      BY <3>1 DEF Runs, Goes, Updated
    <3> HIDE DEF x
    <3> QED
      BY <3>2, IdleAnswerable
  <2>5. CASE SubmitDelete(c)
    <3>1. PICK cls, u : Asks(c, "delete", cls, UidFilter(u), None, << >>)
      BY <2>5 DEF SubmitDelete
    <3> QED
      BY <3>1, UidFilters, AsksGoes
  <2> QED
    BY <2>1, <2>2, <2>3, <2>4, <2>5
<1> QED
  BY <1>1, <1>2, GoesOn DEF AskInv

\* Calls that go on and end.
LEMMA GoOnAsk ==
    ASSUME Inv, AskInv, NEW c \in Clients,
           \/ Set(c) \/ Get(c) \/ FetchForUpdate(c) \/ SelectForUpdate(c) \/ Write(c)
           \/ Wrote(c) \/ Delete(c) \/ Prepare(c) \/ InsertObject(c)
    PROVE  AskInv'
<1>0. Inv /\ ObjectsHaveUids /\ CallsAnswerable /\ CallAnswerable(client[c])
      /\ DOMAIN client[c] = DOMAIN Idle /\ DOMAIN client = Clients /\ DOMAIN store = Slots
  BY DEF AskInv, CallsAnswerable, Inv, StoreInv, ClientInv, CallFits
<1>1. CASE Set(c)
  <2>1. PICK inst : Goes(c, [client[c] EXCEPT !.inst = inst]) /\ client[c].pc = "idle"
    BY <1>0, <1>1 DEF Set, Goes
  <2> DEFINE x == [client[c] EXCEPT !.inst = inst]
  <2>2. Goes(c, x) /\ x.pc = "idle"
    BY <1>0, <2>1 DEF Idle
  <2> HIDE DEF x
  <2>3. ObjectsHaveUids'
    BY <1>0, <1>1 DEF Set, ObjectsHaveUids, Objects
  <2> QED
    BY <1>0, <2>2, <2>3, IdleAnswerable, GoesOn DEF AskInv
<1>2. CASE Get(c)
  <2>1. \E x : Goes(c, x) /\ x.pc = "idle"
    <3>1. CASE Over(c)
      BY <3>1, GoesOver
    <3>2. CASE ~Over(c)
      <4>1. PICK inst : Goes(c, [Idle EXCEPT !.inst = inst])
        BY <1>2, <3>2 DEF Get, Goes
      <4>2. [Idle EXCEPT !.inst = inst].pc = "idle"
        BY DEF Idle
      <4> QED
        BY <4>1, <4>2
    <3> QED
      BY <3>1, <3>2
  <2>2. ObjectsHaveUids'
    BY <1>0, <1>2 DEF Get, ObjectsHaveUids, Objects
  <2> QED
    BY <1>0, <2>1, <2>2, IdleAnswerable, GoesOn DEF AskInv
<1>3. CASE FetchForUpdate(c)
  <2>1. \E x : Goes(c, x) /\ CallAnswerable(x)
    <3>1. CASE Over(c)
      BY <3>1, GoesOver, IdleAnswerable
    <3>2. CASE ~Over(c)
      BY <1>3, <3>2, UidFilters, AsksGoes DEF FetchForUpdate
    <3> QED
      BY <3>1, <3>2
  <2>2. ObjectsHaveUids'
    BY <1>0, <1>3 DEF FetchForUpdate, ObjectsHaveUids, Objects
  <2> QED
    BY <1>0, <2>1, <2>2, GoesOn DEF AskInv
<1>4. CASE SelectForUpdate(c)
  <2> DEFINE x == Updated(client[c], [pc |-> "write", left |-> Found(client[c])])
  <2>1. Goes(c, x) /\ x.pc = "write" /\ x.left = Found(client[c]) /\ x.data = client[c].data
    BY <1>0, <1>4 DEF SelectForUpdate, Runs, Goes, Updated, Idle
  <2> HIDE DEF x
  <2>2. "uid" \notin DOMAIN client[c].data
    BY <1>0, <1>4 DEF SelectForUpdate, CallAnswerable
  <2>3. \A o \in Found(client[c]) : HasUid(o)
    BY <1>0, FoundIsStored DEF ObjectsHaveUids
  <2>4. CallAnswerable(x)
    BY <2>1, <2>2, <2>3 DEF CallAnswerable
  <2>5. ObjectsHaveUids'
    BY <1>0, <1>4 DEF SelectForUpdate, ObjectsHaveUids, Objects
  <2> QED
    BY <1>0, <2>1, <2>4, <2>5, GoesOn DEF AskInv
<1>5. CASE Write(c)
  <2> DEFINE call == client[c]
  <2>1. PICK o \in call.left :
            IF Valid(Updated(o, call.data))
            THEN /\ store' = [s \in Slots |->
                        IF s \in FirstOf(call.target, o.uid)
                        THEN [Written(store[s], o, call.data) EXCEPT !.cls = store[s].cls]
                        ELSE store[s]]
                 /\ client' = [client EXCEPT ![c].left = @ \ {o}]
            ELSE Over(c) /\ UNCHANGED store
    BY <1>5 DEF Write
  <2>2. CASE ~Valid(Updated(o, call.data))
    <3>1. Over(c) /\ ObjectsHaveUids'
      BY <1>0, <2>1, <2>2 DEF ObjectsHaveUids, Objects
    <3> QED
      BY <1>0, <3>1, GoesOver, IdleAnswerable, GoesOn DEF AskInv
  <2>3. CASE Valid(Updated(o, call.data))
    <3>1. HasUid(o) /\ "uid" \notin DOMAIN call.data /\ call.pc = "write"
      BY <1>0, <1>5, <2>1 DEF Write, CallAnswerable
    <3>2. HasUid(Updated(o, call.data))
      BY <3>1 DEF HasUid, Updated
    <3>3. \A v : HasUid([Prepared(o, call.data) EXCEPT !.cls = v])
      BY <3>2, ConstructedKeepsUid DEF Prepared
    <3>4. ObjectsHaveUids'
      <4>1. ASSUME NEW s \in Slots, store'[s] # None PROVE HasUid(store'[s])
        <5>1. CASE s \in FirstOf(call.target, o.uid)
          <6>1. store'[s] = [Prepared(o, call.data) EXCEPT !.cls = store[s].cls]
            BY <2>1, <2>3, <5>1 DEF Written
          <6> QED
            BY <3>3, <6>1
        <5>2. CASE s \notin FirstOf(call.target, o.uid)
          <6>1. store'[s] = store[s]
            BY <2>1, <2>3, <5>2
          <6> QED
            BY <6>1, <4>1, <1>0 DEF ObjectsHaveUids, Objects
        <5> QED
          BY <5>1, <5>2
      <4> QED
        BY <4>1 DEF ObjectsHaveUids, Objects
    <3> DEFINE x == [call EXCEPT !.left = @ \ {o}]
    <3>5. Goes(c, x)
      BY <1>0, <2>1, <2>3 DEF Goes
    <3>6. x.pc = "write" /\ x.left = call.left \ {o} /\ x.data = call.data
      BY <1>0, <3>1 DEF Idle
    <3> HIDE DEF x
    <3>7. CallAnswerable(x)
      BY <1>0, <3>1, <3>6 DEF CallAnswerable
    <3> QED
      BY <1>0, <3>4, <3>5, <3>7, GoesOn DEF AskInv
  <2> QED
    BY <2>2, <2>3
<1>6. CASE Wrote(c)
  <2>1. Over(c) /\ ObjectsHaveUids'
    BY <1>0, <1>6 DEF Wrote, ObjectsHaveUids, Objects
  <2> QED
    BY <1>0, <2>1, GoesOver, IdleAnswerable, GoesOn DEF AskInv
<1>7. CASE Delete(c)
  <2>1. Over(c) /\ \A s \in Slots : store'[s] \in {store[s], None}
    BY <1>7 DEF Delete
  <2>2. ObjectsHaveUids'
    BY <1>0, <2>1 DEF ObjectsHaveUids, Objects
  <2> QED
    BY <1>0, <2>1, <2>2, GoesOver, IdleAnswerable, GoesOn DEF AskInv
<1>8. CASE Prepare(c)
  <2>1. ObjectsHaveUids'
    BY <1>0, <1>8 DEF Prepare, ObjectsHaveUids, Objects
  <2>2. CASE Over(c)
    BY <1>0, <2>1, <2>2, GoesOver, IdleAnswerable, GoesOn DEF AskInv
  <2>3. CASE ~Over(c)
    <3> DEFINE x == Updated(client[c], [pc |-> "insert", uid |-> NewNumericId(Objects)])
    <3>1. Goes(c, x) /\ x.pc = "insert" /\ x.uid = NewNumericId(Objects)
      BY <1>8, <2>3 DEF Prepare, Runs, Goes, Updated
    <3> HIDE DEF x
    <3>2. CallAnswerable(x)
      BY <1>0, <3>1, NumericIdIsOne DEF CallAnswerable
    <3> QED
      BY <1>0, <2>1, <3>1, <3>2, GoesOn DEF AskInv
  <2> QED
    BY <2>2, <2>3
<1>9. CASE InsertObject(c)
  <2> DEFINE data == Updated(client[c].data, [uid |-> client[c].uid, cls |-> client[c].target])
  <2>1. client[c].uid \in Int
    BY <1>0, <1>9 DEF InsertObject, CallAnswerable
  <2>2. HasUid(data)
    BY <2>1 DEF Updated, HasUid
  <2>3. PICK s \in Slots : store' = [store EXCEPT ![s] = ConstructDatas(data)]
    BY <1>9 DEF InsertObject
  <2> HIDE DEF data
  <2>4. HasUid(ConstructDatas(data))
    BY <2>2, ConstructedKeepsUid
  <2>5. ObjectsHaveUids'
    BY <1>0, <2>3, <2>4 DEF ObjectsHaveUids, Objects
  <2>6. Over(c)
    BY <1>9 DEF InsertObject
  <2> QED
    BY <1>0, <2>5, <2>6, GoesOver, IdleAnswerable, GoesOn DEF AskInv
<1> QED
  BY <1>1, <1>2, <1>3, <1>4, <1>5, <1>6, <1>7, <1>8, <1>9

\* The invariant of the queries holds in every state.
LEMMA AskInvariance == Spec => []AskInv
<1>1. Inv /\ AskInv /\ [Next]_vars => AskInv'
  <2> SUFFICES ASSUME Inv, AskInv, [Next]_vars PROVE AskInv'
    OBVIOUS
  <2>1. CASE Next
    <3>1. PICK c \in Clients :
            \/ Query(c) \/ Insert(c) \/ UpdateInstance(c) \/ SubmitUpdate(c) \/ SubmitDelete(c)
            \/ Set(c) \/ Get(c) \/ FetchForUpdate(c) \/ SelectForUpdate(c) \/ Write(c)
            \/ Wrote(c) \/ Delete(c) \/ Prepare(c) \/ InsertObject(c)
      BY <2>1 DEF Next, Clients
    <3> QED
      BY <3>1, BeginAsk, GoOnAsk
  <2>2. CASE UNCHANGED vars
    BY <2>2 DEF vars, AskInv, ObjectsHaveUids, CallsAnswerable, CallAnswerable, Objects
  <2> QED
    BY <2>1, <2>2
<1> QED
  BY InitAsk, Invariance, <1>1, PTL DEF Spec

\* A query that is not limited selects every object that satisfies all its
\* filters, although duplicates are removed and conditions replaced on the way
\* to the database, and nothing else if they are on different fields, unless the
\* field, operator and value of one are all among those of the others (query.py,
\* set_query_filter; datasource.py, __filters2mongo).
THEOREM SelectionsComplete == Spec => []SelectsAsked
<1>1. Inv /\ AskInv => SelectsAsked
  <2> SUFFICES ASSUME Inv, AskInv, NEW c \in Clients, client[c].pc = "run",
                      client[c].page = None
               PROVE  LET call == client[c]
                          asked == Asked(Objects, call.target, call.filters)
                          selected == IF call.kind = "get" THEN ToSet(Selected(call))
                                      ELSE Found(call)
                      IN  /\ asked \subseteq selected
                          /\ FieldsDiffer(call.filters) /\ ~Masked(call.filters) =>
                                selected = asked
    BY DEF SelectsAsked
  <2> DEFINE call == client[c]
  <2>1. Filters(call.filters) /\ ~Unanswerable(call.filters) /\ HaveUids(Objects)
    BY StoredHaveUids DEF AskInv, CallsAnswerable, CallAnswerable
  <2>2. ToSet(Selected(call)) = Found(call)
    BY <2>1, SelectsFound DEF Selected, Found
  <2>3. Asked(Objects, call.target, call.filters) \subseteq Found(call)
    BY <2>1, AskedIsFound DEF Found
  <2>4. FieldsDiffer(call.filters) /\ ~Masked(call.filters) =>
            Found(call) = Asked(Objects, call.target, call.filters)
    BY <2>1, FoundIsAsked DEF Found
  <2> QED
    BY <2>2, <2>3, <2>4
<1> QED
  BY <1>1, Invariance, AskInvariance, PTL

-----------------------------------------------------------------------------
(* Pages. *)

\* Some of finitely many objects with different identifiers are that, too.
LEMMA SomeHaveUids ==
    ASSUME NEW objs, HaveUids(objs), UidsDiffer(objs), NEW some \in SUBSET objs
    PROVE  HaveUids(some) /\ UidsDiffer(some)
<1>1. IsFiniteSet(some)
  BY FS_Subset DEF HaveUids
<1> QED
  BY <1>1 DEF HaveUids, UidsDiffer

\* What is left of a list after none are skipped and the rest is limited.
LEMMA LimitedFromStart ==
    ASSUME NEW F, NEW s \in Seq(F), NEW n \in Nat, n # None
    PROVE  LET t == Limited(Skip(s, 0), n) IN
           /\ t \in Seq(F) /\ DOMAIN t = {i \in 1..Len(s) : i <= n}
           /\ \A i \in DOMAIN t : t[i] = s[i]
           /\ n <= Len(s) => t = SubSeq(s, 1, n)
<1>1. Len(s) \in Nat /\ \A i \in 1..Len(s) : s[i] \in F
  OBVIOUS
<1>2. Skip(s, 0) = s
  <2>1. SubSeq(s, 1, Len(s)) = s
    BY SubSeqFull
  <2> QED
    BY <2>1 DEF Skip
<1> DEFINE m == IF n < Len(s) THEN n ELSE Len(s)
           t == SubSeq(s, 1, m)
<1>3. /\ m \in Nat /\ m <= Len(s) /\ (n <= Len(s) => m = n)
      /\ 1..m = {i \in 1..Len(s) : i <= n} /\ 1..m \subseteq 1..Len(s)
  BY <1>1
<1>4. Limited(Skip(s, 0), n) = t
  BY <1>2 DEF Limited
<1> HIDE DEF m
<1>5. /\ t \in Seq(F) /\ Len(t) = m
      /\ \A i \in 1..m : t[i] = s[i]
  <2>1. 1 \in Int /\ m \in Int /\ \A i \in 1..m : s[i] \in F
    BY <1>1, <1>3
  <2>2. /\ t \in Seq(F) /\ Len(t) = IF 1 <= m THEN m - 1 + 1 ELSE 0
        /\ \A i \in 1..(m - 1 + 1) : t[i] = s[1 + i - 1]
    BY <2>1, SubSeqProperties
  <2> HIDE DEF t
  <2> QED
    BY <2>2, <1>3
<1>6. DOMAIN t = 1..m
  <2> HIDE DEF t
  <2> QED
    BY <1>5
<1> QED
  BY <1>3, <1>4, <1>5, <1>6

\* Two lists that are the same up to a place have the same beginning.
LEMMA SameStart ==
    ASSUME NEW F, NEW s \in Seq(F), NEW t \in Seq(F), NEW n \in Nat,
           n <= Len(s), n <= Len(t), \A i \in 1..n : s[i] = t[i]
    PROVE  SubSeq(s, 1, n) = SubSeq(t, 1, n)
<1> DEFINE a == SubSeq(s, 1, n)
           b == SubSeq(t, 1, n)
<1>1. \A i \in 1..n : s[i] \in F /\ t[i] \in F
  OBVIOUS
<1>2. /\ a \in Seq(F) /\ Len(a) = n /\ \A i \in 1..n : a[i] = s[i]
  <2>1. /\ a \in Seq(F) /\ Len(a) = IF 1 <= n THEN n - 1 + 1 ELSE 0
        /\ \A i \in 1..(n - 1 + 1) : a[i] = s[1 + i - 1]
    BY <1>1, SubSeqProperties
  <2> HIDE DEF a
  <2> QED
    BY <2>1
<1>3. /\ b \in Seq(F) /\ Len(b) = n /\ \A i \in 1..n : b[i] = t[i]
  <2>1. /\ b \in Seq(F) /\ Len(b) = IF 1 <= n THEN n - 1 + 1 ELSE 0
        /\ \A i \in 1..(n - 1 + 1) : b[i] = t[1 + i - 1]
    BY <1>1, SubSeqProperties
  <2> HIDE DEF b
  <2> QED
    BY <2>1
<1> HIDE DEF a, b
<1>4. a = b
  BY <1>2, <1>3, SeqEqual
<1> QED
  BY <1>4 DEF a, b

\* The first page of an abstract class has the first of all the objects, though
\* each child class is limited first: an object that is the i-th of all is at
\* most the i-th of its class.
LEMMA FirstPage ==
    ASSUME NEW objs, HaveUids(objs), UidsDiffer(objs), NEW fs, NEW n \in Nat, n # None,
           n <= Len(ByUid(FindAll(objs, Base, fs)))
    PROVE  Cut(Merged(objs, fs, n), n, 0) = SubSeq(ByUid(FindAll(objs, Base, fs)), 1, n)
<1> DEFINE A == FindAll(objs, Base, fs)
           U == UNION {ToSet(SelectConcrete(objs, k, fs, n, 0)) : k \in Concrete}
           L == ByUid(A)
           M == ByUid(U)
<1>1. A = UNION {Find(objs, k, fs) : k \in Concrete}
  BY DEF FindAll, Children, IsAbstract
<1>2. HaveUids(A) /\ UidsDiffer(A)
  <2>1. A \in SUBSET objs
    BY DEF FindAll, Find
  <2> HIDE DEF A
  <2> QED
    BY <2>1, SomeHaveUids
<1>3. ASSUME NEW k \in Concrete
      PROVE  LET s == ByUid(Find(objs, k, fs)) IN
             /\ HaveUids(Find(objs, k, fs)) /\ UidsDiffer(Find(objs, k, fs))
             /\ Len(s) \in Nat /\ DOMAIN s = 1..Len(s) /\ ToSet(s) = Find(objs, k, fs)
             /\ ToSet(SelectConcrete(objs, k, fs, n, 0)) = {s[i] : i \in {i \in 1..Len(s) : i <= n}}
  <2> DEFINE part == Find(objs, k, fs)
             s == ByUid(part)
  <2>1. part \in SUBSET objs
    BY DEF Find
  <2> HIDE DEF part
  <2>2. HaveUids(part) /\ UidsDiffer(part)
    BY <2>1, SomeHaveUids
  <2>3. s \in Seq(part) /\ Len(s) \in Nat /\ DOMAIN s = 1..Len(s) /\ ToSet(s) = part
    BY <2>2, ByUidOrders
  <2> DEFINE t == Limited(Skip(s, 0), n)
  <2>4. DOMAIN t = {i \in 1..Len(s) : i <= n} /\ \A i \in DOMAIN t : t[i] = s[i]
    <3> HIDE DEF s
    <3> QED
      BY <2>3, LimitedFromStart
  <2>5. SelectConcrete(objs, k, fs, n, 0) = t
    BY DEF SelectConcrete, part
  <2> HIDE DEF t, s
  <2>6. ToSet(t) = {s[i] : i \in {i \in 1..Len(s) : i <= n}}
    BY <2>4 DEF ToSet
  <2> QED
    BY <2>2, <2>3, <2>5, <2>6 DEF part, s
<1>4. U \subseteq A
  BY <1>1, <1>3 DEF ToSet
<1> HIDE DEF A, U
<1>5. HaveUids(U) /\ UidsDiffer(U)
  BY <1>2, <1>4, SomeHaveUids
<1>6. /\ Len(L) \in Nat /\ DOMAIN L = 1..Len(L) /\ L \in Seq(A) /\ ToSet(L) = A
      /\ Len(M) \in Nat /\ DOMAIN M = 1..Len(M) /\ M \in Seq(U) /\ ToSet(M) = U
  BY <1>2, <1>5, ByUidOrders
<1>7. n <= Len(L)
  BY DEF A
<1>8. ASSUME NEW i \in 1..n PROVE L[i] \in U
  <2> DEFINE o == L[i]
  <2>1. i \in DOMAIN L /\ o \in A
    BY <1>6, <1>7
  <2>2. PICK k \in Concrete : o \in Find(objs, k, fs)
    BY <2>1, <1>1
  <2> DEFINE part == Find(objs, k, fs)
             s == ByUid(part)
  <2>3. /\ HaveUids(part) /\ UidsDiffer(part) /\ Len(s) \in Nat
        /\ DOMAIN s = 1..Len(s) /\ ToSet(s) = part
        /\ ToSet(SelectConcrete(objs, k, fs, n, 0)) = {s[j] : j \in {j \in 1..Len(s) : j <= n}}
    BY <1>3
  <2>4. PICK j \in DOMAIN s : o = s[j]
    BY <2>2, <2>3 DEF ToSet
  <2>5. part \subseteq A
    BY <1>1
  <2> HIDE DEF part
  <2>6. Cardinality(Below(part, o)) = j - 1
    BY <2>3, <2>4, Rank
  <2>7. Cardinality(Below(A, o)) = i - 1
    BY <1>2, <2>1, Rank
  <2>8. j - 1 <= i - 1
    <3>1. IsFiniteSet(Below(A, o))
      BY <1>2, FS_Subset DEF HaveUids, Below
    <3>2. Below(part, o) \in SUBSET Below(A, o)
      BY <2>5 DEF Below
    <3> QED
      BY <3>1, <3>2, <2>6, <2>7, FS_Subset
  <2>9. j \in 1..Len(s) /\ j <= n
    BY <2>3, <2>4, <2>8
  <2> HIDE DEF s, o
  <2>10. o \in ToSet(SelectConcrete(objs, k, fs, n, 0))
    BY <2>3, <2>4, <2>9
  <2> QED
    BY <2>10 DEF U, o
<1>9. ASSUME NEW i \in 1..n PROVE i \in 1..Len(M) /\ M[i] = L[i]
  <2> DEFINE o == L[i]
  <2>1. i \in DOMAIN L
    BY <1>6, <1>7
  <2>2. Below(A, o) = {L[j] : j \in 1..(i - 1)} /\ Cardinality(Below(A, o)) = i - 1
    BY <1>2, <2>1, Rank
  <2>3. Below(A, o) = Below(U, o)
    <3>1. \A j \in 1..(i - 1) : j \in 1..n
      OBVIOUS
    <3>2. Below(A, o) \subseteq U
      BY <2>2, <3>1, <1>8
    <3> QED
      BY <3>2, <1>4 DEF Below
  <2>4. PICK k \in DOMAIN M : M[k] = o
    BY <1>6, <1>8 DEF ToSet
  <2>5. Cardinality(Below(U, o)) = k - 1
    BY <1>5, <2>4, Rank
  <2>6. k \in 1..Len(M)
    BY <2>4, <1>6
  <2>7. k - 1 = i - 1
    <3> HIDE DEF o
    <3> QED
      BY <2>2, <2>3, <2>5
  <2> HIDE DEF L, M, o
  <2>8. k = i
    BY <2>6, <2>7
  <2> QED
    BY <2>4, <2>6, <2>8 DEF o
<1>10. n <= Len(M)
  <2>1. CASE n = 0
    BY <2>1, <1>6
  <2>2. CASE n # 0
    <3>1. n \in 1..n
      BY <2>2
    <3>2. n \in 1..Len(M)
      BY <3>1, <1>9
    <3> QED
      BY <3>2, <1>6
  <2> QED
    BY <2>1, <2>2
<1>11. SubSeq(M, 1, n) = SubSeq(L, 1, n)
  <2>1. M \in Seq(A)
    BY <1>4, <1>6, SeqMonotonic
  <2> HIDE DEF L, M
  <2> QED
    BY <2>1, <1>6, <1>7, <1>9, <1>10, SameStart
<1>12. Cut(M, n, 0) = SubSeq(M, 1, n)
  <2> DEFINE m == Len(M)
  <2>1. m \in Nat /\ n <= m
    BY <1>6, <1>10
  <2> HIDE DEF m
  <2>2. ~(0 > m) /\ ~(n + 0 > m) /\ 0 + 1 = 1 /\ 0 + n = n
    BY <2>1
  <2>3. PageLength(m, n, 0) = n
    BY <2>2 DEF PageLength
  <2> HIDE DEF M
  <2> QED
    BY <2>2, <2>3 DEF Cut, m
<1> QED
  BY <1>11, <1>12 DEF Merged, U, A

\* A query with a page is the first call and, as long as it runs, the only one,
\* on a store to begin with.
PagedCall(call) == call.pc = "run" /\ call.page # None
AtRest(d) == client[d].pc = "idle"
PageInv ==
    /\ ops \in Nat
    /\ ops = 0 => UidsDiffer(Objects) /\ \A c \in Clients : AtRest(c)
    /\ \A c \in Clients : PagedCall(client[c]) =>
            /\ ops = MaxOps /\ UidsDiffer(Objects) /\ client[c].page \in Pages
            /\ \A d \in Clients \ {c} : AtRest(d)

\* To begin with nothing runs, and identifiers differ.
LEMMA InitPages == Init => PageInv
<1> SUFFICES ASSUME Init PROVE PageInv
  OBVIOUS
<1>1. \A c \in Clients : client[c].pc = "idle"
  BY DEF Init, Idle
<1>2. UidsDiffer(Objects)
  <2> SUFFICES ASSUME NEW s \in Slots, NEW t \in Slots, store[s] # None, store[t] # None,
                      store[s].uid = store[t].uid
               PROVE  store[s] = store[t]
    BY DEF UidsDiffer, Objects
  <2> QED
    BY StoresAssumption DEF Init
<1> QED
  BY <1>1, <1>2 DEF Init, PageInv, PagedCall, AtRest

\* A call that begins.
LEMMA BeginsPages ==
    ASSUME Inv, PageInv, NEW c \in Clients, NEW x, Goes(c, x), ops < MaxOps,
           UNCHANGED store, ops' \in Nat \ {0},
           PagedCall(x) => ops = 0 /\ ops' = MaxOps /\ x.page \in Pages
    PROVE  PageInv'
<1>1. ops \in Nat /\ MaxOps \in Nat /\ ops # MaxOps
  BY QueriesAssumption DEF PageInv
<1>2. \A d \in Clients : client'[d] = IF d = c THEN x ELSE client[d]
  BY DEF Inv, ClientInv, Goes
<1>3. \A d \in Clients : ~PagedCall(client[d])
  BY <1>1 DEF PageInv
<1>4. Objects' = Objects
  BY DEF Objects
<1>5. ASSUME NEW d \in Clients, PagedCall(client'[d])
      PROVE  /\ ops' = MaxOps /\ UidsDiffer(Objects) /\ client'[d].page \in Pages
             /\ \A e \in Clients \ {d} : client'[e].pc = "idle"
  <2>1. d = c
    BY <1>2, <1>3, <1>5
  <2>2. client'[d] = x /\ PagedCall(x)
    BY <1>2, <1>5, <2>1
  <2>3. UidsDiffer(Objects) /\ \A e \in Clients : client[e].pc = "idle"
    BY <2>2 DEF PageInv, AtRest
  <2> QED
    BY <1>2, <2>1, <2>2, <2>3
<1>6. UidsDiffer(Objects) => UidsDiffer(Objects)'
  BY <1>4 DEF UidsDiffer
<1> QED
  BY <1>5, <1>6 DEF PageInv, AtRest

\* A call that goes on or ends.
LEMMA GoesOnPages ==
    ASSUME Inv, PageInv, NEW c \in Clients, NEW x, Goes(c, x), client[c].pc # "idle",
           ~PagedCall(x), ops' = ops
    PROVE  PageInv'
<1>1. ops \in Nat /\ ops # 0
  BY DEF PageInv, AtRest
<1>2. \A d \in Clients : client'[d] = IF d = c THEN x ELSE client[d]
  BY DEF Inv, ClientInv, Goes
<1>3. \A d \in Clients : ~PagedCall(client'[d])
  BY <1>2 DEF PageInv, AtRest
<1> QED
  BY <1>1, <1>3 DEF PageInv

\* Calls that begin: only a query may have a page, and only if it is the first.
LEMMA BeginPages ==
    ASSUME Inv, PageInv, NEW c \in Clients,
           Query(c) \/ Insert(c) \/ UpdateInstance(c) \/ SubmitUpdate(c) \/ SubmitDelete(c)
    PROVE  PageInv'
<1>0. ops \in Nat /\ MaxOps \in Nat
  BY QueriesAssumption DEF PageInv
<1>1. CASE Query(c)
  <2>1. PICK kind \in {"get", "delete", "update"}, target \in Classes,
             fs \in FilterLists, page \in Pages, data \in Forms :
             /\ ops > 0 => fs = << >> /\ page = None
             /\ Asks(c, kind, target, fs, page, data)
             /\ ops' = IF fs = << >> /\ page = None THEN ops + 1 ELSE MaxOps
    BY <1>1 DEF Query
  <2>2. PICK x : Goes(c, x) /\ (x.pc = "idle" \/ (x.pc = "run" /\ x.page = page))
    BY <2>1, GivenFilters, AsksGoes
  <2>3. ops < MaxOps /\ UNCHANGED store
    BY <1>1 DEF Query
  <2>4. ops' \in Nat \ {0}
    BY <1>0, <2>1, <2>3
  <2>5. PagedCall(x) => ops = 0 /\ ops' = MaxOps /\ x.page \in Pages
    BY <1>0, <2>1, <2>2 DEF PagedCall
  <2> QED
    BY <2>2, <2>3, <2>4, <2>5, BeginsPages
<1>2. CASE ~Query(c)
  <2>1. ops < MaxOps /\ UNCHANGED store /\ ops' = ops + 1
    BY <1>2 DEF Insert, UpdateInstance, SubmitUpdate, SubmitDelete
  <2>2. \E x : Goes(c, x) /\ ~PagedCall(x)
    <3>1. CASE Over(c)
      BY <3>1, GoesOver DEF PagedCall
    <3>2. ASSUME NEW kind, NEW target, NEW u, NEW data,
                 Asks(c, kind, target, UidFilter(u), None, data)
          PROVE  \E x : Goes(c, x) /\ ~PagedCall(x)
      <4>1. PICK x : Goes(c, x) /\ (x.pc = "idle" \/ (x.pc = "run" /\ x.page = None))
        BY <3>2, UidFilters, AsksGoes
      <4> QED
        BY <4>1 DEF PagedCall
    <3>3. CASE UpdateInstance(c)
      <4> DEFINE inst == client[c].inst
      <4>1. \/ Over(c)
            \/ Asks(c, "update", inst.cls, UidFilter(inst.uid), None, Shown(inst))
        BY <3>3 DEF UpdateInstance
      <4> QED
        BY <4>1, <3>1, <3>2
    <3>4. CASE SubmitDelete(c)
      <4>1. PICK cls, u : Asks(c, "delete", cls, UidFilter(u), None, << >>)
        BY <3>4 DEF SubmitDelete
      <4> QED
        BY <4>1, <3>2
    <3>5. CASE SubmitUpdate(c)
      <4>1. PICK cls, u, data :
                Runs(c, [pc |-> "fetch", target |-> cls, uid |-> u, data |-> data])
        BY <3>5 DEF SubmitUpdate
      <4> DEFINE x == Updated(client[c], [pc |-> "fetch", target |-> cls, uid |-> u,
                                          data |-> data])
      <4>2. Goes(c, x) /\ x.pc = "fetch"
        BY <4>1 DEF Runs, Goes, Updated
      <4> HIDE DEF x
      <4> QED
        BY <4>2 DEF PagedCall
    <3>6. CASE Insert(c) /\ ~Over(c)
      <4>1. PICK cls, data :
                Runs(c, [pc |-> "prepare", kind |-> "insert", target |-> cls, data |-> data])
        BY <3>6 DEF Insert
      <4> DEFINE x == Updated(client[c], [pc |-> "prepare", kind |-> "insert",
                                          target |-> cls, data |-> data])
      <4>2. Goes(c, x) /\ x.pc = "prepare"
        BY <4>1 DEF Runs, Goes, Updated
      <4> HIDE DEF x
      <4> QED
        BY <4>2 DEF PagedCall
    <3> QED
      BY <1>2, <3>1, <3>3, <3>4, <3>5, <3>6
  <2> QED
    BY <1>0, <2>1, <2>2, BeginsPages
<1> QED
  BY <1>1, <1>2

\* Calls that go on and end: none gets a page.
LEMMA GoOnPages ==
    ASSUME Inv, PageInv, NEW c \in Clients,
           \/ Set(c) \/ Get(c) \/ FetchForUpdate(c) \/ SelectForUpdate(c) \/ Write(c)
           \/ Wrote(c) \/ Delete(c) \/ Prepare(c) \/ InsertObject(c)
    PROVE  PageInv'
<1>0. DOMAIN client[c] = DOMAIN Idle /\ DOMAIN client = Clients
  BY DEF Inv, ClientInv, CallFits
<1>1. CASE Set(c)
  <2>1. PICK inst : client' = [client EXCEPT ![c].inst = inst]
    BY <1>1 DEF Set
  <2>2. UNCHANGED <<store, ops>>
    BY <1>1 DEF Set
  <2>3. \A d \in Clients : client'[d].pc = client[d].pc /\ client'[d].page = client[d].page
    BY <1>0, <2>1 DEF Idle
  <2>4. UidsDiffer(Objects) => UidsDiffer(Objects)'
    BY <2>2 DEF UidsDiffer, Objects
  <2> QED
    BY <2>2, <2>3, <2>4 DEF PageInv, PagedCall, AtRest
<1>2. CASE ~Set(c)
  <2>1. ops' = ops /\ client[c].pc # "idle"
    BY <1>2 DEF Get, FetchForUpdate, SelectForUpdate, Write, Wrote, Delete, Prepare, InsertObject
  <2>2. \E x : Goes(c, x) /\ ~PagedCall(x)
    <3>1. CASE Over(c)
      BY <3>1, GoesOver DEF PagedCall
    <3>2. CASE Get(c) /\ ~Over(c)
      <4>1. PICK inst : Goes(c, [Idle EXCEPT !.inst = inst])
        BY <3>2 DEF Get, Goes
      <4>2. ~PagedCall([Idle EXCEPT !.inst = inst])
        BY DEF Idle, PagedCall
      <4> QED
        BY <4>1, <4>2
    <3>3. CASE FetchForUpdate(c) /\ ~Over(c)
      <4>1. Asks(c, "update", client[c].target, UidFilter(client[c].uid), None, client[c].data)
        BY <3>3 DEF FetchForUpdate
      <4>2. PICK x : Goes(c, x) /\ (x.pc = "idle" \/ (x.pc = "run" /\ x.page = None))
        BY <4>1, UidFilters, AsksGoes
      <4> QED
        BY <4>2 DEF PagedCall
    <3>4. CASE SelectForUpdate(c)
      <4> DEFINE x == Updated(client[c], [pc |-> "write", left |-> Found(client[c])])
      <4>1. Goes(c, x) /\ x.pc = "write"
        BY <3>4 DEF SelectForUpdate, Runs, Goes, Updated
      <4> HIDE DEF x
      <4> QED
        BY <4>1 DEF PagedCall
    <3>5. CASE Write(c) /\ ~Over(c)
      <4>1. PICK o : client' = [client EXCEPT ![c].left = @ \ {o}]
        BY <3>5 DEF Write
      <4> DEFINE x == [client[c] EXCEPT !.left = @ \ {o}]
      <4>2. Goes(c, x) /\ x.pc = "write"
        BY <1>0, <3>5, <4>1 DEF Write, Goes, Idle
      <4> HIDE DEF x
      <4> QED
        BY <4>2 DEF PagedCall
    <3>6. CASE Prepare(c) /\ ~Over(c)
      <4> DEFINE x == Updated(client[c], [pc |-> "insert", uid |-> NewNumericId(Objects)])
      <4>1. Goes(c, x) /\ x.pc = "insert"
        BY <3>6 DEF Prepare, Runs, Goes, Updated
      <4> HIDE DEF x
      <4> QED
        BY <4>1 DEF PagedCall
    <3>7. CASE Wrote(c) \/ Delete(c) \/ InsertObject(c)
      BY <3>1, <3>7 DEF Wrote, Delete, InsertObject
    <3> QED
      BY <1>2, <3>1, <3>2, <3>3, <3>4, <3>5, <3>6, <3>7
  <2> QED
    BY <2>1, <2>2, GoesOnPages
<1> QED
  BY <1>1, <1>2

\* The invariant of the pages holds in every state.
LEMMA PagesInvariance == Spec => []PageInv
<1>1. Inv /\ PageInv /\ [Next]_vars => PageInv'
  <2> SUFFICES ASSUME Inv, PageInv, [Next]_vars PROVE PageInv'
    OBVIOUS
  <2>1. CASE Next
    <3>1. PICK c \in Clients :
            \/ Query(c) \/ Insert(c) \/ UpdateInstance(c) \/ SubmitUpdate(c) \/ SubmitDelete(c)
            \/ Set(c) \/ Get(c) \/ FetchForUpdate(c) \/ SelectForUpdate(c) \/ Write(c)
            \/ Wrote(c) \/ Delete(c) \/ Prepare(c) \/ InsertObject(c)
      BY <2>1 DEF Next, Clients
    <3> QED
      BY <3>1, BeginPages, GoOnPages
  <2>2. CASE UNCHANGED vars
    BY <2>2 DEF vars, PageInv, PagedCall, AtRest, UidsDiffer, Objects
  <2> QED
    BY <2>1, <2>2
<1> QED
  BY InitPages, Invariance, <1>1, PTL DEF Spec

\* A page of a concrete class has the objects of its rank, and so has the first
\* page of an abstract class if it is full, although each child class is limited
\* before the results are merged (datasource.py, select).
THEOREM PagesExact == Spec => []PageExact
<1>1. Inv /\ AskInv /\ PageInv => PageExact
  <2> SUFFICES ASSUME Inv, AskInv, PageInv, NEW c \in Clients, PagedCall(client[c])
               PROVE  LET call == client[c]
                          all == ByUid(ToSet(Selected([call EXCEPT !.page = None])))
                          n == call.page.limit
                      IN  \/ IsAbstract(call.target) /\
                                (call.page.offset > 0 \/ n = None \/ n > Len(all))
                          \/ Selected(call) = Limited(Skip(all, call.page.offset), n)
    BY DEF PageExact, PagedCall
  <2> DEFINE call == client[c]
             fs == StdFilters(call.filters)
             found == FindAll(Objects, call.target, fs)
             n == call.page.limit
             all == ByUid(ToSet(Selected([call EXCEPT !.page = None])))
  <2>1. HaveUids(Objects) /\ UidsDiffer(Objects) /\ call.page \in Pages /\ call.page # None
    BY StoredHaveUids DEF PageInv, PagedCall, AskInv
  <2>2. n \in Nat \cup {None} /\ call.page.offset \in Nat
    BY <2>1, QueriesAssumption
  <2>3. Selected(call) = Select(Objects, call.target, fs, n, call.page.offset)
    BY <2>1 DEF Selected
  <2>4. all = ByUid(found)
    <3> DEFINE whole == [call EXCEPT !.page = None]
    <3>1. whole.page = None /\ whole.target = call.target /\ whole.filters = call.filters
      BY DEF Inv, ClientInv, CallFits, Idle
    <3> HIDE DEF whole
    <3>2. Selected(whole) = Select(Objects, call.target, fs, None, 0)
      BY <3>1 DEF Selected
    <3>3. ToSet(Selected(whole)) = found
      BY <2>1, <3>2, SelectsFound
    <3> QED
      BY <3>3 DEF whole
  <2> HIDE DEF all
  <2>5. CASE ~IsAbstract(call.target)
    <3>1. found = Find(Objects, call.target, fs)
      BY <2>5 DEF FindAll, Children
    <3>2. Selected(call) = Limited(Skip(all, call.page.offset), n)
      BY <2>3, <2>4, <2>5, <3>1 DEF Select, SelectConcrete
    <3> QED
      BY <3>2 DEF all
  <2>6. CASE IsAbstract(call.target)
    <3> SUFFICES ASSUME call.page.offset = 0, n # None, n <= Len(all)
                 PROVE  Selected(call) = Limited(Skip(all, 0), n)
      <4>1. HaveUids(found)
        <5>1. found \in SUBSET Objects
          BY DEF FindAll, Find
        <5> HIDE DEF found
        <5> QED
          BY <2>1, <5>1, SomeHaveUids
      <4>2. Len(all) \in Nat
        <5> HIDE DEF found
        <5> QED
          BY <4>1, <2>4, ByUidOrders
      <4>3. \/ call.page.offset > 0 \/ n = None \/ n > Len(all)
            \/ (call.page.offset = 0 /\ n # None /\ n <= Len(all))
        BY <2>2, <4>2
      <4> QED
        BY <2>6, <4>3 DEF all
    <3>1. n \in Nat /\ call.target = Base
      BY <2>2, <2>6 DEF IsAbstract
    <3>2. Selected(call) = Cut(Merged(Objects, fs, n), n, 0)
      BY <2>3, <2>6 DEF Select
    <3>3. Cut(Merged(Objects, fs, n), n, 0) = SubSeq(all, 1, n)
      BY <2>1, <2>4, <3>1, FirstPage
    <3>4. Limited(Skip(all, 0), n) = SubSeq(all, 1, n)
      <4>1. HaveUids(found)
        <5>1. found \in SUBSET Objects
          BY DEF FindAll, Find
        <5> HIDE DEF found
        <5> QED
          BY <2>1, <5>1, SomeHaveUids
      <4> HIDE DEF found, n
      <4>2. all \in Seq(found)
        BY <2>4, <4>1, ByUidOrders
      <4> QED
        BY <3>1, <4>2, LimitedFromStart
    <3> QED
      BY <3>2, <3>3, <3>4
  <2> QED
    BY <2>5, <2>6 DEF all
<1> QED
  BY <1>1, Invariance, AskInvariance, PagesInvariance, PTL
=============================================================================
