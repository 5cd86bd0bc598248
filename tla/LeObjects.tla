----------------------------- MODULE LeObjects ------------------------------
(***************************************************************************)
(* Objects, from the store to the instances a caller works on and back     *)
(* (leapi/leobject.py, leapi/query.py, the data handlers, and the          *)
(* controllers of webui/interface/controllers/admin.py).                   *)
(*                                                                         *)
(* A client runs one call at a time: a script calls the API, a worker of   *)
(* the web server handles requests.  A call selects and writes in several  *)
(* steps, between which other clients run.  What a write does to the references   *)
(* is module MongoStore's.  Of values only valid ones and Bad, which no    *)
(* data handler of n and m takes, are told apart.                          *)
(***************************************************************************)
EXTENDS Queries

CONSTANTS
    Scripts, Workers,   \* the clients
    Slots,        \* the places for objects; bound: objects ever stored
    Stores,       \* the stores to begin with
    Forms,        \* what may be given for the fields of an object
    FilterLists,  \* the filters of a query
    Pages,        \* the limit and offset of a selection
    DocOrders,    \* the orders a fetched document may give its fields in
    MaxOps        \* bound: calls; one with filters or a page is the only one

VARIABLES
    store,    \* slot -> the object there, or None
    client,   \* client -> the call it runs and the instance it holds
    ops       \* calls made

Clients == Scripts \cup Workers
vars == <<store, client, ops>>

Bad == 0
Values == {1, 2}
Default == 1                       \* of m; n has none
Editable == {"n", "m"}             \* the fields a form sets
Internal == {"uid", "cls", "d"}
Objects == {store[s] : s \in Slots} \ {None}
-----------------------------------------------------------------------------
(* Data handlers.                                                          *)

\* check_datas_value, in a query: unknown and internal fields, bad values,
\* and with complete what is missing and has no default.
Valid(data) == \A f \in DOMAIN data \cap Editable : data[f] # Bad
CheckNames(data, complete) ==
    DOMAIN data \cap Internal = {} /\ (complete => "n" \in DOMAIN data)
CheckDatasValue(data, complete) ==
    /\ CheckNames(data, complete)
    /\ Valid(data)

\* DatasConstructor and construct_data: a field that was not given takes its
\* default, the derived one is made of the others as they are constructed.
Derived(o) == <<o.n, o.m>>
ConstructDatas(o) ==
    LET full == Updated([m |-> Default, r |-> 0, x |-> 0], o)
    IN  Updated(full, [d |-> Derived(full)])

\* What is in the stores to begin with was stored by the API, one call at a time.
Stored(o) == {"n", "m"} \subseteq DOMAIN o /\ Valid(o) /\ o.d = Derived(o)
ASSUME StoresAssumption ==
    /\ IsFiniteSet(Slots)
    /\ \A st \in Stores : DOMAIN st = Slots /\
        \A s \in Slots : st[s] # None =>
            /\ Stored(st[s])
            /\ "uid" \in DOMAIN st[s] /\ st[s].uid \in Int
            /\ \A t \in Slots \ {s} : st[t] # None => st[t].uid # st[s].uid

\* A query is given a list of filters, and whole numbers for the limit, if any,
\* and the offset.
ASSUME QueriesAssumption ==
    /\ MaxOps \in Nat
    /\ FilterLists \subseteq Seq(UNION {ToSet(fs) : fs \in FilterLists})
    /\ \A page \in Pages : page # None =>
        page.limit \in Nat \cup {None} /\ page.offset \in Nat
-----------------------------------------------------------------------------
(* Instances.                                                              *)

\* LeObject.__new__ with what a get query returned: never all initialized,
\* for that asks for the editable fields and the uid and nothing else.
NewInstance(o, order) ==
    [uid |-> o.uid, cls |-> o.cls, datas |-> o, init |-> order, full |-> FALSE]

\* set_data; __set_initialized runs when the field was not in the list.
IsFull(init) == ToSet(init) = Editable \cup References \cup {"uid"}
PutData(inst, f, v) ==
    LET added == f \notin ToSet(inst.init) /\ ~inst.full
        init == IF added THEN Append(inst.init, f) ELSE inst.init
    IN  [inst EXCEPT !.datas = (f :> v) @@ @, !.init = init,
                     !.full = @ \/ (added /\ IsFull(init))]

\* The value check.  A full instance checks the fields of its list and keeps
\* what was set; otherwise a bad value is taken back with the last of the list.
Without(data, f) == [g \in DOMAIN data \ {f} |-> data[g]]
TakeBack(inst, f) ==
    IF inst.full THEN inst
    ELSE [inst EXCEPT !.datas = Without(@, f), !.init = Front(@)]
SetData(inst, f, v) ==
    IF v = Bad THEN TakeBack(PutData(inst, f, v), f) ELSE PutData(inst, f, v)

\* data: a field that is not initialized, or whose value is gone, raises.
HasData(inst, f) == (inst.full \/ f \in ToSet(inst.init)) /\ f \in DOMAIN inst.datas
Shown(inst) == [f \in Editable \cup References |-> inst.datas[f]]
-----------------------------------------------------------------------------
(* Calls.                                                                  *)

Idle == [pc |-> "idle", kind |-> None, target |-> None, filters |-> << >>,
         page |-> None, data |-> << >>, left |-> {}, inst |-> None, uid |-> None]

\* The call is over, whether it was refused, found nothing, raised or is done.
\* A client keeps the instance it has.
Over(c) == client' = [client EXCEPT ![c] = [Idle EXCEPT !.inst = client[c].inst]]
Runs(c, call) == client' = [client EXCEPT ![c] = Updated(@, call)]

UidFilter(u) == <<[field |-> "uid", sub |-> None, op |-> "=", val |-> u]>>

\* LeGetQuery, LeUpdateQuery and LeDeleteQuery on a class, then LeQuery.execute
\* with the check of the data.
Asks(c, kind, target, fs, page, data) ==
    IF ~(\A i \in DOMAIN fs : WellFormed(target, fs[i])) THEN Over(c)
    ELSE IF kind = "update" /\ ~CheckDatasValue(data, FALSE) THEN Over(c)
    ELSE IF Unanswerable(fs) THEN Over(c)
    ELSE Runs(c, [pc |-> "run", kind |-> kind, target |-> target,
                  filters |-> fs, page |-> page, data |-> data])

Query(c) ==
    /\ client[c].pc = "idle" /\ ops < MaxOps
    /\ \E kind \in {"get", "delete", "update"}, target \in Classes,
          fs \in FilterLists, page \in Pages, data \in Forms :
        /\ kind # "get" => page = None
        /\ kind # "update" => data = << >>
        /\ ops > 0 => fs = << >> /\ page = None
        /\ Asks(c, kind, target, fs, page, data)
        /\ ops' = IF fs = << >> /\ page = None THEN ops + 1 ELSE MaxOps
    /\ UNCHANGED store

\* LeObject.insert and admin_create; LeInsertQuery refuses the abstract class.
Insert(c) ==
    /\ client[c].pc = "idle" /\ ops < MaxOps
    /\ \E cls \in Concrete, data \in Forms :
        IF CheckDatasValue(data, TRUE)
        THEN Runs(c, [pc |-> "prepare", kind |-> "insert", target |-> cls,
                      data |-> data])
        ELSE Over(c)
    /\ ops' = ops + 1
    /\ UNCHANGED store

\* set_data on the instance the client holds.
Set(c) ==
    /\ client[c].pc = "idle" /\ client[c].inst # None
    /\ \E f \in Editable, v \in Values \cup {Bad} :
        client' = [client EXCEPT ![c].inst = SetData(@, f, v)]
    /\ UNCHANGED <<store, ops>>

\* LeObject.update without argument: what the instance shows, if all of it can
\* be read, is given to an update query on its uid.
UpdateInstance(c) ==
    LET inst == client[c].inst
    IN  /\ client[c].pc = "idle" /\ inst # None /\ ops < MaxOps
        /\ IF \A f \in Editable \cup References \cup {"uid"} : HasData(inst, f)
           THEN Asks(c, "update", inst.cls, UidFilter(inst.uid), None, Shown(inst))
           ELSE Over(c)
        /\ ops' = ops + 1
        /\ UNCHANGED store

\* admin_update: the form, the object it is about, and the update query.
SubmitUpdate(c) ==
    /\ client[c].pc = "idle" /\ ops < MaxOps
    /\ \E cls \in Concrete, u \in {o.uid : o \in Objects}, data \in Forms :
        Runs(c, [pc |-> "fetch", target |-> cls, uid |-> u, data |-> data])
    /\ ops' = ops + 1
    /\ UNCHANGED store

FetchForUpdate(c) ==
    LET call == client[c]
    IN  /\ call.pc = "fetch"
        /\ IF Select(Objects, call.target, UidFilter(call.uid), None, 0) = << >>
           THEN Over(c)
           ELSE Asks(c, "update", call.target, UidFilter(call.uid), None, call.data)
        /\ UNCHANGED <<store, ops>>

\* admin_delete: delete_bundle on the uid the request names.
SubmitDelete(c) ==
    /\ client[c].pc = "idle" /\ ops < MaxOps
    /\ \E cls \in Concrete, u \in {o.uid : o \in Objects} :
        Asks(c, "delete", cls, UidFilter(u), None, << >>)
    /\ ops' = ops + 1
    /\ UNCHANGED store

\* The datasource selects.  A get hands the first object to the client, as an
\* instance; an update goes on with each object it has selected.
Selected(call) ==
    LET page == IF call.page = None THEN [limit |-> None, offset |-> 0] ELSE call.page
    IN  Select(Objects, call.target, StdFilters(call.filters), page.limit, page.offset)
Found(call) == FindAll(Objects, call.target, StdFilters(call.filters))
Get(c) ==
    LET found == Selected(client[c])
    IN  /\ client[c].pc = "run" /\ client[c].kind = "get"
        /\ IF found = << >> THEN Over(c)
           ELSE \E o \in ToSet(found), order \in DocOrders :
                client' = [client EXCEPT ![c] =
                    [Idle EXCEPT !.inst = NewInstance(o, order)]]
        /\ UNCHANGED <<store, ops>>
SelectForUpdate(c) ==
    /\ client[c].pc = "run" /\ client[c].kind = "update"
    /\ Runs(c, [pc |-> "write", left |-> Found(client[c])])
    /\ UNCHANGED <<store, ops>>
Delete(c) ==
    /\ client[c].pc = "run" /\ client[c].kind = "delete"
    /\ store' = [s \in Slots |-> IF store[s] \in Found(client[c]) THEN None ELSE store[s]]
    /\ Over(c)
    /\ UNCHANGED ops

\* LeUpdateQuery._query: the data over the object as it was selected, all of it
\* checked and constructed again, and the whole written to the uid.
Prepared(o, data) == ConstructDatas(Updated(o, data))
WrittenGiven(now, o, data) ==
    Updated(now, [f \in {"d"} \cup DOMAIN data |-> Prepared(o, data)[f]])
Written(now, o, data) == Prepared(o, data)
FirstOf(cls, u) ==
    {s \in Slots : /\ store[s] # None /\ store[s].cls \in Children(cls) /\ store[s].uid = u
                   /\ \A t \in Slots : t < s => \/ store[t] = None
                                                \/ store[t].cls # store[s].cls
                                                \/ store[t].uid # u}
Write(c) ==
    LET call == client[c]
    IN  /\ call.pc = "write"
        /\ \E o \in call.left :
            IF Valid(Updated(o, call.data))
            THEN /\ store' = [s \in Slots |->
                        IF s \in FirstOf(call.target, o.uid)
                        THEN [Written(store[s], o, call.data) EXCEPT !.cls = store[s].cls]
                        ELSE store[s]]
                 /\ client' = [client EXCEPT ![c].left = @ \ {o}]
            ELSE Over(c) /\ UNCHANGED store
        /\ UNCHANGED ops
Wrote(c) ==
    /\ client[c].pc = "write" /\ client[c].left = {}
    /\ Over(c)
    /\ UNCHANGED <<store, ops>>

\* LeInsertQuery._query: the data are checked again and the identifier is
\* chosen, then the object inserted.
Prepare(c) ==
    LET call == client[c]
    IN  /\ call.pc = "prepare"
        /\ IF CheckDatasValue(call.data, TRUE)
           THEN Runs(c, [pc |-> "insert", uid |-> NewNumericId(Objects)])
           ELSE Over(c)
        /\ UNCHANGED <<store, ops>>
InsertObject(c) ==
    LET call == client[c]
    IN  /\ call.pc = "insert"
        /\ \E s \in Slots : /\ store[s] = None
                            /\ \A t \in Slots : t < s => store[t] # None
                            /\ store' = [store EXCEPT ![s] =
                                ConstructDatas(Updated(call.data, [uid |-> call.uid, cls |-> call.target]))]
        /\ Over(c)
        /\ UNCHANGED ops

Init ==
    /\ store \in Stores
    /\ client = [c \in Clients |-> Idle]
    /\ ops = 0

Next ==
    \/ \E c \in Scripts : Query(c) \/ Set(c) \/ UpdateInstance(c) \/ Get(c)
    \/ \E c \in Workers : SubmitUpdate(c) \/ FetchForUpdate(c) \/ SubmitDelete(c)
    \/ \E c \in Clients :
        \/ Insert(c) \/ Prepare(c) \/ InsertObject(c)
        \/ SelectForUpdate(c) \/ Write(c) \/ Wrote(c) \/ Delete(c)

Spec == Init /\ [][Next]_vars
-----------------------------------------------------------------------------
(* Properties.                                                             *)

\* A query that is not limited selects every object that satisfies all its
\* filters, whichever of them are dropped as duplicates or replaced when they
\* are converted for the database.  It selects nothing else if each is on a
\* field of its own, unless the field, operator and value of one are all
\* fields, operators and values of others.
SelectsAsked ==
    \A c \in Clients : client[c].pc = "run" /\ client[c].page = None =>
        LET call == client[c]
            asked == Asked(Objects, call.target, call.filters)
            selected == IF call.kind = "get" THEN ToSet(Selected(call)) ELSE Found(call)
        IN  /\ asked \subseteq selected
            /\ FieldsDiffer(call.filters) /\ ~Masked(call.filters) => selected = asked

\* A page of a concrete class has the objects of its rank; so has the first
\* page of an abstract class, though each child class is limited before the
\* results are merged, when that page is full.
PageExact ==
    \A c \in Clients : client[c].pc = "run" /\ client[c].page # None =>
        LET call == client[c]
            all == ByUid(ToSet(Selected([call EXCEPT !.page = None])))
            n == call.page.limit
        IN  \/ IsAbstract(call.target) /\ (call.page.offset > 0 \/ n = None \/ n > Len(all))
            \/ Selected(call) = Limited(Skip(all, call.page.offset), n)

\* "limit int : Number of records to be returned" and "offset int: used with
\* limit to choose the start record" (MongoDbDatasource.select): a page has as
\* many objects as its limit if as many are left after its offset.
PageFull ==
    \A c \in Clients : client[c].pc = "run" /\ client[c].page # None =>
        LET call == client[c]
            left == Cardinality(ToSet(Selected([call EXCEPT !.page = None])))
                    - call.page.offset
        IN  call.page.limit # None /\ left >= call.page.limit
                => Len(Selected(call)) = call.page.limit

\* Whatever a caller gives, to a query, a form or an instance, and whatever
\* runs between the selection and the write of an update, no value the data
\* handlers refuse is ever stored.
RefusedStaysOut == \A o \in Objects : Valid(o)

\* The derived field always fits the fields it is made of, also after updates
\* of different fields of one object whose selections and writes interleave:
\* an update writes all of the object it has selected.
DerivedFits == \A o \in Objects : o.d = Derived(o)
=============================================================================
