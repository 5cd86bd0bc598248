--------------------------- MODULE WebSessionsProofs ---------------------------
(***************************************************************************)
(* Sessions are kept apart: the proof, for any number of workers, browsers *)
(* and sessions, of the invariants of WebSessions and of its refinement of *)
(* SessionStore.                                                           *)
(***************************************************************************)
EXTENDS WebSessionsRefinement, TLAPS

-----------------------------------------------------------------------------
(***************************************************************************)
(* Type correctness.                                                       *)
(***************************************************************************)
LEMMA NoRequestType == NoRequest \in Request
BY SessionAssumption DEF NoRequest, Request, Programs, Data, Time

\* Become keeps the type of req.
LEMMA BecomeType ==
    ASSUME TypeOK, NEW w \in Workers, NEW r \in Request, Become(w, r)
    PROVE  req' \in [Workers -> Request]
BY DEF Become, TypeOK

\* ... and so does an exception that leaves the application,
LEMMA FailType ==
    ASSUME TypeOK, NEW w \in Workers, Fail(w)
    PROVE  req' \in [Workers -> Request]
<1>1. [NoRequest EXCEPT !.token = req[w].token, !.data = req[w].data] \in Request
    BY NoRequestType DEF TypeOK, Request
<1> QED
    BY <1>1, BecomeType DEF Fail

\* ... and going to another point of the program.
LEMMA GotoType ==
    ASSUME TypeOK, NEW w \in Workers, NEW pc \in Programs, Goto(w, pc)
    PROVE  req' \in [Workers -> Request]
<1>1. [req[w] EXCEPT !.pc = pc] \in Request
    BY DEF TypeOK, Request
<1> QED
    BY <1>1, BecomeType DEF Goto

\* The empty dict is session data.
LEMMA EmptyType == {} \in Data
BY DEF Data

\* A request that comes in.
LEMMA ReceiveType ==
    ASSUME TypeOK, NEW w \in Workers, NEW b \in Browsers, Receive(w, b)
    PROVE  TypeOK'
<1>1. [NewClient(req[w]) EXCEPT
          !.pc = IF cookie[b] = NoToken THEN "handle" ELSE "list",
          !.by = b, !.cookie = cookie[b], !.began = now] \in Request
    <2>1. NewClient(req[w]) \in Request
        BY EmptyType DEF TypeOK, Request, NewClient
    <2> QED
        BY <2>1 DEF TypeOK, Request, Programs
<1> QED
    BY <1>1, BecomeType DEF Receive, TypeOK

\* The end of destroy_session.
LEMMA UnregisterType ==
    ASSUME TypeOK, NEW w \in Workers, Unregister(w)
    PROVE  /\ req' \in [Workers -> Request]
           /\ table' \in [Workers -> SUBSET Tokens]
<1>1. [req[w] EXCEPT !.pc = "handle", !.token = NoToken, !.data = {},
                     !.base = {}, !.cur = NoToken] \in Request
    <2>1. req[w] \in Request
        BY DEF TypeOK
    <2> QED
        BY <2>1, EmptyType DEF Request, Programs
<1>2. req' \in [Workers -> Request]
    BY <1>1, BecomeType, FailType DEF Unregister
<1> QED
    BY <1>2 DEF Unregister, TypeOK

\* The loops of gc and destroy_session.
LEMMA GcType ==
    ASSUME TypeOK, NEW w \in Workers, Gc(w)
    PROVE  TypeOK'
<1>p. Present \subseteq Tokens
    BY DEF Present
<1>1. CASE ListFiles(w)
    <2>1. [req[w] EXCEPT !.pc = "unlink", !.todo = Unregistered(w)] \in Request
        <3>1. Unregistered(w) \subseteq Tokens
            BY <1>p DEF Unregistered
        <3> QED
            BY <3>1 DEF TypeOK, Request, Programs
    <2> QED
        BY <1>1, <2>1, BecomeType DEF ListFiles, TypeOK
<1>2. CASE UnlinkFile(w)
    <2>1. \A t \in Tokens : [req[w] EXCEPT !.todo = @ \ {t}] \in Request
        BY DEF TypeOK, Request
    <2>2. files' \in [Tokens -> {NoFile} \cup File]
        BY <1>2 DEF UnlinkFile, TypeOK
    <2>3. req[w].todo \subseteq Tokens
        BY DEF TypeOK, Request
    <2> QED
        BY <1>2, <2>1, <2>2, <2>3, BecomeType, FailType DEF UnlinkFile, TypeOK
<1>3. CASE ScanTable(w)
    <2>1. [req[w] EXCEPT !.pc = "expire", !.todo = table[w]] \in Request
        BY DEF TypeOK, Request, Programs
    <2> QED
        BY <1>3, <2>1, BecomeType DEF ScanTable, TypeOK
<1>4. CASE FindFile(w)
    <2>1. \A t \in Tokens :
             /\ [req[w] EXCEPT !.pc = "stat", !.cur = t] \in Request
             /\ [req[w] EXCEPT !.todo = @ \ {t}] \in Request
        BY DEF TypeOK, Request, Programs
    <2>2. req[w].todo \subseteq Tokens
        BY DEF TypeOK, Request
    <2> QED
        BY <1>4, <2>1, <2>2, BecomeType DEF FindFile, TypeOK
<1>5. CASE StatFile(w)
    <2>1. [req[w] EXCEPT !.pc = "expire", !.todo = @ \ {req[w].cur},
                         !.cur = NoToken] \in Request
        BY DEF TypeOK, Request, Programs
    <2> QED
        BY <1>5, <2>1, BecomeType, FailType, GotoType
        DEF StatFile, TypeOK, Programs
<1>6. CASE Destroy(w)
    BY <1>6, UnregisterType, GotoType DEF Destroy, TypeOK, Programs
<1>7. CASE RemoveFile(w)
    BY <1>7, <1>p, UnregisterType, FailType DEF RemoveFile, TypeOK
<1> QED
    BY <1>1, <1>2, <1>3, <1>4, <1>5, <1>6, <1>7 DEF Gc

\* The end of restore_session.
LEMMA RestoreType ==
    ASSUME TypeOK, NEW w \in Workers, CheckToken(w) \/ OpenFile(w)
    PROVE  TypeOK'
<1> DEFINE t == req[w].cookie
<1>t. req[w] \in Request /\ t \in Tokens \cup {NoToken}
    BY DEF TypeOK, Request
<1>1. CASE CheckToken(w)
    <2>1. [req[w] EXCEPT !.pc = "handle", !.token = t, !.data = Missing] \in Request
        BY <1>t DEF Request, Programs
    <2> QED
        BY <1>1, <2>1, BecomeType, GotoType DEF CheckToken, TypeOK, Programs
<1>2. CASE OpenFile(w)
    <2>1. ASSUME Readable(t)
          PROVE  [req[w] EXCEPT !.pc = "handle", !.token = t,
                                !.data = files[t].data, !.base = files[t].data]
                     \in Request
        <3>1. files[t].data \in Data
            BY <2>1 DEF Readable, Present, TypeOK, File
        <3> QED
            BY <1>t, <3>1 DEF Request, Programs
    <2> QED
        BY <1>2, <2>1, BecomeType, FailType DEF OpenFile, TypeOK
<1> QED
    BY <1>1, <1>2

\* What a controller does.
LEMMA HandleType ==
    ASSUME TypeOK, NEW w \in Workers, Handle(w)
    PROVE  TypeOK'
<1>t. req[w] \in Request /\ (req[w].data # Missing => req[w].data \in SUBSET Keys)
    BY DEF TypeOK, Request, Data
<1>1. CASE SetItem(w)
    <2>1. \A k \in Keys :
             /\ [req[w] EXCEPT !.data = @ \cup {k}] \in Request
             /\ \A t \in Tokens : [req[w] EXCEPT !.token = t, !.data = @ \cup {k}]
                                        \in Request
        BY <1>t, <1>1 DEF SetItem, Request, Data
    <2>2. req' \in [Workers -> Request]
        <3>1. PICK k \in Keys :
                 \/ Become(w, [req[w] EXCEPT !.data = @ \cup {k}])
                 \/ \E t \in Tokens : Become(w, [req[w] EXCEPT !.token = t,
                                                             !.data = @ \cup {k}])
            BY <1>1 DEF SetItem
        <3> QED
            BY <2>1, <3>1, BecomeType
    <2>3. [data |-> {}, mtime |-> now] \in File
        BY DEF File, Data, TypeOK
    <2>4. /\ files' \in [Tokens -> {NoFile} \cup File]
          /\ table' \in [Workers -> SUBSET Tokens]
          /\ issued' \in [Tokens -> Browsers \cup {Nobody}]
        <3>1. ASSUME NEW t \in Tokens, Start(w, t)
              PROVE  /\ files' \in [Tokens -> {NoFile} \cup File]
                     /\ table' \in [Workers -> SUBSET Tokens]
                     /\ issued' \in [Tokens -> Browsers \cup {Nobody}]
            <4>1. files' \in [Tokens -> {NoFile} \cup File]
                BY <2>3, <3>1 DEF Start, TypeOK
            <4>2. table' \in [Workers -> SUBSET Tokens]
                BY <3>1 DEF Start, TypeOK
            <4>3. issued' \in [Tokens -> Browsers \cup {Nobody}]
                BY <1>t, <3>1 DEF Start, TypeOK, Request
            <4> QED
                BY <4>1, <4>2, <4>3
        <3> QED
            BY <1>1, <3>1 DEF SetItem, TypeOK
    <2> QED
        BY <1>1, <2>2, <2>4 DEF SetItem, TypeOK
<1>2. CASE DelItem(w)
    <2>1. \A k : [req[w] EXCEPT !.data = @ \ {k}] \in Request
        BY <1>t, <1>2 DEF DelItem, Request, Data
    <2> QED
        BY <1>2, <2>1, BecomeType DEF DelItem, TypeOK
<1>3. CASE Authenticate(w)
    <2>1. [req[w] EXCEPT !.data = @ \cup {UserKey}] \in Request
        BY <1>t, <1>3, SessionAssumption DEF Authenticate, Request, Data
    <2> QED
        BY <1>3, <2>1, BecomeType DEF Authenticate, TypeOK
<1>4. [req[w] EXCEPT !.pc = "save", !.reply = "empty"] \in Request
    BY <1>t DEF Request, Programs
<1>5. CASE AuthenticationFailure(w)
    BY <1>4, <1>5, BecomeType DEF AuthenticationFailure, TypeOK
<1>6. CASE SignOut(w)
    <2>1. [req[w] EXCEPT !.pc = "destroy", !.cur = req[w].token] \in Request
        BY <1>t DEF Request, Programs
    <2> QED
        BY <1>4, <1>6, <2>1, BecomeType DEF SignOut, TypeOK
<1>7. CASE ControllerRaises(w)
    BY <1>7, FailType DEF ControllerRaises, TypeOK
<1>8. CASE Respond(w)
    <2>1. [req[w] EXCEPT !.pc = "save",
              !.reply = IF req[w].token = NoToken THEN "keep" ELSE "save"] \in Request
        BY <1>t DEF Request, Programs
    <2> QED
        BY <1>8, <2>1, BecomeType DEF Respond, TypeOK
<1> QED
    BY <1>1, <1>2, <1>3, <1>5, <1>6, <1>7, <1>8 DEF Handle

\* The response: the request record and the cookie.
LEMMA AnswerType ==
    ASSUME TypeOK, NEW w \in Workers, Answer(w)
    PROVE  /\ req' \in [Workers -> Request]
           /\ cookie' \in [Browsers -> Tokens \cup {NoToken}]
<1>1. req[w].token \in Tokens \cup {NoToken} /\ req[w].reply \in {"keep", "save", "empty"}
    BY DEF TypeOK, Request
<1> QED
    BY <1>1, NoRequestType, BecomeType DEF Answer, TypeOK

\* A file left torn.
LEMMA TearType ==
    ASSUME TypeOK, NEW w \in Workers, TearFile(w)
    PROVE  files' \in [Tokens -> {NoFile} \cup File]
BY DEF TearFile, TypeOK, File

\* clean and save_session.
LEMMA FinishType ==
    ASSUME TypeOK, NEW w \in Workers, Finish(w)
    PROVE  TypeOK'
<1>1. CASE Clean(w)
    BY <1>1, AnswerType DEF Clean, TypeOK
<1>2. CASE Save(w)
    <2>1. req[w].data \in Data
        BY <1>2 DEF Save, TypeOK, Request
    <2>2. [data |-> req[w].data, mtime |-> now] \in File
        BY <2>1 DEF File, TypeOK
    <2>3. files' \in [Tokens -> {NoFile} \cup File] /\ last' \in [Tokens -> Data]
        BY <1>2, <2>1, <2>2 DEF Save, TypeOK
    <2> QED
        BY <1>2, <2>3, AnswerType DEF Save, TypeOK
<1>3. CASE SaveRefused(w)
    BY <1>3, FailType DEF SaveRefused, TypeOK
<1>4. CASE SaveFails(w)
    BY <1>4, FailType, TearType DEF SaveFails, TypeOK
<1> QED
    BY <1>1, <1>2, <1>3, <1>4 DEF Finish

\* A worker killed and started again.
LEMMA CrashType ==
    ASSUME TypeOK, NEW w \in Workers, Crash(w)
    PROVE  TypeOK'
BY NoRequestType, BecomeType, TearType DEF Crash, TypeOK

\* Every step keeps the types.
LEMMA TypeNext == TypeOK /\ [Next]_vars => TypeOK'
<1> SUFFICES ASSUME TypeOK, [Next]_vars PROVE TypeOK'
    OBVIOUS
<1>1. CASE Tick
    BY <1>1, SessionAssumption DEF Tick, TypeOK, Time
<1>2. CASE UNCHANGED vars
    BY <1>2 DEF vars, TypeOK
<1> QED
    BY <1>1, <1>2, ReceiveType, GcType, RestoreType, HandleType, FinishType,
       CrashType DEF Next, Step

\* The types hold at the start.
LEMMA TypeInit == Init => TypeOK
BY NoRequestType, EmptyType, SessionAssumption DEF Init, TypeOK, Time

-----------------------------------------------------------------------------
(***************************************************************************)
(* The inductive invariant: of the directory and the tables ...            *)
(***************************************************************************)
Unused(t) == issued[t] = Nobody

StoreInv ==
    /\ \A v, w \in Workers : \A t \in table[v] \cap table[w] : v = w
    /\ \A w \in Workers : \A t \in table[w] : ~Unused(t)
    /\ \A t \in Tokens : Unused(t) => t \notin Present /\ last[t] = {}
    /\ \A t \in Tokens : Readable(t) => files[t].data = last[t]
    /\ \A b \in Browsers : cookie[b] # NoToken => issued[cookie[b]] = b

(***************************************************************************)
(* ... and of the request a worker answers.                                *)
(***************************************************************************)
Restoring == {"list", "unlink", "expire", "stat", "open"}

HasSession(r, w) ==
    /\ r.token \in table[w] /\ issued[r.token] = r.by
    /\ r.data # Missing => r.base = last[r.token]

\* The session t had not expired when the request came in.
Recent(r, t) == t \in Present => files[t].mtime + Expiration >= r.began

RequestInv(r, w) ==
    /\ r.pc # "idle" => r.by \in Browsers
    /\ r.pc # "idle" /\ r.cookie # NoToken => issued[r.cookie] = r.by
    /\ r.pc # "idle" /\ r.token # NoToken => HasSession(r, w)
    /\ r.pc = "idle" \/ r.token = NoToken => r.base = {}
    /\ r.pc \in Restoring => r.token = NoToken /\ r.cookie # NoToken
    /\ r.pc \in {"stat", "destroy", "remove"} => r.cur \in table[w]
    /\ r.pc \in {"destroy", "remove"} /\ r.token # NoToken => r.cur = r.token
    /\ r.pc = "unlink" => r.todo \cap table[w] = {}
    /\ r.pc = "open" => r.cookie \in table[w] /\ Recent(r, r.cookie)
    /\ r.pc \in {"expire", "stat"} =>
           r.todo \subseteq table[w] /\ \A t \in table[w] \ r.todo : Recent(r, t)
    /\ r.began <= now

Apart == StoreInv /\ \A w \in Workers : RequestInv(req[w], w)

Inv == TypeOK /\ Apart

(***************************************************************************)
(* What a step of w may change of what the other workers rely on.          *)
(***************************************************************************)
Elsewhere(w) == UNION {table[v] : v \in Workers \ {w}}

Spares(w) ==
    /\ \A v \in Workers \ {w} : req'[v] = req[v] /\ table'[v] = table[v]
    /\ \A t \in Tokens : ~Unused(t) => issued'[t] = issued[t]
    /\ \A t \in Elsewhere(w) : /\ last'[t] = last[t]
                               /\ files'[t] = files[t] \/ files'[t] = NoFile
    /\ now' = now

\* A step of w that spares the other workers keeps what the invariant says
\* of their requests.
LEMMA OthersKept ==
    ASSUME Inv, NEW w \in Workers, Spares(w), NEW v \in Workers \ {w}
    PROVE  RequestInv(req[v], v)'
<1> DEFINE r == req[v]
<1>1. RequestInv(r, v) /\ req'[v] = r /\ table'[v] = table[v] /\ now' = now
    BY DEF Inv, Apart, Spares
<1>2. r \in Request /\ table[v] \subseteq Tokens
    BY DEF Inv, TypeOK
<1>3. \A t \in table[v] : /\ t \in Tokens /\ issued'[t] = issued[t]
                          /\ last'[t] = last[t]
                          /\ files'[t] = files[t] \/ files'[t] = NoFile
    BY <1>2 DEF Inv, Apart, StoreInv, Spares, Elsewhere
<1>4. \A t \in table[v] : Recent(r, t) => Recent(r, t)'
    BY <1>3, <1>1 DEF Recent, Present
<1>5. \A t \in Tokens : issued[t] \in Browsers => issued'[t] = issued[t]
    BY SessionAssumption DEF Spares, Unused
<1>6. r.pc # "idle" /\ r.cookie # NoToken => issued'[r.cookie] = r.by
    BY <1>1, <1>2, <1>5 DEF RequestInv, Request
<1>7. HasSession(r, v) => /\ r.token \in table[v] /\ issued'[r.token] = r.by
                          /\ r.data # Missing => r.base = last'[r.token]
    BY <1>3 DEF HasSession
<1> QED
    BY <1>1, <1>4, <1>6, <1>7 DEF RequestInv, HasSession, Recent, Present

\* A step that changes the request of w only.
LEMMA QuietStep ==
    ASSUME Inv, NEW w \in Workers, NEW r, Become(w, r), RequestInv(r, w),
           UNCHANGED <<files, table, cookie, now, issued, last>>
    PROVE  Apart'
<1>1. req'[w] = r /\ \A v \in Workers \ {w} : req'[v] = req[v]
    BY DEF Become, Inv, TypeOK
<1>2. Spares(w)
    BY <1>1 DEF Spares, Elsewhere, Inv, TypeOK
<1>3. StoreInv'
    BY DEF Inv, Apart, StoreInv, Unused, Present, Readable
<1>4. RequestInv(req[w], w)'
    BY <1>1 DEF RequestInv, HasSession, Recent, Present
<1> QED
    BY <1>2, <1>3, <1>4, OthersKept DEF Apart

\* What is left when an exception leaves the application.
LEMMA FailedRequest ==
    ASSUME Inv, NEW w \in Workers
    PROVE  RequestInv([NoRequest EXCEPT !.token = req[w].token,
                                        !.data  = req[w].data], w)
BY DEF RequestInv, NoRequest, Restoring, Inv, TypeOK, Time

\* An exception that changes nothing in the store keeps the invariant.
LEMMA FailStep ==
    ASSUME Inv, NEW w \in Workers, Fail(w),
           UNCHANGED <<files, table, cookie, now, issued, last>>
    PROVE  Apart'
BY FailedRequest, QuietStep DEF Fail

\* A request that comes in: Client.__init__ drops the client before it.
LEMMA ReceiveStep ==
    ASSUME Inv, NEW w \in Workers, NEW b \in Browsers, Receive(w, b)
    PROVE  Apart'
<1>1. PICK r : /\ r.pc \in {"handle", "list"} /\ r.by = b /\ r.cookie = cookie[b]
               /\ r.began = now /\ r.token = NoToken /\ r.base = {}
               /\ r.pc = "list" => cookie[b] # NoToken
               /\ Become(w, r)
    <2>1. req[w] \in Request /\ req[w].base = {}
        BY DEF Receive, Inv, TypeOK, Apart, RequestInv
    <2>2. NewClient(req[w]) \in Request /\ NewClient(req[w]).token = NoToken
          /\ NewClient(req[w]).base = {}
        BY <2>1, EmptyType DEF NewClient, Request
    <2> QED
        BY <2>2 DEF Receive, Request
<1>2. RequestInv(r, w)
    BY <1>1 DEF RequestInv, Restoring, Inv, Apart, StoreInv, TypeOK, Time
<1> QED
    BY <1>1, <1>2, QuietStep DEF Receive

\* destroy_session forgets a session of the table of w.
LEMMA UnregisterStep ==
    ASSUME Inv, NEW w \in Workers, req[w].pc \in {"destroy", "remove"},
           Unregister(w),
           UNCHANGED <<cookie, now, issued, last>>,
           \A t \in Tokens : \/ files'[t] = files[t]
                             \/ t = req[w].cur /\ files'[t] = NoFile
    PROVE  Apart'
<1> DEFINE t == req[w].cur
<1>1. RequestInv(req[w], w) /\ StoreInv /\ req[w] \in Request
    BY DEF Inv, Apart, TypeOK
<1>2. t \in table[w] /\ table[w] \subseteq Tokens
    BY <1>1 DEF RequestInv, Inv, TypeOK
<1>3. table'[w] = table[w] \ {t} /\ \A v \in Workers \ {w} : table'[v] = table[v]
    BY DEF Unregister, Inv, TypeOK
<1>4. PICK r : Become(w, r) /\ r.token = NoToken /\ r.base = {}
               /\ \/ r.pc = "idle" /\ r.began = 0
                  \/ /\ r.pc = "handle" /\ r.by = req[w].by
                     /\ r.cookie = req[w].cookie /\ r.began = req[w].began
    <2>1. CASE req[w].token = NoToken
        <3> DEFINE r == [NoRequest EXCEPT !.token = req[w].token,
                                          !.data  = req[w].data]
        <3>1. r.token = NoToken /\ r.base = {} /\ r.pc = "idle" /\ r.began = 0
            BY <2>1 DEF NoRequest
        <3>2. Become(w, r)
            BY <2>1 DEF Unregister, Fail
        <3> QED
            BY <3>1, <3>2
    <2>2. CASE req[w].token # NoToken
        <3> DEFINE r == [req[w] EXCEPT !.pc = "handle", !.token = NoToken,
                                       !.data = {}, !.base = {}, !.cur = NoToken]
        <3>1. /\ r.token = NoToken /\ r.base = {} /\ r.pc = "handle"
              /\ r.by = req[w].by /\ r.cookie = req[w].cookie
              /\ r.began = req[w].began
            BY <1>1 DEF Request
        <3>2. Become(w, r)
            BY <2>2 DEF Unregister
        <3> QED
            BY <3>1, <3>2
    <2> QED
        BY <2>1, <2>2
<1>5. req'[w] = r /\ \A v \in Workers \ {w} : req'[v] = req[v]
    BY <1>4 DEF Become, Inv, TypeOK
<1>6. Spares(w)
    BY <1>1, <1>2, <1>3, <1>5 DEF Spares, Elsewhere, StoreInv, Inv, TypeOK
<1>7. StoreInv'
    BY <1>1, <1>3 DEF StoreInv, Unused, Present, Readable
<1>8. RequestInv(r, w)'
    BY <1>1, <1>4, <1>5 DEF RequestInv, Restoring, Inv, TypeOK, Time
<1> QED
    BY <1>5, <1>6, <1>7, <1>8, OthersKept DEF Apart

\* The steps of gc: what it unlinks is not registered here, and what it has
\* looked at in the table had not expired when the request came in.
LEMMA GcStep ==
    ASSUME Inv, NEW w \in Workers, Gc(w)
    PROVE  Apart'
<1> DEFINE q == req[w]
<1>1. RequestInv(q, w) /\ StoreInv /\ q \in Request
    BY DEF Inv, Apart, TypeOK
<1>t. table[w] \subseteq Tokens /\ q.todo \subseteq Tokens
    BY <1>1 DEF Inv, TypeOK, Request
<1>2. CASE ListFiles(w)
    <2>1. RequestInv([q EXCEPT !.pc = "unlink", !.todo = Unregistered(w)], w)
        BY <1>1, <1>2 DEF ListFiles, RequestInv, Request, HasSession, Restoring,
           Unregistered
    <2> QED
        BY <1>2, <2>1, QuietStep DEF ListFiles
<1>3. CASE UnlinkFile(w)
    <2>1. PICK t \in q.todo :
             \/ /\ files' = [files EXCEPT ![t] = NoFile]
                /\ Become(w, [q EXCEPT !.todo = @ \ {t}])
             \/ Fail(w) /\ UNCHANGED files
        BY <1>3 DEF UnlinkFile
    <2>2. CASE Fail(w) /\ UNCHANGED files
        BY <1>3, <2>2, FailStep DEF UnlinkFile
    <2>3. CASE files' = [files EXCEPT ![t] = NoFile]
               /\ Become(w, [q EXCEPT !.todo = @ \ {t}])
        <3>1. \A u \in Tokens : files'[u] = files[u] \/ files'[u] = NoFile
            BY <2>3 DEF Inv, TypeOK
        <3>2. req'[w] = [q EXCEPT !.todo = @ \ {t}]
              /\ \A v \in Workers \ {w} : req'[v] = req[v]
            BY <2>3 DEF Become, Inv, TypeOK
        <3>3. UNCHANGED <<table, cookie, now, issued, last>> /\ q.pc = "unlink"
            BY <1>3 DEF UnlinkFile
        <3>4. Spares(w)
            BY <3>1, <3>2, <3>3 DEF Spares, Elsewhere, Inv, TypeOK
        <3>5. StoreInv'
            BY <1>1, <3>1, <3>3 DEF StoreInv, Unused, Present, Readable
        <3>6. RequestInv(req[w], w)'
            BY <1>1, <3>2, <3>3 DEF RequestInv, HasSession, Restoring, Request
        <3> QED
            BY <3>4, <3>5, <3>6, OthersKept DEF Apart
    <2> QED
        BY <2>1, <2>2, <2>3
<1>4. CASE ScanTable(w)
    <2>1. RequestInv([q EXCEPT !.pc = "expire", !.todo = table[w]], w)
        BY <1>1, <1>4 DEF ScanTable, RequestInv, Request, HasSession, Restoring
    <2> QED
        BY <1>4, <2>1, QuietStep DEF ScanTable
<1>5. CASE FindFile(w)
    <2>1. ASSUME NEW t \in q.todo, t \in Present
          PROVE  RequestInv([q EXCEPT !.pc = "stat", !.cur = t], w)
        BY <1>1, <1>5 DEF FindFile, RequestInv, Request, HasSession, Restoring,
           Recent
    <2>2. ASSUME NEW t \in q.todo, t \notin Present
          PROVE  RequestInv([q EXCEPT !.todo = @ \ {t}], w)
        BY <1>1, <1>5, <2>2 DEF FindFile, RequestInv, Request, HasSession,
           Restoring, Recent
    <2> QED
        BY <1>5, <2>1, <2>2, QuietStep DEF FindFile
<1>6. CASE StatFile(w)
    <2>1. RequestInv([q EXCEPT !.pc = "destroy"], w)
        BY <1>1, <1>6 DEF StatFile, RequestInv, Request, HasSession, Restoring
    <2>2. ASSUME q.cur \in Present, ~Expired(q.cur)
          PROVE  RequestInv([q EXCEPT !.pc = "expire", !.todo = @ \ {q.cur},
                                      !.cur = NoToken], w)
        <3>1. Recent(q, q.cur)
            <4>1. files[q.cur].mtime \in Nat /\ now \in Nat /\ q.began \in Nat
                  /\ q.began <= now
                BY <1>1, <2>2, SessionAssumption
                DEF Present, Inv, TypeOK, File, Time, Request, RequestInv
            <4> QED
                BY <2>2, <4>1, SessionAssumption DEF Recent, Expired
        <3> QED
            BY <1>1, <1>6, <3>1 DEF StatFile, RequestInv, Request, HasSession,
               Restoring, Recent
    <2> QED
        BY <1>6, <2>1, <2>2, QuietStep, FailStep DEF StatFile, Goto
<1>7. CASE Destroy(w)
    <2>1. RequestInv([q EXCEPT !.pc = "remove"], w)
        BY <1>1, <1>7 DEF Destroy, RequestInv, Request, HasSession, Restoring
    <2> QED
        BY <1>7, <2>1, QuietStep, UnregisterStep DEF Destroy, Goto
<1>8. CASE RemoveFile(w)
    <2>1. CASE Fail(w) /\ UNCHANGED <<files, table>>
        BY <1>8, <2>1, FailStep DEF RemoveFile
    <2>2. CASE Unregister(w) /\ files' = [files EXCEPT ![q.cur] = NoFile]
        <3>1. \A t \in Tokens : \/ files'[t] = files[t]
                                \/ t = req[w].cur /\ files'[t] = NoFile
            BY <2>2 DEF Inv, TypeOK
        <3> QED
            BY <1>8, <2>2, <3>1, UnregisterStep DEF RemoveFile
    <2> QED
        BY <1>8, <2>1, <2>2 DEF RemoveFile
<1> QED
    BY <1>2, <1>3, <1>4, <1>5, <1>6, <1>7, <1>8 DEF Gc

\* The end of restore_session hands out what was last stored.
LEMMA RestoreStep ==
    ASSUME Inv, NEW w \in Workers, CheckToken(w) \/ OpenFile(w)
    PROVE  Apart'
<1> DEFINE q == req[w]
           t == q.cookie
<1>1. RequestInv(q, w) /\ StoreInv /\ q \in Request
    BY DEF Inv, Apart, TypeOK
<1>2. CASE CheckToken(w)
    <2>1. RequestInv([q EXCEPT !.pc = "handle"], w)
        BY <1>1, <1>2 DEF CheckToken, RequestInv, Request, HasSession, Restoring
    <2>2. ASSUME t \in table[w]
          PROVE  /\ RequestInv([q EXCEPT !.pc = "open"], w)
                 /\ RequestInv([q EXCEPT !.pc = "handle", !.token = t,
                                         !.data = Missing], w)
        BY <1>1, <1>2, <2>2 DEF CheckToken, RequestInv, Request, HasSession,
           Restoring, Recent
    <2> QED
        BY <1>2, <2>1, <2>2, QuietStep DEF CheckToken, Goto
<1>3. CASE OpenFile(w)
    <2>1. ASSUME Readable(t)
          PROVE  RequestInv([q EXCEPT !.pc = "handle", !.token = t,
                                      !.data = files[t].data,
                                      !.base = files[t].data], w)
        BY <1>1, <1>3, <2>1
        DEF OpenFile, RequestInv, Request, HasSession, Restoring, StoreInv, Readable,
            Present
    <2> QED
        BY <1>3, <2>1, QuietStep, FailStep DEF OpenFile
<1> QED
    BY <1>2, <1>3

\* The session started is new to every table, cookie and request.
LEMMA StartStep ==
    ASSUME Inv, NEW w \in Workers, NEW t \in Tokens, NEW data \in Data,
           req[w].pc = "handle", req[w].token = NoToken, req[w].data # Missing,
           Start(w, t), Become(w, [req[w] EXCEPT !.token = t, !.data = data]),
           UNCHANGED <<cookie, now, last>>
    PROVE  Apart'
<1> DEFINE q == req[w]
<1>0. PICK r : r = [q EXCEPT !.token = t, !.data = data]
    OBVIOUS
<1>1. RequestInv(q, w) /\ StoreInv /\ q \in Request /\ q.by \in Browsers
    BY DEF Inv, Apart, TypeOK, RequestInv
<1>2. /\ r.pc = "handle" /\ r.by = q.by /\ r.cookie = q.cookie /\ r.token = t
      /\ r.base = {} /\ r.began = q.began
    BY <1>0, <1>1 DEF Request, RequestInv
<1>3. req'[w] = r /\ \A v \in Workers \ {w} : req'[v] = req[v]
    BY <1>0 DEF Become, Inv, TypeOK
<1>4. /\ issued'[t] = q.by /\ \A u \in Tokens \ {t} : issued'[u] = issued[u]
      /\ files'[t] = [data |-> {}, mtime |-> now]
      /\ \A u \in Tokens \ {t} : files'[u] = files[u]
      /\ table'[w] = table[w] \cup {t}
      /\ \A v \in Workers \ {w} : table'[v] = table[v]
    BY DEF Start, Inv, TypeOK
<1>5. Unused(t) /\ \A v \in Workers : t \notin table[v]
    BY <1>1 DEF Start, Unused, StoreInv
<1>6. Spares(w)
    BY <1>3, <1>4, <1>5 DEF Spares, Elsewhere, Unused, Inv, TypeOK
<1>7. StoreInv'
    <2>1. files'[t].data = {} /\ last'[t] = {} /\ ~Unused(t)'
        BY <1>1, <1>4, <1>5, SessionAssumption DEF StoreInv, Unused
    <2>2. \A b \in Browsers : cookie[b] # NoToken =>
              cookie[b] \in Tokens /\ issued'[cookie[b]] = b
        BY <1>1, <1>4, <1>5, SessionAssumption DEF StoreInv, Unused, Inv, TypeOK
    <2>3. \A u \in Tokens \ {t} : (u \in Present)' => u \in Present
        BY <1>4 DEF Present
    <2>4. /\ \A v, x \in Workers : \A u \in table'[v] \cap table'[x] : v = x
          /\ \A v \in Workers : \A u \in table'[v] : u = t \/ u \in table[v]
        BY <1>1, <1>4, <1>5 DEF StoreInv
    <2>5. \A v \in Workers : \A u \in table'[v] : ~Unused(u)'
        BY <1>1, <1>4, <2>1, <2>4 DEF StoreInv, Unused, Inv, TypeOK
    <2>6. \A u \in Tokens : Unused(u)' => u \notin Present' /\ last'[u] = {}
        BY <1>1, <1>4, <2>1, <2>3 DEF StoreInv, Unused
    <2>7. \A u \in Tokens : Readable(u)' => files'[u].data = last'[u]
        BY <1>1, <1>4, <2>1, <2>3 DEF StoreInv, Readable
    <2> QED
        BY <2>2, <2>4, <2>5, <2>6, <2>7 DEF StoreInv
<1>8. RequestInv(r, w)'
    <2>1. q.cookie # NoToken => issued'[q.cookie] = q.by
        BY <1>1, <1>4, <1>5, SessionAssumption DEF RequestInv, Request, Unused
    <2>2. last'[t] = {}
        BY <1>1, <1>5 DEF StoreInv
    <2> QED
        BY <1>1, <1>2, <1>4, <2>1, <2>2 DEF RequestInv, Restoring, HasSession
<1> QED
    BY <1>3, <1>6, <1>7, <1>8, OthersKept DEF Apart

\* What a controller does keeps the invariant.
LEMMA HandleStep ==
    ASSUME Inv, NEW w \in Workers, Handle(w)
    PROVE  Apart'
<1> DEFINE q == req[w]
<1>1. RequestInv(q, w) /\ StoreInv /\ q \in Request /\ q.pc = "handle"
    BY DEF Inv, Apart, TypeOK, Handle, SetItem, DelItem, Authenticate,
       AuthenticationFailure, SignOut, ControllerRaises, Respond
<1>2. ASSUME NEW data \in Data, q.data # Missing
      PROVE  RequestInv([q EXCEPT !.data = data], w)
    BY <1>1, <1>2 DEF RequestInv, Request, HasSession, Restoring
<1>3. \A reply : RequestInv([q EXCEPT !.pc = "save", !.reply = reply], w)
    BY <1>1 DEF RequestInv, Request, HasSession, Restoring
<1>4. q.data # Missing => /\ \A k \in Keys : q.data \cup {k} \in Data
                          /\ \A k : q.data \ {k} \in Data
    BY <1>1 DEF Request, Data
<1>5. CASE SetItem(w)
    <2>1. PICK k \in Keys :
             \/ /\ Become(w, [q EXCEPT !.data = @ \cup {k}])
                /\ UNCHANGED <<files, table, issued>>
             \/ /\ q.token = NoToken
                /\ \E t \in Tokens :
                      /\ Start(w, t)
                      /\ Become(w, [q EXCEPT !.token = t, !.data = @ \cup {k}])
        BY <1>5 DEF SetItem
    <2>2. q.data # Missing /\ q.data \cup {k} \in Data
          /\ UNCHANGED <<cookie, now, last>>
        BY <1>4, <1>5 DEF SetItem
    <2> QED
        BY <1>1, <1>2, <2>1, <2>2, QuietStep, StartStep
<1>6. CASE DelItem(w)
    BY <1>2, <1>4, <1>6, QuietStep DEF DelItem
<1>7. CASE Authenticate(w)
    BY <1>2, <1>4, <1>7, QuietStep, SessionAssumption DEF Authenticate
<1>8. CASE AuthenticationFailure(w)
    BY <1>3, <1>8, QuietStep DEF AuthenticationFailure
<1>9. CASE SignOut(w)
    <2>1. q.token \in table[w] =>
              RequestInv([q EXCEPT !.pc = "destroy", !.cur = q.token], w)
        BY <1>1 DEF RequestInv, Request, HasSession, Restoring
    <2> QED
        BY <1>3, <1>9, <2>1, QuietStep DEF SignOut
<1>10. CASE ControllerRaises(w)
    BY <1>10, FailStep DEF ControllerRaises
<1>11. CASE Respond(w)
    BY <1>3, <1>11, QuietStep DEF Respond
<1> QED
    BY <1>5, <1>6, <1>7, <1>8, <1>9, <1>10, <1>11 DEF Handle

\* Between two requests a worker holds nothing.
LEMMA IdleRequest ==
    ASSUME TypeOK, NEW w \in Workers
    PROVE  RequestInv(NoRequest, w)
BY DEF RequestInv, NoRequest, Restoring, TypeOK, Time

\* save_session writes to the file of a session of this worker only, and the
\* cookie it sets is one of the browser's own sessions.
LEMMA FinishStep ==
    ASSUME Inv, NEW w \in Workers, Finish(w)
    PROVE  Apart'
<1> DEFINE q == req[w]
           t == q.token
<1>1. RequestInv(q, w) /\ StoreInv /\ q \in Request
    BY DEF Inv, Apart, TypeOK
<1>2. q.pc = "save" => /\ q.by \in Browsers /\ t \in Tokens \cup {NoToken}
                       /\ t # NoToken => t \in table[w] /\ issued[t] = q.by
    BY <1>1 DEF RequestInv, HasSession, Request
<1>3. ASSUME q.pc = "save", Answer(w), t # NoToken => t \in Tokens
      PROVE  /\ req'[w] = NoRequest
             /\ \A v \in Workers \ {w} : req'[v] = req[v]
             /\ \A b \in Browsers : cookie'[b] # NoToken => issued[cookie'[b]] = b
    <2>1. /\ \A b \in Browsers \ {q.by} : cookie'[b] = cookie[b]
          /\ cookie'[q.by] \in {cookie[q.by], t, NoToken}
        BY <1>1, <1>2, <1>3 DEF Answer, Inv, TypeOK, Request
    <2>2. \A b \in Browsers : cookie[b] # NoToken => issued[cookie[b]] = b
        BY <1>1 DEF StoreInv
    <2>3. \A b \in Browsers : cookie'[b] # NoToken => issued[cookie'[b]] = b
        <3> SUFFICES ASSUME NEW b \in Browsers, cookie'[b] # NoToken
                     PROVE  issued[cookie'[b]] = b
            OBVIOUS
        <3>1. CASE b = q.by
            BY <1>2, <1>3, <2>1, <2>2, <3>1
        <3>2. CASE b # q.by
            BY <2>1, <2>2, <3>2
        <3> QED
            BY <3>1, <3>2
    <2>4. req'[w] = NoRequest /\ \A v \in Workers \ {w} : req'[v] = req[v]
        BY <1>3 DEF Answer, Become, Inv, TypeOK
    <2> QED
        BY <2>3, <2>4
<1>4. CASE Clean(w)
    <2>1. Spares(w)
        BY <1>3, <1>4 DEF Clean, Spares, Elsewhere, Inv, TypeOK
    <2>2. StoreInv'
        BY <1>1, <1>3, <1>4 DEF Clean, StoreInv, Unused, Present, Readable
    <2>3. RequestInv(req[w], w)'
        BY <1>3, <1>4, IdleRequest
        DEF Clean, RequestInv, NoRequest, Restoring, Inv, TypeOK
    <2> QED
        BY <2>1, <2>2, <2>3, OthersKept DEF Apart
<1>5. ASSUME q.pc = "save", t \in table[w], table' = table, now' = now,
             issued' = issued, \A u \in Tokens \ {t} : files'[u] = files[u]
                                                  /\ last'[u] = last[u],
             files'[t].data \in {Torn, last'[t]},
             \A b \in Browsers : cookie'[b] # NoToken => issued[cookie'[b]] = b
      PROVE  /\ StoreInv'
             /\ (\A v \in Workers \ {w} : req'[v] = req[v]) => Spares(w)
    <2>1. t \in Tokens /\ t \notin Elsewhere(w) /\ ~Unused(t)
        BY <1>1, <1>5 DEF StoreInv, Elsewhere, Inv, TypeOK
    <2>2. \A u \in Elsewhere(w) : u \in Tokens
        BY DEF Elsewhere, Inv, TypeOK
    <2>3. Spares(w) <=> \A v \in Workers \ {w} : req'[v] = req[v]
        BY <1>5, <2>1, <2>2 DEF Spares
    <2>4. StoreInv'
        BY <1>1, <1>5, <2>1 DEF StoreInv, Unused, Present, Readable
    <2> QED
        BY <2>3, <2>4
<1>6. CASE Save(w)
    <2>1. /\ files'[t].data = last'[t]
          /\ \A u \in Tokens \ {t} : files'[u] = files[u] /\ last'[u] = last[u]
        BY <1>6 DEF Save, Inv, TypeOK
    <2>2. t \in Tokens
        BY <1>6 DEF Save, Inv, TypeOK
    <2>3. StoreInv' /\ Spares(w)
        BY <1>3, <1>5, <1>6, <2>1, <2>2 DEF Save
    <2>4. RequestInv(req[w], w)'
        BY <1>3, <1>6, <2>2, IdleRequest
        DEF Save, RequestInv, NoRequest, Restoring, Inv, TypeOK
    <2> QED
        BY <2>3, <2>4, OthersKept DEF Apart
<1>7. CASE SaveRefused(w)
    BY <1>7, FailStep DEF SaveRefused
<1>8. CASE SaveFails(w)
    <2>1. /\ files'[t].data = Torn
          /\ \A u \in Tokens \ {t} : files'[u] = files[u]
        BY <1>8 DEF SaveFails, TearFile, Inv, TypeOK
    <2>2. PICK r : Become(w, r) /\ RequestInv(r, w) /\ r.pc = "idle"
        <3> DEFINE r == [NoRequest EXCEPT !.token = req[w].token,
                                          !.data  = req[w].data]
        <3>1. r.pc = "idle"
            BY DEF NoRequest
        <3> QED
            BY <1>8, <3>1, FailedRequest DEF SaveFails, Fail
    <2>3. req'[w] = r /\ \A v \in Workers \ {w} : req'[v] = req[v]
        BY <2>2 DEF Become, Inv, TypeOK
    <2>4. StoreInv' /\ Spares(w)
        BY <1>1, <1>5, <1>8, <2>1, <2>3 DEF SaveFails, TearFile, StoreInv
    <2>5. RequestInv(req[w], w)'
        BY <1>8, <2>2, <2>3 DEF SaveFails, RequestInv, Restoring
    <2> QED
        BY <2>4, <2>5, OthersKept DEF Apart
<1> QED
    BY <1>4, <1>6, <1>7, <1>8 DEF Finish

\* A worker that is killed forgets its sessions; their files stay, one of
\* them torn perhaps.
LEMMA CrashStep ==
    ASSUME Inv, NEW w \in Workers, Crash(w)
    PROVE  Apart'
<1> DEFINE t == req[w].token
<1>1. StoreInv /\ req'[w] = NoRequest /\ table'[w] = {}
      /\ \A v \in Workers \ {w} : req'[v] = req[v] /\ table'[v] = table[v]
    BY DEF Crash, Become, Inv, Apart, TypeOK
<1>2. /\ UNCHANGED <<cookie, now, issued, last>>
      /\ \A u \in Tokens : \/ files'[u] = files[u]
                           \/ files'[u].data = Torn /\ u \in table[w]
    BY DEF Crash, TearFile, Inv, TypeOK
<1>3. Spares(w)
    BY <1>1, <1>2 DEF Spares, Elsewhere, StoreInv, Inv, TypeOK
<1>4. StoreInv'
    BY <1>1, <1>2 DEF StoreInv, Unused, Present, Readable
<1>5. RequestInv(req[w], w)'
    BY <1>1, <1>2, IdleRequest DEF RequestInv, NoRequest, Restoring, Inv
<1> QED
    BY <1>3, <1>4, <1>5, OthersKept DEF Apart

\* The invariant holds at the start,
LEMMA InvInit == Init => Inv
<1> SUFFICES ASSUME Init PROVE Inv
    OBVIOUS
<1>1. StoreInv
    BY DEF Init, StoreInv, Unused, Present, Readable
<1>2. \A w \in Workers : RequestInv(req[w], w)
    <2> SUFFICES ASSUME NEW w \in Workers PROVE RequestInv(req[w], w)
        OBVIOUS
    <2>1. req[w] = NoRequest
        BY DEF Init
    <2> QED
        BY <2>1, TypeInit, IdleRequest
<1> QED
    BY <1>1, <1>2, TypeInit DEF Inv, Apart

\* ... every step keeps it,
LEMMA InvNext == Inv /\ [Next]_vars => Inv'
<1> SUFFICES ASSUME Inv, [Next]_vars PROVE Inv'
    OBVIOUS
<1>1. TypeOK'
    BY TypeNext DEF Inv
<1>2. CASE Tick
    <2>1. now \in Nat /\ now' = now + 1 /\ \A w \in Workers : req[w].began \in Nat
        BY <1>2, SessionAssumption DEF Tick, Inv, TypeOK, Time, Request
    <2>2. \A w \in Workers : RequestInv(req[w], w) => RequestInv(req[w], w)'
        BY <1>2, <2>1 DEF Tick, RequestInv, HasSession, Recent, Present
    <2> QED
        BY <1>1, <1>2, <2>2 DEF Tick, Inv, Apart, StoreInv, Unused, Present, Readable
<1>3. CASE UNCHANGED vars
    BY <1>1, <1>3 DEF vars, Inv, Apart, StoreInv, Unused, Present, Readable,
       RequestInv, HasSession, Recent
<1> QED
    BY <1>1, <1>2, <1>3, ReceiveStep, GcStep, RestoreStep, HandleStep, FinishStep,
       CrashStep DEF Next, Step, Inv

\* ... and so it always holds.
LEMMA InvHolds == Spec => []Inv
BY InvInit, InvNext, PTL DEF Spec

-----------------------------------------------------------------------------
(***************************************************************************)
(* The variables keep their types: a request is always at a point of the   *)
(* program, with the client it has so far.                                 *)
(***************************************************************************)
THEOREM SessionTypes == Spec => []TypeOK
BY TypeInit, TypeNext, PTL DEF Spec

(***************************************************************************)
(* The worker that answers a request can save its session, and is the only *)
(* one that can.                                                           *)
(***************************************************************************)
THEOREM SessionsRegistered == Spec => []SessionIsRegistered
<1>1. Inv => SessionIsRegistered
    <2> SUFFICES ASSUME Inv, NEW w \in Workers, NEW t \in Tokens, Holds(w, t)
                 PROVE  \A v \in Workers : t \in table[v] <=> v = w
        BY DEF SessionIsRegistered
    <2>1. t \in table[w]
        BY DEF Inv, Apart, RequestInv, HasSession, Holds, Active
    <2>2. \A v \in Workers : t \in table[v] \cap table[w] => v = w
        BY DEF Inv, Apart, StoreInv
    <2> QED
        BY <2>1, <2>2
<1> QED
    BY <1>1, InvHolds, PTL

(***************************************************************************)
(* No request has the session of another browser than its own.             *)
(***************************************************************************)
THEOREM SessionsSeparated == Spec => []OwnSessionOnly
<1>1. Inv => OwnSessionOnly
    BY DEF Inv, Apart, RequestInv, HasSession, OwnSessionOnly, Holds, Active
<1> QED
    BY <1>1, InvHolds, PTL

(***************************************************************************)
(* No request works on an outdated copy of its session.                    *)
(***************************************************************************)
THEOREM NoLostUpdate == Spec => []CopyIsCurrent
<1>1. Inv => CopyIsCurrent
    BY DEF Inv, Apart, RequestInv, HasSession, CopyIsCurrent, Holds, Active
<1> QED
    BY <1>1, InvHolds, PTL

(***************************************************************************)
(* No request opens a session that had expired when it came in.            *)
(***************************************************************************)
THEOREM ExpiredStaysClosed == Spec => []OpenedHasNotExpired
<1>1. Inv => OpenedHasNotExpired
    BY DEF Inv, Apart, RequestInv, Recent, OpenedHasNotExpired
<1> QED
    BY <1>1, InvHolds, PTL
-----------------------------------------------------------------------------
\* What a step does to the requests, it does to that of one worker.
LEMMA StepBecomes ==
    ASSUME NEW v \in Workers,
           (\E b \in Browsers : Receive(v, b)) \/ Step(v) \/ Crash(v)
    PROVE  \E r : Become(v, r)
<1>1. CASE (\E b \in Browsers : Receive(v, b)) \/ Crash(v)
    BY <1>1 DEF Receive, Crash
<1>2. Fail(v) \/ Unregister(v) \/ Answer(v) \/ (\E pc : Goto(v, pc))
      => \E r : Become(v, r)
    BY DEF Fail, Unregister, Answer, Goto
<1>3. CASE Gc(v)
    BY <1>2, <1>3 DEF Gc, ListFiles, UnlinkFile, ScanTable, FindFile, StatFile,
       Destroy, RemoveFile
<1>4. CASE CheckToken(v) \/ OpenFile(v)
    BY <1>2, <1>4 DEF CheckToken, OpenFile
<1>5. CASE Handle(v)
    BY <1>2, <1>5 DEF Handle, SetItem, DelItem, Authenticate,
       AuthenticationFailure, SignOut, ControllerRaises, Respond
<1>6. CASE Finish(v)
    BY <1>2, <1>6 DEF Finish, Clean, Save, SaveRefused, SaveFails
<1> QED
    BY <1>1, <1>3, <1>4, <1>5, <1>6 DEF Step

\* A step of w leaves the files of the sessions it keeps in its table.
LEMMA OwnFilesKept ==
    ASSUME Inv, Inv', NEW w \in Workers, req'[w] # req[w], [Next]_vars
    PROVE  (Present \ Present') \cap table'[w] = {}
<1>1. /\ RequestInv(req[w], w) /\ table[w] \subseteq Tokens
      /\ req[w] \in Request /\ table'[w] \subseteq Tokens
    BY DEF Inv, Apart, TypeOK
<1> SUFFICES ASSUME NEW t \in table'[w], files[t] # NoFile
             PROVE  files'[t] # NoFile
    BY <1>1 DEF Present
<1>p. t \in Tokens /\ files[t] # NoFile
    BY <1>1
<1>0. files' \in [Tokens -> {NoFile} \cup File] /\ now \in Time
    BY DEF Inv, TypeOK
<1>2. CASE UnlinkFile(w)
    BY <1>1, <1>p, <1>2 DEF UnlinkFile, RequestInv, Inv, TypeOK
<1>3. CASE RemoveFile(w)
    BY <1>1, <1>p, <1>3 DEF RemoveFile, Unregister, Inv, TypeOK
<1>u. CASE UNCHANGED <<files, table>>
    BY <1>p, <1>u
<1>4. CASE SetItem(w)
    <2>1. [data |-> {}, mtime |-> now] # NoFile
        BY <1>0, EmptyType, SessionAssumption DEF File
    <2>2. CASE UNCHANGED <<files, table>>
        BY <1>u, <2>2
    <2>3. CASE \E u \in Tokens : Start(w, u)
        <3>1. PICK u \in Tokens : Start(w, u)
            BY <2>3
        <3>2. /\ table'[w] = table[w] \cup {u}
              /\ files' = [files EXCEPT ![u] = [data |-> {}, mtime |-> now]]
              /\ files \in [Tokens -> {NoFile} \cup File]
            BY <3>1 DEF Start, Inv, TypeOK
        <3> QED
            BY <1>p, <2>1, <3>2
    <2> QED
        BY <1>4, <2>2, <2>3 DEF SetItem
<1>5. CASE Save(w)
    <2>1. [data |-> req[w].data, mtime |-> now] # NoFile
        BY <1>0, <1>1, <1>5, SessionAssumption DEF File, Save, Request
    <2> QED
        BY <1>p, <1>5, <2>1 DEF Save, Inv, TypeOK
<1>6. CASE SaveFails(w) \/ Crash(w)
    <2>1. [data |-> Torn, mtime |-> now] # NoFile
        BY <1>0, SessionAssumption DEF File
    <2> QED
        BY <1>p, <1>6, <2>1 DEF SaveFails, Crash, TearFile, Inv, TypeOK
<1>7. CASE Destroy(w)
    BY <1>p, <1>7 DEF Destroy, Unregister, Inv, TypeOK
<1>9. \/ (\E b \in Browsers : Receive(w, b)) \/ Step(w) \/ Crash(w)
      \/ Tick \/ UNCHANGED vars
    <2>1. \A v \in Workers : (\E r : Become(v, r)) => v = w
        BY DEF Become, Inv, TypeOK
    <2> QED
        BY <2>1, StepBecomes DEF Next
<1>10. CASE (\E b \in Browsers : Receive(w, b)) \/ Tick \/ UNCHANGED vars
    BY <1>u, <1>10 DEF Receive, Tick, vars
<1>11. CASE Gc(w)
    BY <1>2, <1>3, <1>7, <1>u, <1>11
    DEF Gc, ListFiles, ScanTable, FindFile, StatFile
<1>12. CASE CheckToken(w) \/ OpenFile(w)
    BY <1>u, <1>12 DEF CheckToken, OpenFile
<1>13. CASE Handle(w)
    BY <1>4, <1>u, <1>13
    DEF Handle, DelItem, Authenticate, AuthenticationFailure, SignOut,
        ControllerRaises, Respond
<1>14. CASE Finish(w)
    BY <1>5, <1>6, <1>u, <1>14 DEF Finish, Clean, SaveRefused
<1> QED
    BY <1>6, <1>9, <1>10, <1>11, <1>12, <1>13, <1>14 DEF Step

(***************************************************************************)
(* A worker loses the file of a session it has registered only to the gc   *)
(* of other workers.                                                       *)
(***************************************************************************)
THEOREM OwnFilesStay == Spec => OwnStepsLoseNothing
<1>1. Inv /\ Inv' /\ [Next]_vars =>
      [\A w \in Workers : req'[w] # req[w] =>
          (Present \ Present') \cap table'[w] = {}]_vars
    BY OwnFilesKept
<1> QED
    BY <1>1, InvHolds, PTL DEF Spec, OwnStepsLoseNothing
-----------------------------------------------------------------------------
(***************************************************************************)
(* WebSessions implements SessionStore.                                    *)
(***************************************************************************)
\* The session of a request is one, and registered by its worker.
LEMMA SessionHeld ==
    ASSUME Inv, NEW w \in Workers, NEW s \in SessionOf(req[w])
    PROVE  /\ s = [session |-> req[w].token, by |-> req[w].by,
                   copy |-> req[w].base]
           /\ s.session \in table[w] /\ s.session \in AbstractLive
           /\ issued[s.session] = s.by /\ s.copy = last[s.session]
<1>1. /\ s = [session |-> req[w].token, by |-> req[w].by, copy |-> req[w].base]
      /\ req[w].pc # "idle" /\ req[w].token # NoToken /\ req[w].data # Missing
    BY DEF SessionOf
<1>2. HasSession(req[w], w) /\ table[w] \subseteq Tokens
    BY <1>1 DEF Inv, Apart, RequestInv, TypeOK
<1> QED
    BY <1>1, <1>2 DEF HasSession, AbstractLive

\* The sessions that requests have can be opened.
LEMMA InUseLive == Inv => Abstract!InUse \subseteq AbstractLive
<1> SUFFICES ASSUME Inv, NEW t \in Abstract!InUse PROVE t \in AbstractLive
    OBVIOUS
<1>1. PICK w \in Workers : \E s \in SessionOf(req[w]) : t = s.session
    BY DEF Abstract!InUse, AbstractHeld
<1> QED
    BY <1>1, SessionHeld

\* A session in use is in use by the worker that has registered it.
LEMMA InUseHere ==
    ASSUME Inv, NEW w \in Workers, NEW t \in table[w], SessionOf(req[w]) = {}
    PROVE  t \notin Abstract!InUse
<1> SUFFICES ASSUME t \in Abstract!InUse PROVE FALSE
    OBVIOUS
<1>1. PICK v \in Workers : \E s \in SessionOf(req[v]) : t = s.session
    BY DEF Abstract!InUse, AbstractHeld
<1>2. t \in table[v]
    BY <1>1, SessionHeld
<1> QED
    BY <1>1, <1>2 DEF Inv, Apart, StoreInv

(***************************************************************************)
(* A step that starts, opens and stores no session: the request of w has   *)
(* what it had or nothing, and nothing becomes readable or registered.     *)
(***************************************************************************)
Forgets(w) ==
    /\ \A v \in Workers \ {w} : req'[v] = req[v] /\ table'[v] = table[v]
    /\ SessionOf(req[w])' \in {SessionOf(req[w]), {}}
    /\ table'[w] \subseteq table[w]
    /\ \A t \in Tokens : Readable(t)' => Readable(t)
    /\ UNCHANGED <<issued, last>>

LEMMA ForgetsShown ==
    ASSUME Inv, Inv', NEW w \in Workers, Forgets(w)
    PROVE  [Abstract!Next]_(Abstract!vars)
<1>1. AbstractLive' \subseteq AbstractLive
    <2> SUFFICES ASSUME NEW t \in Tokens, NEW v \in Workers, t \in table'[v],
                        \/ Readable(t)'
                        \/ \E s \in SessionOf(req[v])' : s.session = t
                 PROVE  t \in table[v] /\ \/ Readable(t)
                                          \/ \E s \in SessionOf(req[v]) : s.session = t
        BY DEF AbstractLive
    <2>1. SessionOf(req[v])' \subseteq SessionOf(req[v])
        BY DEF Forgets, SessionOf
    <2> QED
        BY <2>1 DEF Forgets
<1>2. Abstract!Fewer
    <2>1. (Abstract!InUse \subseteq AbstractLive)'
        BY InUseLive, PTL
    <2> QED
        BY <1>1, <2>1 DEF Abstract!Fewer
<1>3. UNCHANGED <<issued, last>>
    BY DEF Forgets
<1>4. \A v \in Workers \ {w} : SessionOf(req[v])' = SessionOf(req[v])
    BY DEF Forgets, SessionOf
<1>5. CASE SessionOf(req[w])' = SessionOf(req[w])
    <2>1. AbstractHeld' = AbstractHeld
        BY <1>4, <1>5 DEF AbstractHeld
    <2> QED
        BY <1>2, <1>3, <2>1 DEF Abstract!Next, Abstract!Lose
<1>6. CASE SessionOf(req[w])' = {} /\ SessionOf(req[w]) # {}
    <2>1. AbstractHeld' = [AbstractHeld EXCEPT ![w] = {}]
        BY <1>4, <1>6 DEF AbstractHeld
    <2>2. AbstractHeld[w] # {}
        BY <1>6 DEF AbstractHeld
    <2>3. Abstract!Release(w)
        BY <1>2, <1>3, <2>1, <2>2 DEF Abstract!Release
    <2> QED
        BY <2>3 DEF Abstract!Next
<1> QED
    BY <1>5, <1>6 DEF Forgets

\* A request that goes on with the client it has, or without one.
LEMMA BecomeForgets ==
    ASSUME Inv, NEW w \in Workers, NEW r, Become(w, r),
           SessionOf(r) \in {SessionOf(req[w]), {}},
           \A v \in Workers \ {w} : table'[v] = table[v],
           table'[w] \subseteq table[w],
           \A t \in Tokens : Readable(t)' => Readable(t),
           UNCHANGED <<issued, last>>
    PROVE  Forgets(w)
<1>1. req'[w] = r /\ \A v \in Workers \ {w} : req'[v] = req[v]
    BY DEF Become, Inv, TypeOK
<1>2. SessionOf(req[w])' = SessionOf(r)
    BY <1>1 DEF SessionOf
<1> QED
    BY <1>1, <1>2 DEF Forgets

\* An exception ends the request.
LEMMA FailForgets ==
    ASSUME Inv, NEW w \in Workers, Fail(w),
           \A v \in Workers \ {w} : table'[v] = table[v],
           table'[w] \subseteq table[w],
           \A t \in Tokens : Readable(t)' => Readable(t),
           UNCHANGED <<issued, last>>
    PROVE  Forgets(w)
<1>1. PICK r : Become(w, r) /\ r.pc = "idle"
    <2> DEFINE r == [NoRequest EXCEPT !.token = req[w].token,
                                      !.data  = req[w].data]
    <2>1. r.pc = "idle"
        BY DEF NoRequest
    <2> QED
        BY <2>1 DEF Fail
<1>2. SessionOf(r) = {}
    BY <1>1 DEF SessionOf
<1> QED
    BY <1>1, <1>2, BecomeForgets

\* A change of the other parts of a request.
LEMMA SameSession ==
    ASSUME NEW q, NEW r, r.token = q.token, r.by = q.by, r.base = q.base,
           r.pc = "idle" <=> q.pc = "idle", r.data = Missing <=> q.data = Missing
    PROVE  SessionOf(r) = SessionOf(q)
BY DEF SessionOf

\* destroy_session.
LEMMA UnregisterForgets ==
    ASSUME Inv, NEW w \in Workers, Unregister(w),
           \A t \in Tokens : Readable(t)' => Readable(t),
           UNCHANGED <<issued, last>>
    PROVE  Forgets(w)
<1>1. /\ \A v \in Workers \ {w} : table'[v] = table[v]
      /\ table'[w] \subseteq table[w]
    BY DEF Unregister, Inv, TypeOK
<1>2. CASE Fail(w)
    BY <1>1, <1>2, FailForgets
<1>3. CASE Become(w, [req[w] EXCEPT !.pc = "handle", !.token = NoToken,
                                    !.data = {}, !.base = {}, !.cur = NoToken])
    <2>1. PICK r : Become(w, r) /\ r.token = NoToken
        <3> DEFINE r == [req[w] EXCEPT !.pc = "handle", !.token = NoToken,
                                    !.data = {}, !.base = {}, !.cur = NoToken]
        <3>1. r.token = NoToken
            BY DEF Inv, TypeOK, Request
        <3> QED
            BY <1>3, <3>1
    <2>2. SessionOf(r) = {}
        BY <2>1 DEF SessionOf
    <2> QED
        BY <1>1, <2>1, <2>2, BecomeForgets
<1> QED
    BY <1>2, <1>3 DEF Unregister

\* The loops of gc: files and registrations only disappear.
LEMMA GcForgets ==
    ASSUME Inv, NEW w \in Workers, Gc(w)
    PROVE  Forgets(w)
<1> DEFINE q == req[w]
<1>1. q \in Request /\ q.pc # "idle" /\ UNCHANGED <<issued, last>>
    BY DEF Gc, ListFiles, UnlinkFile, ScanTable, FindFile, StatFile, Destroy,
       RemoveFile, Inv, TypeOK
<1>2. \A t \in Tokens : Readable(t)' => Readable(t)
    <2>1. \A t \in Tokens : files'[t] = files[t] \/ files'[t] = NoFile
        BY DEF Gc, ListFiles, UnlinkFile, ScanTable, FindFile, StatFile, Destroy,
           RemoveFile, Inv, TypeOK
    <2> QED
        BY <2>1 DEF Readable, Present
<1>3. \A pc \in Programs \ {"idle"} : \A todo, cur :
          /\ SessionOf([q EXCEPT !.pc = pc]) = SessionOf(q)
          /\ SessionOf([q EXCEPT !.todo = todo]) = SessionOf(q)
          /\ SessionOf([q EXCEPT !.pc = pc, !.todo = todo]) = SessionOf(q)
          /\ SessionOf([q EXCEPT !.pc = pc, !.cur = cur]) = SessionOf(q)
          /\ SessionOf([q EXCEPT !.pc = pc, !.todo = todo, !.cur = cur])
                 = SessionOf(q)
    BY <1>1 DEF Request, SessionOf
<1>4. UNCHANGED table => \A pc \in Programs \ {"idle"} : \A todo, cur :
          /\ Goto(w, pc) => Forgets(w)
          /\ Become(w, [req[w] EXCEPT !.todo = todo]) => Forgets(w)
          /\ Become(w, [req[w] EXCEPT !.pc = pc, !.todo = todo]) => Forgets(w)
          /\ Become(w, [req[w] EXCEPT !.pc = pc, !.cur = cur]) => Forgets(w)
          /\ Become(w, [req[w] EXCEPT !.pc = pc, !.todo = todo, !.cur = cur])
                 => Forgets(w)
    BY <1>1, <1>2, <1>3, BecomeForgets DEF Goto
<1>5. Fail(w) /\ UNCHANGED table => Forgets(w)
    BY <1>1, <1>2, FailForgets
<1>6. Unregister(w) => Forgets(w)
    BY <1>1, <1>2, UnregisterForgets
<1>7. CASE ListFiles(w)
    BY <1>4, <1>7 DEF ListFiles, Programs
<1>8. CASE UnlinkFile(w)
    <2>1. Fail(w) \/ \E t : Become(w, [q EXCEPT !.todo = @ \ {t}])
        BY <1>8 DEF UnlinkFile
    <2>2. "list" \in Programs \ {"idle"} /\ UNCHANGED table
        BY <1>8 DEF UnlinkFile, Programs
    <2> QED
        BY <1>4, <1>5, <2>1, <2>2
<1>9. CASE ScanTable(w)
    BY <1>4, <1>9 DEF ScanTable, Programs
<1>10. CASE FindFile(w)
    <2>1. PICK t : Become(w, [q EXCEPT !.pc = "stat", !.cur = t])
                   \/ Become(w, [q EXCEPT !.todo = q.todo \ {t}])
        BY <1>10 DEF FindFile
    <2> QED
        BY <1>4, <1>10, <2>1 DEF FindFile, Programs
<1>11. CASE StatFile(w)
    <2>1. \/ Fail(w) \/ Goto(w, "destroy")
          \/ Become(w, [q EXCEPT !.pc = "expire", !.todo = @ \ {q.cur},
                                 !.cur = NoToken])
        BY <1>11 DEF StatFile
    <2> QED
        BY <1>4, <1>5, <1>11, <2>1 DEF StatFile, Programs
<1>12. CASE Destroy(w)
    BY <1>4, <1>6, <1>12 DEF Destroy, Programs
<1>13. CASE RemoveFile(w)
    BY <1>5, <1>6, <1>13 DEF RemoveFile
<1> QED
    BY <1>7, <1>8, <1>9, <1>10, <1>11, <1>12, <1>13 DEF Gc

\* A request comes in: whatever client there was, it has no session yet.
LEMMA ReceiveForgets ==
    ASSUME Inv, NEW w \in Workers, NEW b \in Browsers, Receive(w, b)
    PROVE  Forgets(w)
<1>1. PICK r : Become(w, r) /\ r.token = NoToken
    <2>1. req[w] \in Request
        BY DEF Inv, TypeOK
    <2>2. NewClient(req[w]) \in Request /\ NewClient(req[w]).token = NoToken
        BY <2>1, EmptyType DEF NewClient, Request
    <2> DEFINE r == [NewClient(req[w]) EXCEPT
                        !.pc = IF cookie[b] = NoToken THEN "handle" ELSE "list",
                        !.by = b, !.cookie = cookie[b], !.began = now]
    <2>3. r.token = NoToken
        BY <2>2 DEF Request
    <2> QED
        BY <2>3 DEF Receive
<1>2. SessionOf(r) = {}
    BY <1>1 DEF SessionOf
<1>3. UNCHANGED <<files, table, issued, last>>
    BY DEF Receive
<1> QED
    BY <1>1, <1>2, <1>3, BecomeForgets DEF Readable, Present

\* The client without data, of a session whose file is gone, has no session.
LEMMA CheckTokenForgets ==
    ASSUME Inv, NEW w \in Workers, CheckToken(w)
    PROVE  Forgets(w)
<1>1. /\ req[w] \in Request /\ req[w].pc # "idle"
      /\ UNCHANGED <<files, table, issued, last>>
    BY DEF CheckToken, Inv, TypeOK
<1>2. PICK r : Become(w, r) /\ (SessionOf(r) = SessionOf(req[w]) \/ r.data = Missing)
    <2>1. CASE \E pc \in {"handle", "open"} : Goto(w, pc)
        <3>1. PICK pc \in {"handle", "open"} : Goto(w, pc)
            BY <2>1
        <3>2. SessionOf([req[w] EXCEPT !.pc = pc]) = SessionOf(req[w])
            BY <1>1 DEF SessionOf, Request
        <3> QED
            BY <3>1, <3>2 DEF Goto
    <2>2. CASE Become(w, [req[w] EXCEPT !.pc = "handle", !.token = req[w].cookie,
                                        !.data = Missing])
        <3> DEFINE r == [req[w] EXCEPT !.pc = "handle", !.token = req[w].cookie,
                                       !.data = Missing]
        <3>1. r.data = Missing
            BY <1>1 DEF Request
        <3> QED
            BY <2>2, <3>1
    <2> QED
        BY <2>1, <2>2 DEF CheckToken
<1>3. SessionOf(r) \in {SessionOf(req[w]), {}}
    BY <1>2 DEF SessionOf
<1> QED
    BY <1>1, <1>2, <1>3, BecomeForgets DEF Readable, Present

\* A session whose file can not be read is not opened; another one is opened
\* as it was stored last, by the only request that has it.
LEMMA OpenShown ==
    ASSUME Inv, Inv', NEW w \in Workers, OpenFile(w)
    PROVE  [Abstract!Next]_(Abstract!vars)
<1> DEFINE t == req[w].cookie
           b == req[w].by
<1>1. CASE Fail(w)
    <2>1. Forgets(w)
        BY <1>1, FailForgets DEF OpenFile, Readable, Present
    <2> QED
        BY <2>1, ForgetsShown
<1>2. CASE ~Fail(w)
    <2>1. /\ Readable(t) /\ t \in Tokens /\ t # NoToken /\ t \in table[w]
          /\ b \in Browsers /\ issued[t] = b /\ files[t].data = last[t]
          /\ req[w].token = NoToken /\ req[w] \in Request
        BY <1>2, SessionAssumption
        DEF OpenFile, Inv, Apart, RequestInv, Restoring, StoreInv, TypeOK,
            Readable, Present, Request
    <2>2. PICK r : /\ Become(w, r) /\ r.pc = "handle" /\ r.token = t /\ r.by = b
                   /\ r.data = last[t] /\ r.base = last[t]
        <3> DEFINE r == [req[w] EXCEPT !.pc = "handle", !.token = t,
                            !.data = files[t].data, !.base = files[t].data]
        <3>1. /\ r.pc = "handle" /\ r.token = t /\ r.by = b
              /\ r.data = last[t] /\ r.base = last[t]
            BY <2>1 DEF Request
        <3> QED
            BY <1>2, <3>1 DEF OpenFile
    <2>3. SessionOf(r) = {Abstract!Copy(t, b, last[t])} /\ SessionOf(req[w]) = {}
        <3>1. last[t] \in Data
            BY <2>1 DEF Inv, TypeOK
        <3> QED
            BY <2>1, <2>2, <3>1, SessionAssumption DEF SessionOf, Abstract!Copy
    <2>4. req'[w] = r /\ \A v \in Workers \ {w} : req'[v] = req[v]
        BY <2>2 DEF Become, Inv, TypeOK
    <2>5. /\ SessionOf(req[w])' = SessionOf(r)
          /\ \A v \in Workers \ {w} : SessionOf(req[v])' = SessionOf(req[v])
        BY <2>4 DEF SessionOf
    <2>6. UNCHANGED <<files, table, issued, last>>
        BY DEF OpenFile
    <2>7. AbstractLive' = AbstractLive
        <3>1. /\ \A v \in Workers : \A u : u # t \/ v # w =>
                    ((\E s \in SessionOf(req[v])' : s.session = u)
                         <=> \E s \in SessionOf(req[v]) : s.session = u)
            BY <2>3, <2>5 DEF Abstract!Copy
        <3>2. \A u \in Tokens : Readable(u)' <=> Readable(u)
            BY <2>6 DEF Readable, Present
        <3> QED
            BY <2>1, <2>6, <3>1, <3>2 DEF AbstractLive
    <2>8. t \in AbstractLive \ Abstract!InUse
        BY <2>1, <2>3, InUseHere DEF AbstractLive
    <2>9. /\ AbstractHeld[w] = {}
          /\ AbstractHeld' = [AbstractHeld EXCEPT ![w] = {Abstract!Copy(t, b, last[t])}]
        BY <2>3, <2>5 DEF AbstractHeld
    <2>10. Abstract!Open(w, b, t)
        BY <2>1, <2>6, <2>7, <2>8, <2>9 DEF Abstract!Open
    <2> QED
        BY <2>1, <2>10 DEF Abstract!Next
<1> QED
    BY <1>1, <1>2

\* A session is started for a request that has none.
LEMMA StartShown ==
    ASSUME Inv, Inv', NEW w \in Workers, NEW t \in Tokens, NEW data \in Data,
           req[w].pc = "handle", req[w].token = NoToken,
           Start(w, t), Become(w, [req[w] EXCEPT !.token = t, !.data = data]),
           UNCHANGED last
    PROVE  [Abstract!Next]_(Abstract!vars)
<1> DEFINE b == req[w].by
<1>1. /\ b \in Browsers /\ req[w].base = {} /\ req[w] \in Request
      /\ issued[t] = Nobody /\ last[t] = {} /\ \A v \in Workers : t \notin table[v]
    BY DEF Inv, Apart, RequestInv, StoreInv, Unused, TypeOK, Start
<1>2. PICK r : /\ Become(w, r) /\ r.pc = "handle" /\ r.token = t /\ r.by = b
               /\ r.data = data /\ r.base = {}
    <2> DEFINE r == [req[w] EXCEPT !.token = t, !.data = data]
    <2>1. /\ r.pc = "handle" /\ r.token = t /\ r.by = b
          /\ r.data = data /\ r.base = {}
        BY <1>1 DEF Request
    <2> QED
        BY <2>1
<1>3. SessionOf(r) = {Abstract!Copy(t, b, {})} /\ SessionOf(req[w]) = {}
    BY <1>2, SessionAssumption DEF SessionOf, Abstract!Copy
<1>4. req'[w] = r /\ \A v \in Workers \ {w} : req'[v] = req[v]
    BY <1>2 DEF Become, Inv, TypeOK
<1>5. /\ SessionOf(req[w])' = SessionOf(r)
      /\ \A v \in Workers \ {w} : SessionOf(req[v])' = SessionOf(req[v])
    BY <1>4 DEF SessionOf
<1>6. /\ issued' = [issued EXCEPT ![t] = b]
      /\ files'[t] = [data |-> {}, mtime |-> now]
      /\ \A u \in Tokens \ {t} : files'[u] = files[u]
      /\ table'[w] = table[w] \cup {t}
      /\ \A v \in Workers \ {w} : table'[v] = table[v]
    BY DEF Start, Inv, TypeOK
<1>7. last' = [last EXCEPT ![t] = {}]
    BY <1>1 DEF Inv, TypeOK
<1>8. AbstractLive' = AbstractLive \cup {t}
    <2>1. Readable(t)'
        <3>1. now \in Time
            BY DEF Inv, TypeOK
        <3>2. [data |-> {}, mtime |-> now] # NoFile
            BY <3>1, EmptyType, SessionAssumption DEF File
        <3>3. files'[t].data = {} /\ {} # Torn
            BY <1>6, EmptyType, SessionAssumption
        <3> QED
            BY <1>6, <3>2, <3>3 DEF Readable, Present
    <2>2. \A u \in Tokens \ {t} : Readable(u)' <=> Readable(u)
        BY <1>6 DEF Readable, Present
    <2>3. \A v \in Workers : \A u : u # t =>
                ((\E s \in SessionOf(req[v])' : s.session = u)
                     <=> \E s \in SessionOf(req[v]) : s.session = u)
        BY <1>3, <1>5 DEF Abstract!Copy
    <2>4. \A u \in Tokens \ {t} : u \in AbstractLive' <=> u \in AbstractLive
        BY <1>6, <2>2, <2>3 DEF AbstractLive
    <2>5. t \in AbstractLive'
        BY <1>6, <2>1 DEF AbstractLive
    <2>6. AbstractLive \subseteq Tokens /\ AbstractLive' \subseteq Tokens
        BY DEF AbstractLive
    <2> QED
        BY <2>4, <2>5, <2>6
<1>9. /\ AbstractHeld[w] = {}
      /\ AbstractHeld' = [AbstractHeld EXCEPT ![w] = {Abstract!Copy(t, b, {})}]
    BY <1>3, <1>5 DEF AbstractHeld
<1>10. Abstract!Start(w, b, t)
    BY <1>1, <1>6, <1>7, <1>8, <1>9 DEF Abstract!Start
<1> QED
    BY <1>1, <1>10 DEF Abstract!Next

\* What a controller does.
LEMMA HandleShown ==
    ASSUME Inv, Inv', NEW w \in Workers, Handle(w)
    PROVE  [Abstract!Next]_(Abstract!vars)
<1> DEFINE q == req[w]
<1>1. q \in Request /\ q.pc = "handle" /\ UNCHANGED last
    BY DEF Handle, SetItem, DelItem, Authenticate, AuthenticationFailure, SignOut,
       ControllerRaises, Respond, Inv, TypeOK
<1>2. ASSUME UNCHANGED <<files, table, issued>>, NEW r, Become(w, r),
             SessionOf(r) = SessionOf(q)
      PROVE  [Abstract!Next]_(Abstract!vars)
    <2>1. Forgets(w)
        BY <1>1, <1>2, BecomeForgets DEF Readable, Present
    <2> QED
        BY <2>1, ForgetsShown
<1>3. ASSUME NEW data \in Data, q.data # Missing
      PROVE  SessionOf([q EXCEPT !.data = data]) = SessionOf(q)
    BY <1>1, <1>3, SessionAssumption DEF SessionOf, Request
<1>4. \A reply, cur :
          /\ SessionOf([q EXCEPT !.pc = "save", !.reply = reply]) = SessionOf(q)
          /\ SessionOf([q EXCEPT !.pc = "destroy", !.cur = cur]) = SessionOf(q)
    BY <1>1 DEF SessionOf, Request
<1>5. q.data # Missing => /\ \A k \in Keys : q.data \cup {k} \in Data
                          /\ \A k : q.data \ {k} \in Data
    BY <1>1 DEF Request, Data
<1>6. CASE SetItem(w)
    <2>1. PICK k \in Keys :
             \/ /\ Become(w, [q EXCEPT !.data = @ \cup {k}])
                /\ UNCHANGED <<files, table, issued>>
             \/ /\ q.token = NoToken
                /\ \E t \in Tokens :
                      /\ Start(w, t)
                      /\ Become(w, [q EXCEPT !.token = t, !.data = @ \cup {k}])
        BY <1>6 DEF SetItem
    <2>2. q.data # Missing /\ q.data \cup {k} \in Data
        BY <1>5, <1>6 DEF SetItem
    <2> QED
        BY <1>1, <1>2, <1>3, <2>1, <2>2, StartShown
<1>7. CASE DelItem(w)
    BY <1>2, <1>3, <1>5, <1>7 DEF DelItem
<1>8. CASE Authenticate(w)
    BY <1>2, <1>3, <1>5, <1>8, SessionAssumption DEF Authenticate
<1>9. CASE AuthenticationFailure(w)
    BY <1>2, <1>4, <1>9 DEF AuthenticationFailure
<1>10. CASE SignOut(w)
    BY <1>2, <1>4, <1>10 DEF SignOut
<1>11. CASE ControllerRaises(w)
    <2>1. Forgets(w)
        BY <1>11, FailForgets DEF ControllerRaises, Readable, Present
    <2> QED
        BY <2>1, ForgetsShown
<1>12. CASE Respond(w)
    BY <1>2, <1>4, <1>12 DEF Respond
<1> QED
    BY <1>6, <1>7, <1>8, <1>9, <1>10, <1>11, <1>12 DEF Handle

\* clean and save_session: a session is stored and given up, or only given up.
LEMMA FinishShown ==
    ASSUME Inv, Inv', NEW w \in Workers, Finish(w)
    PROVE  [Abstract!Next]_(Abstract!vars)
<1> DEFINE q == req[w]
<1>1. SessionOf(NoRequest) = {}
    BY DEF SessionOf, NoRequest
<1>2. Answer(w) /\ UNCHANGED <<files, table, issued, last>> => Forgets(w)
    BY <1>1, BecomeForgets DEF Answer, Readable, Present
<1>3. Fail(w) /\ UNCHANGED <<files, table, issued, last>> => Forgets(w)
    BY FailForgets DEF Readable, Present
<1>4. CASE Clean(w)
    BY <1>2, <1>4, ForgetsShown DEF Clean
<1>5. CASE SaveRefused(w)
    BY <1>3, <1>5, ForgetsShown DEF SaveRefused
<1>6. CASE SaveFails(w)
    <2>1. \A u \in Tokens : Readable(u)' => Readable(u)
        BY <1>6 DEF SaveFails, TearFile, Readable, Present, Inv, TypeOK
    <2>2. Forgets(w)
        BY <1>6, <2>1, FailForgets DEF SaveFails
    <2> QED
        BY <2>2, ForgetsShown
<1>7. CASE Save(w)
    <2>0. PICK t : t = q.token
        OBVIOUS
    <2>1. /\ q \in Request /\ q.pc = "save" /\ q.data # Missing /\ q.data \in Data
          /\ t \in table[w] /\ t \in Tokens /\ t # NoToken
        BY <1>7, <2>0, SessionAssumption DEF Save, Inv, TypeOK, Request
    <2>2. SessionOf(q) = {Abstract!Copy(t, q.by, q.base)}
        BY <2>0, <2>1 DEF SessionOf, Abstract!Copy
    <2>3. req'[w] = NoRequest /\ \A v \in Workers \ {w} : req'[v] = req[v]
        BY <1>7 DEF Save, Answer, Become, Inv, TypeOK
    <2>4. /\ SessionOf(req[w])' = {}
          /\ \A v \in Workers \ {w} : SessionOf(req[v])' = SessionOf(req[v])
        BY <1>1, <2>3 DEF SessionOf
    <2>5. /\ files'[t] = [data |-> q.data, mtime |-> now]
          /\ \A u \in Tokens \ {t} : files'[u] = files[u]
          /\ last' = [last EXCEPT ![t] = q.data]
          /\ UNCHANGED <<table, issued>>
        BY <1>7, <2>0, <2>1 DEF Save, Inv, TypeOK
    <2>6. AbstractLive' = AbstractLive
        <3>1. Readable(t)'
            <4>1. now \in Time
                BY DEF Inv, TypeOK
            <4>2. [data |-> q.data, mtime |-> now] # NoFile /\ q.data # Torn
                BY <2>1, <4>1, SessionAssumption DEF File
            <4>3. files'[t].data = q.data
                BY <2>5
            <4> QED
                BY <2>1, <2>5, <4>2, <4>3 DEF Readable, Present
        <3>2. \A u \in Tokens \ {t} : Readable(u)' <=> Readable(u)
            BY <2>5 DEF Readable, Present
        <3>3. \A v \in Workers : \A u : u # t =>
                    ((\E s \in SessionOf(req[v])' : s.session = u)
                         <=> \E s \in SessionOf(req[v]) : s.session = u)
            BY <2>2, <2>4 DEF Abstract!Copy
        <3>4. \A u \in Tokens \ {t} : u \in AbstractLive' <=> u \in AbstractLive
            BY <2>5, <3>2, <3>3 DEF AbstractLive
        <3>5. t \in AbstractLive'
            BY <2>1, <2>5, <3>1 DEF AbstractLive
        <3>6. t \in AbstractLive
            <4>1. Abstract!Copy(t, q.by, q.base) \in SessionOf(req[w])
                BY <2>2
            <4> QED
                BY <4>1, SessionHeld DEF Abstract!Copy
        <3>7. AbstractLive \subseteq Tokens /\ AbstractLive' \subseteq Tokens
            BY DEF AbstractLive
        <3> QED
            BY <3>4, <3>5, <3>6, <3>7
    <2>7. /\ AbstractHeld[w] = {Abstract!Copy(t, q.by, q.base)}
          /\ AbstractHeld' = [AbstractHeld EXCEPT ![w] = {}]
        BY <2>2, <2>4 DEF AbstractHeld
    <2>8. Abstract!Put(w, q.data)
        BY <2>5, <2>6, <2>7 DEF Abstract!Put, Abstract!Copy
    <2> QED
        BY <2>1, <2>8 DEF Abstract!Next
<1> QED
    BY <1>4, <1>5, <1>6, <1>7 DEF Finish

\* A worker that is killed forgets all its sessions.
LEMMA CrashForgets ==
    ASSUME Inv, NEW w \in Workers, Crash(w)
    PROVE  Forgets(w)
<1>1. SessionOf(NoRequest) = {} /\ Become(w, NoRequest)
    BY DEF SessionOf, NoRequest, Crash
<1>2. /\ table'[w] = {} /\ \A v \in Workers \ {w} : table'[v] = table[v]
      /\ UNCHANGED <<issued, last>>
    BY DEF Crash, Inv, TypeOK
<1>3. \A u \in Tokens : Readable(u)' => Readable(u)
    BY DEF Crash, TearFile, Readable, Present, Inv, TypeOK
<1> QED
    BY <1>1, <1>2, <1>3, BecomeForgets

\* Every step of the workers is one of the abstract store, or none.
LEMMA StepShown ==
    Inv /\ Inv' /\ [Next]_vars => [Abstract!Next]_(Abstract!vars)
<1> SUFFICES ASSUME Inv, Inv', [Next]_vars
             PROVE  [Abstract!Next]_(Abstract!vars)
    OBVIOUS
<1>1. CASE UNCHANGED <<files, table, req, issued, last>>
    <2>1. AbstractHeld' = AbstractHeld /\ AbstractLive' = AbstractLive
        BY <1>1 DEF AbstractHeld, AbstractLive, SessionOf, Readable, Present
    <2> QED
        BY <1>1, <2>1 DEF Abstract!vars
<1>2. ASSUME NEW w \in Workers, NEW b \in Browsers, Receive(w, b)
      PROVE  [Abstract!Next]_(Abstract!vars)
    BY <1>2, ReceiveForgets, ForgetsShown
<1>3. ASSUME NEW w \in Workers, Gc(w) \/ CheckToken(w) \/ Crash(w)
      PROVE  [Abstract!Next]_(Abstract!vars)
    BY <1>3, GcForgets, CheckTokenForgets, CrashForgets, ForgetsShown
<1>4. ASSUME NEW w \in Workers, OpenFile(w) \/ Handle(w) \/ Finish(w)
      PROVE  [Abstract!Next]_(Abstract!vars)
    BY <1>4, OpenShown, HandleShown, FinishShown
<1> QED
    BY <1>1, <1>2, <1>3, <1>4 DEF Next, Step, Tick, vars

(***************************************************************************)
(* For any number of workers, browsers and sessions, the tables, files and *)
(* clients are a store of sessions in which each goes whole from request   *)
(* to request of its own browser and none comes back once it is lost.      *)
(***************************************************************************)
THEOREM SessionsImplementStore == Spec => ImplementsSessionStore
<1>1. Init => Abstract!Init
    <2> SUFFICES ASSUME Init PROVE Abstract!Init
        OBVIOUS
    <2>1. \A w \in Workers : SessionOf(req[w]) = {} /\ table[w] = {}
        BY DEF Init, SessionOf, NoRequest
    <2>2. AbstractHeld = [w \in Workers |-> {}] /\ AbstractLive = {}
        BY <2>1 DEF AbstractHeld, AbstractLive
    <2> QED
        BY <2>2 DEF Init, Abstract!Init
<1> QED
    BY <1>1, StepShown, InvHolds, PTL DEF Spec, ImplementsSessionStore, Abstract!Spec
=============================================================================
