------------------------------ MODULE WebSessions ------------------------------
(***************************************************************************)
(* Sessions of the web interface: the file system session handler          *)
(* (lodel/plugins/filesystem_session/main.py) as the client                *)
(* (lodel/auth/client.py) and the WSGI application                         *)
(* (lodel/plugins/webui/run.py) call it.                                   *)
(*                                                                         *)
(* uWSGI runs several workers that share the directory of session files;   *)
(* each has its own table __sessions of the tokens it has started and      *)
(* answers one request at a time.  Every system call that reads or changes *)
(* the directory is a step of its own.                                     *)
(*                                                                         *)
(* The data of a session, a dict, is modelled by the set of its keys.      *)
(***************************************************************************)
EXTENDS Naturals

CONSTANTS
    Workers,      \* uWSGI workers
    Browsers,     \* visitors, each with one cookie
    Tokens,       \* what os.urandom will return (bound: sessions started)
    NoToken,      \* None as a token
    Nobody,       \* a token no browser has been given
    Keys,         \* keys of session data
    UserKey,      \* Client._AUTH_DATANAME
    Torn,         \* content of a file that pickle can not load
    Missing,      \* the None that restore_session returns
    NoFile,       \* a path at which there is no file
    Expiration,   \* Settings.sessions.expiration
    MaySaveFail,  \* whether pickle.dump may fail once the file is open
    MayCrash,     \* whether a worker may be killed
    MaxNow        \* bound: ticks of the clock

Data    == SUBSET Keys
Time    == 0..MaxNow
File    == [data : {Torn} \cup Data, mtime : Time]

ASSUME SessionAssumption ==
    /\ NoToken \notin Tokens /\ Nobody \notin Browsers
    /\ UserKey \in Keys
    /\ \A d \in Data : d # Torn /\ d # Missing
    /\ NoFile \notin File
    /\ Expiration \in Nat /\ MaxNow \in Nat
    /\ MaySaveFail \in BOOLEAN /\ MayCrash \in BOOLEAN

Programs == {"idle", "list", "unlink", "expire", "stat", "destroy", "remove",
             "open", "handle", "save"}

Request == [pc     : Programs,
            by     : Browsers \cup {Nobody},
            cookie : Tokens \cup {NoToken},   \* what load_cookie returned
            token  : Tokens \cup {NoToken},   \* Client._instance.__session_token
            data   : {Missing} \cup Data,     \* Client._instance.__data
            todo   : SUBSET Tokens,           \* what a loop of gc has left
            cur    : Tokens \cup {NoToken},   \* the session gc or destroy is at
            reply  : {"keep", "save", "empty"}, \* what becomes of the cookie
            began  : Time,                    \* history: when it came in
            base   : Data]                    \* history: data when obtained

VARIABLES
    files,    \* the directory: token -> content of its file
    table,    \* __sessions of each worker: the tokens it has registered
    req,      \* the request each worker answers, with its Client._instance
    cookie,   \* the token in each browser's cookie
    now,      \* the clock of the machine
    issued,   \* history: the browser for whose request a session was started
    last      \* history: what was last stored in a session

vars == <<files, table, req, cookie, now, issued, last>>

Present == {t \in Tokens : files[t] # NoFile}

NoRequest == [pc |-> "idle", by |-> Nobody, cookie |-> NoToken,
              token |-> NoToken, data |-> {}, todo |-> {}, cur |-> NoToken,
              reply |-> "keep", began |-> 0, base |-> {}]

\* The instance of the request before stays.
NewClientIsOld(old) == old

\* Client.__init__: the instance of the request before is replaced.
NewClient(old) == [old EXCEPT !.token = NoToken, !.data = {}]

Become(w, r) == req' = [req EXCEPT ![w] = r]

Goto(w, pc) == Become(w, [req[w] EXCEPT !.pc = pc])

\* An exception leaves the application: clean() does not run and the client
\* stays in Client._instance.
Fail(w) == Become(w, [NoRequest EXCEPT !.token = req[w].token,
                                       !.data  = req[w].data])

Init == /\ files = [t \in Tokens |-> NoFile]
        /\ table = [w \in Workers |-> {}]
        /\ req = [w \in Workers |-> NoRequest]
        /\ cookie = [b \in Browsers |-> NoToken]
        /\ now = 0
        /\ issued = [t \in Tokens |-> Nobody]
        /\ last = [t \in Tokens |-> {}]

-----------------------------------------------------------------------------
(***************************************************************************)
(* A request comes in; with a cookie, restore_session starts with gc.      *)
(***************************************************************************)
Receive(w, b) ==
    /\ req[w].pc = "idle"
    /\ Become(w, [NewClient(req[w]) EXCEPT
                    !.pc = IF cookie[b] = NoToken THEN "handle" ELSE "list",
                    !.by = b, !.cookie = cookie[b], !.began = now])
    /\ UNCHANGED <<files, table, cookie, now, issued, last>>

\* All the files there are.
UnregisteredAll(w) == Present

\* gc: the files there are, less those of sessions in the worker's own table.
Unregistered(w) == Present \ table[w]

ListFiles(w) ==
    /\ req[w].pc = "list"
    /\ Become(w, [req[w] EXCEPT !.pc = "unlink", !.todo = Unregistered(w)])
    /\ UNCHANGED <<files, table, cookie, now, issued, last>>

\* os.unlink raises when another worker was faster.
UnlinkFile(w) ==
    /\ req[w].pc = "unlink"
    /\ \E t \in req[w].todo :
          \/ /\ t \in Present
             /\ files' = [files EXCEPT ![t] = NoFile]
             /\ Become(w, [req[w] EXCEPT !.todo = @ \ {t}])
          \/ /\ t \notin Present
             /\ Fail(w)
             /\ UNCHANGED files
    /\ UNCHANGED <<table, cookie, now, issued, last>>

ScanTable(w) ==
    /\ req[w].pc = "unlink" /\ req[w].todo = {}
    /\ Become(w, [req[w] EXCEPT !.pc = "expire", !.todo = table[w]])
    /\ UNCHANGED <<files, table, cookie, now, issued, last>>

\* The loop does not pass on.
FindFileAgain(w) ==
    /\ req[w].pc = "expire"
    /\ \E t \in req[w].todo :
          Become(w, IF t \in Present
                    THEN [req[w] EXCEPT !.pc = "stat", !.cur = t]
                    ELSE req[w])
    /\ UNCHANGED <<files, table, cookie, now, issued, last>>

\* A session whose file is gone is passed over and stays registered.
FindFile(w) ==
    /\ req[w].pc = "expire"
    /\ \E t \in req[w].todo :
          Become(w, IF t \in Present
                    THEN [req[w] EXCEPT !.pc = "stat", !.cur = t]
                    ELSE [req[w] EXCEPT !.todo = @ \ {t}])
    /\ UNCHANGED <<files, table, cookie, now, issued, last>>

\* One tick too late.
ExpiredLate(t) == now > files[t].mtime + Expiration + 1

Expired(t) == now > files[t].mtime + Expiration

StatFile(w) ==
    LET t == req[w].cur IN
    /\ req[w].pc = "stat"
    /\ \/ t \notin Present /\ Fail(w)
       \/ t \in Present /\ Expired(t) /\ Goto(w, "destroy")
       \/ /\ t \in Present /\ ~Expired(t)
          /\ Become(w, [req[w] EXCEPT !.pc = "expire", !.todo = @ \ {t},
                                      !.cur = NoToken])
    /\ UNCHANGED <<files, table, cookie, now, issued, last>>

\* The client goes on with the token of a session that is gone.
UnregisterKeepsToken(w) ==
    /\ table' = [table EXCEPT ![w] = @ \ {req[w].cur}]
    /\ \/ req[w].token = NoToken /\ Fail(w)
       \/ /\ req[w].token # NoToken
          /\ Become(w, [req[w] EXCEPT !.pc = "handle", !.data = {},
                                      !.base = {}, !.cur = NoToken])

(***************************************************************************)
(* destroy_session, called by gc (before the client has a token) or by     *)
(* Client.destroy.  The loop of gc can not go on over a table that has     *)
(* lost an entry: Python raises RuntimeError.                              *)
(***************************************************************************)
Unregister(w) ==
    /\ table' = [table EXCEPT ![w] = @ \ {req[w].cur}]
    /\ \/ req[w].token = NoToken /\ Fail(w)
       \/ /\ req[w].token # NoToken
          /\ Become(w, [req[w] EXCEPT !.pc = "handle", !.token = NoToken,
                                      !.data = {}, !.base = {},
                                      !.cur = NoToken])

Destroy(w) ==
    /\ req[w].pc = "destroy"
    /\ \/ req[w].cur \in Present /\ Goto(w, "remove") /\ UNCHANGED table
       \/ req[w].cur \notin Present /\ Unregister(w)
    /\ UNCHANGED <<files, cookie, now, issued, last>>

RemoveFile(w) ==
    LET t == req[w].cur IN
    /\ req[w].pc = "remove"
    /\ \/ /\ t \in Present /\ Unregister(w)
          /\ files' = [files EXCEPT ![t] = NoFile]
       \/ /\ t \notin Present /\ Fail(w)
          /\ UNCHANGED <<files, table>>
    /\ UNCHANGED <<cookie, now, issued, last>>

-----------------------------------------------------------------------------
(***************************************************************************)
(* The end of restore_session.  A token that is not in the table raises    *)
(* ClientAuthenticationFailure, which the client logs: it stays anonymous. *)
(***************************************************************************)
CheckToken(w) ==
    LET t == req[w].cookie IN
    /\ req[w].pc = "expire" /\ req[w].todo = {}
    /\ \/ t \notin table[w] /\ Goto(w, "handle")
       \/ t \in table[w] /\ t \in Present /\ Goto(w, "open")
       \/ /\ t \in table[w] /\ t \notin Present
          /\ Become(w, [req[w] EXCEPT !.pc = "handle", !.token = t,
                                      !.data = Missing])
    /\ UNCHANGED <<files, table, cookie, now, issued, last>>

ReadableTorn(t) == t \in Present

Readable(t) == t \in Present /\ files[t].data # Torn

OpenFile(w) ==
    LET t == req[w].cookie IN
    /\ req[w].pc = "open"
    /\ \/ ~Readable(t) /\ Fail(w)
       \/ /\ Readable(t)
          /\ Become(w, [req[w] EXCEPT !.pc = "handle", !.token = t,
                                      !.data = files[t].data,
                                      !.base = files[t].data])
    /\ UNCHANGED <<files, table, cookie, now, issued, last>>

-----------------------------------------------------------------------------
(***************************************************************************)
(* What a controller does with the client.                                 *)
(***************************************************************************)
\* The file is stamped with its time rounded up.
StartRoundsUp(w, t) ==
    /\ issued[t] = Nobody
    /\ issued' = [issued EXCEPT ![t] = req[w].by]
    /\ files' = [files EXCEPT ![t] = [data |-> {}, mtime |-> now + 1]]
    /\ table' = [table EXCEPT ![w] = @ \cup {t}]

\* start_session: the file of the new session holds an empty dict.
Start(w, t) ==
    /\ issued[t] = Nobody
    /\ issued' = [issued EXCEPT ![t] = req[w].by]
    /\ files' = [files EXCEPT ![t] = [data |-> {}, mtime |-> now]]
    /\ table' = [table EXCEPT ![w] = @ \cup {t}]

\* Client[key] = value
SetItem(w) ==
    /\ req[w].pc = "handle" /\ req[w].data # Missing
    /\ \E k \in Keys :
          \/ /\ req[w].token # NoToken
             /\ Become(w, [req[w] EXCEPT !.data = @ \cup {k}])
             /\ UNCHANGED <<files, table, issued>>
          \/ /\ req[w].token = NoToken
             /\ \E t \in Tokens :
                   /\ Start(w, t)
                   /\ Become(w, [req[w] EXCEPT !.token = t,
                                               !.data = @ \cup {k}])
    /\ UNCHANGED <<cookie, now, last>>

\* del Client[key]
DelItem(w) ==
    /\ req[w].pc = "handle" /\ req[w].data # Missing
    /\ \E k \in req[w].data : Become(w, [req[w] EXCEPT !.data = @ \ {k}])
    /\ UNCHANGED <<files, table, cookie, now, issued, last>>

\* Client.authenticate finds the user.
Authenticate(w) ==
    /\ req[w].pc = "handle" /\ req[w].data # Missing
    /\ Become(w, [req[w] EXCEPT !.data = @ \cup {UserKey}])
    /\ UNCHANGED <<files, table, cookie, now, issued, last>>

\* Client.authenticate finds no user and nobody is signed in already: the
\* application answers with an error and empties the cookie.
AuthenticationFailure(w) ==
    /\ req[w].pc = "handle" /\ req[w].data # Missing
    /\ UserKey \notin req[w].data
    /\ Become(w, [req[w] EXCEPT !.pc = "save", !.reply = "empty"])
    /\ UNCHANGED <<files, table, cookie, now, issued, last>>

\* Client.destroy, when a session has been started: its check of the token.
SignOut(w) ==
    LET t == req[w].token IN
    /\ req[w].pc = "handle" /\ t # NoToken
    /\ Become(w, IF t \in table[w]
                 THEN [req[w] EXCEPT !.pc = "destroy", !.cur = t]
                 ELSE [req[w] EXCEPT !.pc = "save", !.reply = "empty"])
    /\ UNCHANGED <<files, table, cookie, now, issued, last>>

\* Any other exception: of the controller itself, of Client.destroy without a
\* session, or because the data of the client is None.
ControllerRaises(w) ==
    /\ req[w].pc = "handle"
    /\ Fail(w)
    /\ UNCHANGED <<files, table, cookie, now, issued, last>>

Respond(w) ==
    /\ req[w].pc = "handle"
    /\ Become(w, [req[w] EXCEPT !.pc = "save",
                    !.reply = IF req[w].token = NoToken THEN "keep" ELSE "save"])
    /\ UNCHANGED <<files, table, cookie, now, issued, last>>

-----------------------------------------------------------------------------
(***************************************************************************)
(* Client.clean and save_session; the browser gets the response.           *)
(***************************************************************************)
Answer(w) ==
    /\ Become(w, NoRequest)
    /\ cookie' = [cookie EXCEPT ![req[w].by] =
                     CASE req[w].reply = "keep"  -> @
                       [] req[w].reply = "save"  -> req[w].token
                       [] req[w].reply = "empty" -> NoToken]

Clean(w) ==
    /\ req[w].pc = "save" /\ req[w].token = NoToken
    /\ Answer(w)
    /\ UNCHANGED <<files, table, now, issued, last>>

Save(w) ==
    LET t == req[w].token IN
    /\ req[w].pc = "save" /\ t \in table[w] /\ req[w].data # Missing
    /\ files' = [files EXCEPT ![t] = [data |-> req[w].data, mtime |-> now]]
    /\ last' = [last EXCEPT ![t] = req[w].data]
    /\ Answer(w)
    /\ UNCHANGED <<table, now, issued>>

\* There is nothing to save, or the table has no path for the token.
SaveRefused(w) ==
    /\ req[w].pc = "save" /\ req[w].token # NoToken
    /\ req[w].token \notin table[w] \/ req[w].data = Missing
    /\ Fail(w)
    /\ UNCHANGED <<files, table, cookie, now, issued, last>>

\* open() has emptied the file and pickle.dump fails, or the worker is killed.
TearFile(w) ==
    /\ req[w].pc = "save" /\ req[w].token \in table[w] /\ req[w].data # Missing
    /\ files' = [files EXCEPT ![req[w].token] = [data |-> Torn, mtime |-> now]]

SaveFails(w) ==
    /\ MaySaveFail
    /\ TearFile(w) /\ Fail(w)
    /\ UNCHANGED <<table, cookie, now, issued, last>>

Crash(w) ==
    /\ MayCrash
    /\ TearFile(w) \/ UNCHANGED files
    /\ table' = [table EXCEPT ![w] = {}]
    /\ Become(w, NoRequest)
    /\ UNCHANGED <<cookie, now, issued, last>>

Tick == /\ now < MaxNow
        /\ now' = now + 1
        /\ UNCHANGED <<files, table, req, cookie, issued, last>>

Gc(w) == \/ ListFiles(w) \/ UnlinkFile(w) \/ ScanTable(w) \/ FindFile(w)
         \/ StatFile(w) \/ Destroy(w) \/ RemoveFile(w)

Handle(w) == \/ SetItem(w) \/ DelItem(w) \/ Authenticate(w)
             \/ AuthenticationFailure(w) \/ SignOut(w) \/ ControllerRaises(w)
             \/ Respond(w)

Finish(w) == Clean(w) \/ Save(w) \/ SaveRefused(w) \/ SaveFails(w)

Step(w) == Gc(w) \/ CheckToken(w) \/ OpenFile(w) \/ Handle(w) \/ Finish(w)

Next == \/ \E w \in Workers : \/ \E b \in Browsers : Receive(w, b)
                              \/ Step(w)
                              \/ Crash(w)
        \/ Tick

Spec == Init /\ [][Next]_vars

\* A worker that answers a request goes on, and controllers return.
Proceed(w) == Gc(w) \/ CheckToken(w) \/ OpenFile(w) \/ Respond(w) \/ Finish(w)

FairSpec == Spec /\ \A w \in Workers : WF_vars(Proceed(w))

-----------------------------------------------------------------------------
TypeOK ==
    /\ files \in [Tokens -> {NoFile} \cup File]
    /\ table \in [Workers -> SUBSET Tokens]
    /\ req \in [Workers -> Request]
    /\ cookie \in [Browsers -> Tokens \cup {NoToken}]
    /\ now \in Time
    /\ issued \in [Tokens -> Browsers \cup {Nobody}]
    /\ last \in [Tokens -> Data]

Active(w) == req[w].pc # "idle"
Holds(w, t) == Active(w) /\ req[w].token = t /\ t # NoToken

(***************************************************************************)
(* A request that has a session can save it: the worker that answers it    *)
(* has a path for its token, and is the only one that has                  *)
(* (save_session opens __sessions[token] without looking).                 *)
(***************************************************************************)
SessionIsRegistered ==
    \A w \in Workers, t \in Tokens :
        Holds(w, t) => \A v \in Workers : t \in table[v] <=> v = w

(***************************************************************************)
(* One client object serves request after request and some of them end in  *)
(* an exception; a request has the session of its own browser only.        *)
(***************************************************************************)
OwnSessionOnly ==
    \A w \in Workers, t \in Tokens : Holds(w, t) => issued[t] = req[w].by

(***************************************************************************)
(* The copy of a session that a request works on is not outdated while it  *)
(* does: whatever the other workers do and whatever a failed save or a     *)
(* crash has left, saving it loses nobody's changes.                       *)
(***************************************************************************)
CopyIsCurrent ==
    \A w \in Workers, t \in Tokens :
        Holds(w, t) /\ req[w].data # Missing => req[w].base = last[t]

(***************************************************************************)
(* A session that had expired when the request came in is not opened.      *)
(***************************************************************************)
OpenedHasNotExpired ==
    \A w \in Workers : req[w].pc = "open" /\ req[w].cookie \in Present =>
        files[req[w].cookie].mtime + Expiration >= req[w].began

(***************************************************************************)
(* A worker's own steps do not lose the sessions it has registered: what   *)
(* gc found unregistered when it listed the directory still is when it     *)
(* unlinks the file, and a session that is destroyed leaves the table with *)
(* its file.  Files of registered sessions are lost to other workers only. *)
(***************************************************************************)
OwnStepsLoseNothing ==
    [][\A w \in Workers : req'[w] # req[w] =>
          (Present \ Present') \cap table'[w] = {}]_vars

(***************************************************************************)
(* Every request comes to an end: whatever other workers remove from the   *)
(* directory under it, the loops of gc do not run forever.                 *)
(***************************************************************************)
RequestsEnd == \A w \in Workers : Active(w) ~> ~Active(w)

-----------------------------------------------------------------------------
(***************************************************************************)
(* What comments of the code say, and the code does not do.                *)
(***************************************************************************)
\* client.py, __set_authenticated: "Sets a user as authenticated and starts a
\* new session".
SigninStartsSession ==
    \A w \in Workers :
        /\ req[w].pc = "save" /\ req[w].data # Missing
        /\ UserKey \in req[w].data
        => req[w].token # NoToken

\* main.py, gc: "Unregistered files in the session directory".
OnlyUnregisteredUnlinked ==
    [][\A w \in Workers : req[w].pc = "unlink" =>
          (Present \ Present') \cap UNION {table[v] : v \in Workers} = {}]_vars

\* client.py, restore_session: "@throw ClientAuthenticationFailure if token is
\* not valid or not existing", and nothing for a token that is valid.
Valid(w) == /\ req[w].cookie \in table[w]
            /\ Readable(req[w].cookie) /\ ~Expired(req[w].cookie)

ValidTokenRestores ==
    [][\A w \in Workers : Active(w) /\ Valid(w) /\ req[w].token = NoToken =>
          Active(w)']_vars
=============================================================================
