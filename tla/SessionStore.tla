---------------------------- MODULE SessionStore ----------------------------
(***************************************************************************)
(* What sessions promise to the requests of a site: a session belongs to   *)
(* one browser, one request at a time has it, reads the whole of it and    *)
(* replaces the whole of it or nothing, and a session that has been lost   *)
(* does not come back.                                                     *)
(***************************************************************************)
CONSTANTS
    Workers,    \* who answers requests, one at a time
    Browsers,   \* whose sessions they are
    Tokens,     \* sessions there may be
    Data,       \* what a session can hold
    Empty,      \* what a new session holds
    Nobody      \* the owner of a session not started yet

VARIABLES
    owner,      \* the browser a session was started for
    stored,     \* what a session holds
    live,       \* the sessions that can be opened
    held        \* the session, none or one, the request of a worker has

vars == <<owner, stored, live, held>>

InUse == {h.session : h \in UNION {held[w] : w \in Workers}}

Copy(t, b, data) == [session |-> t, by |-> b, copy |-> data]

Init == /\ owner = [t \in Tokens |-> Nobody]
        /\ stored = [t \in Tokens |-> Empty]
        /\ live = {}
        /\ held = [w \in Workers |-> {}]

\* A request of b starts a session.
Start(w, b, t) ==
    /\ held[w] = {} /\ owner[t] = Nobody
    /\ owner' = [owner EXCEPT ![t] = b]
    /\ stored' = [stored EXCEPT ![t] = Empty]
    /\ live' = live \cup {t}
    /\ held' = [held EXCEPT ![w] = {Copy(t, b, Empty)}]

\* A request of its owner reads a session that no other request has.
Open(w, b, t) ==
    /\ held[w] = {} /\ owner[t] = b /\ t \in live \ InUse
    /\ held' = [held EXCEPT ![w] = {Copy(t, b, stored[t])}]
    /\ UNCHANGED <<owner, stored, live>>

\* The request ends and its session holds what it has made of it.
Put(w, data) ==
    \E h \in held[w] :
        /\ stored' = [stored EXCEPT ![h.session] = data]
        /\ held' = [held EXCEPT ![w] = {}]
        /\ UNCHANGED <<owner, live>>

\* Sessions expire or are lost, but none that a request has.
Fewer == live' \in SUBSET live /\ InUse' \subseteq live'

Lose == UNCHANGED <<owner, stored, held>> /\ Fewer

\* The request gives its session up: it signs out, fails or is killed.
Release(w) ==
    /\ held[w] # {}
    /\ held' = [held EXCEPT ![w] = {}]
    /\ Fewer
    /\ UNCHANGED <<owner, stored>>

Next == \/ Lose
        \/ \E w \in Workers : \/ Release(w)
                              \/ \E data \in Data : Put(w, data)
                              \/ \E b \in Browsers, t \in Tokens :
                                    Start(w, b, t) \/ Open(w, b, t)

Spec == Init /\ [][Next]_vars
=============================================================================
