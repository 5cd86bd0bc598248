------------------------ MODULE WebSessionsRefinement ------------------------
(***************************************************************************)
(* WebSessions implements SessionStore: the table of tokens of each worker *)
(* locks the session file against the other workers, and the client keeps  *)
(* what a request has read until clean() saves it.                         *)
(***************************************************************************)
EXTENDS WebSessions

\* The session a request has: none when its client has no token or no data.
SessionOf(r) ==
    {s \in {[session |-> r.token, by |-> r.by, copy |-> r.base]} :
        r.pc # "idle" /\ r.token # NoToken /\ r.data # Missing}

AbstractHeld == [w \in Workers |-> SessionOf(req[w])]

\* A session can be opened when a worker has registered it and its file can be
\* read, or will be written by the request that has the session.
AbstractLive ==
    {t \in Tokens : \E w \in Workers :
        /\ t \in table[w]
        /\ Readable(t) \/ \E s \in SessionOf(req[w]) : s.session = t}

Abstract == INSTANCE SessionStore WITH Empty  <- {},
                                       owner  <- issued,
                                       stored <- last,
                                       live   <- AbstractLive,
                                       held   <- AbstractHeld

(***************************************************************************)
(* A session goes from request to request of its own browser whole: it is  *)
(* read once, by the one worker that has it, and stored once or given up.  *)
(* Whatever gc unlinks, saves leave torn and killed workers forget, what a *)
(* request reads is what was stored last, and a session that was signed    *)
(* out, expired or lost is never opened or stored again.                   *)
(***************************************************************************)
ImplementsSessionStore == Abstract!Spec
=============================================================================
