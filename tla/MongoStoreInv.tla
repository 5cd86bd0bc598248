---------------------------- MODULE MongoStoreInv ----------------------------
(***************************************************************************)
(* The inductive invariant behind Contained (module MongoStore): what is   *)
(* true of the calls in flight and of the database between any two steps.  *)
(***************************************************************************)
EXTENDS MongoStore

\* What each program point of a call fixes.
Shape(c) ==
    /\ c.pc = "idle" => c = Idle
    /\ c.pc = "insert" => /\ c.kind = "insert" /\ c.target = {c.cur}
                          /\ c.cur > 0 /\ ~c.dirty
                          /\ c.olds = {} /\ c.fetched = {}
    /\ c.pc = "set" => c.kind = "update"
    /\ c.pc # "bref" => c.todo = {} /\ c.upd = {}
    /\ c.pc # "idle" /\ c.kind # "delete" => c.target = {c.cur}
    /\ c.todo \cup c.upd # {} => c.cur \in c.target
    /\ \A i \in c.olds \cup c.fetched : i.uid \in c.target
    /\ c.pc = "bref" /\ c.kind = "insert" =>
           c.dirty /\ c.olds = {} /\ c.fetched = {}
    /\ c.pc # "idle" /\ c.kind = "delete" => c.pc = "bref" /\ c.fetched = {}

\* The data a call carries is data its class accepts.
Fits(c) ==
    /\ FitsClass(c.cls, c.new)
    /\ \A i \in c.olds \cup c.fetched : FitsClass(c.cls, i.refs)
    /\ \A w \in c.upd : /\ w.cls \in Owner[w.fld]
                        /\ w.fld \in Single => w.val \subseteq {c.cur}

\* Only an object that is suspect has a single reference being moved.
MovedIsSuspect(c) ==
    /\ \A ch \in c.todo : ch.mode = "swap" => c.cur \in suspect
    /\ c.kind = "delete" => /\ \A ch \in c.todo : ch.mode = "del"
                            /\ \A w \in c.upd : c.cur \notin w.val
    /\ c.kind = "update" /\ c.pc = "bref" =>
          \A old \in c.olds, f \in Single :
             \A ch \in FieldChanges(f, old.refs[f], c.new[f]) :
                ch.mode = "swap" => c.cur \in suspect

\* What the other calls may have changed since p read it.
Foreign(p) ==
    suspect \cup UNION {call[q].target : q \in {r \in Procs \ {p} :
                                             Active(r) /\ call[r].dirty}}

\* What p itself is changing: on its own, the back references it treats now.
Own(p) == IF call[p].alone THEN {call[p].cur} ELSE call[p].target

\* Objects whose stored values p can not rely on.
Unreliable(p) == Foreign(p) \cup (IF call[p].alone THEN {} ELSE call[p].target)

\* A prepared value differs from the stored one only by what p itself or the
\* other calls are changing.
PreparedAgrees(p) ==
    \A w \in call[p].upd : w.fld \notin Single /\ w.uid \notin Unreliable(p) =>
        \A s \in Matching(w.cls, {w.uid}) :
            \A z \in w.val \cup docs[s].refs[w.fld] :
                z \notin Foreign(p) \cup Own(p) =>
                    (z \in w.val <=> z \in docs[s].refs[w.fld])

AloneIsAlone ==
    \A p, q \in Procs : Active(p) /\ call[p].alone /\ Active(q) => p = q

\* The value y is still to be told that field f has come to list it, or that
\* it lists it no more: the change is to be read or the value to be written.
Adding(c, f, y) ==
    \/ \E ch \in c.todo : ch.fld = f /\ ch.val = y /\ ch.mode = "add"
    \/ \E w \in c.upd : w.fld = Inverse[f] /\ w.uid = y /\ c.cur \in w.val

Dropping(c, f, y) ==
    \/ \E ch \in c.todo : ch.fld = f /\ ch.val = y /\ ch.mode # "add"
    \/ \E w \in c.upd : w.fld = Inverse[f] /\ w.uid = y /\ c.cur \notin w.val

Pending(c, f, y) == Adding(c, f, y) \/ Dropping(c, f, y)

\* The objects whose back references are to be written are there.
Aimed(c) == \A w \in c.upd : w.uid \notin suspect => Matching(w.cls, {w.uid}) # {}

\* A delete on its own: only objects still to be treated list its targets.
DeleteProgress(c) ==
    /\ \A s \in Used(docs) :
           docs[s].uid \in c.target \ suspect => docs[s].cls = c.cls
    /\ \A s \in Used(docs) : \A g \in Fields : \A x \in docs[s].refs[g] :
           LET y == docs[s].uid
           IN  x \in c.target \ suspect /\ y \notin c.target \cup suspect =>
                  \/ \E i \in c.olds : i.uid = x /\ y \in i.refs[Inverse[g]]
                  \/ x = c.cur /\ Dropping(c, Inverse[g], y)

\* An insert or update on its own that has written its object: the field and
\* its back references agree except for the changes still pending.
WriteProgress(c, N) ==
    LET x == c.cur IN
    \A s \in Used(docs) : docs[s].uid = x => \A f \in Fields :
        LET R == docs[s].refs IN
        /\ \A y \in N \ suspect :
              /\ Adding(c, f, y) => y \in R[f]
              /\ Dropping(c, f, y) => y \notin R[f]
              /\ ~Pending(c, f, y) /\ (y = x => ~Pending(c, Inverse[f], x)) =>
                     (y \in R[f] <=> Lists(docs, y, Inverse[f], x))
        /\ ~(Adding(c, f, x) /\ Dropping(c, Inverse[f], x))

\* An update on its own that has written its object and has not yet compared
\* the old value with the new one.
FreshUpdate(c, N) ==
    LET x == c.cur IN
    /\ c.todo = {} /\ c.upd = {}
    /\ \A o1, o2 \in c.olds : o1 = o2
    /\ \A s \in Used(docs) : docs[s].uid = x => docs[s].refs = c.new
    /\ \A o \in c.olds, f \in Fields :
          /\ \A y \in N \ (suspect \cup {x}) :
                y \in o.refs[f] <=> Lists(docs, y, Inverse[f], x)
          /\ x \in o.refs[f] <=> x \in o.refs[Inverse[f]]

\* An insert or update on its own of an object that is not suspect.
ObjectProgress(c, N) ==
    /\ c.pc # "insert" => c.cur \in Uids(docs)
    /\ c.fetched # {} => ~c.dirty /\ c.pc = "bref"
    /\ \A i, j \in c.fetched : i = j
    /\ c.pc = "set" => ~c.dirty /\ c.olds = Fetch(Matching(c.cls, {c.cur}))
    /\ c.pc = "bref" /\ c.olds \cup c.todo \cup c.upd # {} => c.dirty
    /\ c.dirty /\ c.olds # {} => FreshUpdate(c, N)
    /\ c.dirty /\ c.olds = {} => WriteProgress(c, N)

AloneProgress(p, N) ==
    LET c == call[p] IN
    /\ UniqueOutside(docs, suspect)
    /\ c.pc = "insert" => c.cur \notin Uids(docs)
    /\ Aimed(c)
    /\ c.kind = "delete" => DeleteProgress(c)
    /\ c.kind # "delete" /\ c.cur \notin suspect => ObjectProgress(c, N)

IInvOver(N) ==
    /\ TypeOK
    /\ \A p \in Procs : /\ Shape(call[p])
                        /\ Fits(call[p])
                        /\ MovedIsSuspect(call[p])
                        /\ PreparedAgrees(p)
    /\ AloneIsAlone
    /\ Contained
    /\ \A p \in Procs : Active(p) /\ call[p].alone => AloneProgress(p, N)

\* The uids range over all of Nat; a model of a bounded instance checks the
\* invariant over the uids it can create.
IInv == IInvOver(Nat)
-----------------------------------------------------------------------------
(***************************************************************************)
(* The invariant behind RefusalExplained and RefusedDeleteHarmless: what a *)
(* call on its own may expect of the back references it has not read yet.  *)
(***************************************************************************)

\* A change still to be read is one the referenced object has not been told.
UnreadIsDue(c) ==
    \A ch \in c.todo : {ch.val, c.cur} \cap suspect = {} /\ ch.val # c.cur =>
        (ch.mode = "add" <=> ~Lists(docs, ch.val, Inverse[ch.fld], c.cur))

\* A delete: the objects still to be treated are listed by all they list.
OldsAnswered(c) ==
    \A i \in c.olds : \A f \in Fields : \A y \in i.refs[f] :
        {y, i.uid} \cap suspect = {} /\ y # i.uid => Lists(docs, y, Inverse[f], i.uid)

\* ... are different objects, and none of them is the one being treated.
OldsDistinct(c) ==
    /\ \A i, j \in c.olds : i.uid = j.uid /\ i.uid \notin suspect => i = j
    /\ \A i \in c.olds : i.uid = c.cur /\ c.todo \cup c.upd # {} => c.cur \in suspect

\* A delete of one object writes when it has read everything.
ReadsFirst(c) ==
    \A u \in c.target : c.target = {u} /\ u \notin suspect =>
        /\ c.olds # {} => ~c.dirty /\ c.todo = {} /\ c.upd = {}
        /\ c.todo # {} => ~c.dirty

DeleteDue(c) == OldsAnswered(c) /\ OldsDistinct(c) /\ ReadsFirst(c)

RefusalInv ==
    \A p \in Procs : Active(p) /\ call[p].alone =>
        /\ UnreadIsDue(call[p])
        /\ call[p].kind = "delete" => DeleteDue(call[p])
-----------------------------------------------------------------------------
(***************************************************************************)
(* The invariants in a form TLC evaluates.  The uids that neither a        *)
(* document nor a call names satisfy IInv whatever happens.                *)
(***************************************************************************)
Listed(refs) == UNION {refs[f] : f \in Fields}

NamedBy(c) ==
    {c.cur} \cup {ch.val : ch \in c.todo} \cup {w.uid : w \in c.upd}
            \cup UNION {Listed(i.refs) : i \in c.olds}

Known ==
    Uids(docs) \cup (UNION {Listed(docs[s].refs) : s \in Used(docs)})
               \cup (UNION {NamedBy(call[p]) : p \in Procs})

(***************************************************************************)
(* What is true between any two steps, however calls overlap, fail or are  *)
(* killed: each call's prepared values agree with the database but for     *)
(* what overlapping calls write, and a call on its own still has to make   *)
(* exactly the changes that set a field and its back references apart.     *)
(***************************************************************************)
InductiveInvariant == IInvOver(Known) /\ RefusalInv
=============================================================================
