------------------------------ MODULE EmGroups ------------------------------
(***************************************************************************)
(* The groups of an editorial model (EmGroup, editorial_model/             *)
(* components.py).  A group requires others and knows who requires it;     *)
(* before an edge is added either way, a scan of the groups that the new   *)
(* one requires (or that require it) looks for a cycle.                    *)
(*                                                                         *)
(* The scan means to skip the groups it has seen, but looks a group up     *)
(* among uids: it follows every path.  pending is its to_scan list, as a   *)
(* bag: how often each group waits in it.                                  *)
(***************************************************************************)
EXTENDS Naturals, FiniteSets

CONSTANTS
    Group,         \* the groups, each with a uid of its own
    MaxPending,    \* bound: how often a group is counted in to_scan
    None

ASSUME GroupAssumption == None \notin Group /\ MaxPending \in Nat \ {0}

VARIABLES
    require,    \* group -> EmGroup.require
    required,   \* group -> EmGroup.required_by
    call,       \* the add_dependency or add_applicant that runs
    pending,    \* to_scan of its scan
    res         \* the groups its scan has found

vars == <<require, required, call, pending, res>>

Call == [op : {"dependency", "applicant"}, group : Group, new : Group]
Nothing == [g \in Group |-> 0]

Init ==
    /\ require = [g \in Group |-> {}] /\ required = [g \in Group |-> {}]
    /\ call = None /\ pending = Nothing /\ res = {}

Edges(op) == IF op = "dependency" THEN require ELSE required
Reversed(op) == IF op = "dependency" THEN required ELSE require

\* What dependencies(True) or applicants(True) of the new group starts with.
DirectOnly(op, new) == Nothing
Direct(op, new) == [g \in Group |-> IF g \in Edges(op)[new] THEN 1 ELSE 0]

\* add_dependency or add_applicant of a group that is not there yet.
Add(op, g, new) ==
    /\ call = None
    /\ new \notin Edges(op)[g]
    /\ call' = [op |-> op, group |-> g, new |-> new]
    /\ res' = Edges(op)[new]
    /\ pending' = Direct(op, new)
    /\ UNCHANGED <<require, required>>

\* One turn of the loop takes a group out of to_scan.
Backward(n) == Reversed(call.op)[n]
Follow(n) == Edges(call.op)[n]
Scan(n) ==
    /\ call # None /\ pending[n] > 0
    /\ pending' = [g \in Group |->
            LET left == IF g = n THEN pending[g] - 1 ELSE pending[g]
            IN  IF g \in Follow(n) /\ left < MaxPending THEN left + 1 ELSE left]
    /\ res' = res \cup Follow(n)
    /\ UNCHANGED <<require, required, call>>

\* __circular_dependency and __circular_applicant.
Never == FALSE
Circular == call.group \in res

Returned == call' = None /\ pending' = Nothing /\ res' = {}

AddEdge ==
    /\ call # None /\ pending = Nothing
    /\ ~Circular
    /\ LET a == IF call.op = "dependency" THEN call.group ELSE call.new
           b == IF call.op = "dependency" THEN call.new ELSE call.group
       IN  /\ require' = [require EXCEPT ![a] = @ \cup {b}]
           /\ required' = [required EXCEPT ![b] = @ \cup {a}]
    /\ Returned

Refuse ==
    /\ call # None /\ pending = Nothing
    /\ Circular
    /\ Returned
    /\ UNCHANGED <<require, required>>

Next ==
    \/ \E g, new \in Group : Add("dependency", g, new) \/ Add("applicant", g, new)
    \/ \E n \in Group : Scan(n)
    \/ AddEdge
    \/ Refuse

Spec == Init /\ [][Next]_vars

\* A call that was made runs; nobody is obliged to make one.
FairSpec == Spec /\ WF_vars(AddEdge \/ Refuse \/ \E n \in Group : Scan(n))
-----------------------------------------------------------------------------
(* Properties.                                                             *)

TypeOK ==
    /\ require \in [Group -> SUBSET Group]
    /\ required \in [Group -> SUBSET Group]
    /\ call \in Call \cup {None}
    /\ pending \in [Group -> 0..MaxPending]
    /\ res \subseteq Group

\* A set of groups in which each requires another one of the set.
Closed(edges, set) == \A g \in set : \E m \in set \ {g} : m \in edges[g]

\* No sequence of calls ever closes a cycle of two groups or more, whichever
\* side the edges are added from.  (A group that is made to require itself is
\* accepted: the scan starts behind it.)
NoCycle == \A set \in SUBSET Group : set # {} => ~Closed(require, set)

\* The two sides of an edge agree.
Mirror == \A g, m \in Group : m \in require[g] <=> g \in required[m]

\* During a scan every group it has found still waits or has its own edges
\* among those found: with the above, the inductive invariant.
ScanCovers ==
    call # None =>
        \A n \in res \cup {call.new} : pending[n] > 0 \/ Edges(call.op)[n] \subseteq res
Inductive == TypeOK /\ Mirror /\ ScanCovers /\ NoCycle

\* A call is refused only when it would close a cycle.
WouldClose ==
    LET a == IF call.op = "dependency" THEN call.group ELSE call.new
        b == IF call.op = "dependency" THEN call.new ELSE call.group
    IN  \E set \in (SUBSET Group) \ {{}} :
            Closed([require EXCEPT ![a] = @ \cup {b}], set)
RefusalJustified == [][Refuse => WouldClose]_vars

\* Every scan ends, although it follows every path, unless some group was made
\* to require itself.
Loops == {g \in Group : g \in require[g]}
ScansEnd == (call # None) ~> (call = None \/ Loops # {})
=============================================================================
