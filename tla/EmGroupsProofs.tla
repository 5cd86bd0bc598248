--------------------------- MODULE EmGroupsProofs ---------------------------
(***************************************************************************)
(* The groups of an editorial model never require each other in a cycle:   *)
(* proofs, for any set of groups and any sequence of calls.                *)
(*                                                                         *)
(* Acyclic is said of sets: no set is there in which every group requires  *)
(* another one of the set.  So no induction on paths is needed.  The scan  *)
(* of a call that is not refused has found a set of groups that is closed  *)
(* under the edges and that the group itself is not in: a cycle through    *)
(* the new edge would lie on both sides of that set.                       *)
(***************************************************************************)
EXTENDS EmGroups, TLAPS

\* The two sides of the edges, by the operation that follows them.
LEMMA Sides ==
    ASSUME TypeOK, Mirror, NEW op \in {"dependency", "applicant"}
    PROVE  /\ Edges(op) \in [Group -> SUBSET Group]
           /\ \A g, m \in Group : m \in Edges(op)[g] <=> g \in Reversed(op)[m]
BY DEF TypeOK, Mirror, Edges, Reversed

\* A new edge behind a set that is closed forwards and that a is not in.
LEMMA NoCycleForward ==
    ASSUME TypeOK, NoCycle,
           NEW a \in Group, NEW b \in Group, NEW T \in SUBSET Group,
           b \in T, a \notin T, \A n \in T : require[n] \subseteq T
    PROVE  \A set \in SUBSET Group : set # {} =>
                ~Closed([require EXCEPT ![a] = @ \cup {b}], set)
<1> DEFINE next == [require EXCEPT ![a] = @ \cup {b}]
<1> SUFFICES ASSUME NEW set \in SUBSET Group, set # {}, Closed(next, set)
             PROVE  FALSE
    OBVIOUS
<1>1. /\ \A g \in Group \ {a} : next[g] = require[g]
      /\ next[a] = require[a] \cup {b}
    BY DEF TypeOK
<1>2. CASE set \cap T # {}
    <2>1. ASSUME NEW g \in set \cap T
          PROVE  \E m \in (set \cap T) \ {g} : m \in require[g]
        <3>1. PICK m \in set \ {g} : m \in next[g]
            BY <2>1 DEF Closed
        <3>2. m \in require[g]
            BY <1>1, <2>1, <3>1
        <3> QED
            BY <2>1, <3>1, <3>2
    <2>2. Closed(require, set \cap T)
        BY <2>1 DEF Closed
    <2> QED
        BY <1>2, <2>2 DEF NoCycle
<1>3. CASE set \cap T = {}
    <2>1. \A g \in set : \E m \in set \ {g} : m \in require[g]
        <3> TAKE g \in set
        <3>1. PICK m \in set \ {g} : m \in next[g]
            BY DEF Closed
        <3>2. m # b
            BY <1>3
        <3> QED
            BY <1>1, <3>1, <3>2
    <2> QED
        BY <2>1 DEF NoCycle, Closed
<1> QED
    BY <1>2, <1>3

\* ... and before a set that is closed backwards and that b is not in.
LEMMA NoCycleBackward ==
    ASSUME TypeOK, NoCycle,
           NEW a \in Group, NEW b \in Group, NEW T \in SUBSET Group,
           a \in T, b \notin T, \A n, m \in Group : m \in T /\ m \in require[n] => n \in T
    PROVE  \A set \in SUBSET Group : set # {} =>
                ~Closed([require EXCEPT ![a] = @ \cup {b}], set)
<1> DEFINE next == [require EXCEPT ![a] = @ \cup {b}]
<1> SUFFICES ASSUME NEW set \in SUBSET Group, set # {}, Closed(next, set)
             PROVE  FALSE
    OBVIOUS
<1>1. /\ \A g \in Group \ {a} : next[g] = require[g]
      /\ next[a] = require[a] \cup {b}
    BY DEF TypeOK
<1>2. CASE set \ T # {}
    <2>1. ASSUME NEW g \in set \ T
          PROVE  \E m \in (set \ T) \ {g} : m \in require[g]
        <3>1. PICK m \in set \ {g} : m \in next[g]
            BY <2>1 DEF Closed
        <3>2. m \in require[g]
            BY <1>1, <2>1, <3>1
        <3> QED
            BY <2>1, <3>1, <3>2
    <2>2. Closed(require, set \ T)
        BY <2>1 DEF Closed
    <2> QED
        BY <1>2, <2>2 DEF NoCycle
<1>3. CASE set \subseteq T
    <2>1. \A g \in set : \E m \in set \ {g} : m \in require[g]
        <3> TAKE g \in set
        <3>1. PICK m \in set \ {g} : m \in next[g]
            BY DEF Closed
        <3>2. m # b
            BY <1>3
        <3> QED
            BY <1>1, <3>1, <3>2
    <2> QED
        BY <2>1 DEF NoCycle, Closed
<1> QED
    BY <1>2, <1>3

\* What an ended scan has found is closed.
LEMMA ScanClosed ==
    ASSUME TypeOK, ScanCovers, call # None, pending = Nothing
    PROVE  \A n \in res \cup {call.new} : Edges(call.op)[n] \subseteq res
BY GroupAssumption DEF TypeOK, ScanCovers, Nothing, Call

\* An accepted edge closes no cycle.
LEMMA AcceptedEdge ==
    ASSUME Inductive, AddEdge, call.group # call.new
    PROVE  NoCycle'
<1> DEFINE T == res \cup {call.new}
<1> USE DEF Inductive
<1>1. /\ call.op \in {"dependency", "applicant"} /\ call.group \in Group /\ call.new \in Group
      /\ T \in SUBSET Group /\ call.group \notin T
    BY DEF AddEdge, Circular, TypeOK, Call
<1>2. \A n \in T : Edges(call.op)[n] \subseteq T
    BY ScanClosed DEF AddEdge
<1>3. CASE call.op = "dependency"
    <2>1. require' = [require EXCEPT ![call.group] = @ \cup {call.new}]
        BY <1>3 DEF AddEdge
    <2>2. \A n \in T : require[n] \subseteq T
        BY <1>2, <1>3 DEF Edges
    <2>3. \A set \in SUBSET Group : set # {} => ~Closed(require', set)
        BY <1>1, <2>1, <2>2, NoCycleForward
    <2> QED
        BY <2>3 DEF NoCycle, Closed
<1>4. CASE call.op = "applicant"
    <2>1. require' = [require EXCEPT ![call.new] = @ \cup {call.group}]
        BY <1>4 DEF AddEdge
    <2>2. \A n, m \in Group : m \in T /\ m \in require[n] => n \in T
        BY <1>2, <1>4 DEF Edges, Mirror
    <2>3. call.new \in T /\ \A n, m \in Group : m \in T /\ m \in require[n] => n \in T
        BY <2>2
    <2>4. \A set \in SUBSET Group : set # {} =>
            ~Closed([require EXCEPT ![call.new] = @ \cup {call.group}], set)
        <3> HIDE DEF T
        <3> QED
            BY <1>1, <2>3, NoCycleBackward
    <2> QED
        BY <2>1, <2>4 DEF NoCycle, Closed
<1> QED
    BY <1>1, <1>3, <1>4

\* A group made to require itself is no cycle of two.
LEMMA AcceptedLoop ==
    ASSUME Inductive, AddEdge, call.group = call.new
    PROVE  NoCycle'
<1>1. \A g \in Group : require'[g] \ {g} = require[g] \ {g}
    BY DEF AddEdge, Inductive, TypeOK, Call
<1>2. \A set \in SUBSET Group : Closed(require', set) => Closed(require, set)
    BY <1>1 DEF Closed
<1> QED
    BY <1>2 DEF Inductive, NoCycle, Closed

\* Every step keeps the inductive invariant.
LEMMA InductiveKept ==
    ASSUME Inductive, [Next]_vars
    PROVE  Inductive'
<1> USE DEF Inductive
<1>1. ASSUME NEW g \in Group, NEW new \in Group, NEW op \in {"dependency", "applicant"},
             Add(op, g, new)
      PROVE  Inductive'
    <2>1. TypeOK'
        BY <1>1, GroupAssumption DEF Add, TypeOK, Call, Direct, Edges
    <2>2. ScanCovers'
        <3>1. call' = [op |-> op, group |-> g, new |-> new] /\ res' = Edges(op)[new]
            BY <1>1 DEF Add
        <3>2. \A m \in res' : pending'[m] > 0
            BY <1>1, <3>1, Sides DEF Add, Direct
        <3>3. Edges(op)'[new] \subseteq res'
            BY <1>1, <3>1 DEF Edges, Add
        <3> QED
            BY <3>1, <3>2, <3>3 DEF ScanCovers, Edges
    <2>3. Mirror' /\ NoCycle'
        BY <1>1 DEF Add, Mirror, NoCycle, Closed
    <2> QED
        BY <2>1, <2>2, <2>3
<1>2. ASSUME NEW n \in Group, Scan(n)
      PROVE  Inductive'
    <2>1. call \in Call /\ Follow(n) \subseteq Group /\ Follow(n) = Edges(call.op)[n]
        BY <1>2, Sides DEF Scan, TypeOK, Call, Follow
    <2>2. TypeOK'
        <3>1. pending' \in [Group -> 0..MaxPending]
            BY <1>2, <2>1, GroupAssumption DEF Scan, TypeOK
        <3> QED
            BY <1>2, <2>1, <3>1 DEF Scan, TypeOK
    <2>3. \A m \in Group : m # n => pending'[m] >= pending[m]
        BY <1>2, <2>1, GroupAssumption DEF Scan, TypeOK
    <2>4. \A m \in Follow(n) : pending'[m] > 0
        BY <1>2, <2>1, GroupAssumption DEF Scan, TypeOK
    <2>5. ScanCovers'
        <3>1. UNCHANGED <<call, require, required>> /\ res' = res \cup Follow(n)
            BY <1>2 DEF Scan
        <3>2. ASSUME NEW m \in res' \cup {call.new}
              PROVE  pending'[m] > 0 \/ Edges(call.op)[m] \subseteq res'
            <4>1. CASE m \in Follow(n)
                BY <2>4, <4>1
            <4>2. CASE m = n
                BY <2>1, <3>1, <4>2
            <4>3. CASE m \notin Follow(n) /\ m # n
                <5>1. m \in res \cup {call.new} /\ m \in Group
                    BY <2>1, <3>1, <3>2, <4>3 DEF TypeOK, Call
                <5>2. pending[m] > 0 \/ Edges(call.op)[m] \subseteq res
                    BY <1>2, <5>1 DEF ScanCovers, Scan
                <5>3. pending[m] \in Nat /\ pending'[m] \in Nat /\ pending'[m] >= pending[m]
                    BY <2>2, <2>3, <4>3, <5>1 DEF TypeOK
                <5> QED
                    BY <3>1, <5>2, <5>3
            <4> QED
                BY <4>1, <4>2, <4>3
        <3> QED
            BY <3>1, <3>2 DEF ScanCovers, Edges
    <2>6. Mirror' /\ NoCycle'
        BY <1>2 DEF Scan, Mirror, NoCycle, Closed
    <2> QED
        BY <2>2, <2>5, <2>6
<1>3. ASSUME AddEdge
      PROVE  Inductive'
    <2>1. TypeOK' /\ Mirror'
        BY <1>3, GroupAssumption DEF AddEdge, Returned, TypeOK, Mirror, Call, Nothing
    <2>2. ScanCovers'
        BY <1>3 DEF AddEdge, Returned, ScanCovers
    <2>3. NoCycle'
        BY <1>3, AcceptedEdge, AcceptedLoop
    <2> QED
        BY <2>1, <2>2, <2>3
<1>4. ASSUME Refuse
      PROVE  Inductive'
    BY <1>4, GroupAssumption
       DEF Refuse, Returned, TypeOK, Mirror, ScanCovers, NoCycle, Closed, Nothing
<1>5. ASSUME UNCHANGED vars
      PROVE  Inductive'
    BY <1>5 DEF vars, TypeOK, Mirror, ScanCovers, NoCycle, Closed, Edges
<1> QED
    BY <1>1, <1>2, <1>3, <1>4, <1>5 DEF Next

\* The scan and the edges keep to the inductive invariant.
THEOREM GroupsInductive == Spec => []Inductive
<1>1. Init => Inductive
    BY GroupAssumption DEF Init, Inductive, TypeOK, Mirror, ScanCovers, NoCycle, Closed, Nothing
<1>2. Inductive /\ [Next]_vars => Inductive'
    BY InductiveKept
<1> QED
    BY <1>1, <1>2, PTL DEF Spec

\* Groups never come to require each other in a cycle of two or more, for any
\* set of groups, whichever of the two operations adds the edges.
THEOREM GroupsAcyclic == Spec => []NoCycle
<1>1. Inductive => NoCycle
    BY DEF Inductive
<1> QED
    BY <1>1, GroupsInductive, PTL
-----------------------------------------------------------------------------
(* A call that is refused would have closed a cycle.                       *)

\* The set of groups T is closed under the edges.
Follows(edges, T) == \A n \in T : edges[n] \subseteq T

\* The groups behind every edge of g, on every path.
Behind(edges, g) ==
    {x \in Group : \A T \in SUBSET Group : edges[g] \subseteq T /\ Follows(edges, T) => x \in T}

\* A scan finds nothing but what lies behind the new group, whichever paths it
\* follows and however often; the edge itself was not there.
ScanFinds ==
    call # None =>
        /\ call.new \notin Edges(call.op)[call.group]
        /\ \A n \in Group : pending[n] > 0 => n \in res
        /\ res \subseteq Behind(Edges(call.op), call.new)

\* What is behind a group is closed.
LEMMA BehindFollows ==
    ASSUME NEW edges \in [Group -> SUBSET Group], NEW g \in Group
    PROVE  edges[g] \subseteq Behind(edges, g) /\ Follows(edges, Behind(edges, g))
BY DEF Behind, Follows

\* The cycle of a refused dependency: the groups that reach the call's group,
\* each with the next one on its way.
LEMMA WaysForward ==
    ASSUME NEW edges \in [Group -> SUBSET Group],
           NEW g \in Group, NEW new \in Group, g \in Behind(edges, new), new \notin edges[g]
    PROVE  \E set \in SUBSET Group : g \in set /\ Closed([edges EXCEPT ![g] = @ \cup {new}], set)
<1> DEFINE Misses(T) == T \in SUBSET Group /\ Follows(edges, T) /\ g \notin T
           set == {x \in Group : \A T : Misses(T) => x \notin T}
           next == [edges EXCEPT ![g] = @ \cup {new}]
<1>1. g \in set /\ new \in set
    BY DEF Behind, Follows
<1>2. \A x \in Group : edges[x] \subseteq next[x]
    OBVIOUS
<1>3. ASSUME NEW x \in set, edges[x] \cap (set \ {x}) = {}, x # g \/ x = new
      PROVE  FALSE
    <2> DEFINE rest == {y \in Group : \E T : Misses(T) /\ y \in T}
    <2>1. Misses(rest)
        BY DEF Follows
    <2>2. edges[x] \ {x} \subseteq rest
        BY <1>3
    <2>3. CASE x = g
        <3>1. x = new /\ edges[new] \subseteq rest
            BY <1>3, <2>2, <2>3
        <3> QED
            BY <2>1, <3>1 DEF Behind
    <2>4. CASE x # g
        <3>1. Misses(rest \cup {x})
            BY <2>1, <2>2, <2>4, <1>3 DEF Follows
        <3> QED
            BY <3>1, <1>3
    <2> QED
        BY <2>3, <2>4
<1>4. ASSUME NEW x \in set
      PROVE  \E m \in set \ {x} : m \in next[x]
    <2>1. CASE x # g \/ x = new
        BY <1>2, <1>3, <2>1
    <2>2. CASE x = g /\ x # new
        BY <1>1, <2>2
    <2> QED
        BY <2>1, <2>2
<1>5. set \in SUBSET Group /\ Closed(next, set)
    BY <1>4 DEF Closed
<1> QED
    BY <1>1, <1>5

\* The cycle of a refused applicant: the groups behind the new one, each with
\* the one that leads to it.
LEMMA WaysBack ==
    ASSUME NEW edges \in [Group -> SUBSET Group],
           NEW g \in Group, NEW new \in Group, g \in Behind(edges, new), new \notin edges[g]
    PROVE  \E set \in SUBSET Group :
                /\ new \in set
                /\ \A x \in set : \E y \in set \ {x} : x \in edges[y] \/ (x = new /\ y = g)
<1> DEFINE found == Behind(edges, new)
           set == found \cup {new}
<1>1. found \in SUBSET Group /\ edges[new] \subseteq found /\ Follows(edges, found)
    BY BehindFollows DEF Behind
<1>2. ASSUME NEW x \in found, x \notin edges[new]
      PROVE  \E y \in found \ {x} : x \in edges[y]
    <2>1. SUFFICES ASSUME \A y \in found \ {x} : x \notin edges[y]
                   PROVE  FALSE
        OBVIOUS
    <2>2. edges[new] \subseteq found \ {x} /\ Follows(edges, found \ {x})
        BY <1>1, <1>2, <2>1 DEF Follows
    <2> QED
        BY <1>1, <2>2 DEF Behind
<1>3. ASSUME NEW x \in set
      PROVE  \E y \in set \ {x} : x \in edges[y] \/ (x = new /\ y = g)
    <2>1. CASE x = new /\ g # new
        BY <2>1
    <2>2. CASE x # new /\ x \in edges[new]
        BY <2>2
    <2>3. CASE x \in found /\ x \notin edges[new]
        BY <1>2, <2>3
    <2> QED
        BY <2>1, <2>2, <2>3
<1>4. set \in SUBSET Group /\ new \in set
    BY <1>1
<1> HIDE DEF set
<1> QED
    BY <1>3, <1>4

\* Every step keeps what a scan finds.
LEMMA ScanFindsKept ==
    ASSUME Inductive, ScanFinds, [Next]_vars
    PROVE  ScanFinds'
<1>1. ASSUME NEW g \in Group, NEW new \in Group, NEW op \in {"dependency", "applicant"},
             Add(op, g, new)
      PROVE  ScanFinds'
    <2>1. /\ call' = [op |-> op, group |-> g, new |-> new] /\ res' = Edges(op)[new]
          /\ Edges(op)' = Edges(op) /\ new \notin Edges(op)[g] /\ pending' = Direct(op, new)
        BY <1>1 DEF Add, Edges
    <2>2. \A n \in Group : pending'[n] > 0 => n \in res'
        BY <2>1 DEF Direct
    <2>3. res' \subseteq Behind(Edges(op), new)
        BY <2>1, BehindFollows, Sides DEF Inductive
    <2>4. call'.op = op /\ call'.group = g /\ call'.new = new
        BY <2>1
    <2>5. Edges(call.op)' = Edges(op)
        BY <2>1, <2>4 DEF Edges
    <2> QED
        BY <2>1, <2>2, <2>3, <2>4, <2>5 DEF ScanFinds, Behind, Follows
<1>2. ASSUME NEW n \in Group, Scan(n)
      PROVE  ScanFinds'
    <2> DEFINE edges == Edges(call.op)
               left(g) == IF g = n THEN pending[g] - 1 ELSE pending[g]
    <2>1. call # None /\ call.new \in Group /\ call.op \in {"dependency", "applicant"}
        BY <1>2 DEF Scan, Inductive, TypeOK, Call
    <2>2. edges \in [Group -> SUBSET Group]
        BY <2>1, Sides DEF Inductive
    <2>3. Edges(call.op)' = edges /\ call' = call /\ res' = res \cup edges[n]
        BY <1>2 DEF Scan, Edges, Follow
    <2>4. n \in Behind(edges, call.new)
        BY <1>2, <2>1 DEF Scan, ScanFinds
    <2>5. edges[n] \subseteq Behind(edges, call.new)
        BY <2>1, <2>2, <2>4, BehindFollows DEF Follows
    <2>6. ASSUME NEW g \in Group, pending'[g] > 0
          PROVE  g \in res'
        <3>1. CASE g \in edges[n]
            BY <2>3, <3>1
        <3>2. CASE g \notin edges[n]
            <4>1. pending'[g] = left(g)
                BY <1>2, <3>2 DEF Scan, Follow
            <4>2. pending[g] \in Nat
                BY DEF Inductive, TypeOK
            <4>3. pending[g] > 0
                BY <2>6, <4>1, <4>2
            <4> QED
                BY <2>1, <2>3, <4>3 DEF ScanFinds
        <3> QED
            BY <3>1, <3>2
    <2>7. res' \subseteq Behind(edges, call.new) /\ call.new \notin edges[call.group]
        BY <2>1, <2>3, <2>5 DEF ScanFinds
    <2> HIDE DEF edges
    <2> QED
        BY <2>3, <2>6, <2>7 DEF ScanFinds, Behind, Follows
<1>3. CASE AddEdge \/ Refuse
    BY <1>3 DEF AddEdge, Refuse, Returned, ScanFinds
<1>4. CASE UNCHANGED vars
    BY <1>4 DEF vars, ScanFinds, Behind, Follows, Edges
<1> QED
    BY <1>1, <1>2, <1>3, <1>4 DEF Next

\* A refused call would have closed a cycle.
LEMMA RefusedCloses ==
    ASSUME Inductive, ScanFinds, Refuse
    PROVE  WouldClose
<1> DEFINE edges == Edges(call.op)
<1>1. /\ call.group \in Group /\ call.new \in Group /\ call.op \in {"dependency", "applicant"}
      /\ call.group \in Behind(edges, call.new) /\ call.new \notin edges[call.group]
    BY DEF Inductive, TypeOK, Call, ScanFinds, Refuse, Circular
<1>2. edges \in [Group -> SUBSET Group]
    BY <1>1, Sides DEF Inductive
<1>3. CASE call.op = "dependency"
    <2>1. PICK set \in SUBSET Group :
            call.group \in set /\ Closed([edges EXCEPT ![call.group] = @ \cup {call.new}], set)
        BY <1>1, <1>2, WaysForward
    <2>2. set # {} /\ edges = require
        BY <1>3, <2>1 DEF Edges
    <2>3. Closed([require EXCEPT ![call.group] = @ \cup {call.new}], set)
        BY <2>1, <2>2
    <2> QED
        BY <1>3, <2>2, <2>3 DEF WouldClose
<1>4. CASE call.op = "applicant"
    <2>1. PICK set \in SUBSET Group :
            /\ call.new \in set
            /\ \A x \in set : \E y \in set \ {x} :
                    x \in edges[y] \/ (x = call.new /\ y = call.group)
        BY <1>1, <1>2, WaysBack
    <2> DEFINE next == [require EXCEPT ![call.new] = @ \cup {call.group}]
    <2>2. \A x \in Group : require[x] \subseteq next[x]
        BY DEF Inductive, TypeOK
    <2>3. call.group \in next[call.new]
        BY <1>1 DEF Inductive, TypeOK
    <2>4. \A x, y \in Group : x \in edges[y] => y \in require[x]
        BY <1>4 DEF Edges, Inductive, Mirror
    <2>5. \A x \in set : \E y \in set \ {x} : y \in next[x]
        BY <2>1, <2>2, <2>3, <2>4
    <2>6. Closed(next, set)
        BY <2>5 DEF Closed
    <2>7. set # {} /\ call.op # "dependency"
        BY <1>4, <2>1
    <2> QED
        BY <2>6, <2>7 DEF WouldClose
<1> QED
    BY <1>1, <1>3, <1>4

\* add_dependency and add_applicant refuse a group only when its edge would
\* close a cycle: what the scan finds, although it follows every path and takes
\* groups up again, lies behind the new group.
THEOREM GroupsRefusalJustified == Spec => RefusalJustified
<1>1. Init => ScanFinds
    BY DEF Init, ScanFinds
<1>2. Inductive /\ ScanFinds /\ [Next]_vars => ScanFinds'
    BY ScanFindsKept
<1>3. Inductive /\ ScanFinds /\ [Next]_vars => [Refuse => WouldClose]_vars
    BY RefusedCloses
<1> QED
    BY <1>1, <1>2, <1>3, GroupsInductive, PTL DEF Spec, RefusalJustified
=============================================================================
