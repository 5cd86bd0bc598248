------------------------ MODULE EditorialModelProofs ------------------------
(***************************************************************************)
(* Proofs about EditorialModel.                                            *)
(***************************************************************************)
EXTENDS EditorialModel, FiniteSetTheorems, SequenceTheorems, WellFoundedInduction, TLAPS

\* The nodes of a graph have numbers that decrease along its edges.
Numbers(next, rank, n) ==
    \A x \in DOMAIN next :
        rank[x] <= n /\ \A y \in next[x] : y \in DOMAIN next /\ rank[y] < rank[x]
Acyclic(next) == \E n \in Nat, rank \in [DOMAIN next -> Nat] : Numbers(next, rank, n)

\* A nonempty set of numbers has a least one.
LEMMA LeastNumber ==
    ASSUME NEW T, T \subseteq Nat, T # {}
    PROVE  \E x \in T : \A y \in T : x <= y
<1> DEFINE Less == {ss \in Nat \X Nat : ss[1] < ss[2]}
<1>1. IsWellFoundedOn(Less, Nat)
    BY NatLessThanWellFounded DEF OpToRel
<1>2. PICK x \in T : \A y \in T : <<y, x>> \notin Less
    BY <1>1, WFMin, Zenon
<1>3. ASSUME NEW y \in T PROVE x <= y
    <2>1. x \in Nat /\ y \in Nat
        OBVIOUS
    <2>2. <<y, x>> \in Nat \X Nat /\ <<y, x>>[1] = y /\ <<y, x>>[2] = x
        BY <2>1
    <2>3. ~(y < x)
        BY <1>2, <2>2
    <2> QED
        BY <2>1, <2>3
<1> QED
    BY <1>3

\* A set of numbers that has 0 and with each number the next one has all.
LEMMA AllNumbers ==
    ASSUME NEW T, 0 \in T, \A k \in Nat : k \in T => k + 1 \in T
    PROVE  Nat \subseteq T
<1> SUFFICES ASSUME NEW k0 \in Nat, k0 \notin T PROVE FALSE
    OBVIOUS
<1>1. PICK k \in Nat \ T : \A j \in Nat \ T : k <= j
    BY LeastNumber
<1>2. k # 0 /\ k - 1 \in Nat /\ k - 1 \in T /\ (k - 1) + 1 = k
    BY <1>1
<1> QED
    BY <1>1, <1>2

\* What is good for a node once it is for the nodes next to it is for all.
LEMMA RankInduction ==
    ASSUME NEW next, Acyclic(next), NEW good,
           \A x \in DOMAIN next : next[x] \subseteq good => x \in good
    PROVE  DOMAIN next \subseteq good
<1> SUFFICES ASSUME NEW x0 \in DOMAIN next, x0 \notin good PROVE FALSE
    OBVIOUS
<1>1. PICK n \in Nat, rank \in [DOMAIN next -> Nat] : Numbers(next, rank, n)
    BY DEF Acyclic
<1> USE DEF Numbers
<1> DEFINE bad == {rank[x] : x \in DOMAIN next \ good}
<1>2. bad \subseteq Nat /\ bad # {}
    BY <1>1
<1>3. PICK k \in bad : \A j \in bad : k <= j
    BY <1>2, LeastNumber
<1>4. PICK x \in DOMAIN next \ good : rank[x] = k
    BY <1>3
<1>5. PICK y \in next[x] : y \notin good
    BY <1>4
<1>6. y \in DOMAIN next /\ rank[y] < rank[x] /\ rank[y] \in bad
    BY <1>1, <1>4, <1>5
<1>7. k <= rank[y] /\ rank[y] \in Nat /\ rank[x] \in Nat
    BY <1>1, <1>3, <1>6
<1> QED
    BY <1>4, <1>6, <1>7

\* The recursion of parents_recc ends.
LEMMA AboveUnfolds ==
    ASSUME NEW next, Acyclic(next)
    PROVE  Above(next) =
            [x \in DOMAIN next |-> next[x] \cup UNION {Above(next)[y] : y \in next[x]}]
<1>1. PICK n \in Nat, rank \in [DOMAIN next -> Nat] : Numbers(next, rank, n)
    BY DEF Acyclic
<1> USE DEF Numbers
<1> DEFINE D(k) == {x \in DOMAIN next : rank[x] < k}
           Fits(f, k) == f = [x \in D(k) |-> next[x] \cup UNION {f[y] : y \in next[x]}]
           T == {k \in Nat : \E f : Fits(f, k)}
<1>2. 0 \in T
    <2>1. D(0) = {}
        BY <1>1
    <2>2. Fits([x \in D(0) |-> {}], 0)
        BY <2>1
    <2> QED
        BY <2>2
<1>3. ASSUME NEW k \in Nat, k \in T PROVE k + 1 \in T
    <2>1. PICK f : Fits(f, k)
        BY <1>3
    <2> DEFINE g == [x \in D(k + 1) |-> next[x] \cup UNION {f[y] : y \in next[x]}]
    <2>2. ASSUME NEW x \in D(k + 1), NEW y \in next[x] PROVE y \in D(k) /\ g[y] = f[y]
        <3>1. y \in DOMAIN next /\ rank[y] < rank[x] /\ rank[x] < k + 1
              /\ rank[y] \in Nat /\ rank[x] \in Nat
            BY <1>1, <2>2
        <3>2. y \in D(k) /\ y \in D(k + 1)
            BY <3>1
        <3> HIDE DEF D
        <3>3. f[y] = next[y] \cup UNION {f[z] : z \in next[y]}
            BY <2>1, <3>2
        <3>4. g[y] = next[y] \cup UNION {f[z] : z \in next[y]}
            BY <3>2
        <3> QED
            BY <3>2, <3>3, <3>4
    <2>3. ASSUME NEW x \in D(k + 1)
          PROVE  {f[y] : y \in next[x]} = {g[y] : y \in next[x]}
        BY <2>2
    <2> HIDE DEF D
    <2>4. Fits(g, k + 1)
        BY <2>3
    <2> HIDE DEF Fits, g
    <2> QED
        BY <2>4
<1>4. \E f : Fits(f, n + 1)
    <2> HIDE DEF T
    <2>1. Nat \subseteq T
        BY <1>2, <1>3, AllNumbers
    <2>2. n + 1 \in T
        BY <2>1
    <2> HIDE DEF Fits
    <2> QED
        BY <2>2 DEF T
<1>5. D(n + 1) = DOMAIN next
    <2>1. ASSUME NEW x \in DOMAIN next PROVE rank[x] < n + 1
        <3>1. rank[x] \in Nat /\ rank[x] <= n
            BY <1>1
        <3> QED
            BY <3>1
    <2> QED
        BY <2>1
<1>6. \E f : f = [x \in DOMAIN next |-> next[x] \cup UNION {f[y] : y \in next[x]}]
    BY <1>4, <1>5
<1> QED
    BY <1>6 DEF Above

\* What is above a node is of the graph, and of a lower number.
LEMMA AboveLower ==
    ASSUME NEW next, Acyclic(next), NEW n \in Nat, NEW rank \in [DOMAIN next -> Nat],
           Numbers(next, rank, n)
    PROVE  \A x \in DOMAIN next : \A y \in Above(next)[x] :
                y \in DOMAIN next /\ rank[y] < rank[x]
<1> USE DEF Numbers
<1> DEFINE good == {x \in DOMAIN next : \A y \in Above(next)[x] :
                                            y \in DOMAIN next /\ rank[y] < rank[x]}
<1>1. ASSUME NEW x \in DOMAIN next, next[x] \subseteq good PROVE x \in good
    <2>1. ASSUME NEW y \in Above(next)[x] PROVE y \in DOMAIN next /\ rank[y] < rank[x]
        <3>1. y \in next[x] \/ \E z \in next[x] : y \in Above(next)[z]
            BY AboveUnfolds
        <3>2. CASE y \in next[x]
            BY <3>2
        <3>3. ASSUME NEW z \in next[x], y \in Above(next)[z]
              PROVE  y \in DOMAIN next /\ rank[y] < rank[x]
            <4>1. y \in DOMAIN next /\ rank[y] < rank[z]
                BY <1>1, <3>3
            <4>2. z \in DOMAIN next /\ rank[z] < rank[x]
                BY <3>3
            <4>3. rank[x] \in Int /\ rank[y] \in Int /\ rank[z] \in Int
                BY <4>1, <4>2
            <4> QED
                BY <4>1, <4>2, <4>3
        <3> QED
            BY <3>1, <3>2, <3>3
    <2> QED
        BY <2>1
<1>2. DOMAIN next \subseteq good
    <2> HIDE DEF good
    <2> QED
        BY <1>1, RankInduction DEF Acyclic
<1> QED
    BY <1>2

\* What is above a node: what is next to it, and what is above that; nothing is
\* above itself.
LEMMA AboveFacts ==
    ASSUME NEW next, Acyclic(next), NEW x \in DOMAIN next
    PROVE  /\ Above(next)[x] \subseteq DOMAIN next
           /\ x \notin Above(next)[x]
           /\ next[x] \subseteq Above(next)[x]
           /\ \A y \in next[x] : y \in DOMAIN next /\ Above(next)[y] \subseteq Above(next)[x]
           /\ \A y \in Above(next)[x] :
                y \in next[x] \/ \E z \in next[x] : y \in Above(next)[z]
<1>1. PICK n \in Nat, rank \in [DOMAIN next -> Nat] : Numbers(next, rank, n)
    BY DEF Acyclic
<1> USE DEF Numbers
<1>2. \A y \in Above(next)[x] : y \in DOMAIN next /\ rank[y] < rank[x]
    BY <1>1, AboveLower
<1>3. Above(next)[x] = next[x] \cup UNION {Above(next)[y] : y \in next[x]}
    BY AboveUnfolds
<1>4. ~(rank[x] < rank[x])
    BY <1>1
<1> QED
    BY <1>1, <1>2, <1>3, <1>4

\* More edges, more is above.
LEMMA AboveGrows ==
    ASSUME NEW next, Acyclic(next), NEW more, Acyclic(more), DOMAIN next \subseteq DOMAIN more,
           \A x \in DOMAIN next : next[x] \subseteq more[x]
    PROVE  \A x \in DOMAIN next : Above(next)[x] \subseteq Above(more)[x]
<1> DEFINE good == {x \in DOMAIN next : Above(next)[x] \subseteq Above(more)[x]}
<1>1. ASSUME NEW x \in DOMAIN next, next[x] \subseteq good PROVE x \in good
    <2>1. Above(next)[x] = next[x] \cup UNION {Above(next)[y] : y \in next[x]}
        BY AboveUnfolds
    <2>2. more[x] \subseteq Above(more)[x]
          /\ \A y \in more[x] : Above(more)[y] \subseteq Above(more)[x]
        BY AboveFacts
    <2>3. \A y \in next[x] : Above(next)[y] \subseteq Above(more)[x]
        BY <1>1, <2>2
    <2> QED
        BY <2>1, <2>2, <2>3
<1> HIDE DEF good
<1>2. DOMAIN next \subseteq good
    BY <1>1, RankInduction
<1> QED
    BY <1>2 DEF good

\* A set that has with a node the nodes next to it has all that is above it.
LEMMA AboveClosed ==
    ASSUME NEW next, Acyclic(next), NEW S, \A x \in DOMAIN next \cap S : next[x] \subseteq S
    PROVE  \A x \in DOMAIN next \cap S : Above(next)[x] \subseteq S
<1> DEFINE good == {x \in DOMAIN next : x \in S => Above(next)[x] \subseteq S}
<1>1. ASSUME NEW x \in DOMAIN next, next[x] \subseteq good PROVE x \in good
    <2>1. Above(next)[x] = next[x] \cup UNION {Above(next)[y] : y \in next[x]}
        BY AboveUnfolds
    <2>2. ASSUME x \in S, NEW y \in next[x] PROVE y \in S /\ Above(next)[y] \subseteq S
        BY <1>1, <2>2
    <2> QED
        BY <2>1, <2>2
<1> HIDE DEF good
<1>2. DOMAIN next \subseteq good
    BY <1>1, RankInduction
<1> QED
    BY <1>2 DEF good

\* A recursion over a graph without a cycle ends from each of its nodes.
LEMMA AcyclicEnds ==
    ASSUME NEW next, Acyclic(next), NEW x \in DOMAIN next
    PROVE  ~Endless(next, x)
<1> SUFFICES ASSUME NEW S, S \subseteq DOMAIN next, x \in S,
                    \A y \in S : next[y] \cap S # {}
             PROVE  FALSE
    BY DEF Endless
<1> DEFINE good == DOMAIN next \ S
<1>1. ASSUME NEW y \in DOMAIN next, next[y] \subseteq good PROVE y \in good
    BY <1>1
<1> HIDE DEF good
<1>2. DOMAIN next \subseteq good
    BY <1>1, RankInduction
<1> QED
    BY <1>2 DEF good

-----------------------------------------------------------------------------
(* The fields that a class shows.                                          *)

\* What a class shows when its parents show what all says.
Shows(m, c, all) ==
    LET ps == m.classes[c].parents
        own == DOMAIN m.classes[c].own
    IN  [f \in own \cup UNION {DOMAIN all[p] : p \in Range(ps)} |->
            IF f \in own THEN c
            ELSE all[ps[Max({i \in DOMAIN ps : f \in DOMAIN all[ps[i]]})]][f]]

\* A nonempty set of indices has a greatest one.
LEMMA MaxIndex ==
    ASSUME NEW n \in Nat, NEW T, T \subseteq 1..n, T # {}
    PROVE  Max(T) \in T /\ \A x \in T : x <= Max(T)
<1> DEFINE U == {n - x : x \in T}
<1>0. \A x \in T : x \in Nat /\ x <= n
    <2>1. ASSUME NEW x \in T PROVE x \in Nat /\ x <= n
        <3>1. x \in 1..n
            OBVIOUS
        <3> QED
            BY <3>1
    <2> QED
        BY <2>1
<1>1. U \subseteq Nat /\ U # {}
    <2>1. \A x \in T : n - x \in Nat
        BY <1>0
    <2> QED
        BY <2>1
<1>2. PICK u \in U : \A v \in U : u <= v
    BY <1>1, LeastNumber
<1>3. PICK x \in T : u = n - x
    BY <1>2
<1>4. ASSUME NEW y \in T PROVE x >= y
    <2>1. n - y \in U
        BY <1>4
    <2>2. n - x <= n - y /\ x \in Nat /\ y \in Nat
        BY <1>0, <1>2, <1>3, <1>4, <2>1
    <2> QED
        BY <2>2
<1>5. \E z \in T : \A y \in T : z >= y
    BY <1>3, <1>4
<1>6. Max(T) \in T /\ \A y \in T : Max(T) >= y
    BY <1>5 DEF Max
<1>7. ASSUME NEW y \in T, NEW z \in T, z >= y PROVE y <= z
    <2>1. y \in Nat /\ z \in Nat
        BY <1>0
    <2> QED
        BY <1>7, <2>1
<1>8. \A y \in T : y <= Max(T)
    BY <1>6, <1>7
<1> QED
    BY <1>6, <1>8

\* The parents of each class are a list.
ParentLists(m) ==
    \A c \in DOMAIN m.classes :
        m.classes[c].parents \in Seq(Range(m.classes[c].parents))

\* Only what the parents show is asked for.
LEMMA ShowsOfParents ==
    ASSUME NEW m, NEW c \in DOMAIN m.classes, ParentLists(m), NEW f, NEW g,
           \A p \in Range(m.classes[c].parents) : f[p] = g[p]
    PROVE  Shows(m, c, f) = Shows(m, c, g)
<1> DEFINE ps == m.classes[c].parents
           own == DOMAIN m.classes[c].own
           At(all, x) == {i \in DOMAIN ps : x \in DOMAIN all[ps[i]]}
<1>1. \A i \in DOMAIN ps : f[ps[i]] = g[ps[i]]
    BY DEF Range
<1>2. \A x : At(f, x) = At(g, x)
    BY <1>1
<1>3. UNION {DOMAIN f[p] : p \in Range(ps)} = UNION {DOMAIN g[p] : p \in Range(ps)}
    OBVIOUS
<1>4. ASSUME NEW x \in UNION {DOMAIN f[p] : p \in Range(ps)}
      PROVE  f[ps[Max(At(f, x))]][x] = g[ps[Max(At(g, x))]][x]
    <2>1. PICK p \in Range(ps) : x \in DOMAIN f[p]
        BY <1>4
    <2>2. At(f, x) # {}
        BY <2>1 DEF Range
    <2>3. DOMAIN ps = 1..Len(ps) /\ Len(ps) \in Nat
        BY DEF ParentLists
    <2>4. Max(At(f, x)) \in At(f, x)
        BY <2>2, <2>3, MaxIndex
    <2>5. Max(At(f, x)) \in DOMAIN ps /\ Max(At(f, x)) = Max(At(g, x))
        BY <1>2, <2>4
    <2> QED
        BY <1>1, <2>5
<1> HIDE DEF ps, own, At
<1>5. \A x \in own \cup UNION {DOMAIN f[p] : p \in Range(ps)} :
        (IF x \in own THEN c ELSE f[ps[Max(At(f, x))]][x])
         = (IF x \in own THEN c ELSE g[ps[Max(At(g, x))]][x])
    BY <1>4
<1>6. [x \in own \cup UNION {DOMAIN f[p] : p \in Range(ps)} |->
            IF x \in own THEN c ELSE f[ps[Max(At(f, x))]][x]]
      = [x \in own \cup UNION {DOMAIN g[p] : p \in Range(ps)} |->
            IF x \in own THEN c ELSE g[ps[Max(At(g, x))]][x]]
    BY <1>3, <1>5
<1> QED
    BY <1>6 DEF Shows, ps, own, At

\* The recursion of __all_fields ends.
LEMMA AllFieldsUnfolds ==
    ASSUME NEW m, Acyclic(Parents(m)), ParentLists(m)
    PROVE  AllFields(m) = [c \in DOMAIN m.classes |-> Shows(m, c, AllFields(m))]
<1>1. PICK n \in Nat, rank \in [DOMAIN Parents(m) -> Nat] : Numbers(Parents(m), rank, n)
    BY DEF Acyclic
<1>2. /\ DOMAIN Parents(m) = DOMAIN m.classes
      /\ \A c \in DOMAIN m.classes : Parents(m)[c] = Range(m.classes[c].parents)
    BY DEF Parents
<1> DEFINE D(k) == {x \in DOMAIN m.classes : rank[x] < k}
           Fits(f, k) == f = [c \in D(k) |-> Shows(m, c, f)]
           T == {k \in Nat : \E f : Fits(f, k)}
<1>3. 0 \in T
    <2>1. D(0) = {}
        BY <1>1, <1>2
    <2>2. Fits([x \in D(0) |-> {}], 0)
        BY <2>1
    <2> QED
        BY <2>2
<1>4. ASSUME NEW k \in Nat, k \in T PROVE k + 1 \in T
    <2>1. PICK f : Fits(f, k)
        BY <1>4
    <2> DEFINE g == [c \in D(k + 1) |-> Shows(m, c, f)]
    <2>2. ASSUME NEW c \in D(k + 1), NEW p \in Range(m.classes[c].parents)
          PROVE  f[p] = g[p]
        <3>1. p \in DOMAIN m.classes /\ rank[p] < rank[c] /\ rank[c] < k + 1
              /\ rank[p] \in Nat /\ rank[c] \in Nat
            BY <1>1, <1>2, <2>2 DEF Numbers
        <3>2. p \in D(k) /\ p \in D(k + 1)
            BY <3>1
        <3> HIDE DEF D
        <3>3. f[p] = Shows(m, p, f) /\ g[p] = Shows(m, p, f)
            BY <2>1, <3>2
        <3> QED
            BY <3>3
    <2> HIDE DEF D, g
    <2>3. ASSUME NEW c \in D(k + 1) PROVE Shows(m, c, f) = Shows(m, c, g)
        <3>1. c \in DOMAIN m.classes
            BY DEF D
        <3> QED
            BY <2>2, <3>1, ShowsOfParents
    <2>4. Fits(g, k + 1)
        BY <2>3 DEF g
    <2> HIDE DEF Fits
    <2> QED
        BY <2>4
<1>5. \E f : Fits(f, n + 1)
    <2> HIDE DEF T
    <2>1. Nat \subseteq T
        BY <1>3, <1>4, AllNumbers
    <2>2. n + 1 \in T
        BY <2>1
    <2> HIDE DEF Fits
    <2> QED
        BY <2>2 DEF T
<1>6. D(n + 1) = DOMAIN m.classes
    <2>1. ASSUME NEW x \in DOMAIN m.classes PROVE rank[x] < n + 1
        <3>1. rank[x] \in Nat /\ rank[x] <= n
            BY <1>1, <1>2 DEF Numbers
        <3> QED
            BY <3>1
    <2> QED
        BY <2>1
<1>7. \E f : f = [c \in DOMAIN m.classes |-> Shows(m, c, f)]
    BY <1>5, <1>6
<1>8. AllFields(m) = CHOOSE f : f = [c \in DOMAIN m.classes |-> Shows(m, c, f)]
    BY DEF AllFields, Shows
<1> QED
    BY <1>7, <1>8

\* A class shows its own fields and those of the classes above it, and shows
\* whose each of them is.
LEMMA FieldsShown ==
    ASSUME NEW m, Acyclic(Parents(m)), ParentLists(m), NEW c \in DOMAIN m.classes
    PROVE  LET line == {c} \cup ParentsRecc(m)[c]
               shown == AllFields(m)[c]
           IN  /\ DOMAIN shown = UNION {DOMAIN m.classes[a].own : a \in line}
               /\ \A f \in DOMAIN shown : shown[f] \in line
                                         /\ f \in DOMAIN m.classes[shown[f]].own
               /\ \A f \in DOMAIN m.classes[c].own : shown[f] = c
<1> DEFINE Line(x) == {x} \cup ParentsRecc(m)[x]
           Own(x) == DOMAIN m.classes[x].own
           shown == AllFields(m)
           good == {x \in DOMAIN m.classes :
                    /\ DOMAIN shown[x] = UNION {Own(a) : a \in Line(x)}
                    /\ \A f \in DOMAIN shown[x] : shown[x][f] \in Line(x)
                                                 /\ f \in Own(shown[x][f])}
<1>1. /\ DOMAIN Parents(m) = DOMAIN m.classes
      /\ \A x \in DOMAIN m.classes : Parents(m)[x] = Range(m.classes[x].parents)
    BY DEF Parents
<1>2. ASSUME NEW x \in DOMAIN m.classes
      PROVE  /\ DOMAIN shown[x] = Own(x) \cup UNION {DOMAIN shown[p] : p \in Parents(m)[x]}
             /\ \A f \in Own(x) : shown[x][f] = x
             /\ \A f \in DOMAIN shown[x] \ Own(x) :
                    \E p \in Parents(m)[x] : f \in DOMAIN shown[p] /\ shown[x][f] = shown[p][f]
    <2> DEFINE ps == m.classes[x].parents
               At(f) == {i \in DOMAIN ps : f \in DOMAIN shown[ps[i]]}
    <2>1. shown[x] = Shows(m, x, shown)
        BY AllFieldsUnfolds
    <2>2. /\ DOMAIN shown[x] = Own(x) \cup UNION {DOMAIN shown[p] : p \in Range(ps)}
          /\ \A f \in DOMAIN shown[x] :
                shown[x][f] = IF f \in Own(x) THEN x ELSE shown[ps[Max(At(f))]][f]
        <3> HIDE DEF shown
        <3> QED
            BY <2>1 DEF Shows
    <2>3. ASSUME NEW f \in DOMAIN shown[x] \ Own(x)
          PROVE  \E p \in Parents(m)[x] : f \in DOMAIN shown[p] /\ shown[x][f] = shown[p][f]
        <3>1. PICK p \in Range(ps) : f \in DOMAIN shown[p]
            BY <2>2, <2>3
        <3>2. At(f) # {}
            BY <3>1 DEF Range
        <3>3. DOMAIN ps = 1..Len(ps) /\ Len(ps) \in Nat
            BY DEF ParentLists
        <3>4. Max(At(f)) \in At(f)
            BY <3>2, <3>3, MaxIndex
        <3>5. /\ ps[Max(At(f))] \in Range(ps)
              /\ f \in DOMAIN shown[ps[Max(At(f))]]
            BY <3>4 DEF Range
        <3>6. shown[x][f] = shown[ps[Max(At(f))]][f]
            BY <2>2, <2>3
        <3> HIDE DEF ps, At, shown
        <3>7. Range(ps) = Parents(m)[x]
            BY <1>1 DEF ps
        <3> QED
            BY <3>5, <3>6, <3>7
    <2>4. Range(ps) = Parents(m)[x]
        BY <1>1
    <2> HIDE DEF ps, At, shown
    <2> QED
        BY <2>2, <2>3, <2>4
<1>3. ASSUME NEW x \in DOMAIN m.classes
      PROVE  /\ x \in Line(x)
             /\ \A p \in Parents(m)[x] : p \in DOMAIN m.classes /\ Line(p) \subseteq Line(x)
             /\ \A a \in Line(x) : a = x \/ \E p \in Parents(m)[x] : a \in Line(p)
    <2>1. /\ \A p \in Parents(m)[x] : p \in DOMAIN m.classes
                    /\ Above(Parents(m))[p] \subseteq Above(Parents(m))[x]
          /\ Parents(m)[x] \subseteq Above(Parents(m))[x]
          /\ \A a \in Above(Parents(m))[x] :
                a \in Parents(m)[x] \/ \E p \in Parents(m)[x] : a \in Above(Parents(m))[p]
        BY <1>1, AboveFacts
    <2> QED
        BY <2>1 DEF ParentsRecc
<1> HIDE DEF Line, shown, Own
<1>4. ASSUME NEW x \in DOMAIN m.classes, Parents(m)[x] \subseteq good PROVE x \in good
    <2>1. ASSUME NEW f \in DOMAIN shown[x]
          PROVE  shown[x][f] \in Line(x) /\ f \in Own(shown[x][f])
        <3>1. CASE f \in Own(x)
            BY <1>2, <1>3, <3>1
        <3>2. CASE f \notin Own(x)
            <4>1. PICK p \in Parents(m)[x] :
                    f \in DOMAIN shown[p] /\ shown[x][f] = shown[p][f]
                BY <1>2, <3>2
            <4> QED
                BY <1>3, <1>4, <4>1
        <3> QED
            BY <3>1, <3>2
    <2>2. ASSUME NEW f \in DOMAIN shown[x] PROVE \E a \in Line(x) : f \in Own(a)
        BY <2>1
    <2>3. ASSUME NEW a \in Line(x), NEW f \in Own(a) PROVE f \in DOMAIN shown[x]
        <3>1. CASE a = x
            BY <1>2, <2>3, <3>1
        <3>2. ASSUME NEW p \in Parents(m)[x], a \in Line(p) PROVE f \in DOMAIN shown[x]
            <4>1. f \in DOMAIN shown[p]
                BY <1>4, <2>3, <3>2
            <4> QED
                BY <1>2, <3>2, <4>1
        <3> QED
            BY <1>3, <3>1, <3>2
    <2>4. DOMAIN shown[x] = UNION {Own(a) : a \in Line(x)}
        BY <2>2, <2>3
    <2> QED
        BY <2>1, <2>4
<1>5. DOMAIN m.classes \subseteq good
    <2> HIDE DEF good
    <2> QED
        BY <1>1, <1>4, RankInduction
<1>6. c \in good /\ \A f \in Own(c) : shown[c][f] = c
    BY <1>2, <1>5
<1> QED
    BY <1>6 DEF Line, Own, shown

-----------------------------------------------------------------------------
(* Lists of all elements of a set, and graphs that grow.                   *)

\* A list that has each element of a set once.
Lists(s, S) ==
    /\ s \in Seq(S) /\ \A x \in S : \E i \in 1..Len(s) : s[i] = x
    /\ \A i, j \in 1..Len(s) : s[i] = s[j] => i = j

\* An injection of the numbers of the elements is a list of them.
LEMMA InjectionLists ==
    ASSUME NEW S, IsFiniteSet(S), NEW s \in [1..Cardinality(S) -> S],
           \A i, j \in 1..Cardinality(S) : s[i] = s[j] => i = j
    PROVE  Lists(s, S) /\ Len(s) = Cardinality(S)
<1>1. Cardinality(S) \in Nat
    BY FS_CardinalityType
<1>2. s \in Injection(1..Cardinality(S), S)
    BY DEF Injection, IsInjective
<1>3. Cardinality(1..Cardinality(S)) = Cardinality(S)
    BY <1>1, FS_Interval
<1>4. s \in Surjection(1..Cardinality(S), S)
    BY <1>2, <1>3, FS_Injection
<1>5. s \in Seq(S) /\ Len(s) = Cardinality(S)
    BY <1>1
<1> QED
    BY <1>4, <1>5 DEF Lists, Surjection

\* SetToSeq lists a finite set.
LEMMA SetToSeqLists ==
    ASSUME NEW S, IsFiniteSet(S)
    PROVE  Lists(SetToSeq(S), S) /\ Len(SetToSeq(S)) = Cardinality(S)
<1>1. PICK f : f \in Bijection(1..Cardinality(S), S)
    BY FS_CardinalityType DEF ExistsBijection
<1>2. f \in [1..Cardinality(S) -> S] /\ IsInjective(f)
    BY <1>1 DEF Bijection, Injection
<1>3. SetToSeq(S) \in [1..Cardinality(S) -> S] /\ IsInjective(SetToSeq(S))
    BY <1>2 DEF SetToSeq
<1>4. \A i, j \in 1..Cardinality(S) : SetToSeq(S)[i] = SetToSeq(S)[j] => i = j
    BY <1>3 DEF IsInjective
<1> QED
    BY <1>3, <1>4, InjectionLists

\* A set that has a list is finite.
LEMMA ListedFinite ==
    ASSUME NEW S, NEW s, Lists(s, S)
    PROVE  IsFiniteSet(S) /\ Cardinality(S) = Len(s) /\ Range(s) = S
<1>1. s \in [1..Len(s) -> S] /\ Len(s) \in Nat
    BY DEF Lists
<1>2. s \in Bijection(1..Len(s), S)
    BY <1>1 DEF Lists, Bijection, Injection, Surjection, IsInjective
<1>3. IsFiniteSet(1..Len(s)) /\ Cardinality(1..Len(s)) = Len(s)
    <2>1. ASSUME NEW n \in Nat PROVE IsFiniteSet(1..n) /\ Cardinality(1..n) = n
        BY FS_Interval
    <2> QED
        BY <1>1, <2>1
<1>4. IsFiniteSet(S) /\ Cardinality(S) = Len(s)
    BY <1>2, <1>3, FS_Bijection DEF ExistsBijection
<1>5. Range(s) = S
    BY <1>1 DEF Lists, Range
<1> QED
    BY <1>4, <1>5

\* The lists of two sets without a common element make one.
LEMMA ListsConcatenated ==
    ASSUME NEW S, NEW T, NEW s, NEW t, Lists(s, S), Lists(t, T), S \cap T = {}
    PROVE  Lists(s \o t, S \cup T)
<1>1. s \in Seq(S) /\ t \in Seq(T) /\ Len(s) \in Nat /\ Len(t) \in Nat
    BY DEF Lists
<1>2. /\ s \o t \in Seq(S \cup T) /\ Len(s \o t) = Len(s) + Len(t)
      /\ \A i \in 1..Len(s) : (s \o t)[i] = s[i] /\ s[i] \in S
      /\ \A i \in 1..(Len(s) + Len(t)) : i > Len(s) =>
            (s \o t)[i] = t[i - Len(s)] /\ i - Len(s) \in 1..Len(t) /\ t[i - Len(s)] \in T
    BY <1>1
<1>3. ASSUME NEW x \in S \cup T PROVE \E i \in 1..Len(s \o t) : (s \o t)[i] = x
    <2>1. CASE x \in S
        <3>1. PICK i \in 1..Len(s) : s[i] = x
            BY <2>1 DEF Lists
        <3>2. i \in 1..Len(s \o t) /\ (s \o t)[i] = x
            BY <1>1, <1>2, <3>1
        <3> QED
            BY <3>2
    <2>2. CASE x \in T
        <3>1. PICK i \in 1..Len(t) : t[i] = x
            BY <2>2 DEF Lists
        <3>2. /\ i + Len(s) \in 1..(Len(s) + Len(t)) /\ i + Len(s) > Len(s)
              /\ (i + Len(s)) - Len(s) = i
            BY <1>1, <3>1
        <3>3. (s \o t)[i + Len(s)] = x
            BY <1>2, <3>1, <3>2
        <3> QED
            BY <1>2, <3>2, <3>3
    <2> QED
        BY <2>1, <2>2
<1>4. ASSUME NEW i \in 1..Len(s \o t), NEW j \in 1..Len(s \o t), (s \o t)[i] = (s \o t)[j]
      PROVE  i = j
    <2>1. i \in 1..(Len(s) + Len(t)) /\ j \in 1..(Len(s) + Len(t))
          /\ i \in Nat /\ j \in Nat
        BY <1>1, <1>2
    <2>2. CASE i <= Len(s) /\ j <= Len(s)
        <3>1. i \in 1..Len(s) /\ j \in 1..Len(s)
            BY <1>1, <2>1, <2>2
        <3> QED
            BY <1>2, <1>4, <3>1 DEF Lists
    <2>3. CASE i > Len(s) /\ j > Len(s)
        <3>1. t[i - Len(s)] = t[j - Len(s)] /\ i - Len(s) \in 1..Len(t)
              /\ j - Len(s) \in 1..Len(t)
            BY <1>2, <1>4, <2>1, <2>3
        <3>2. i - Len(s) = j - Len(s)
            BY <3>1 DEF Lists
        <3> QED
            BY <1>1, <2>1, <3>2
    <2>4. CASE i <= Len(s) /\ j > Len(s)
        <3>1. (s \o t)[i] \in S /\ (s \o t)[j] \in T
            <4>1. i \in 1..Len(s)
                BY <1>1, <2>1, <2>4
            <4> QED
                BY <1>2, <2>1, <2>4, <4>1
        <3> QED
            BY <1>4, <3>1
    <2>5. CASE i > Len(s) /\ j <= Len(s)
        <3>1. (s \o t)[i] \in T /\ (s \o t)[j] \in S
            <4>1. j \in 1..Len(s)
                BY <1>1, <2>1, <2>5
            <4> QED
                BY <1>2, <2>1, <2>5, <4>1
        <3> QED
            BY <1>4, <3>1
    <2> QED
        BY <1>1, <2>1, <2>2, <2>3, <2>4, <2>5
<1> QED
    BY <1>2, <1>3, <1>4 DEF Lists

\* The list of a set and a new element after it.
LEMMA ListsAppended ==
    ASSUME NEW S, NEW s, Lists(s, S), NEW x, x \notin S
    PROVE  Lists(Append(s, x), S \cup {x})
<1>1. <<x>> \in Seq({x}) /\ Len(<<x>>) = 1 /\ <<x>>[1] = x
    OBVIOUS
<1>2. Lists(<<x>>, {x})
    BY <1>1 DEF Lists
<1>3. Append(s, x) = s \o <<x>>
    BY DEF Lists
<1> QED
    BY <1>2, <1>3, ListsConcatenated

\* A dictionary of objects that were made: one of each uid, and all of them when
\* no uid was made twice.
Dictionary(names, objects) ==
    /\ Lists(names, Range(names)) /\ Range(names) \subseteq objects
    /\ \A x, y \in Range(names) : Uid(x) = Uid(y) => x = y
    /\ (\A x \in objects : Uid(x) = x) => Range(names) = objects

\* A new object takes its place in a dictionary.
LEMMA PlaceInDictionary ==
    ASSUME NEW names, NEW objects, Dictionary(names, objects), NEW c, c \notin objects
    PROVE  /\ Dictionary(Place(names, c), objects \cup {c})
           /\ Range(Place(names, c)) \subseteq Range(names) \cup {c}
           /\ c \in Range(Place(names, c))
<1> DEFINE n == Len(names)
           all == Range(names)
<1>1. n \in Nat /\ names \in [1..n -> all] /\ DOMAIN names = 1..n
    BY DEF Dictionary, Lists
<1>2. c \notin all /\ \A i \in 1..n : names[i] \in all
    BY <1>1 DEF Dictionary
<1>3. CASE \E i \in DOMAIN names : Uid(names[i]) = Uid(c)
    <2>1. PICK k \in 1..n : Uid(names[k]) = Uid(c)
        BY <1>1, <1>3
    <2>2. ASSUME NEW i \in 1..n, Uid(names[i]) = Uid(c) PROVE i = k
        <3>1. names[i] = names[k]
            BY <1>2, <2>1, <2>2 DEF Dictionary
        <3> QED
            BY <3>1 DEF Dictionary, Lists
    <2> DEFINE put == [i \in 1..n |-> IF Uid(names[i]) = Uid(c) THEN c ELSE names[i]]
    <2>3. Place(names, c) = put
        BY <1>1, <1>3 DEF Place
    <2>4. put[k] = c /\ \A i \in 1..n : i # k => put[i] = names[i]
        BY <2>1, <2>2
    <2> HIDE DEF n
    <2>5. /\ DOMAIN put = 1..n /\ put \in Seq(Range(put)) /\ Len(put) = n
          /\ \A x : x \in Range(put) <=> \E i \in 1..n : put[i] = x
        <3>1. DOMAIN put = 1..n /\ put = [i \in 1..n |-> put[i]]
            OBVIOUS
        <3> HIDE DEF put
        <3>2. \A x : x \in Range(put) <=> \E i \in 1..n : put[i] = x
            BY <3>1 DEF Range
        <3>3. put \in [1..n -> Range(put)]
            BY <3>1, <3>2
        <3>4. put \in Seq(Range(put)) /\ Len(put) = n
            BY <1>1, <3>3
        <3> QED
            BY <3>1, <3>2, <3>4
    <2> HIDE DEF put
    <2>6. ASSUME NEW i \in 1..n, NEW j \in 1..n, Uid(put[i]) = Uid(put[j]) PROVE i = j
        <3>1. CASE i = k \/ j = k
            BY <2>1, <2>2, <2>4, <2>6, <3>1
        <3>2. CASE i # k /\ j # k
            <4>1. names[i] = names[j]
                BY <1>2, <2>4, <2>6, <3>2 DEF Dictionary
            <4> QED
                BY <4>1 DEF Dictionary, Lists, n
        <3> QED
            BY <3>1, <3>2
    <2>7. Lists(put, Range(put))
        <3>1. \A x \in Range(put) : \E i \in 1..n : put[i] = x
            BY <2>5
        <3>2. \A i, j \in 1..n : put[i] = put[j] => i = j
            BY <2>6
        <3> QED
            BY <2>5, <3>1, <3>2 DEF Lists
    <2>8. Range(put) \subseteq all \cup {c} /\ c \in Range(put)
        BY <1>2, <2>4, <2>5
    <2>9. \A x, y \in Range(put) : Uid(x) = Uid(y) => x = y
        BY <2>5, <2>6
    <2>10. ASSUME \A x \in objects \cup {c} : Uid(x) = x PROVE FALSE
        <3>1. names[k] \in objects /\ names[k] # c
            BY <1>2 DEF Dictionary
        <3> QED
            BY <2>1, <2>10, <3>1
    <2> QED
        BY <2>3, <2>7, <2>8, <2>9, <2>10 DEF Dictionary
<1>4. CASE ~ \E i \in DOMAIN names : Uid(names[i]) = Uid(c)
    <2>1. Place(names, c) = Append(names, c)
        BY <1>4 DEF Place
    <2>2. Lists(Append(names, c), all \cup {c})
        BY <1>2, ListsAppended DEF Dictionary
    <2>3. Range(Append(names, c)) = all \cup {c}
        BY <2>2, ListedFinite
    <2>4. \A x \in all : Uid(x) # Uid(c)
        BY <1>4 DEF Range
    <2>5. \A x, y \in all \cup {c} : Uid(x) = Uid(y) => x = y
        BY <2>4 DEF Dictionary
    <2>6. (\A x \in objects \cup {c} : Uid(x) = x) => all \cup {c} = objects \cup {c}
        BY DEF Dictionary
    <2>7. all \cup {c} \subseteq objects \cup {c}
        BY DEF Dictionary
    <2> DEFINE new == Append(names, c)
               both == all \cup {c}
    <2>8. Dictionary(new, objects \cup {c})
        <3>1. /\ Lists(new, both) /\ Range(new) = both
              /\ \A x, y \in both : Uid(x) = Uid(y) => x = y
              /\ (\A x \in objects \cup {c} : Uid(x) = x) => both = objects \cup {c}
              /\ both \subseteq objects \cup {c}
            BY <2>2, <2>3, <2>5, <2>6, <2>7
        <3> HIDE DEF new, both, all
        <3> QED
            BY <3>1 DEF Dictionary
    <2> QED
        BY <2>1, <2>3, <2>8
<1> QED
    BY <1>3, <1>4

\* New objects that are called by their uids come last in a dictionary of such.
LEMMA MoreInDictionary ==
    ASSUME NEW names, NEW objects, Dictionary(names, objects), NEW new, IsFiniteSet(new),
           \A x \in objects \cup new : Uid(x) = x
    PROVE  Dictionary(names \o SetToSeq(new \ objects), objects \cup new)
<1>1. IsFiniteSet(new \ objects)
    BY FS_Difference
<1>2. Lists(SetToSeq(new \ objects), new \ objects)
    BY <1>1, SetToSeqLists
<1>3. Lists(names, objects) /\ objects \cap (new \ objects) = {}
    BY DEF Dictionary
<1>4. objects \cup (new \ objects) = objects \cup new
    OBVIOUS
<1>5. Lists(names \o SetToSeq(new \ objects), objects \cup new)
    BY <1>2, <1>3, <1>4, ListsConcatenated
<1>6. Range(names \o SetToSeq(new \ objects)) = objects \cup new
    BY <1>5, ListedFinite
<1> QED
    BY <1>5, <1>6 DEF Dictionary

\* The orders of a dictionary of classes list its keys.
LEMMA OrdersList ==
    ASSUME NEW names, NEW S, Lists(names, S), NEW order \in Orders(names)
    PROVE  Lists(order, S)
<1>1. IsFiniteSet(S) /\ Cardinality(S) = Len(names) /\ Range(names) = S
    BY ListedFinite
<1>2. CASE order \in SetToSeqs(Range(names))
    <2>1. /\ order \in [1..Cardinality(S) -> S]
          /\ \A i, j \in 1..Cardinality(S) : i # j => order[i] # order[j]
        BY <1>1, <1>2 DEF SetToSeqs
    <2> QED
        BY <1>1, <2>1, InjectionLists
<1>3. CASE order = names
    BY <1>3
<1>4. CASE order = Reverse(names)
    <2> DEFINE s == names
               n == Len(s)
    <2>1. n \in Nat /\ s \in [1..n -> S]
        BY DEF Lists
    <2>2. order = [i \in 1..n |-> s[(n - i) + 1]]
        BY <1>4 DEF Reverse
    <2>3. \A i \in 1..n : (n - i) + 1 \in 1..n
        BY <2>1
    <2>4. order \in [1..n -> S]
        BY <2>1, <2>2, <2>3
    <2>5. ASSUME NEW i \in 1..n, NEW j \in 1..n, order[i] = order[j] PROVE i = j
        <3>1. s[(n - i) + 1] = s[(n - j) + 1]
            BY <2>2, <2>5
        <3>2. (n - i) + 1 = (n - j) + 1
            BY <2>3, <3>1 DEF Lists
        <3> QED
            BY <2>1, <3>2
    <2>6. n = Cardinality(S)
        BY <1>1
    <2> HIDE DEF n
    <2> QED
        BY <1>1, <2>4, <2>5, <2>6, InjectionLists
<1> QED
    BY <1>2, <1>3, <1>4 DEF Orders

\* A part of a graph, closed under its own edges, has no cycle either.
LEMMA AcyclicPart ==
    ASSUME NEW next, Acyclic(next), NEW part, DOMAIN part \subseteq DOMAIN next,
           \A x \in DOMAIN part : part[x] \subseteq next[x] /\ part[x] \subseteq DOMAIN part
    PROVE  Acyclic(part)
<1>1. PICK n \in Nat, rank \in [DOMAIN next -> Nat] : Numbers(next, rank, n)
    BY DEF Acyclic
<1> DEFINE less == [x \in DOMAIN part |-> rank[x]]
<1>2. less \in [DOMAIN part -> Nat]
    BY <1>1
<1>3. Numbers(part, less, n)
    BY <1>1 DEF Numbers
<1> QED
    BY <1>2, <1>3 DEF Acyclic

\* New nodes above which only old ones are make no cycle.
LEMMA AcyclicGrows ==
    ASSUME NEW next, Acyclic(next), NEW more, DOMAIN next \subseteq DOMAIN more,
           \A x \in DOMAIN more \ DOMAIN next : more[x] \subseteq DOMAIN next,
           \A y \in DOMAIN next : more[y] = next[y]
    PROVE  Acyclic(more)
<1>1. PICK n \in Nat, rank \in [DOMAIN next -> Nat] : Numbers(next, rank, n)
    BY DEF Acyclic
<1> DEFINE new == [y \in DOMAIN more |-> IF y \in DOMAIN next THEN rank[y] ELSE n + 1]
<1>2. new \in [DOMAIN more -> Nat]
    BY <1>1
<1>3. ASSUME NEW y \in DOMAIN more
      PROVE  new[y] <= n + 1 /\ \A z \in more[y] : z \in DOMAIN more /\ new[z] < new[y]
    <2>1. \A z \in DOMAIN next : rank[z] \in Nat /\ rank[z] <= n /\ new[z] = rank[z]
        BY <1>1 DEF Numbers
    <2>2. CASE y \notin DOMAIN next
        <3>1. new[y] = n + 1
            BY <2>2
        <3>2. \A z \in more[y] : z \in DOMAIN next
            BY <2>2
        <3> HIDE DEF new
        <3> QED
            BY <2>1, <3>1, <3>2
    <2>3. CASE y \in DOMAIN next
        <3>1. more[y] = next[y]
            BY <2>3
        <3>2. \A z \in more[y] : z \in DOMAIN next /\ rank[z] < rank[y]
            BY <1>1, <2>3, <3>1 DEF Numbers
        <3> HIDE DEF new
        <3> QED
            BY <2>1, <2>3, <3>2
    <2> QED
        BY <2>2, <2>3
<1> HIDE DEF new
<1>4. Numbers(more, new, n + 1)
    BY <1>3 DEF Numbers
<1> QED
    BY <1>2, <1>4 DEF Acyclic

-----------------------------------------------------------------------------
(* Well made models.                                                       *)

Uids(m) == DOMAIN m.classes
FieldMade(m, field) ==
    /\ IsField(field) /\ field.refs \subseteq Uids(m)
    /\ field.group \in Groups(m) \cup {None}
ClassMade(m, class) ==
    /\ IsClass(class) /\ class.parents \in Seq(Uids(m))
    /\ class.group \in Groups(m) \cup {None}
    /\ class.own = [f \in DOMAIN class.own |-> class.own[f]]
    /\ \A f \in DOMAIN class.own : FieldMade(m, class.own[f])
IsModel(m) == m = [names |-> m.names, groups |-> m.groups, classes |-> m.classes,
                   require |-> m.require, comps |-> m.comps]
\* The dictionaries hold classes and groups that were made, and what these and
\* their fields name was made.
Complete(m) ==
    /\ IsModel(m)
    /\ Dictionary(m.names, Uids(m)) /\ Dictionary(m.groups, Groups(m))
    /\ IsFiniteSet(Uids(m))
    /\ \A c \in Uids(m) : ClassMade(m, m.classes[c])
    /\ IsFiniteSet(Groups(m)) /\ None \notin Groups(m) /\ DOMAIN m.comps = Groups(m)
    /\ m.require = [g \in DOMAIN m.require |-> m.require[g]]
    /\ \A g \in Groups(m) : m.require[g] \subseteq Groups(m)
\* No class is above itself, and no group requires itself.
NoLoop(m) == Acyclic(Parents(m)) /\ Acyclic(m.require)

\* What PutFields makes of a model.
FieldsPut(m, c, fields, p) ==
    /\ IsModel(p) /\ p.names = m.names /\ p.groups = m.groups
    /\ p.require = m.require /\ Uids(p) = Uids(m)
    /\ \A x \in Uids(m) \ {c} : p.classes[x] = m.classes[x]
    /\ p.classes[c] = [m.classes[c] EXCEPT !.own = Updated(m.classes[c].own, fields)]
    /\ DOMAIN p.comps = DOMAIN m.comps
    /\ \A g \in DOMAIN m.comps : p.comps[g] = m.comps[g] \cup
            {<<c, f>> : f \in {f \in DOMAIN fields : fields[f].group = g}}
LEMMA PutFieldsFacts ==
    ASSUME NEW m, IsModel(m), NEW c \in Uids(m), NEW fields
    PROVE  FieldsPut(m, c, fields, PutFields(m, c, fields))
<1> SUFFICES ASSUME NEW p, p = PutFields(m, c, fields) PROVE FieldsPut(m, c, fields, p)
    OBVIOUS
<1>1. p = [names |-> m.names, groups |-> m.groups,
           classes |-> [m.classes EXCEPT ![c].own = Updated(@, fields)],
           require |-> m.require,
           comps |-> [g \in DOMAIN m.comps |-> m.comps[g] \cup
                {<<c, f>> : f \in {f \in DOMAIN fields : fields[f].group = g}}]]
    BY DEF PutFields, IsModel
<1>2. IsModel(p) /\ p.names = m.names /\ p.groups = m.groups /\ p.require = m.require
    BY <1>1 DEF IsModel
<1>3. /\ p.classes = [m.classes EXCEPT ![c].own = Updated(@, fields)]
      /\ p.comps = [g \in DOMAIN m.comps |-> m.comps[g] \cup
                {<<c, f>> : f \in {f \in DOMAIN fields : fields[f].group = g}}]
    BY <1>1
<1> QED
    BY <1>2, <1>3 DEF FieldsPut, Uids

\* The parents of no class change.
LEMMA SameParents ==
    ASSUME NEW m, NEW p, Uids(p) = Uids(m),
           \A x \in Uids(m) : p.classes[x].parents = m.classes[x].parents
    PROVE  Parents(p) = Parents(m)
    BY DEF Parents, Uids

\* A class that is given another own.
LEMMA OwnPut ==
    ASSUME NEW class, IsClass(class), NEW own, NEW new, new = [class EXCEPT !.own = own]
    PROVE  /\ IsClass(new) /\ new.parents = class.parents /\ new.own = own
           /\ new.group = class.group /\ new.pure = class.pure
           /\ new.abstract = class.abstract
<1>1. new = [parents |-> class.parents, abstract |-> class.abstract,
             pure |-> class.pure, group |-> class.group, own |-> own]
    BY DEF IsClass
<1> QED
    BY <1>1 DEF IsClass

\* Fields that name what is there can be put into a class.
LEMMA PutFieldsComplete ==
    ASSUME NEW m, Complete(m), NEW c \in Uids(m), NEW fields,
           \A f \in DOMAIN fields : FieldMade(m, fields[f])
    PROVE  LET p == PutFields(m, c, fields)
           IN  Complete(p) /\ (NoLoop(m) => NoLoop(p))
<1> SUFFICES ASSUME NEW p, p = PutFields(m, c, fields)
             PROVE  Complete(p) /\ (NoLoop(m) => NoLoop(p))
    OBVIOUS
<1>1. IsModel(m) /\ IsClass(m.classes[c])
    BY DEF Complete, ClassMade
<1>2. FieldsPut(m, c, fields, p)
    BY <1>1, PutFieldsFacts
<1> USE DEF FieldsPut
<1>3. /\ IsClass(p.classes[c]) /\ p.classes[c].parents = m.classes[c].parents
      /\ p.classes[c].group = m.classes[c].group
      /\ p.classes[c].own = Updated(m.classes[c].own, fields)
    BY <1>1, <1>2, OwnPut
<1>4. \A field : FieldMade(m, field) <=> FieldMade(p, field)
    BY <1>2 DEF FieldMade, Groups
<1>5. /\ \A f \in DOMAIN p.classes[c].own : FieldMade(p, p.classes[c].own[f])
      /\ p.classes[c].own = [f \in DOMAIN p.classes[c].own |-> p.classes[c].own[f]]
    BY <1>3, <1>4 DEF Updated, Complete, ClassMade
<1>6. ClassMade(p, p.classes[c])
    BY <1>2, <1>3, <1>5 DEF ClassMade, Complete, Groups
<1>7. \A x \in Uids(p) : ClassMade(p, p.classes[x])
    <2>1. ASSUME NEW x \in Uids(p), x # c PROVE ClassMade(p, p.classes[x])
        <3>1. p.classes[x] = m.classes[x] /\ ClassMade(m, m.classes[x])
            BY <1>2, <2>1 DEF Complete
        <3>2. ClassMade(p, m.classes[x])
            BY <1>2, <1>4, <3>1 DEF ClassMade, Groups
        <3> QED
            BY <3>1, <3>2
    <2> QED
        BY <1>6, <2>1
<1>8. Parents(p) = Parents(m)
    BY <1>2, <1>3, SameParents
<1> QED
    BY <1>2, <1>7, <1>8 DEF Complete, NoLoop, Groups

\* What PutClass makes of a model.
ClassPut(m, c, class, p) ==
    /\ IsModel(p) /\ p.names = Place(m.names, c) /\ p.groups = m.groups
    /\ p.require = m.require /\ Uids(p) = Uids(m) \cup {c}
    /\ \A x \in Uids(m) : p.classes[x] = m.classes[x]
    /\ IsClass(p.classes[c]) /\ p.classes[c].parents = class.parents
    /\ p.classes[c].abstract = class.abstract /\ p.classes[c].pure = class.pure
    /\ p.classes[c].group = class.group
    /\ DOMAIN p.classes[c].own = IF class.abstract THEN {} ELSE {Classname}
    /\ p.classes[c].own = [f \in DOMAIN p.classes[c].own |-> p.classes[c].own[f]]
    /\ \A f \in DOMAIN p.classes[c].own : p.classes[c].own[f] = IdField(class.group)
    /\ DOMAIN p.comps = DOMAIN m.comps
    /\ \A g \in DOMAIN m.comps : p.comps[g] = m.comps[g] \cup
            (IF g # class.group THEN {}
             ELSE IF class.abstract THEN {<<c>>} ELSE {<<c>>, <<c, Classname>>})
LEMMA PutClassFacts ==
    ASSUME NEW m, IsModel(m), NEW c, c \notin Uids(m), NEW class, IsClass(class),
           class.group \in DOMAIN m.comps \cup {None}, None \notin DOMAIN m.comps
    PROVE  ClassPut(m, c, class, PutClass(m, c, class))
<1> SUFFICES ASSUME NEW p, p = PutClass(m, c, class) PROVE ClassPut(m, c, class, p)
    OBVIOUS
<1> DEFINE bare == [class EXCEPT !.own = << >>]
           names1 == Place(m.names, c)
           classes1 == Updated(m.classes, Entry(c, bare))
           m1 == [m EXCEPT !.names = names1, !.classes = classes1]
           m2 == AddComponent(m1, class.group, <<c>>)
<1> HIDE DEF bare, names1, classes1
<1>1. /\ IsModel(m1) /\ m1.names = names1 /\ m1.groups = m.groups
      /\ m1.require = m.require /\ m1.comps = m.comps /\ m1.classes = classes1
    <2>1. ASSUME NEW q, q = [m EXCEPT !.names = names1, !.classes = classes1]
          PROVE  q = [names |-> names1, groups |-> m.groups, classes |-> classes1,
                      require |-> m.require, comps |-> m.comps]
        BY <2>1 DEF IsModel
    <2>2. m1 = [names |-> names1, groups |-> m.groups, classes |-> classes1,
                require |-> m.require, comps |-> m.comps]
        BY <2>1
    <2> HIDE DEF m1
    <2> QED
        BY <2>2 DEF IsModel
<1>2. /\ Uids(m1) = Uids(m) \cup {c}
      /\ \A x \in Uids(m) : m1.classes[x] = m.classes[x]
      /\ m1.classes[c] = bare
    BY <1>1 DEF Uids, Updated, Entry, classes1
<1> HIDE DEF m1
<1>3. /\ IsModel(m2) /\ m2.names = m1.names /\ m2.groups = m1.groups
      /\ m2.require = m1.require
      /\ m2.classes = m1.classes /\ DOMAIN m2.comps = DOMAIN m.comps
      /\ \A g \in DOMAIN m.comps :
            m2.comps[g] = m.comps[g] \cup (IF g = class.group THEN {<<c>>} ELSE {})
    BY <1>1 DEF IsModel, AddComponent
<1> HIDE DEF m2
<1>4. p = PutFields(m2, c, Common(class))
    BY DEF PutClass, m1, m2, bare, names1, classes1
<1>5. /\ IsClass(m2.classes[c]) /\ m2.classes[c].own = << >>
      /\ m2.classes[c].parents = class.parents /\ m2.classes[c].group = class.group
      /\ m2.classes[c].abstract = class.abstract /\ m2.classes[c].pure = class.pure
    <2>1. bare = [class EXCEPT !.own = << >>]
        BY DEF bare
    <2>2. /\ IsClass(bare) /\ bare.own = << >>
          /\ bare.parents = class.parents /\ bare.group = class.group
          /\ bare.abstract = class.abstract /\ bare.pure = class.pure
        BY <2>1, OwnPut
    <2> QED
        BY <1>2, <1>3, <2>2
<1>6. c \in Uids(m2) /\ Uids(m2) = Uids(m) \cup {c}
    BY <1>2, <1>3 DEF Uids
<1>7. FieldsPut(m2, c, Common(class), p)
    BY <1>3, <1>4, <1>6, PutFieldsFacts
<1>8. /\ DOMAIN Common(class) = IF class.abstract THEN {} ELSE {Classname}
      /\ \A f \in DOMAIN Common(class) : Common(class)[f] = IdField(class.group)
                                         /\ Common(class)[f].group = class.group
    BY DEF Common, Entry, IdField, IsClass
<1>9. /\ IsClass(p.classes[c]) /\ p.classes[c].parents = class.parents
      /\ p.classes[c].abstract = class.abstract /\ p.classes[c].pure = class.pure
      /\ p.classes[c].group = class.group
      /\ p.classes[c].own = Updated(<< >>, Common(class))
    <2>1. p.classes[c] = [m2.classes[c] EXCEPT !.own = Updated(<< >>, Common(class))]
        BY <1>5, <1>7 DEF FieldsPut
    <2> QED
        BY <1>5, <2>1, OwnPut
<1>10. /\ DOMAIN p.classes[c].own = DOMAIN Common(class)
       /\ p.classes[c].own = [f \in DOMAIN p.classes[c].own |-> p.classes[c].own[f]]
       /\ \A f \in DOMAIN Common(class) : p.classes[c].own[f] = Common(class)[f]
    BY <1>9 DEF Updated
<1>11. ASSUME NEW g \in DOMAIN m.comps
       PROVE  p.comps[g] = m.comps[g] \cup
                (IF g # class.group THEN {}
                 ELSE IF class.abstract THEN {<<c>>} ELSE {<<c>>, <<c, Classname>>})
    <2>1. p.comps[g] = m.comps[g] \cup (IF g = class.group THEN {<<c>>} ELSE {}) \cup
            {<<c, f>> : f \in {f \in DOMAIN Common(class) : class.group = g}}
        <3>1. p.comps[g] = m2.comps[g] \cup
                {<<c, f>> : f \in {f \in DOMAIN Common(class) : Common(class)[f].group = g}}
            BY <1>3, <1>7 DEF FieldsPut
        <3>2. {f \in DOMAIN Common(class) : Common(class)[f].group = g}
                = {f \in DOMAIN Common(class) : class.group = g}
            BY <1>8
        <3> QED
            BY <1>3, <3>1, <3>2
    <2>2. CASE g # class.group
        BY <2>1, <2>2
    <2>3. CASE g = class.group /\ class.abstract
        BY <1>8, <2>1, <2>3
    <2>4. CASE g = class.group /\ ~class.abstract
        BY <1>8, <2>1, <2>4
    <2> QED
        BY <2>2, <2>3, <2>4
<1> QED
    BY <1>1, <1>2, <1>3, <1>6, <1>7, <1>8, <1>9, <1>10, <1>11 DEF ClassPut, FieldsPut, names1

\* The field that identifies the class of an object names nothing.
LEMMA IdFieldMade ==
    ASSUME NEW m, NEW g \in Groups(m) \cup {None}
    PROVE  FieldMade(m, IdField(g))
    BY DEF FieldMade, IdField, IsField

\* What was made for a model is for one that has more.
LEMMA MoreMade ==
    ASSUME NEW m, NEW p, Uids(m) \subseteq Uids(p), Groups(m) \subseteq Groups(p)
    PROVE  /\ \A field : FieldMade(m, field) => FieldMade(p, field)
           /\ \A class : ClassMade(m, class) => ClassMade(p, class)
<1>1. \A field : FieldMade(m, field) => FieldMade(p, field)
    BY DEF FieldMade
<1>2. ASSUME NEW class, ClassMade(m, class) PROVE ClassMade(p, class)
    <2>1. class.parents \in Seq(Uids(p))
        BY <1>2 DEF ClassMade
    <2> QED
        BY <1>1, <1>2, <2>1 DEF ClassMade
<1> QED
    BY <1>1, <1>2

\* A new class whose parents are there can be put into a model.
LEMMA PutClassComplete ==
    ASSUME NEW m, Complete(m), NEW c, c \notin Uids(m), NEW class, IsClass(class),
           Range(class.parents) \subseteq Uids(m), class.group \in Groups(m) \cup {None}
    PROVE  LET p == PutClass(m, c, class)
           IN  Complete(p) /\ (NoLoop(m) => NoLoop(p))
<1> SUFFICES ASSUME NEW p, p = PutClass(m, c, class)
             PROVE  Complete(p) /\ (NoLoop(m) => NoLoop(p))
    OBVIOUS
<1>1. IsModel(m) /\ DOMAIN m.comps = Groups(m) /\ None \notin Groups(m)
    BY DEF Complete
<1>2. ClassPut(m, c, class, p)
    BY <1>1, PutClassFacts
<1>3. /\ IsModel(p) /\ p.names = Place(m.names, c) /\ p.groups = m.groups
      /\ p.require = m.require /\ Uids(p) = Uids(m) \cup {c} /\ Groups(p) = Groups(m)
      /\ DOMAIN p.comps = DOMAIN m.comps
    BY <1>2 DEF ClassPut, Groups
<1>4. /\ \A x \in Uids(m) : p.classes[x] = m.classes[x]
      /\ p.classes[c].parents = class.parents
    BY <1>2 DEF ClassPut
<1>5. /\ Dictionary(p.names, Uids(p)) /\ Dictionary(p.groups, Groups(p))
      /\ IsFiniteSet(Uids(p))
    BY <1>3, PlaceInDictionary, FS_AddElement DEF Complete
<1>6. class.parents \in Seq(Uids(m))
    BY DEF IsClass
<1>7. \A f \in DOMAIN p.classes[c].own : FieldMade(m, p.classes[c].own[f])
    BY <1>2, IdFieldMade DEF ClassPut
<1>8. \A x \in Uids(m) : ClassMade(p, p.classes[x])
    <2>1. \A x \in Uids(m) : ClassMade(m, m.classes[x])
        BY DEF Complete
    <2> QED
        BY <1>3, <1>4, <2>1, MoreMade
<1>9. ClassMade(m, p.classes[c])
    BY <1>2, <1>6, <1>7 DEF ClassMade, ClassPut
<1>10. \A x \in Uids(p) : ClassMade(p, p.classes[x])
    BY <1>3, <1>8, <1>9, MoreMade
<1>11. ASSUME NoLoop(m) PROVE NoLoop(p)
    <2>1. /\ DOMAIN Parents(m) = Uids(m) /\ DOMAIN Parents(p) = Uids(m) \cup {c}
          /\ \A x \in Uids(m) : Parents(p)[x] = Parents(m)[x]
          /\ Parents(p)[c] = Range(class.parents)
        BY <1>3, <1>4 DEF Parents, Uids
    <2>2. Acyclic(Parents(p))
        BY <1>11, <2>1, AcyclicGrows DEF NoLoop
    <2> QED
        BY <1>3, <1>11, <2>2 DEF NoLoop
<1> QED
    BY <1>1, <1>3, <1>5, <1>10, <1>11 DEF Complete

\* A new group that requires groups that are there can be put into a model.
LEMMA PutGroupComplete ==
    ASSUME NEW m, Complete(m), NEW g, g \notin Groups(m), g # None,
           NEW depends, depends \subseteq Groups(m)
    PROVE  LET p == PutGroup(m, g, depends)
           IN  /\ Complete(p) /\ (NoLoop(m) => NoLoop(p))
               /\ p.classes = m.classes /\ Groups(p) = Groups(m) \cup {g}
               /\ p.comps[g] = {} /\ \A h \in Groups(m) : p.comps[h] = m.comps[h]
<1> DEFINE groups1 == Place(m.groups, g)
           require == Updated(m.require, Entry(g, depends))
           comps == Updated(m.comps, Entry(g, {}))
<1> SUFFICES ASSUME NEW p, p = [m EXCEPT !.groups = groups1, !.require = require, !.comps = comps]
             PROVE  /\ Complete(p) /\ (NoLoop(m) => NoLoop(p))
                    /\ p.classes = m.classes /\ Groups(p) = Groups(m) \cup {g}
                    /\ p.comps[g] = {} /\ \A h \in Groups(m) : p.comps[h] = m.comps[h]
    BY DEF PutGroup
<1>1. /\ DOMAIN require = Groups(m) \cup {g} /\ require[g] = depends
      /\ \A h \in Groups(m) : require[h] = m.require[h]
      /\ require = [h \in DOMAIN require |-> require[h]]
    BY DEF Updated, Entry, Groups
<1>2. /\ DOMAIN comps = Groups(m) \cup {g} /\ comps[g] = {}
      /\ \A h \in Groups(m) : comps[h] = m.comps[h]
    BY DEF Updated, Entry, Complete
<1> HIDE DEF require, comps, groups1
<1>3. p = [names |-> m.names, groups |-> groups1, classes |-> m.classes,
           require |-> require, comps |-> comps]
    BY DEF Complete, IsModel
<1>4. /\ IsModel(p) /\ p.names = m.names /\ p.groups = groups1 /\ p.classes = m.classes
      /\ p.require = require /\ p.comps = comps
    BY <1>3 DEF IsModel
<1>5. Uids(p) = Uids(m) /\ Groups(p) = Groups(m) \cup {g} /\ Parents(p) = Parents(m)
    BY <1>1, <1>4 DEF Uids, Groups, Parents
<1>6. IsFiniteSet(Groups(p)) /\ Dictionary(p.groups, Groups(p))
    BY <1>4, <1>5, FS_AddElement, PlaceInDictionary DEF Complete, groups1
<1>7. \A c \in Uids(p) : ClassMade(p, p.classes[c])
    <2>1. \A x \in Uids(m) : ClassMade(m, m.classes[x])
        BY DEF Complete
    <2> QED
        BY <1>4, <1>5, <2>1, MoreMade
<1>8. \A h \in Groups(p) : p.require[h] \subseteq Groups(p)
    BY <1>1, <1>4, <1>5 DEF Complete
<1>9. Complete(p)
    BY <1>1, <1>2, <1>4, <1>5, <1>6, <1>7, <1>8 DEF Complete
<1>10. ASSUME NoLoop(m) PROVE NoLoop(p)
    <2>1. DOMAIN m.require = Groups(m)
        BY DEF Groups
    <2>2. Acyclic(require)
        BY <1>1, <1>10, <2>1, AcyclicGrows DEF NoLoop
    <2> QED
        BY <1>4, <1>5, <1>10, <2>2 DEF NoLoop
<1> QED
    BY <1>2, <1>4, <1>5, <1>9, <1>10

-----------------------------------------------------------------------------
(* The calls of a script.                                                  *)

\* The components of each group are the classes and the fields that say they
\* are of this group, and each class but the abstract ones is identified.
ClassIn(m, g, x) == \E c \in Uids(m) : x = <<c>> /\ m.classes[c].group = g
FieldIn(m, g, x) == \E c \in Uids(m) : \E f \in DOMAIN m.classes[c].own :
                        x = <<c, f>> /\ m.classes[c].own[f].group = g
Filed(m) == \A g \in Groups(m) : \A x : x \in m.comps[g] <=> ClassIn(m, g, x) \/ FieldIn(m, g, x)
Identified(m) ==
    \A c \in Uids(m) : ~m.classes[c].abstract => Classname \in DOMAIN m.classes[c].own
Built(m) == Complete(m) /\ NoLoop(m) /\ Filed(m) /\ Identified(m)

\* A new field goes into its group and stays where it is put.
LEMMA PutFieldsBuilt ==
    ASSUME NEW m, Built(m), NEW c \in Uids(m), NEW fields,
           \A f \in DOMAIN fields : FieldMade(m, fields[f]) /\ f \notin DOMAIN m.classes[c].own
    PROVE  Built(PutFields(m, c, fields))
<1> SUFFICES ASSUME NEW p, p = PutFields(m, c, fields) PROVE Built(p)
    OBVIOUS
<1>1. Complete(p) /\ NoLoop(p)
    BY PutFieldsComplete DEF Built
<1>2. IsModel(m) /\ IsClass(m.classes[c]) /\ DOMAIN m.comps = Groups(m)
    BY DEF Built, Complete, ClassMade
<1>3. FieldsPut(m, c, fields, p)
    BY <1>2, PutFieldsFacts
<1>4. /\ Uids(p) = Uids(m) /\ Groups(p) = Groups(m)
      /\ \A x \in Uids(m) \ {c} : p.classes[x] = m.classes[x]
      /\ \A g \in Groups(m) : p.comps[g] = m.comps[g] \cup
            {<<c, f>> : f \in {f \in DOMAIN fields : fields[f].group = g}}
    BY <1>2, <1>3 DEF FieldsPut, Groups
<1>5. /\ p.classes[c].own = Updated(m.classes[c].own, fields)
      /\ p.classes[c].group = m.classes[c].group
      /\ p.classes[c].abstract = m.classes[c].abstract
    <2>1. p.classes[c] = [m.classes[c] EXCEPT !.own = Updated(m.classes[c].own, fields)]
        BY <1>3 DEF FieldsPut
    <2> QED
        BY <1>2, <2>1, OwnPut
<1>6. /\ DOMAIN p.classes[c].own = DOMAIN m.classes[c].own \cup DOMAIN fields
      /\ \A f \in DOMAIN fields : p.classes[c].own[f] = fields[f]
      /\ \A f \in DOMAIN m.classes[c].own : p.classes[c].own[f] = m.classes[c].own[f]
    BY <1>5 DEF Updated
<1>7. \A g, x : ClassIn(p, g, x) <=> ClassIn(m, g, x)
    <2>1. \A y \in Uids(m) : p.classes[y].group = m.classes[y].group
        BY <1>4, <1>5
    <2> QED
        BY <1>4, <2>1 DEF ClassIn
<1>8. ASSUME NEW g \in Groups(m), NEW x
      PROVE  FieldIn(p, g, x) <=> \/ FieldIn(m, g, x)
                                  \/ \E f \in DOMAIN fields : x = <<c, f>> /\ fields[f].group = g
    <2>1. ASSUME FieldIn(p, g, x)
          PROVE  \/ FieldIn(m, g, x)
                 \/ \E f \in DOMAIN fields : x = <<c, f>> /\ fields[f].group = g
        <3>1. PICK y \in Uids(m) : \E f \in DOMAIN p.classes[y].own :
                    x = <<y, f>> /\ p.classes[y].own[f].group = g
            BY <1>4, <2>1 DEF FieldIn
        <3>2. CASE y # c
            BY <1>4, <3>1, <3>2 DEF FieldIn
        <3>3. CASE y = c
            BY <1>6, <3>1, <3>3 DEF FieldIn
        <3> QED
            BY <3>2, <3>3
    <2>2. ASSUME FieldIn(m, g, x) PROVE FieldIn(p, g, x)
        <3>1. PICK y \in Uids(m) : \E f \in DOMAIN m.classes[y].own :
                    x = <<y, f>> /\ m.classes[y].own[f].group = g
            BY <2>2 DEF FieldIn
        <3>2. CASE y # c
            BY <1>4, <3>1, <3>2 DEF FieldIn
        <3>3. CASE y = c
            BY <1>4, <1>6, <3>1, <3>3 DEF FieldIn
        <3> QED
            BY <3>2, <3>3
    <2>3. ASSUME NEW f \in DOMAIN fields, x = <<c, f>>, fields[f].group = g
          PROVE  FieldIn(p, g, x)
        BY <1>4, <1>6, <2>3 DEF FieldIn
    <2> QED
        BY <2>1, <2>2, <2>3
<1>9. Filed(p)
    <2>1. ASSUME NEW g \in Groups(m), NEW x
          PROVE  x \in p.comps[g] <=> ClassIn(p, g, x) \/ FieldIn(p, g, x)
        <3>1. x \in m.comps[g] <=> ClassIn(m, g, x) \/ FieldIn(m, g, x)
            BY DEF Built, Filed
        <3>2. x \in p.comps[g] <=> \/ x \in m.comps[g]
                                   \/ \E f \in DOMAIN fields : x = <<c, f>> /\ fields[f].group = g
            BY <1>4
        <3> QED
            BY <1>7, <1>8, <3>1, <3>2
    <2> QED
        BY <1>4, <2>1 DEF Filed
<1>10. Identified(p)
    <2>1. \A y \in Uids(m) : /\ p.classes[y].abstract = m.classes[y].abstract
                             /\ DOMAIN m.classes[y].own \subseteq DOMAIN p.classes[y].own
        BY <1>4, <1>5, <1>6
    <2> QED
        BY <1>4, <2>1 DEF Built, Identified
<1> QED
    BY <1>1, <1>9, <1>10 DEF Built

\* A new class, with its identifier, goes into its group.
LEMMA PutClassBuilt ==
    ASSUME NEW m, Built(m), NEW c, c \notin Uids(m), NEW class, IsClass(class),
           Range(class.parents) \subseteq Uids(m), class.group \in Groups(m) \cup {None}
    PROVE  Built(PutClass(m, c, class))
<1> SUFFICES ASSUME NEW p, p = PutClass(m, c, class) PROVE Built(p)
    OBVIOUS
<1>1. Complete(p) /\ NoLoop(p)
    BY PutClassComplete DEF Built
<1>2. IsModel(m) /\ DOMAIN m.comps = Groups(m) /\ None \notin Groups(m)
    BY DEF Built, Complete
<1>3. ClassPut(m, c, class, p)
    BY <1>2, PutClassFacts
<1>4. /\ Uids(p) = Uids(m) \cup {c} /\ Groups(p) = Groups(m)
      /\ \A x \in Uids(m) : p.classes[x] = m.classes[x]
      /\ p.classes[c].group = class.group /\ p.classes[c].abstract = class.abstract
      /\ DOMAIN p.classes[c].own = IF class.abstract THEN {} ELSE {Classname}
      /\ \A f \in DOMAIN p.classes[c].own : p.classes[c].own[f].group = class.group
      /\ \A g \in Groups(m) : p.comps[g] = m.comps[g] \cup
            (IF g # class.group THEN {}
             ELSE IF class.abstract THEN {<<c>>} ELSE {<<c>>, <<c, Classname>>})
    BY <1>2, <1>3 DEF ClassPut, Groups, IdField
<1>5. ASSUME NEW g \in Groups(m), NEW x
      PROVE  /\ ClassIn(p, g, x) <=> ClassIn(m, g, x) \/ (x = <<c>> /\ class.group = g)
             /\ FieldIn(p, g, x) <=> \/ FieldIn(m, g, x)
                                     \/ ~class.abstract /\ x = <<c, Classname>> /\ class.group = g
    <2>1. ClassIn(p, g, x) <=> ClassIn(m, g, x) \/ (x = <<c>> /\ class.group = g)
        BY <1>4 DEF ClassIn
    <2>2. ASSUME FieldIn(p, g, x)
          PROVE  \/ FieldIn(m, g, x)
                 \/ ~class.abstract /\ x = <<c, Classname>> /\ class.group = g
        <3>1. PICK y \in Uids(p) : \E f \in DOMAIN p.classes[y].own :
                    x = <<y, f>> /\ p.classes[y].own[f].group = g
            BY <2>2 DEF FieldIn
        <3>2. CASE y = c
            BY <1>4, <3>1, <3>2
        <3>3. CASE y # c
            BY <1>4, <3>1, <3>3 DEF FieldIn
        <3> QED
            BY <3>2, <3>3
    <2>3. ASSUME FieldIn(m, g, x) PROVE FieldIn(p, g, x)
        BY <1>4, <2>3 DEF FieldIn
    <2>4. ASSUME ~class.abstract, x = <<c, Classname>>, class.group = g PROVE FieldIn(p, g, x)
        BY <1>4, <2>4 DEF FieldIn
    <2> QED
        BY <2>1, <2>2, <2>3, <2>4
<1>6. Filed(p)
    <2>1. ASSUME NEW g \in Groups(m), NEW x
          PROVE  x \in p.comps[g] <=> ClassIn(p, g, x) \/ FieldIn(p, g, x)
        <3>1. x \in m.comps[g] <=> ClassIn(m, g, x) \/ FieldIn(m, g, x)
            BY DEF Built, Filed
        <3>2. x \in p.comps[g] <=>
                \/ x \in m.comps[g]
                \/ g = class.group /\ (x = <<c>> \/ (~class.abstract /\ x = <<c, Classname>>))
            BY <1>4
        <3> QED
            BY <1>5, <3>1, <3>2
    <2> QED
        BY <1>4, <2>1 DEF Filed
<1>7. Identified(p)
    BY <1>4 DEF Built, Identified
<1> QED
    BY <1>1, <1>6, <1>7 DEF Built

\* A new group is empty, and nothing said it was of this group.
LEMMA PutGroupBuilt ==
    ASSUME NEW m, Built(m), NEW g, g \notin Groups(m), g # None,
           NEW depends, depends \subseteq Groups(m)
    PROVE  Built(PutGroup(m, g, depends))
<1> SUFFICES ASSUME NEW p, p = PutGroup(m, g, depends) PROVE Built(p)
    OBVIOUS
<1>1. /\ Complete(p) /\ NoLoop(p)
      /\ p.classes = m.classes /\ Groups(p) = Groups(m) \cup {g}
      /\ p.comps[g] = {} /\ \A h \in Groups(m) : p.comps[h] = m.comps[h]
    BY PutGroupComplete DEF Built
<1>2. \A c \in Uids(m) : /\ m.classes[c].group # g
                         /\ \A f \in DOMAIN m.classes[c].own : m.classes[c].own[f].group # g
    BY DEF Built, Complete, ClassMade, FieldMade
<1>3. \A h, x : /\ ClassIn(p, h, x) <=> ClassIn(m, h, x)
                /\ FieldIn(p, h, x) <=> FieldIn(m, h, x)
    BY <1>1 DEF ClassIn, FieldIn, Uids
<1>4. \A x : ~ClassIn(m, g, x) /\ ~FieldIn(m, g, x)
    BY <1>2 DEF ClassIn, FieldIn
<1>5. Filed(p)
    BY <1>1, <1>3, <1>4 DEF Built, Filed
<1>6. Identified(p)
    BY <1>1 DEF Built, Identified, Uids
<1> QED
    BY <1>1, <1>5, <1>6 DEF Built

\* Any call that is accepted keeps a model built as it should.
LEMMA DoBuilt ==
    ASSUME NEW m, Built(m), NEW o, IsCall(o), Accepts(m, o)
    PROVE  Built(Do(m, o))
<1>1. CASE o.call = "group" /\ o.made # None
    <2>1. Do(m, o) = PutGroup(m, o.made, Added(o.depends))
        BY <1>1 DEF Do
    <2>2. o.made \notin Groups(m) /\ Added(o.depends) \subseteq Groups(m)
        BY <1>1 DEF Accepts, Fresh, Added, Range
    <2> QED
        BY <1>1, <2>1, <2>2, PutGroupBuilt
<1>2. CASE o.call = "class" /\ IsClass(o.class)
    <2>1. Do(m, o) = PutClass(m, o.made, o.class)
        BY <1>2 DEF Do
    <2>2. /\ o.made \notin Uids(m) /\ Range(o.class.parents) \subseteq Uids(m)
          /\ o.class.group \in Groups(m) \cup {None}
        BY <1>2 DEF Accepts, Fresh, Uids
    <2> QED
        BY <1>2, <2>1, <2>2, PutClassBuilt
<1>3. CASE o.call = "field" /\ IsField(o.field)
    <2>1. Do(m, o) = PutFields(m, o.of, Entry(o.uid, o.field))
        BY <1>3 DEF Do
    <2>2. /\ o.of \in Uids(m) /\ o.field.refs \subseteq Uids(m)
          /\ o.field.group \in Groups(m) \cup {None}
          /\ o.uid \notin DOMAIN m.classes[o.of].own
        BY <1>3 DEF Accepts, CanAdd, Uids
    <2>3. \A f \in DOMAIN Entry(o.uid, o.field) :
            /\ FieldMade(m, Entry(o.uid, o.field)[f])
            /\ f \notin DOMAIN m.classes[o.of].own
        BY <1>3, <2>2 DEF Entry, FieldMade
    <2> QED
        BY <2>1, <2>2, <2>3, PutFieldsBuilt
<1> QED
    BY <1>1, <1>2, <1>3 DEF IsCall

\* The model a script begins with.
LEMMA EmptyBuilt == Built(EmptyModel)
<1>1. /\ IsModel(EmptyModel) /\ Uids(EmptyModel) = {} /\ Groups(EmptyModel) = {}
      /\ EmptyModel.names = << >> /\ EmptyModel.groups = << >>
      /\ DOMAIN EmptyModel.comps = {}
      /\ EmptyModel.require = << >> /\ DOMAIN EmptyModel.require = {}
    BY DEF EmptyModel, IsModel, Uids, Groups
<1>2. Dictionary(<< >>, {})
    <2>1. Lists(<< >>, {}) /\ Range(<< >>) = {}
        BY DEF Lists, Range
    <2> QED
        BY <2>1 DEF Dictionary
<1>3. Complete(EmptyModel)
    <2>1. << >> = [g \in DOMAIN << >> |-> << >>[g]]
        OBVIOUS
    <2> QED
        BY <1>1, <1>2, <2>1, FS_EmptySet DEF Complete
<1>4. DOMAIN Parents(EmptyModel) = {}
    BY <1>1 DEF Parents, Uids
<1>5. ASSUME NEW next, DOMAIN next = {} PROVE Acyclic(next)
    <2>1. [x \in {} |-> 0] \in [DOMAIN next -> Nat] /\ Numbers(next, [x \in {} |-> 0], 0)
        BY <1>5 DEF Numbers
    <2> QED
        BY <2>1 DEF Acyclic
<1>6. NoLoop(EmptyModel)
    BY <1>1, <1>4, <1>5 DEF NoLoop
<1> QED
    BY <1>1, <1>3, <1>6 DEF Built, Filed, Identified

-----------------------------------------------------------------------------
(* The XML file: what is named.                                            *)

\* What is named before it is described.
Named(m, uids, gs, p) ==
    /\ Uids(p) = Uids(m) \cup uids /\ Groups(p) = Groups(m) \cup (gs \ {None})
    /\ \A c \in Uids(m) : p.classes[c] = m.classes[c]
    /\ \A c \in uids \ Uids(m) : p.classes[c] = Placeholder
    /\ \A g \in Groups(m) : p.require[g] = m.require[g] /\ p.comps[g] = m.comps[g]
    /\ \A g \in Groups(p) \ Groups(m) : p.require[g] = {} /\ p.comps[g] = {}

\* A class that was only named.
LEMMA PlaceholderMade ==
    ASSUME NEW m
    PROVE  /\ ClassMade(m, Placeholder) /\ Placeholder.parents = << >>
           /\ DOMAIN Placeholder.own = {Classname}
<1>1. IsClass(Placeholder) /\ Placeholder.parents = << >> /\ Placeholder.group = None
      /\ Placeholder.own = Entry(Classname, IdField(None))
    BY DEF IsClass, Placeholder
<1>2. /\ DOMAIN Placeholder.own = {Classname} /\ Placeholder.own[Classname] = IdField(None)
      /\ Placeholder.own = [f \in DOMAIN Placeholder.own |-> Placeholder.own[f]]
    BY <1>1 DEF Entry
<1>3. FieldMade(m, IdField(None))
    BY IdFieldMade
<1> QED
    BY <1>1, <1>2, <1>3 DEF ClassMade

\* Classes that are named are there.
LEMMA PutMissingNames ==
    ASSUME NEW m, Complete(m), Whole(m), NEW uids, IsFiniteSet(uids),
           \A x \in uids : Uid(x) = x
    PROVE  LET p == PutMissing(m, uids) IN Complete(p) /\ Named(m, uids, {None}, p)
<1> DEFINE names == m.names \o SetToSeq(uids \ DOMAIN m.classes)
           classes == Completed(m.classes, uids, Placeholder)
<1> SUFFICES ASSUME NEW p, p = [m EXCEPT !.names = names, !.classes = classes]
             PROVE  Complete(p) /\ Named(m, uids, {None}, p)
    BY DEF PutMissing
<1>1. Dictionary(names, Uids(m) \cup uids) /\ IsFiniteSet(Uids(m) \cup uids)
    <2>1. \A x \in Uids(m) \cup uids : Uid(x) = x
        BY DEF Whole, Uids
    <2>2. Dictionary(m.names, Uids(m)) /\ IsFiniteSet(Uids(m))
        BY DEF Complete
    <2>3. Dictionary(m.names \o SetToSeq(uids \ Uids(m)), Uids(m) \cup uids)
        BY <2>1, <2>2, MoreInDictionary
    <2> QED
        BY <2>2, <2>3, FS_Union DEF Uids
<1>2. /\ DOMAIN classes = Uids(m) \cup uids
      /\ \A c \in Uids(m) : classes[c] = m.classes[c]
      /\ \A c \in uids \ Uids(m) : classes[c] = Placeholder
    BY DEF Completed, Uids
<1> HIDE DEF names, classes
<1>3. p = [names |-> names, groups |-> m.groups, classes |-> classes,
           require |-> m.require, comps |-> m.comps]
    BY DEF Complete, IsModel
<1>4. /\ IsModel(p) /\ p.names = names /\ p.groups = m.groups /\ p.classes = classes
      /\ p.require = m.require /\ p.comps = m.comps
    BY <1>3 DEF IsModel
<1>5. Uids(p) = Uids(m) \cup uids /\ Groups(p) = Groups(m)
    BY <1>2, <1>4 DEF Uids, Groups
<1>6. \A c \in Uids(p) : ClassMade(p, p.classes[c])
    <2>1. \A x \in Uids(m) : ClassMade(m, m.classes[x])
        BY DEF Complete
    <2>2. \A x \in Uids(m) : ClassMade(p, m.classes[x])
        BY <1>5, <2>1, MoreMade
    <2>3. ClassMade(p, Placeholder)
        BY PlaceholderMade
    <2> QED
        BY <1>2, <1>4, <1>5, <2>2, <2>3
<1>7. Complete(p)
    BY <1>1, <1>4, <1>5, <1>6 DEF Complete
<1>8. Named(m, uids, {None}, p)
    BY <1>2, <1>4, <1>5 DEF Named
<1> QED
    BY <1>7, <1>8

\* Groups that are named are there.
LEMMA PutMissingGroupsNames ==
    ASSUME NEW m, Complete(m), Whole(m), NEW gs, IsFiniteSet(gs),
           \A x \in gs \ {None} : Uid(x) = x
    PROVE  LET p == PutMissingGroups(m, gs) IN Complete(p) /\ Named(m, {}, gs, p)
<1> DEFINE groups1 == m.groups \o SetToSeq((gs \ {None}) \ Groups(m))
           require == Completed(m.require, gs \ {None}, {})
           comps == Completed(m.comps, gs \ {None}, {})
<1> SUFFICES ASSUME NEW p, p = [m EXCEPT !.require = require, !.comps = comps,
                                         !.groups = groups1]
             PROVE  Complete(p) /\ Named(m, {}, gs, p)
    BY DEF PutMissingGroups
<1>1. /\ DOMAIN require = Groups(m) \cup (gs \ {None})
      /\ \A g \in Groups(m) : require[g] = m.require[g]
      /\ \A g \in DOMAIN require \ Groups(m) : require[g] = {}
      /\ require = [g \in DOMAIN require |-> require[g]]
    BY DEF Completed, Groups
<1>2. /\ DOMAIN comps = Groups(m) \cup (gs \ {None})
      /\ \A g \in Groups(m) : comps[g] = m.comps[g]
      /\ \A g \in DOMAIN comps \ Groups(m) : comps[g] = {}
    BY DEF Completed, Complete
<1> HIDE DEF require, comps, groups1
<1>3. p = [names |-> m.names, groups |-> groups1, classes |-> m.classes,
           require |-> require, comps |-> comps]
    BY DEF Complete, IsModel
<1>4. /\ IsModel(p) /\ p.names = m.names /\ p.groups = groups1 /\ p.classes = m.classes
      /\ p.require = require /\ p.comps = comps
    BY <1>3 DEF IsModel
<1>5. Uids(p) = Uids(m) /\ Groups(p) = Groups(m) \cup (gs \ {None})
    BY <1>1, <1>4 DEF Uids, Groups
<1>6. IsFiniteSet(Groups(p)) /\ Dictionary(p.groups, Groups(p))
    <2>1. IsFiniteSet(gs \ {None}) /\ IsFiniteSet(Groups(m))
        BY FS_Subset DEF Complete
    <2>2. IsFiniteSet(Groups(m) \cup (gs \ {None}))
        BY <2>1, FS_Union
    <2>3. \A x \in Groups(m) \cup (gs \ {None}) : Uid(x) = x
        BY DEF Whole
    <2>4. Dictionary(groups1, Groups(m) \cup (gs \ {None}))
        BY <2>1, <2>3, MoreInDictionary DEF Complete, groups1
    <2> QED
        BY <1>4, <1>5, <2>2, <2>4
<1>7. \A c \in Uids(p) : ClassMade(p, p.classes[c])
    <2>1. \A x \in Uids(m) : ClassMade(m, m.classes[x])
        BY DEF Complete
    <2> QED
        BY <1>4, <1>5, <2>1, MoreMade
<1>8. \A g \in Groups(p) : p.require[g] \subseteq Groups(p)
    BY <1>1, <1>4, <1>5 DEF Complete
<1>9. Complete(p)
    BY <1>1, <1>2, <1>4, <1>5, <1>6, <1>7, <1>8 DEF Complete
<1>10. Named(m, {}, gs, p)
    BY <1>1, <1>2, <1>4, <1>5 DEF Named
<1> QED
    BY <1>9, <1>10

\* Classes and groups that are named are there.
LEMMA BothNamed ==
    ASSUME NEW m, Complete(m), Whole(m), NEW uids, IsFiniteSet(uids),
           NEW gs, IsFiniteSet(gs), \A x \in uids \cup (gs \ {None}) : Uid(x) = x
    PROVE  LET p == PutMissingGroups(PutMissing(m, uids), gs)
           IN  Complete(p) /\ Named(m, uids, gs, p)
<1> DEFINE q == PutMissing(m, uids)
           p == PutMissingGroups(q, gs)
<1>1. Complete(q) /\ Named(m, uids, {None}, q)
    BY PutMissingNames
<1> HIDE DEF q
<1>2. Whole(q)
    BY <1>1 DEF Named, Whole, Uids
<1>3. Complete(p) /\ Named(q, {}, gs, p)
    BY <1>1, <1>2, PutMissingGroupsNames
<1> HIDE DEF p
<1>4. Named(m, uids, gs, p)
    BY <1>1, <1>3 DEF Named
<1> QED
    BY <1>3, <1>4 DEF p, q

-----------------------------------------------------------------------------
(* The XML file: what is described.                                        *)

\* How far a model m has become b, in which no uid was made twice, when the
\* classes in cs and the groups in gs are still to be read.
Alike(class, was) ==
    /\ class.parents = was.parents /\ class.abstract = was.abstract
    /\ class.pure = was.pure /\ class.group = was.group
Halfway(m, b, cs, gs) ==
    /\ Complete(m) /\ Whole(b)
    /\ Uids(m) \subseteq Uids(b) /\ Groups(m) \subseteq Groups(b)
    /\ \A c \in Uids(b) \ cs : c \in Uids(m) /\ Alike(m.classes[c], b.classes[c])
    /\ \A c \in Uids(m) \cap cs : m.classes[c] = Placeholder
    /\ \A g \in Groups(b) \ gs : g \in Groups(m) /\ m.require[g] = b.require[g]
    /\ \A g \in Groups(m) \cap gs : m.require[g] = {}

\* The parents read so far are parents in what was written.
LEMMA HalfwayParents ==
    ASSUME NEW m, NEW b, NEW cs, NEW gs, Halfway(m, b, cs, gs)
    PROVE  /\ DOMAIN Parents(m) = Uids(m) /\ DOMAIN Parents(b) = Uids(b)
           /\ \A c \in Uids(m) : /\ Parents(m)[c] \subseteq Parents(b)[c]
                                 /\ Parents(m)[c] \subseteq Uids(m)
<1>1. /\ DOMAIN Parents(m) = Uids(m) /\ DOMAIN Parents(b) = Uids(b)
      /\ \A c \in Uids(m) : Parents(m)[c] = Range(m.classes[c].parents)
      /\ \A c \in Uids(b) : Parents(b)[c] = Range(b.classes[c].parents)
    BY DEF Parents, Uids
<1>2. ASSUME NEW c \in Uids(m)
      PROVE  Parents(m)[c] \subseteq Parents(b)[c] /\ Parents(m)[c] \subseteq Uids(m)
    <2>1. CASE c \in cs
        <3>1. m.classes[c].parents = << >>
            BY <2>1, PlaceholderMade DEF Halfway
        <3>2. Range(<< >>) = {}
            BY DEF Range
        <3> QED
            BY <1>1, <3>1, <3>2
    <2>2. CASE c \notin cs
        <3>1. c \in Uids(b) /\ m.classes[c].parents = b.classes[c].parents
            BY <2>2 DEF Halfway, Alike
        <3>2. m.classes[c].parents \in Seq(Uids(m))
            BY DEF Halfway, Complete, ClassMade
        <3>3. Range(m.classes[c].parents) \subseteq Uids(m)
            BY <3>2 DEF Range
        <3> QED
            BY <1>1, <3>1, <3>3
    <2> QED
        BY <2>1, <2>2
<1> QED
    BY <1>1, <1>2

\* What is read so far has no loop, as what was written has none.
LEMMA HalfwayNoLoop ==
    ASSUME NEW m, NEW b, NEW cs, NEW gs, Halfway(m, b, cs, gs), NoLoop(b)
    PROVE  NoLoop(m)
<1>1. Acyclic(Parents(m))
    <2>1. DOMAIN Parents(m) \subseteq DOMAIN Parents(b)
          /\ \A c \in DOMAIN Parents(m) : Parents(m)[c] \subseteq Parents(b)[c]
                                         /\ Parents(m)[c] \subseteq DOMAIN Parents(m)
        <3>1. Uids(m) \subseteq Uids(b)
            BY DEF Halfway
        <3> QED
            BY <3>1, HalfwayParents
    <2>2. Acyclic(Parents(b))
        BY DEF NoLoop
    <2> QED
        BY <2>1, <2>2, AcyclicPart
<1>2. Acyclic(m.require)
    <2>1. DOMAIN m.require = Groups(m) /\ DOMAIN b.require = Groups(b)
        BY DEF Groups
    <2>2. ASSUME NEW g \in Groups(m)
          PROVE  m.require[g] \subseteq b.require[g] /\ m.require[g] \subseteq Groups(m)
        BY DEF Halfway, Complete
    <2> QED
        BY <2>1, <2>2, AcyclicPart DEF Halfway, NoLoop
<1> QED
    BY <1>1, <1>2 DEF NoLoop

\* Naming what is in the file reads nothing.
LEMMA NamingReadsNothing ==
    ASSUME NEW m, NEW b, NEW cs, NEW gs, Halfway(m, b, cs, gs),
           NEW uids, uids \subseteq Uids(b), NEW hs, hs \ {None} \subseteq Groups(b),
           NEW p, Complete(p), Named(m, uids, hs, p)
    PROVE  Halfway(p, b, cs, gs)
<1>1. Uids(p) \subseteq Uids(b) /\ Groups(p) \subseteq Groups(b)
    BY DEF Halfway, Named
<1>2. \A c \in Uids(b) \ cs : c \in Uids(p) /\ Alike(p.classes[c], b.classes[c])
    BY DEF Halfway, Named
<1>3. \A c \in Uids(p) \cap cs : p.classes[c] = Placeholder
    BY DEF Halfway, Named
<1>4. \A g \in Groups(b) \ gs : g \in Groups(p) /\ p.require[g] = b.require[g]
    BY DEF Halfway, Named
<1>5. \A g \in Groups(p) \cap gs : p.require[g] = {}
    BY DEF Halfway, Named
<1> QED
    BY <1>1, <1>2, <1>3, <1>4, <1>5 DEF Halfway

\* What the file names of a complete model is finite.
LEMMA NamedFinite ==
    ASSUME NEW b, Complete(b), NEW uids, uids \subseteq Uids(b),
           NEW hs, hs \ {None} \subseteq Groups(b)
    PROVE  IsFiniteSet(uids) /\ IsFiniteSet(hs)
<1>1. IsFiniteSet(Uids(b)) /\ IsFiniteSet(Groups(b))
    BY DEF Complete
<1>2. IsFiniteSet(Groups(b) \cup {None})
    BY <1>1, FS_AddElement
<1>3. hs \subseteq Groups(b) \cup {None}
    OBVIOUS
<1> QED
    BY <1>1, <1>2, <1>3, FS_Subset

\* Classes and groups that the file names are there, and nothing more is read.
LEMMA NamedHalfway ==
    ASSUME NEW m, NEW b, NEW cs, NEW gs, Halfway(m, b, cs, gs), Complete(b),
           NEW uids, uids \subseteq Uids(b), NEW hs, hs \ {None} \subseteq Groups(b)
    PROVE  LET p == PutMissingGroups(PutMissing(m, uids), hs)
           IN  Halfway(p, b, cs, gs) /\ Named(m, uids, hs, p)
<1> DEFINE p == PutMissingGroups(PutMissing(m, uids), hs)
<1>1. IsFiniteSet(uids) /\ IsFiniteSet(hs)
    BY NamedFinite
<1>2. /\ Complete(m) /\ Whole(m) /\ \A x \in uids \cup (hs \ {None}) : Uid(x) = x
    BY DEF Halfway, Whole, Uids
<1>3. Complete(p) /\ Named(m, uids, hs, p)
    BY <1>1, <1>2, BothNamed
<1> HIDE DEF p
<1>4. Halfway(p, b, cs, gs)
    BY <1>3, NamingReadsNothing
<1> QED
    BY <1>3, <1>4 DEF p

-----------------------------------------------------------------------------
(* The XML file: reading a class.                                          *)

\* What Described makes of a model.
ClassDescribed(m, c, class, p) ==
    /\ IsModel(p) /\ p.names = m.names /\ p.groups = m.groups
    /\ p.require = m.require /\ p.comps = m.comps /\ Uids(p) = Uids(m)
    /\ \A x \in Uids(m) \ {c} : p.classes[x] = m.classes[x]
    /\ IsClass(p.classes[c]) /\ Alike(p.classes[c], class)
    /\ p.classes[c].own = m.classes[c].own
LEMMA DescribedFacts ==
    ASSUME NEW m, IsModel(m), NEW c \in Uids(m), NEW class, IsClass(class)
    PROVE  ClassDescribed(m, c, class, Described(m, c, class))
<1> SUFFICES ASSUME NEW new, new = [class EXCEPT !.own = m.classes[c].own],
                    NEW p, p = [m EXCEPT !.classes[c] = new]
             PROVE  ClassDescribed(m, c, class, p)
    BY DEF Described
<1>1. IsClass(new) /\ Alike(new, class) /\ new.own = m.classes[c].own
    BY OwnPut DEF Alike
<1>2. p = [names |-> m.names, groups |-> m.groups,
           classes |-> [m.classes EXCEPT ![c] = new],
           require |-> m.require, comps |-> m.comps]
    BY DEF IsModel
<1>3. /\ IsModel(p) /\ p.names = m.names /\ p.groups = m.groups
      /\ p.require = m.require /\ p.comps = m.comps
      /\ p.classes = [m.classes EXCEPT ![c] = new]
    BY <1>2 DEF IsModel
<1> QED
    BY <1>1, <1>3 DEF ClassDescribed, Uids

\* The head of a class c is read: its fields are those it had been given as it
\* was named or is given now, its group may have got it.
HeadRead(m, b, c, p) ==
    LET class == b.classes[c]
    IN  /\ c \in Uids(p) /\ Uids(m) \subseteq Uids(p) /\ Groups(m) \subseteq Groups(p)
        /\ \A x \in Uids(m) \ {c} : p.classes[x] = m.classes[x]
        /\ \A x \in Uids(p) \ (Uids(m) \cup {c}) : p.classes[x] = Placeholder
        /\ DOMAIN p.classes[c].own \subseteq {Classname}
        /\ c \in Uids(m) => DOMAIN m.classes[c].own \subseteq DOMAIN p.classes[c].own
        /\ ~class.abstract => Classname \in DOMAIN p.classes[c].own
        /\ \A g \in Groups(m) : m.comps[g] \subseteq p.comps[g]
        /\ \A g \in Groups(p) : \A x \in p.comps[g] :
                \/ g \in Groups(m) /\ x \in m.comps[g]
                \/ g = class.group /\ x \in {<<c>>, <<c, Classname>>}
LEMMA LoadHeadReads ==
    ASSUME NEW m, NEW b, NEW cs, NEW gs, Halfway(m, b, cs, gs), Complete(b),
           NEW c \in Uids(b) \cap cs
    PROVE  LET p == LoadHead(m, c, b.classes[c])
           IN  Halfway(p, b, cs \ {c}, gs) /\ HeadRead(m, b, c, p)
<1> DEFINE class == b.classes[c]
           q == PutMissingGroups(PutMissing(m, Range(class.parents)), {class.group})
<1> SUFFICES ASSUME NEW p, p = LoadHead(m, c, class)
             PROVE  Halfway(p, b, cs \ {c}, gs) /\ HeadRead(m, b, c, p)
    OBVIOUS
<1>1. /\ IsClass(class) /\ class.parents \in Seq(Uids(b))
      /\ class.group \in Groups(b) \cup {None} /\ None \notin Groups(b)
    BY DEF Complete, ClassMade
<1>2. Range(class.parents) \subseteq Uids(b) /\ {class.group} \ {None} \subseteq Groups(b)
    BY <1>1 DEF Range
<1>3. Halfway(q, b, cs, gs) /\ Named(m, Range(class.parents), {class.group}, q)
    BY <1>2, NamedHalfway
<1>4. p = IF c \in Uids(q) THEN Described(q, c, class) ELSE PutClass(q, c, class)
    BY DEF LoadHead, Uids
<1> HIDE DEF q
<1>5. /\ Complete(q) /\ IsModel(q) /\ DOMAIN q.comps = Groups(q)
      /\ None \notin Groups(q)
      /\ Range(class.parents) \subseteq Uids(q) /\ class.group \in Groups(q) \cup {None}
    BY <1>1, <1>3 DEF Halfway, Complete, Named
<1>6. /\ Uids(m) \subseteq Uids(q) /\ Groups(m) \subseteq Groups(q)
      /\ \A x \in Uids(m) : q.classes[x] = m.classes[x]
      /\ \A x \in Uids(q) \ Uids(m) : q.classes[x] = Placeholder
      /\ \A g \in Groups(m) : q.comps[g] = m.comps[g]
      /\ \A g \in Groups(q) \ Groups(m) : q.comps[g] = {}
    BY <1>3 DEF Named
\* What both ways have in common.
<1>7. ASSUME Complete(p), Uids(p) = Uids(q) \cup {c}, p.require = q.require,
             \A x \in Uids(q) \ {c} : p.classes[x] = q.classes[x],
             Alike(p.classes[c], class), DOMAIN p.classes[c].own \subseteq {Classname},
             c \in Uids(q) => DOMAIN q.classes[c].own \subseteq DOMAIN p.classes[c].own,
             ~class.abstract => Classname \in DOMAIN p.classes[c].own,
             \A g \in Groups(q) : q.comps[g] \subseteq p.comps[g],
             \A g \in Groups(q) : \A x \in p.comps[g] \ q.comps[g] :
                g = class.group /\ x \in {<<c>>, <<c, Classname>>}
      PROVE  Halfway(p, b, cs \ {c}, gs) /\ HeadRead(m, b, c, p)
    <2>1. Groups(p) = Groups(q)
        BY <1>7 DEF Groups
    <2>2. Halfway(p, b, cs \ {c}, gs)
        <3>1. Uids(p) \subseteq Uids(b) /\ Groups(p) \subseteq Groups(b)
            BY <1>3, <1>7, <2>1 DEF Halfway
        <3>2. \A x \in Uids(b) \ (cs \ {c}) : x \in Uids(p) /\ Alike(p.classes[x], b.classes[x])
            BY <1>3, <1>7 DEF Halfway
        <3>3. \A x \in Uids(p) \cap (cs \ {c}) : p.classes[x] = Placeholder
            BY <1>3, <1>7 DEF Halfway
        <3>4. /\ \A g \in Groups(b) \ gs : g \in Groups(p) /\ p.require[g] = b.require[g]
              /\ \A g \in Groups(p) \cap gs : p.require[g] = {}
            BY <1>3, <1>7, <2>1 DEF Halfway
        <3> QED
            BY <1>7, <3>1, <3>2, <3>3, <3>4 DEF Halfway
    <2>3. HeadRead(m, b, c, p)
        <3>1. c \in Uids(p) /\ Uids(m) \subseteq Uids(p) /\ Groups(m) \subseteq Groups(p)
            BY <1>6, <1>7, <2>1
        <3>2. /\ \A x \in Uids(m) \ {c} : p.classes[x] = m.classes[x]
              /\ \A x \in Uids(p) \ (Uids(m) \cup {c}) : p.classes[x] = Placeholder
            BY <1>6, <1>7
        <3>3. /\ \A g \in Groups(m) : m.comps[g] \subseteq p.comps[g]
              /\ c \in Uids(m) => DOMAIN m.classes[c].own \subseteq DOMAIN p.classes[c].own
            BY <1>6, <1>7
        <3>4. \A g \in Groups(p) : \A x \in p.comps[g] :
                \/ g \in Groups(m) /\ x \in m.comps[g]
                \/ g = class.group /\ x \in {<<c>>, <<c, Classname>>}
            BY <1>6, <1>7, <2>1
        <3> QED
            BY <1>7, <3>1, <3>2, <3>3, <3>4 DEF HeadRead
    <2> QED
        BY <2>2, <2>3
<1>8. CASE c \in Uids(q)
    <2>1. p = Described(q, c, class)
        BY <1>4, <1>8
    <2>2. ClassDescribed(q, c, class, p)
        BY <1>1, <1>5, <1>8, <2>1, DescribedFacts
    <2>3. DOMAIN q.classes[c].own = {Classname}
        BY <1>3, <1>8, PlaceholderMade DEF Halfway
    <2>4. \A x \in Uids(p) : ClassMade(p, p.classes[x])
        <3>1. \A x \in Uids(q) : ClassMade(q, q.classes[x])
            BY <1>5 DEF Complete
        <3>2. \A field : FieldMade(q, field) <=> FieldMade(p, field)
            BY <2>2 DEF ClassDescribed, FieldMade, Groups
        <3>3. ClassMade(p, p.classes[c])
            <4>1. \A f \in DOMAIN q.classes[c].own : FieldMade(p, q.classes[c].own[f])
                BY <1>8, <3>1, <3>2 DEF ClassMade
            <4>2. p.classes[c].parents \in Seq(Uids(p))
                BY <1>1, <1>5, <2>2 DEF ClassDescribed, Alike, IsClass
            <4>3. p.classes[c].own = [f \in DOMAIN p.classes[c].own |-> p.classes[c].own[f]]
                <5> DEFINE own == q.classes[c].own
                <5>1. own = [f \in DOMAIN own |-> own[f]]
                    BY <1>8, <3>1 DEF ClassMade
                <5>2. p.classes[c].own = own
                    BY <2>2 DEF ClassDescribed
                <5> HIDE DEF own
                <5> QED
                    BY <5>1, <5>2
            <4> QED
                BY <1>5, <2>2, <4>1, <4>2, <4>3 DEF ClassDescribed, ClassMade, Alike, Groups
        <3>4. ASSUME NEW x \in Uids(q) \ {c} PROVE ClassMade(p, p.classes[x])
            BY <2>2, <3>1, <3>2 DEF ClassDescribed, ClassMade, Groups
        <3> QED
            BY <2>2, <3>3, <3>4 DEF ClassDescribed
    <2>5. Complete(p)
        BY <1>5, <2>2, <2>4 DEF ClassDescribed, Complete, Groups
    <2> QED
        BY <1>7, <1>8, <2>2, <2>3, <2>5 DEF ClassDescribed
<1>9. CASE c \notin Uids(q)
    <2>1. p = PutClass(q, c, class)
        BY <1>4, <1>9
    <2>2. ClassPut(q, c, class, p)
        BY <1>1, <1>5, <1>9, <2>1, PutClassFacts
    <2>3. Complete(p)
        BY <1>1, <1>5, <1>9, <2>1, PutClassComplete
    <2>4. /\ Uids(p) = Uids(q) \cup {c} /\ p.require = q.require
          /\ \A x \in Uids(q) \ {c} : p.classes[x] = q.classes[x]
          /\ Alike(p.classes[c], class) /\ DOMAIN p.classes[c].own \subseteq {Classname}
          /\ ~class.abstract => Classname \in DOMAIN p.classes[c].own
        BY <2>2 DEF ClassPut, Alike
    <2>5. /\ \A g \in Groups(q) : q.comps[g] \subseteq p.comps[g]
          /\ \A g \in Groups(q) : \A x \in p.comps[g] \ q.comps[g] :
                g = class.group /\ x \in {<<c>>, <<c, Classname>>}
        <3> HIDE DEF class
        <3>1. \A g \in Groups(q) : p.comps[g] = q.comps[g] \cup
                (IF g # class.group THEN {}
                 ELSE IF class.abstract THEN {<<c>>} ELSE {<<c>>, <<c, Classname>>})
            BY <1>5, <2>2 DEF ClassPut
        <3> QED
            BY <3>1
    <2> QED
        BY <1>7, <1>9, <2>3, <2>4, <2>5
<1> QED
    BY <1>8, <1>9

-----------------------------------------------------------------------------
(* The XML file: reading the fields of a class and a group.                *)

\* The parents of a class of a complete model are a list.
LEMMA ParentsListed ==
    ASSUME NEW m, Complete(m)
    PROVE  ParentLists(m)
    BY DEF Complete, ClassMade, IsClass, ParentLists, Uids

\* A class shows its own fields, and one it shows is its own or of a class above
\* it.
LEMMA Shown ==
    ASSUME NEW m, Complete(m), NoLoop(m), NEW c \in Uids(m)
    PROVE  LET shown == AllFields(m)[c]
           IN  /\ DOMAIN m.classes[c].own \subseteq DOMAIN shown
               /\ \A f \in DOMAIN m.classes[c].own : shown[f] = c
               /\ \A f \in DOMAIN shown :
                    /\ shown[f] = c \/ shown[f] \in ParentsRecc(m)[c]
                    /\ f \in DOMAIN m.classes[shown[f]].own
<1>1. Acyclic(Parents(m)) /\ ParentLists(m) /\ c \in DOMAIN m.classes
    BY ParentsListed DEF NoLoop, Uids
<1>2. LET line == {c} \cup ParentsRecc(m)[c]
          shown == AllFields(m)[c]
      IN  /\ DOMAIN shown = UNION {DOMAIN m.classes[a].own : a \in line}
          /\ \A f \in DOMAIN shown : shown[f] \in line
                                    /\ f \in DOMAIN m.classes[shown[f]].own
          /\ \A f \in DOMAIN m.classes[c].own : shown[f] = c
    BY <1>1, FieldsShown
<1> QED
    BY <1>2

\* What is above a class: classes of the model, and never itself.
LEMMA AboveClass ==
    ASSUME NEW m, Complete(m), NoLoop(m), NEW c \in Uids(m)
    PROVE  ParentsRecc(m)[c] \subseteq Uids(m) /\ c \notin ParentsRecc(m)[c]
<1>1. Acyclic(Parents(m)) /\ DOMAIN Parents(m) = Uids(m)
    BY DEF NoLoop, Parents, Uids
<1> QED
    BY <1>1, AboveFacts DEF ParentsRecc

\* A field as it is read is still a field, of the same classes and group.
LEMMA ReadFieldMade ==
    ASSUME NEW m, NEW field, FieldMade(m, field)
    PROVE  FieldMade(m, ReadField(field)) /\ ReadField(field).group = field.group
<1> DEFINE opts == [o \in DOMAIN field.opts |-> Translated(field.opts[o])]
<1> HIDE DEF opts
<1>1. ReadField(field) = [field EXCEPT !.opts = opts]
    BY DEF ReadField, opts
<1>2. ReadField(field) = [handler |-> field.handler, group |-> field.group,
                          refs |-> field.refs, back |-> field.back, opts |-> opts]
    BY <1>1 DEF FieldMade, IsField
<1> QED
    BY <1>2 DEF FieldMade, IsField

\* The fields of a class c are read: each of them is put into it, but those that
\* it has or that a class above it has.
FieldsRead(m, b, c, p) ==
    LET fields == b.classes[c].own
    IN  /\ Uids(m) \subseteq Uids(p) /\ Groups(m) \subseteq Groups(p)
        /\ \A x \in Uids(m) \ {c} : p.classes[x] = m.classes[x]
        /\ \A x \in Uids(p) \ Uids(m) : p.classes[x] = Placeholder
        /\ DOMAIN m.classes[c].own \subseteq DOMAIN p.classes[c].own
        /\ \A f \in DOMAIN p.classes[c].own :
                \/ f \in DOMAIN m.classes[c].own
                \/ f \in DOMAIN fields /\ p.classes[c].own[f] = ReadField(fields[f])
        /\ \A f \in DOMAIN fields :
                \/ f \in DOMAIN m.classes[c].own
                \/ f \in DOMAIN p.classes[c].own
                \/ \E a \in ParentsRecc(b)[c] : a \in Uids(p) /\ f \in DOMAIN p.classes[a].own
        /\ \A g \in Groups(m) : m.comps[g] \subseteq p.comps[g]
        /\ \A g \in Groups(p) : \A x \in p.comps[g] :
                \/ g \in Groups(m) /\ x \in m.comps[g]
                \/ \E f \in DOMAIN fields : x = <<c, f>> /\ fields[f].group = g
LEMMA LoadFieldsReads ==
    ASSUME NEW m, NEW b, NEW cs, NEW gs, Halfway(m, b, cs, gs), Complete(b), NoLoop(b),
           NEW c \in Uids(b) \ cs
    PROVE  LET p == LoadFields(m, c, b.classes[c].own)
           IN  Halfway(p, b, cs, gs) /\ FieldsRead(m, b, c, p)
<1> DEFINE fields == b.classes[c].own
           uids == UNION {fields[f].refs : f \in DOMAIN fields}
           hs == {fields[f].group : f \in DOMAIN fields}
           q == PutMissingGroups(PutMissing(m, uids), hs)
           kept == {f \in DOMAIN fields : f \notin DOMAIN AllFields(q)[c]}
           put == [f \in kept |-> ReadField(fields[f])]
<1> SUFFICES ASSUME NEW p, p = LoadFields(m, c, fields)
             PROVE  Halfway(p, b, cs, gs) /\ FieldsRead(m, b, c, p)
    OBVIOUS
<1>1. \A f \in DOMAIN fields : FieldMade(b, fields[f])
    BY DEF Complete, ClassMade
<1>2. uids \subseteq Uids(b) /\ hs \ {None} \subseteq Groups(b)
    BY <1>1 DEF FieldMade
<1>3. Halfway(q, b, cs, gs) /\ Named(m, uids, hs, q)
    BY <1>2, NamedHalfway
<1>4. p = PutFields(q, c, put)
    BY DEF LoadFields, FieldsNamed
<1>5. \A f \in DOMAIN fields : /\ fields[f].refs \subseteq Uids(q)
                               /\ fields[f].group \in Groups(q) \cup {None}
    BY <1>3 DEF Named
<1> HIDE DEF q
<1>6. /\ DOMAIN put = {f \in DOMAIN fields : f \notin DOMAIN AllFields(q)[c]}
      /\ \A f \in DOMAIN put : put[f] = ReadField(fields[f])
    OBVIOUS
<1> HIDE DEF put, kept, uids, hs
<1>7. /\ Complete(q) /\ NoLoop(q) /\ c \in Uids(q) /\ IsModel(q)
      /\ IsClass(q.classes[c]) /\ DOMAIN q.comps = Groups(q)
    BY <1>3, HalfwayNoLoop DEF Halfway, Complete, ClassMade
<1>8. \A f \in DOMAIN put : FieldMade(q, put[f]) /\ put[f].group = fields[f].group
    <2>1. \A f \in DOMAIN fields : FieldMade(q, fields[f])
        BY <1>1, <1>5 DEF FieldMade
    <2> QED
        BY <1>6, <2>1, ReadFieldMade
<1>9. Complete(p) /\ FieldsPut(q, c, put, p)
    BY <1>4, <1>7, <1>8, PutFieldsComplete, PutFieldsFacts
<1>10. /\ Uids(p) = Uids(q) /\ Groups(p) = Groups(q) /\ p.require = q.require
       /\ \A x \in Uids(q) \ {c} : p.classes[x] = q.classes[x]
       /\ \A g \in Groups(q) : p.comps[g] = q.comps[g] \cup
            {<<c, f>> : f \in {f \in DOMAIN put : put[f].group = g}}
    BY <1>7, <1>9 DEF FieldsPut, Groups
<1>11. /\ p.classes[c].own = Updated(q.classes[c].own, put)
       /\ Alike(p.classes[c], q.classes[c])
    <2>1. p.classes[c] = [q.classes[c] EXCEPT !.own = Updated(q.classes[c].own, put)]
        BY <1>9 DEF FieldsPut
    <2> QED
        BY <1>7, <2>1, OwnPut DEF Alike
<1>12. /\ DOMAIN p.classes[c].own = DOMAIN q.classes[c].own \cup DOMAIN put
       /\ \A f \in DOMAIN put : p.classes[c].own[f] = put[f]
    BY <1>11 DEF Updated
<1>13. /\ Uids(m) \subseteq Uids(q) /\ Groups(m) \subseteq Groups(q)
       /\ \A x \in Uids(m) : q.classes[x] = m.classes[x]
       /\ \A x \in Uids(q) \ Uids(m) : q.classes[x] = Placeholder
       /\ \A g \in Groups(m) : q.comps[g] = m.comps[g]
       /\ \A g \in Groups(q) \ Groups(m) : q.comps[g] = {}
    BY <1>3 DEF Named
<1>14. c \in Uids(m)
    BY DEF Halfway
<1>15. Halfway(p, b, cs, gs)
    <2>1. Uids(p) \subseteq Uids(b) /\ Groups(p) \subseteq Groups(b)
        BY <1>3, <1>10 DEF Halfway
    <2>2. \A x \in Uids(b) \ cs : x \in Uids(p) /\ Alike(p.classes[x], b.classes[x])
        BY <1>3, <1>10, <1>11 DEF Halfway, Alike
    <2>3. \A x \in Uids(p) \cap cs : p.classes[x] = Placeholder
        BY <1>3, <1>10 DEF Halfway
    <2>4. /\ \A g \in Groups(b) \ gs : g \in Groups(p) /\ p.require[g] = b.require[g]
          /\ \A g \in Groups(p) \cap gs : p.require[g] = {}
        BY <1>3, <1>10 DEF Halfway
    <2> QED
        BY <1>9, <2>1, <2>2, <2>3, <2>4 DEF Halfway
<1>16. ASSUME NEW f \in DOMAIN fields
       PROVE  \/ f \in DOMAIN m.classes[c].own
              \/ f \in DOMAIN p.classes[c].own
              \/ \E a \in ParentsRecc(b)[c] : a \in Uids(p) /\ f \in DOMAIN p.classes[a].own
    <2>1. CASE f \in DOMAIN put
        BY <1>12, <2>1
    <2>2. CASE f \notin DOMAIN put
        <3>1. f \in DOMAIN AllFields(q)[c]
            BY <1>6, <2>2
        <3>2. PICK a : /\ a = c \/ a \in ParentsRecc(q)[c]
                       /\ f \in DOMAIN q.classes[a].own
            BY <1>7, <3>1, Shown
        <3>3. CASE a = c
            BY <1>13, <1>14, <3>2, <3>3
        <3>4. CASE a \in ParentsRecc(q)[c]
            <4>1. a \in Uids(q) /\ a # c
                BY <1>7, <3>4, AboveClass
            <4>2. a \in ParentsRecc(b)[c]
                <5>1. /\ DOMAIN Parents(q) = Uids(q) /\ DOMAIN Parents(b) = Uids(b)
                      /\ \A x \in Uids(q) : Parents(q)[x] \subseteq Parents(b)[x]
                    BY <1>3, HalfwayParents
                <5>2. Acyclic(Parents(q)) /\ Acyclic(Parents(b)) /\ Uids(q) \subseteq Uids(b)
                    BY <1>3, <1>7 DEF NoLoop, Halfway
                <5>3. Above(Parents(q))[c] \subseteq Above(Parents(b))[c]
                    BY <1>7, <5>1, <5>2, AboveGrows
                <5> QED
                    BY <3>4, <5>3 DEF ParentsRecc
            <4> QED
                BY <1>10, <3>2, <4>1, <4>2
        <3> QED
            BY <3>2, <3>3, <3>4
    <2> QED
        BY <2>1, <2>2
<1>17. FieldsRead(m, b, c, p)
    <2>1. /\ Uids(m) \subseteq Uids(p) /\ Groups(m) \subseteq Groups(p)
          /\ \A x \in Uids(m) \ {c} : p.classes[x] = m.classes[x]
          /\ \A x \in Uids(p) \ Uids(m) : p.classes[x] = Placeholder
        BY <1>10, <1>13, <1>14
    <2>2. /\ DOMAIN m.classes[c].own \subseteq DOMAIN p.classes[c].own
          /\ \A f \in DOMAIN p.classes[c].own :
                \/ f \in DOMAIN m.classes[c].own
                \/ f \in DOMAIN fields /\ p.classes[c].own[f] = ReadField(fields[f])
        BY <1>6, <1>12, <1>13, <1>14
    <2>3. \A g \in Groups(m) : m.comps[g] \subseteq p.comps[g]
        BY <1>10, <1>13
    <2>4. \A g \in Groups(p) : \A x \in p.comps[g] :
                \/ g \in Groups(m) /\ x \in m.comps[g]
                \/ \E f \in DOMAIN fields : x = <<c, f>> /\ fields[f].group = g
        BY <1>6, <1>8, <1>10, <1>13
    <2> QED
        BY <1>16, <2>1, <2>2, <2>3, <2>4 DEF FieldsRead
<1> QED
    BY <1>15, <1>17

\* A group is read: what it requires, and its components as the classes show them.
GroupRead(m, b, g, q, p) ==
    /\ Uids(q) = Uids(m) /\ Uids(p) = Uids(m) /\ Groups(m) \subseteq Groups(p)
    /\ \A c \in Uids(m) : q.classes[c] = m.classes[c] /\ p.classes[c] = m.classes[c]
    /\ \A h \in Groups(m) : m.comps[h] \subseteq p.comps[h]
    /\ \A h \in Groups(p) : \A x \in p.comps[h] :
            \/ h \in Groups(m) /\ x \in m.comps[h]
            \/ h = g /\ \E y \in b.comps[g] : x = Found(q, y)
    /\ g \in Groups(p) /\ \A y \in b.comps[g] : Found(q, y) \in p.comps[g]
LEMMA LoadGroupReads ==
    ASSUME NEW m, NEW b, NEW cs, NEW gs, Halfway(m, b, cs, gs), Complete(b), NoLoop(b),
           NEW g \in Groups(b) \cap gs
    PROVE  LET p == LoadGroup(m, g, b.require[g], b.comps[g])
           IN  /\ Halfway(p, b, cs, gs \ {g})
               /\ \E q : Halfway(q, b, cs, gs) /\ GroupRead(m, b, g, q, p)
<1> DEFINE hs == b.require[g] \cup {g}
           q == PutMissingGroups(m, hs)
           found == {Found(q, x) : x \in b.comps[g]}
<1> SUFFICES ASSUME NEW p, p = LoadGroup(m, g, b.require[g], b.comps[g])
             PROVE  /\ Halfway(p, b, cs, gs \ {g})
                    /\ Halfway(q, b, cs, gs) /\ GroupRead(m, b, g, q, p)
    OBVIOUS
<1>1. hs \subseteq Groups(b) /\ hs \ {None} = hs
    BY DEF Complete
<1>2. Complete(q) /\ Named(m, {}, hs, q)
    <2>1. IsFiniteSet(hs)
        <3>1. {} \subseteq Uids(b) /\ hs \ {None} \subseteq Groups(b)
            BY <1>1
        <3> QED
            BY <3>1, NamedFinite
    <2>2. Complete(m) /\ Whole(m) /\ \A x \in hs \ {None} : Uid(x) = x
        BY <1>1 DEF Halfway, Whole, Uids
    <2> QED
        BY <2>1, <2>2, PutMissingGroupsNames
<1>3. p = [q EXCEPT !.require[g] = @ \cup b.require[g], !.comps[g] = @ \cup found]
    BY DEF LoadGroup
<1> HIDE DEF q, found
<1>4. Halfway(q, b, cs, gs)
    <2>1. {} \subseteq Uids(b) /\ hs \ {None} \subseteq Groups(b)
        BY <1>1
    <2> QED
        BY <1>2, <2>1, NamingReadsNothing
<1>5. /\ IsModel(q) /\ g \in Groups(q) /\ DOMAIN q.comps = Groups(q)
      /\ q.require[g] = {} /\ b.require[g] \subseteq Groups(q)
    BY <1>1, <1>2, <1>4 DEF Complete, Named, Halfway
<1>6. p = [names |-> q.names, groups |-> q.groups, classes |-> q.classes,
           require |-> [q.require EXCEPT ![g] = b.require[g]],
           comps |-> [q.comps EXCEPT ![g] = @ \cup found]]
    <2>1. ASSUME NEW r, r = [q EXCEPT !.require[g] = @ \cup b.require[g],
                                       !.comps[g] = @ \cup found]
          PROVE  r = [names |-> q.names, groups |-> q.groups, classes |-> q.classes,
                      require |-> [q.require EXCEPT ![g] = @ \cup b.require[g]],
                      comps |-> [q.comps EXCEPT ![g] = @ \cup found]]
        BY <1>5, <2>1 DEF IsModel
    <2>2. [q.require EXCEPT ![g] = @ \cup b.require[g]] = [q.require EXCEPT ![g] = b.require[g]]
        BY <1>5
    <2> QED
        BY <1>3, <2>1, <2>2
<1>7. /\ IsModel(p) /\ p.names = q.names /\ p.groups = q.groups /\ p.classes = q.classes
      /\ p.require = [q.require EXCEPT ![g] = b.require[g]]
      /\ p.comps = [q.comps EXCEPT ![g] = @ \cup found]
    BY <1>6 DEF IsModel
<1>8. /\ Uids(p) = Uids(q) /\ Groups(p) = Groups(q) /\ DOMAIN p.comps = Groups(q)
      /\ p.require[g] = b.require[g] /\ p.comps[g] = q.comps[g] \cup found
      /\ \A h \in Groups(q) \ {g} : p.require[h] = q.require[h] /\ p.comps[h] = q.comps[h]
    BY <1>5, <1>7 DEF Uids, Groups
<1>9. Complete(p)
    <2>1. \A c \in Uids(q) : ClassMade(q, q.classes[c])
        BY <1>2 DEF Complete
    <2>2. \A c \in Uids(p) : ClassMade(p, p.classes[c])
        BY <1>7, <1>8, <2>1, MoreMade
    <2>3. \A h \in Groups(p) : p.require[h] \subseteq Groups(p)
        BY <1>2, <1>5, <1>8 DEF Complete
    <2> QED
        BY <1>2, <1>7, <1>8, <2>2, <2>3 DEF Complete
<1>10. Halfway(p, b, cs, gs \ {g})
    <2>1. Uids(p) \subseteq Uids(b) /\ Groups(p) \subseteq Groups(b)
        BY <1>4, <1>8 DEF Halfway
    <2>2. /\ \A c \in Uids(b) \ cs : c \in Uids(p) /\ Alike(p.classes[c], b.classes[c])
          /\ \A c \in Uids(p) \cap cs : p.classes[c] = Placeholder
        BY <1>4, <1>7, <1>8 DEF Halfway
    <2>3. /\ \A h \in Groups(b) \ (gs \ {g}) : h \in Groups(p) /\ p.require[h] = b.require[h]
          /\ \A h \in Groups(p) \cap (gs \ {g}) : p.require[h] = {}
        BY <1>4, <1>5, <1>8 DEF Halfway
    <2> QED
        BY <1>9, <2>1, <2>2, <2>3 DEF Halfway
<1>11. GroupRead(m, b, g, q, p)
    <2>1. /\ Uids(q) = Uids(m) /\ Groups(m) \subseteq Groups(q)
          /\ \A c \in Uids(m) : q.classes[c] = m.classes[c]
          /\ \A h \in Groups(m) : q.comps[h] = m.comps[h]
          /\ \A h \in Groups(q) \ Groups(m) : q.comps[h] = {}
        BY <1>2 DEF Named
    <2>2. \A h \in Groups(m) : m.comps[h] \subseteq p.comps[h]
        BY <1>8, <2>1
    <2>3. \A h \in Groups(p) : \A x \in p.comps[h] :
            \/ h \in Groups(m) /\ x \in m.comps[h]
            \/ h = g /\ \E y \in b.comps[g] : x = Found(q, y)
        BY <1>8, <2>1 DEF found
    <2>4. \A y \in b.comps[g] : Found(q, y) \in p.comps[g]
        BY <1>8 DEF found
    <2> QED
        BY <1>5, <1>7, <1>8, <2>1, <2>2, <2>3, <2>4 DEF GroupRead
<1> QED
    BY <1>4, <1>10, <1>11

-----------------------------------------------------------------------------
(* The XML file: what is kept of a model that redefines no field.          *)

\* The fields that were read are those that were written, in the groups they
\* were in; only the fields that identify the classes may be elsewhere.
Moves(x) == \E c : x = <<c, Classname>>
ClassnameShown(m, b, c) == \E a \in {c} \cup ParentsRecc(b)[c] :
    a \in Uids(m) /\ Classname \in DOMAIN m.classes[a].own
Kept(m, b, cs, gs) ==
    /\ \A c \in Uids(m) : \A f \in DOMAIN m.classes[c].own \ {Classname} :
            /\ f \in DOMAIN b.classes[c].own
            /\ m.classes[c].own[f] = ReadField(b.classes[c].own[f])
    /\ \A c \in Uids(b) \ cs :
            /\ DOMAIN b.classes[c].own \ {Classname} \subseteq DOMAIN m.classes[c].own
            /\ ~b.classes[c].abstract => Classname \in DOMAIN m.classes[c].own
            /\ Classname \in DOMAIN b.classes[c].own => ClassnameShown(m, b, c)
    /\ \A g \in Groups(m) : \A x \in m.comps[g] : x \in b.comps[g] \/ Moves(x)
    /\ \A g \in Groups(b) \ gs : \A x \in b.comps[g] : x \in m.comps[g] \/ Moves(x)

\* A class is read, its head and its fields.
LEMMA ClassKept ==
    ASSUME NEW m, NEW b, NEW cs, NEW gs, Halfway(m, b, cs, gs), Kept(m, b, cs, gs),
           Built(b), ~Redefines(b), NEW c \in Uids(b) \cap cs,
           NEW q, HeadRead(m, b, c, q), NEW p, FieldsRead(q, b, c, p),
           Halfway(p, b, cs \ {c}, gs)
    PROVE  Kept(p, b, cs \ {c}, gs)
<1>1. /\ c \in Uids(q) /\ Uids(m) \subseteq Uids(q) /\ Groups(m) \subseteq Groups(q)
      /\ \A x \in Uids(m) \ {c} : q.classes[x] = m.classes[x]
      /\ \A x \in Uids(q) \ (Uids(m) \cup {c}) : q.classes[x] = Placeholder
      /\ DOMAIN q.classes[c].own \subseteq {Classname}
      /\ ~b.classes[c].abstract => Classname \in DOMAIN q.classes[c].own
      /\ c \in Uids(m) => DOMAIN m.classes[c].own \subseteq DOMAIN q.classes[c].own
    BY DEF HeadRead
<1>2. /\ Uids(q) \subseteq Uids(p) /\ Groups(q) \subseteq Groups(p)
      /\ \A x \in Uids(q) \ {c} : p.classes[x] = q.classes[x]
      /\ \A x \in Uids(p) \ Uids(q) : p.classes[x] = Placeholder
      /\ DOMAIN q.classes[c].own \subseteq DOMAIN p.classes[c].own
    BY DEF FieldsRead
<1>3. DOMAIN Placeholder.own = {Classname}
    BY PlaceholderMade
<1>4. ASSUME NEW x \in Uids(p), NEW f \in DOMAIN p.classes[x].own \ {Classname}
      PROVE  /\ f \in DOMAIN b.classes[x].own
             /\ p.classes[x].own[f] = ReadField(b.classes[x].own[f])
    <2>1. CASE x = c
        BY <1>1, <1>2, <2>1 DEF FieldsRead
    <2>2. CASE x # c /\ x \in Uids(m)
        <3>1. p.classes[x] = m.classes[x]
            BY <1>1, <1>2, <2>2
        <3> QED
            BY <2>2, <3>1 DEF Kept
    <2>3. CASE x # c /\ x \notin Uids(m)
        BY <1>1, <1>2, <1>3, <2>3
    <2> QED
        BY <2>1, <2>2, <2>3
<1>5. ASSUME NEW x \in Uids(b) \ (cs \ {c})
      PROVE  /\ DOMAIN b.classes[x].own \ {Classname} \subseteq DOMAIN p.classes[x].own
             /\ ~b.classes[x].abstract => Classname \in DOMAIN p.classes[x].own
             /\ Classname \in DOMAIN b.classes[x].own => ClassnameShown(p, b, x)
    <2>1. CASE x = c
        <3>1. ASSUME NEW f \in DOMAIN b.classes[c].own \ {Classname}
              PROVE  f \in DOMAIN p.classes[c].own
            <4>1. ASSUME NEW a \in ParentsRecc(b)[c], a \in Uids(p),
                         f \in DOMAIN p.classes[a].own
                  PROVE  FALSE
                <5>1. f \in DOMAIN b.classes[a].own
                    BY <1>4, <4>1
                <5> QED
                    BY <4>1, <5>1 DEF Redefines, Uids
            <4> QED
                BY <1>1, <4>1 DEF FieldsRead
        <3>2. Classname \in DOMAIN b.classes[c].own => ClassnameShown(p, b, c)
            BY <1>1, <1>2 DEF FieldsRead, ClassnameShown
        <3> QED
            BY <1>1, <1>2, <2>1, <3>1, <3>2
    <2>2. CASE x # c
        <3>1. x \in Uids(b) \ cs /\ x \in Uids(m)
            BY <2>2 DEF Halfway
        <3>2. p.classes[x] = m.classes[x]
            BY <1>1, <1>2, <2>2, <3>1
        <3>3. \A a \in Uids(m) : /\ a \in Uids(p)
                                 /\ DOMAIN m.classes[a].own \subseteq DOMAIN p.classes[a].own
            BY <1>1, <1>2
        <3>4. ClassnameShown(m, b, x) => ClassnameShown(p, b, x)
            BY <3>3 DEF ClassnameShown
        <3> QED
            BY <3>1, <3>2, <3>4 DEF Kept
    <2> QED
        BY <2>1, <2>2
<1>6. ASSUME NEW g \in Groups(p), NEW x \in p.comps[g]
      PROVE  x \in b.comps[g] \/ Moves(x)
    <2>1. g \in Groups(b) /\ c \in Uids(b)
        BY DEF Halfway
    <2>2. ClassIn(b, g, x) \/ FieldIn(b, g, x) => x \in b.comps[g]
        BY <2>1 DEF Built, Filed
    <2>3. CASE \E f \in DOMAIN b.classes[c].own :
                    x = <<c, f>> /\ b.classes[c].own[f].group = g
        BY <2>1, <2>2, <2>3 DEF FieldIn
    <2>4. CASE g \in Groups(m) /\ x \in m.comps[g]
        BY <2>4 DEF Kept
    <2>5. CASE g = b.classes[c].group /\ x = <<c>>
        BY <2>1, <2>2, <2>5 DEF ClassIn
    <2>6. CASE x = <<c, Classname>>
        BY <2>6 DEF Moves
    <2> QED
        BY <2>3, <2>4, <2>5, <2>6 DEF HeadRead, FieldsRead
<1>7. ASSUME NEW g \in Groups(b) \ gs, NEW x \in b.comps[g]
      PROVE  x \in p.comps[g] \/ Moves(x)
    <2>1. g \in Groups(m) /\ (x \in m.comps[g] \/ Moves(x))
        BY DEF Halfway, Kept
    <2>2. m.comps[g] \subseteq q.comps[g] /\ g \in Groups(q)
        BY <2>1 DEF HeadRead
    <2>3. q.comps[g] \subseteq p.comps[g]
        BY <2>2 DEF FieldsRead
    <2> QED
        BY <2>1, <2>2, <2>3
<1> QED
    BY <1>4, <1>5, <1>6, <1>7 DEF Kept

\* The components of a group are found as they were written.
LEMMA FoundAgain ==
    ASSUME NEW m, NEW b, NEW gs, Halfway(m, b, {}, gs), Kept(m, b, {}, gs), Built(b),
           NEW q, Halfway(q, b, {}, gs), Uids(q) = Uids(m),
           \A c \in Uids(m) : q.classes[c] = m.classes[c],
           NEW g \in Groups(b), NEW y \in b.comps[g]
    PROVE  Found(q, y) = y \/ (Moves(y) /\ Moves(Found(q, y)))
<1>1. ClassIn(b, g, y) \/ FieldIn(b, g, y)
    BY DEF Built, Filed
<1>2. CASE ClassIn(b, g, y)
    <2>1. PICK c : y = <<c>>
        BY <1>2 DEF ClassIn
    <2> QED
        BY <2>1 DEF Found
<1>3. CASE FieldIn(b, g, y)
    <2>1. PICK c \in Uids(b) : \E f \in DOMAIN b.classes[c].own : y = <<c, f>>
        BY <1>3 DEF FieldIn
    <2>2. PICK f \in DOMAIN b.classes[c].own : y = <<c, f>>
        BY <2>1
    <2>3. Found(q, y) = <<AllFields(q)[c][f], f>>
        BY <2>2 DEF Found
    <2>4. CASE f = Classname
        BY <2>2, <2>3, <2>4 DEF Moves
    <2>5. CASE f # Classname
        <3>1. c \in Uids(q) /\ f \in DOMAIN q.classes[c].own
            BY <2>5 DEF Halfway, Kept
        <3>2. Complete(q) /\ NoLoop(q)
            BY HalfwayNoLoop DEF Halfway, Built
        <3>3. AllFields(q)[c][f] = c
            BY <3>1, <3>2, Shown
        <3> QED
            BY <2>2, <2>3, <3>3
    <2> QED
        BY <2>4, <2>5
<1> QED
    BY <1>1, <1>2, <1>3

\* A group is read, after all the classes.
LEMMA GroupKept ==
    ASSUME NEW m, NEW b, NEW gs, Halfway(m, b, {}, gs), Kept(m, b, {}, gs), Built(b),
           NEW g \in Groups(b) \cap gs,
           NEW q, Halfway(q, b, {}, gs), NEW p, GroupRead(m, b, g, q, p),
           Halfway(p, b, {}, gs \ {g})
    PROVE  Kept(p, b, {}, gs \ {g})
<1>1. /\ Uids(q) = Uids(m) /\ Uids(p) = Uids(m) /\ Groups(m) \subseteq Groups(p)
      /\ \A c \in Uids(m) : q.classes[c] = m.classes[c] /\ p.classes[c] = m.classes[c]
    BY DEF GroupRead
<1>2. \A y \in b.comps[g] : Found(q, y) = y \/ (Moves(y) /\ Moves(Found(q, y)))
    BY <1>1, FoundAgain
<1>3. /\ \A c \in Uids(p) : \A f \in DOMAIN p.classes[c].own \ {Classname} :
            /\ f \in DOMAIN b.classes[c].own
            /\ p.classes[c].own[f] = ReadField(b.classes[c].own[f])
      /\ \A c \in Uids(b) \ {} :
            /\ DOMAIN b.classes[c].own \ {Classname} \subseteq DOMAIN p.classes[c].own
            /\ ~b.classes[c].abstract => Classname \in DOMAIN p.classes[c].own
            /\ Classname \in DOMAIN b.classes[c].own => ClassnameShown(p, b, c)
    <2>1. Uids(b) \subseteq Uids(m)
        BY DEF Halfway
    <2>2. \A c : ClassnameShown(m, b, c) => ClassnameShown(p, b, c)
        BY <1>1 DEF ClassnameShown
    <2> QED
        BY <1>1, <2>1, <2>2 DEF Kept
<1>4. ASSUME NEW h \in Groups(p), NEW x \in p.comps[h]
      PROVE  x \in b.comps[h] \/ Moves(x)
    <2>1. CASE h \in Groups(m) /\ x \in m.comps[h]
        BY <2>1 DEF Kept
    <2>2. CASE h = g /\ \E y \in b.comps[g] : x = Found(q, y)
        BY <1>2, <2>2
    <2> QED
        BY <2>1, <2>2 DEF GroupRead
<1>5. ASSUME NEW h \in Groups(b) \ (gs \ {g}), NEW x \in b.comps[h]
      PROVE  x \in p.comps[h] \/ Moves(x)
    <2>1. CASE h = g
        BY <1>2, <2>1 DEF GroupRead
    <2>2. CASE h # g
        <3>1. h \in Groups(m) /\ (x \in m.comps[h] \/ Moves(x))
            BY <2>2 DEF Halfway, Kept
        <3>2. m.comps[h] \subseteq p.comps[h]
            BY <3>1 DEF GroupRead
        <3> QED
            BY <3>1, <3>2
    <2> QED
        BY <2>1, <2>2
<1> QED
    BY <1>3, <1>4, <1>5 DEF Kept

\* What is read is as it was written when it is written and read again.
LEMMA ReadTwice ==
    ASSUME NEW field, IsField(field)
    PROVE  ReadField(ReadField(field)) = ReadField(field)
<1>1. \A v : Translated(Translated(v)) = Translated(v)
    BY NoneAssumption DEF Translated
<1> DEFINE opts == [o \in DOMAIN field.opts |-> Translated(field.opts[o])]
<1>2. [o \in DOMAIN opts |-> Translated(opts[o])] = opts
    BY <1>1
<1>3. ReadField(field) = [field EXCEPT !.opts = opts]
    BY DEF ReadField
<1> HIDE DEF opts
<1>4. ReadField(field) = [handler |-> field.handler, group |-> field.group,
                          refs |-> field.refs, back |-> field.back, opts |-> opts]
    BY <1>3 DEF IsField
<1>5. /\ ReadField(field).opts = opts
      /\ ReadField(field) = [ReadField(field) EXCEPT !.opts = opts]
    BY <1>4
<1> QED
    BY <1>2, <1>5 DEF ReadField

\* Once all is read: the classes, what the groups require and the components.
LEMMA AllKept ==
    ASSUME NEW m, NEW b, Halfway(m, b, {}, {}), Kept(m, b, {}, {}), Built(b)
    PROVE  /\ Apart(m) = Apart(b)
           /\ m.require = b.require
           /\ \A g \in Groups(b) : Outright(m.comps[g]) = Outright(b.comps[g])
           /\ \A c \in Uids(b) :
                ~b.classes[c].abstract => Classname \in DOMAIN AllFields(m)[c]
<1>1. /\ Complete(m) /\ NoLoop(m) /\ Complete(b)
      /\ Uids(m) = Uids(b) /\ Groups(m) = Groups(b)
    BY HalfwayNoLoop DEF Halfway, Built
<1>2. ASSUME NEW c \in Uids(b) PROVE Apart(m)[c] = Apart(b)[c]
    <2> DEFINE own(n) == [f \in DOMAIN n.classes[c].own \ {Classname} |->
                            ReadField(n.classes[c].own[f])]
               class == b.classes[c]
    <2>1. /\ IsClass(m.classes[c]) /\ IsClass(class) /\ Alike(m.classes[c], class)
          /\ \A f \in DOMAIN class.own : IsField(class.own[f])
        BY <1>1 DEF Halfway, Complete, ClassMade, FieldMade
    <2>2. /\ DOMAIN m.classes[c].own \ {Classname} = DOMAIN class.own \ {Classname}
          /\ \A f \in DOMAIN class.own \ {Classname} :
                m.classes[c].own[f] = ReadField(class.own[f])
        BY <1>1 DEF Kept
    <2>3. \A f \in DOMAIN class.own \ {Classname} :
            ReadField(m.classes[c].own[f]) = ReadField(class.own[f])
        BY <2>1, <2>2, ReadTwice
    <2>4. own(m) = own(b)
        BY <2>2, <2>3
    <2>5. ASSUME NEW n, IsClass(n.classes[c]), c \in Uids(n)
          PROVE  Apart(n)[c] = [parents |-> n.classes[c].parents,
                                abstract |-> n.classes[c].abstract,
                                pure |-> n.classes[c].pure, group |-> n.classes[c].group,
                                own |-> own(n)]
        <3> DEFINE o == own(n)
        <3>1. Apart(n)[c] = [n.classes[c] EXCEPT !.own = o]
            BY <2>5 DEF Apart, Uids
        <3> HIDE DEF o
        <3>2. [n.classes[c] EXCEPT !.own = o]
                = [parents |-> n.classes[c].parents, abstract |-> n.classes[c].abstract,
                   pure |-> n.classes[c].pure, group |-> n.classes[c].group, own |-> o]
            BY <2>5 DEF IsClass
        <3> QED
            BY <3>1, <3>2 DEF o
    <2> HIDE DEF own
    <2> QED
        BY <1>1, <2>1, <2>4, <2>5 DEF Alike
<1>3. Apart(m) = Apart(b)
    <2> DEFINE class(n, c) == [n.classes[c] EXCEPT !.own =
                                [f \in DOMAIN @ \ {Classname} |-> ReadField(@[f])]]
    <2>1. \A n : Apart(n) = [c \in Uids(n) |-> class(n, c)]
        BY DEF Apart, Uids
    <2>2. \A c \in Uids(b) : class(m, c) = class(b, c)
        BY <1>1, <1>2, <2>1
    <2> HIDE DEF class
    <2> QED
        BY <1>1, <2>1, <2>2
<1>4. m.require = b.require
    <2>1. /\ DOMAIN m.require = DOMAIN b.require
          /\ \A g \in DOMAIN b.require : m.require[g] = b.require[g]
        BY <1>1 DEF Halfway, Groups
    <2>2. /\ m.require = [g \in DOMAIN m.require |-> m.require[g]]
          /\ b.require = [g \in DOMAIN b.require |-> b.require[g]]
        BY <1>1 DEF Complete
    <2> QED
        BY <2>1, <2>2
<1>5. ASSUME NEW g \in Groups(b)
      PROVE  Outright(m.comps[g]) = Outright(b.comps[g])
    <2>1. ASSUME NEW x, Moves(x) PROVE ~(Len(x) = 2 => x[2] # Classname)
        BY <2>1 DEF Moves
    <2>2. \A x : (x \in m.comps[g] <=> x \in b.comps[g]) \/ Moves(x)
        BY <1>1 DEF Kept
    <2> QED
        BY <2>1, <2>2 DEF Outright
<1>6. ASSUME NEW c \in Uids(b), ~b.classes[c].abstract
      PROVE  Classname \in DOMAIN AllFields(m)[c]
    <2>1. Classname \in DOMAIN m.classes[c].own
        BY <1>6 DEF Kept
    <2> QED
        BY <1>1, <2>1, Shown
<1> QED
    BY <1>3, <1>4, <1>5, <1>6

-----------------------------------------------------------------------------
(* The XML file: what is written can be read.                              *)

\* The uids of objects that are called by them.
LEMMA UidsOnce ==
    ASSUME NEW S, \A x \in S : Uid(x) = x
    PROVE  UidsOf(S) = S
    BY DEF UidsOf

\* When no uid was made twice, what is written are the objects themselves.
LEMMA WrittenOnce ==
    ASSUME NEW b, Complete(b), Whole(b)
    PROVE  /\ \A c \in Uids(b) : WrittenClass(b, c) = b.classes[c]
           /\ \A g \in Groups(b) : UidsOf(b.require[g]) = b.require[g]
           /\ Filed(b) => \A g \in Groups(b) : WrittenComps(b, g) = b.comps[g]
<1>1. \A x \in Uids(b) \cup Groups(b) \cup {None} : Uid(x) = x
    BY UidAssumption DEF Whole, Uids
<1>2. ASSUME NEW c \in Uids(b) PROVE WrittenClass(b, c) = b.classes[c]
    <2> DEFINE class == b.classes[c]
               parents == [i \in DOMAIN class.parents |-> Uid(class.parents[i])]
               own == [f \in DOMAIN class.own |-> WrittenField(class.own[f])]
    <2>1. /\ IsClass(class) /\ class.parents \in Seq(Uids(b))
          /\ class.group \in Groups(b) \cup {None}
          /\ class.own = [f \in DOMAIN class.own |-> class.own[f]]
          /\ \A f \in DOMAIN class.own : FieldMade(b, class.own[f])
        BY DEF Complete, ClassMade
    <2>2. parents = class.parents
        <3>1. \A i \in DOMAIN class.parents : class.parents[i] \in Uids(b)
            BY <2>1
        <3>2. \A i \in DOMAIN class.parents : Uid(class.parents[i]) = class.parents[i]
            BY <1>1, <3>1
        <3>3. class.parents = [i \in DOMAIN class.parents |-> class.parents[i]]
            BY <2>1
        <3> QED
            BY <3>2, <3>3
    <2>3. \A f \in DOMAIN class.own : WrittenField(class.own[f]) = class.own[f]
        <3>1. ASSUME NEW field, FieldMade(b, field) PROVE WrittenField(field) = field
            <4>1. UidsOf(field.refs) = field.refs /\ Uid(field.group) = field.group
                BY <1>1, <3>1, UidsOnce DEF FieldMade
            <4>2. WrittenField(field) = [field EXCEPT !.refs = field.refs, !.group = field.group]
                BY <4>1 DEF WrittenField
            <4> QED
                BY <3>1, <4>2 DEF FieldMade, IsField
        <3> QED
            BY <2>1, <3>1
    <2>4. own = class.own
        BY <2>1, <2>3
    <2>5. WrittenClass(b, c) = [class EXCEPT !.parents = parents, !.group = Uid(class.group),
                                             !.own = own]
        BY DEF WrittenClass
    <2> HIDE DEF class, parents, own
    <2>6. WrittenClass(b, c) = [class EXCEPT !.parents = class.parents,
                                             !.group = class.group, !.own = class.own]
        BY <1>1, <2>1, <2>2, <2>4, <2>5
    <2>7. WrittenClass(b, c) = class
        BY <2>1, <2>6 DEF IsClass
    <2> QED
        BY <2>7 DEF class
<1>3. ASSUME NEW g \in Groups(b) PROVE UidsOf(b.require[g]) = b.require[g]
    BY <1>1, UidsOnce DEF Complete
<1>4. ASSUME Filed(b), NEW g \in Groups(b) PROVE WrittenComps(b, g) = b.comps[g]
    <2>1. ASSUME NEW x \in b.comps[g] PROVE [x EXCEPT ![1] = Uid(x[1])] = x
        <3>1. ClassIn(b, g, x) \/ FieldIn(b, g, x)
            BY <1>4 DEF Filed
        <3>2. CASE ClassIn(b, g, x)
            <4>1. PICK c \in Uids(b) : x = <<c>>
                BY <3>2 DEF ClassIn
            <4> QED
                BY <1>1, <4>1
        <3>3. CASE FieldIn(b, g, x)
            <4>1. PICK c \in Uids(b) : \E f \in DOMAIN b.classes[c].own : x = <<c, f>>
                BY <3>3 DEF FieldIn
            <4> QED
                BY <1>1, <4>1
        <3> QED
            BY <3>1, <3>2, <3>3
    <2> QED
        BY <2>1 DEF WrittenComps
<1> QED
    BY <1>2, <1>3, <1>4

\* The fields of a class can be listed once its head is read.
LEMMA ClassReads ==
    ASSUME NEW m, NEW b, NEW cs, NEW gs, Halfway(m, b, cs, gs), Complete(b), NoLoop(b),
           NEW c \in Uids(b) \cap cs
    PROVE  ReadsClass(m, c, b.classes[c])
<1> DEFINE p == LoadHead(m, c, b.classes[c])
<1>1. Halfway(p, b, cs \ {c}, gs) /\ HeadRead(m, b, c, p)
    BY LoadHeadReads
<1> HIDE DEF p
<1>2. Acyclic(Parents(p)) /\ c \in DOMAIN Parents(p)
    BY <1>1, HalfwayNoLoop DEF HeadRead, NoLoop, Parents, Uids
<1> QED
    BY <1>2, AcyclicEnds DEF ReadsClass, p

\* A group can be read after all the classes: its fields are there, and it does
\* not come to require itself.
LEMMA GroupReads ==
    ASSUME NEW m, NEW b, NEW gs, Halfway(m, b, {}, gs), Kept(m, b, {}, gs), Built(b),
           NEW g \in Groups(b) \cap gs
    PROVE  ReadsGroup(m, g, b.require[g], b.comps[g])
<1> DEFINE p == PutMissingGroups(m, b.require[g] \cup {g})
<1>1. Complete(b) /\ NoLoop(b) /\ Filed(b)
    BY DEF Built
<1>2. Halfway(p, b, {}, gs) /\ Named(m, {}, b.require[g] \cup {g}, p)
    <2> DEFINE hs == b.require[g] \cup {g}
    <2>1. hs \subseteq Groups(b) /\ hs \ {None} = hs /\ {} \subseteq Uids(b)
        BY <1>1 DEF Complete
    <2>2. IsFiniteSet(hs)
        BY <1>1, <2>1, NamedFinite
    <2>3. Complete(m) /\ Whole(m) /\ \A x \in hs \ {None} : Uid(x) = x
        BY <2>1 DEF Halfway, Whole, Uids
    <2> HIDE DEF hs
    <2>4. Complete(PutMissingGroups(m, hs)) /\ Named(m, {}, hs, PutMissingGroups(m, hs))
        BY <2>2, <2>3, PutMissingGroupsNames
    <2> QED
        BY <2>1, <2>4, NamingReadsNothing DEF hs
<1> HIDE DEF p
<1>3. /\ Complete(p) /\ NoLoop(p) /\ Uids(p) = Uids(m) /\ Uids(p) = Uids(b)
      /\ \A c \in Uids(m) : p.classes[c] = m.classes[c]
      /\ \A x \in Groups(p) : Uid(x) = x
      /\ g \in Groups(p) /\ b.require[g] \subseteq Groups(p)
    <2>1. Uids(p) = Uids(m) /\ Uids(p) = Uids(b)
        BY <1>2 DEF Named, Halfway
    <2>2. \A c \in Uids(m) : p.classes[c] = m.classes[c]
        BY <1>2 DEF Named
    <2>3. \A x \in Groups(p) : Uid(x) = x
        BY <1>2 DEF Halfway, Whole
    <2>4. b.require[g] \cup {g} \subseteq Groups(p)
        BY <1>1, <1>2 DEF Named, Complete
    <2> QED
        BY <1>1, <1>2, <2>1, <2>2, <2>3, <2>4, HalfwayNoLoop DEF Halfway
<1>4. /\ Acyclic(Parents(p)) /\ DOMAIN Parents(p) = Uids(p)
      /\ Acyclic(p.require) /\ DOMAIN p.require = Groups(p)
    BY <1>3 DEF NoLoop, Parents, Uids, Groups
<1>5. ParentsRecc(p) = ParentsRecc(b)
    <2>1. \A c \in Uids(b) : p.classes[c].parents = b.classes[c].parents
        BY <1>2 DEF Halfway, Alike
    <2>2. Parents(p) = Parents(b)
        BY <1>3, <2>1, SameParents
    <2> QED
        BY <2>2 DEF ParentsRecc
<1>6. ASSUME NEW x \in b.comps[g], Len(x) = 2
      PROVE  ~Endless(Parents(p), x[1]) /\ x[2] \in DOMAIN AllFields(p)[x[1]]
    <2>1. ClassIn(b, g, x) \/ FieldIn(b, g, x)
        BY <1>1 DEF Filed
    <2>2. FieldIn(b, g, x)
        <3>1. ASSUME ClassIn(b, g, x) PROVE FALSE
            <4>1. PICK c : x = <<c>>
                BY <3>1 DEF ClassIn
            <4> QED
                BY <1>6, <4>1
        <3> QED
            BY <2>1, <3>1
    <2>3. PICK c \in Uids(b) : \E f \in DOMAIN b.classes[c].own : x = <<c, f>>
        BY <2>2 DEF FieldIn
    <2>4. PICK f \in DOMAIN b.classes[c].own : x = <<c, f>>
        BY <2>3
    <2>5. \E a \in {c} \cup ParentsRecc(b)[c] : a \in Uids(m) /\ f \in DOMAIN m.classes[a].own
        <3>1. CASE f = Classname
            <4>1. ClassnameShown(m, b, c)
                BY <3>1 DEF Kept
            <4> QED
                BY <3>1, <4>1 DEF ClassnameShown
        <3>2. CASE f # Classname
            BY <1>3, <3>2 DEF Kept
        <3> QED
            BY <3>1, <3>2
    <2>6. \E a \in {c} \cup ParentsRecc(p)[c] : f \in DOMAIN p.classes[a].own
        BY <1>3, <1>5, <2>5
    <2>7. DOMAIN AllFields(p)[c] = UNION {DOMAIN p.classes[a].own :
                                            a \in {c} \cup ParentsRecc(p)[c]}
        BY <1>3, <1>4, ParentsListed, FieldsShown DEF Uids
    <2>8. f \in DOMAIN AllFields(p)[c]
        BY <2>6, <2>7
    <2>9. ~Endless(Parents(p), c)
        BY <1>3, <1>4, AcyclicEnds
    <2> QED
        BY <2>4, <2>8, <2>9
<1>7. ASSUME NEW d \in b.require[g]
      PROVE  ~Endless(p.require, d) /\ ~Circular(p, g, d)
    <2>1. d \in Groups(p)
        BY <1>3
    <2>2. /\ Acyclic(b.require) /\ DOMAIN b.require = Groups(b)
          /\ Groups(p) \subseteq Groups(b)
          /\ \A h \in Groups(p) : p.require[h] \subseteq b.require[h]
        <3>1. \A h \in Groups(p) : h \in Groups(b) /\ p.require[h] \subseteq b.require[h]
            BY <1>2 DEF Halfway
        <3> QED
            BY <1>1, <3>1 DEF NoLoop, Groups
    <2>3. Above(p.require)[d] \subseteq Above(b.require)[d]
        BY <1>4, <2>1, <2>2, AboveGrows
    <2>4. g \notin Above(b.require)[g] /\ Above(b.require)[d] \subseteq Above(b.require)[g]
        BY <2>2, AboveFacts
    <2>5. Above(p.require)[d] \subseteq Groups(p)
        BY <1>4, <2>1, AboveFacts
    <2>6. ~Circular(p, g, d)
        BY <1>3, <2>3, <2>4, <2>5 DEF Circular
    <2>7. ~Endless(p.require, d)
        BY <1>4, <2>1, AcyclicEnds
    <2> QED
        BY <2>6, <2>7
<1> QED
    BY <1>6, <1>7 DEF ReadsGroup, p

-----------------------------------------------------------------------------
(* The order of the generated classes.                                     *)

\* The places of the elements of a finite set, of which below says what comes
\* before each, are the numbers of the elements.
Ordered(S, below) ==
    /\ \A c \in S : below[c] \subseteq S /\ c \notin below[c]
    /\ \A c \in S : \A d \in below[c] : below[d] \subseteq below[c]
    /\ \A c, d \in S : c = d \/ c \in below[d] \/ d \in below[c]
LEMMA Places ==
    ASSUME NEW S, IsFiniteSet(S), NEW below, Ordered(S, below),
           NEW place, place = [c \in S |-> 1 + Cardinality(below[c])]
    PROVE  /\ \A c \in S : place[c] \in 1..Cardinality(S)
           /\ \A c \in S : \A d \in below[c] : place[d] < place[c]
           /\ \A c, d \in S : place[c] = place[d] => c = d
           /\ \A k \in 1..Cardinality(S) : \E c \in S : place[c] = k
<1>1. Cardinality(S) \in Nat
    BY FS_CardinalityType
<1>2. ASSUME NEW c \in S
      PROVE  /\ IsFiniteSet(below[c]) /\ Cardinality(below[c]) \in Nat
             /\ Cardinality(below[c]) < Cardinality(S)
    <2>1. below[c] \subseteq S \ {c}
        BY DEF Ordered
    <2>2. IsFiniteSet(S \ {c}) /\ Cardinality(S \ {c}) = Cardinality(S) - 1
        BY FS_RemoveElement
    <2>3. IsFiniteSet(below[c]) /\ Cardinality(below[c]) <= Cardinality(S \ {c})
        BY <2>1, <2>2, FS_Subset
    <2> QED
        BY <1>1, <2>2, <2>3, FS_CardinalityType
<1>3. \A c \in S : place[c] \in 1..Cardinality(S)
    BY <1>1, <1>2
<1>4. ASSUME NEW c \in S, NEW d \in below[c] PROVE place[d] < place[c]
    <2>1. d \in S /\ d \notin below[d] /\ below[d] \cup {d} \subseteq below[c]
        BY DEF Ordered
    <2>2. /\ IsFiniteSet(below[d]) /\ Cardinality(below[d]) \in Nat
          /\ Cardinality(below[c]) \in Nat /\ IsFiniteSet(below[c])
        BY <1>2, <2>1
    <2>3. Cardinality(below[d] \cup {d}) = Cardinality(below[d]) + 1
        BY <2>1, <2>2, FS_AddElement
    <2>4. Cardinality(below[d] \cup {d}) <= Cardinality(below[c])
        BY <2>1, <2>2, FS_Subset
    <2> QED
        BY <2>1, <2>2, <2>3, <2>4
<1>5. ASSUME NEW c \in S, NEW d \in S, place[c] = place[d] PROVE c = d
    <2>1. CASE c \in below[d]
        BY <1>3, <1>4, <1>5, <2>1
    <2>2. CASE d \in below[c]
        BY <1>3, <1>4, <1>5, <2>2
    <2> QED
        BY <2>1, <2>2 DEF Ordered
<1>6. \A k \in 1..Cardinality(S) : \E c \in S : place[c] = k
    <2>1. place \in Injection(S, 1..Cardinality(S))
        BY <1>3, <1>5 DEF Injection, IsInjective
    <2>2. IsFiniteSet(1..Cardinality(S)) /\ Cardinality(1..Cardinality(S)) = Cardinality(S)
        BY <1>1, FS_Interval
    <2>3. place \in Surjection(S, 1..Cardinality(S))
        BY <2>1, <2>2, FS_Injection
    <2> QED
        BY <2>3 DEF Surjection
<1> QED
    BY <1>3, <1>4, <1>5, <1>6

\* Precedes orders the classes, and puts parents first.
LEMMA PrecedesOrders ==
    ASSUME NEW m, Complete(m), NoLoop(m), NEW S, S \subseteq Uids(m),
           NEW order, Lists(order, Uids(m)),
           NEW anc, anc = ParentsRecc(m),
           NEW below, below = [c \in S |-> {d \in S : Precedes(anc, order, d, c)}]
    PROVE  /\ Ordered(S, below)
           /\ \A c, p \in S : p \in Range(m.classes[c].parents) => p \in below[c]
<1> DEFINE rank == [c \in Uids(m) |-> Cardinality(anc[c])]
           at == [c \in Uids(m) |-> CHOOSE i \in DOMAIN order : order[i] = c]
<1>1. IsFiniteSet(Uids(m)) /\ Acyclic(Parents(m)) /\ DOMAIN Parents(m) = Uids(m)
    BY DEF Complete, NoLoop, Parents, Uids
<1>2. \A c \in Uids(m) : /\ anc[c] \subseteq Uids(m) /\ IsFiniteSet(anc[c])
                         /\ rank[c] \in Nat
    <2>1. ASSUME NEW c \in Uids(m) PROVE anc[c] \subseteq Uids(m)
        BY AboveClass
    <2> QED
        BY <1>1, <2>1, FS_Subset, FS_CardinalityType
<1>3. \A c \in Uids(m) : at[c] \in Nat /\ order[at[c]] = c
    BY DEF Lists
<1>4. \A c, d \in Uids(m) : at[c] = at[d] => c = d
    BY <1>3
<1>5. \A c, d \in S : d \in below[c] <=>
            rank[d] < rank[c] \/ (rank[d] = rank[c] /\ at[d] < at[c])
    BY DEF Precedes
<1>6. \A c \in S : below[c] \subseteq S
    OBVIOUS
<1>7. ASSUME NEW c \in Uids(m), NEW p \in Range(m.classes[c].parents)
      PROVE  p \in Uids(m) /\ rank[p] < rank[c]
    <2>1. p \in Parents(m)[c]
        BY DEF Parents, Uids
    <2>2. p \in Uids(m) /\ anc[p] \subseteq anc[c] /\ p \in anc[c]
        BY <1>1, <2>1, AboveFacts DEF ParentsRecc
    <2>3. p \notin anc[p]
        BY <2>2, AboveClass
    <2>4. Cardinality(anc[p] \cup {p}) = rank[p] + 1
        BY <1>2, <2>2, <2>3, FS_AddElement
    <2>5. Cardinality(anc[p] \cup {p}) <= rank[c]
        BY <1>2, <2>2, FS_Subset
    <2> QED
        BY <1>2, <2>2, <2>4, <2>5
<1> HIDE DEF rank, at
<1>8. Ordered(S, below)
    <2>1. \A c \in S : c \notin below[c]
        BY <1>2, <1>3, <1>5
    <2>2. ASSUME NEW c \in S, NEW d \in below[c], NEW e \in below[d] PROVE e \in below[c]
        <3>1. d \in S /\ e \in S
            BY <1>6
        <3>2. /\ rank[c] \in Nat /\ rank[d] \in Nat /\ rank[e] \in Nat
              /\ at[c] \in Nat /\ at[d] \in Nat /\ at[e] \in Nat
            BY <1>2, <1>3, <3>1
        <3>3. /\ rank[d] < rank[c] \/ (rank[d] = rank[c] /\ at[d] < at[c])
              /\ rank[e] < rank[d] \/ (rank[e] = rank[d] /\ at[e] < at[d])
            BY <1>5, <3>1
        <3>4. rank[e] < rank[c] \/ (rank[e] = rank[c] /\ at[e] < at[c])
            BY <3>2, <3>3
        <3> QED
            BY <1>5, <3>1, <3>4
    <2>3. ASSUME NEW c \in S, NEW d \in S PROVE c = d \/ c \in below[d] \/ d \in below[c]
        BY <1>2, <1>3, <1>4, <1>5
    <2> QED
        BY <1>6, <2>1, <2>2, <2>3 DEF Ordered
<1>9. ASSUME NEW c \in S, NEW p \in S, p \in Range(m.classes[c].parents) PROVE p \in below[c]
    BY <1>5, <1>7, <1>9
<1> QED
    BY <1>8, <1>9

\* The classes that are not pure, each once, and parents first.
LEMMA ClassesSorted ==
    ASSUME NEW m, Complete(m), NoLoop(m), NEW classes, classes \subseteq Uids(m),
           NEW order, Lists(order, Uids(m))
    PROVE  LET seq == GetClasses(m, classes, order)
           IN  /\ DOMAIN seq = 1..Cardinality(NotPure(m, classes))
               /\ Range(seq) = NotPure(m, classes)
               /\ \A i, j \in DOMAIN seq :
                    seq[i] \in Range(m.classes[seq[j]].parents) => i < j
<1> DEFINE anc == ParentsRecc(m)
           S == NotPure(m, classes)
           below == [c \in S |-> {d \in S : Precedes(anc, order, d, c)}]
           spot(c) == 1 + Cardinality({d \in S : Precedes(anc, order, d, c)})
           place == [c \in S |-> 1 + Cardinality(below[c])]
           n == Cardinality(S)
<1> SUFFICES ASSUME NEW seq, seq = GetClasses(m, classes, order)
             PROVE  /\ DOMAIN seq = 1..n /\ Range(seq) = S
                    /\ \A i, j \in DOMAIN seq :
                        seq[i] \in Range(m.classes[seq[j]].parents) => i < j
    OBVIOUS
<1>1. S \subseteq Uids(m) /\ IsFiniteSet(S)
    BY FS_Subset DEF Complete, NotPure
<1>2. /\ Ordered(S, below)
      /\ \A c, p \in S : p \in Range(m.classes[c].parents) => p \in below[c]
    BY <1>1, PrecedesOrders
<1>3. seq = [k \in 1..n |-> CHOOSE c \in S : spot(c) = k]
    BY DEF GetClasses
<1>4. \A c \in S : place[c] = spot(c)
    OBVIOUS
<1> HIDE DEF spot, S, below
<1>5. place = [c \in S |-> 1 + Cardinality(below[c])] /\ n = Cardinality(S)
    OBVIOUS
<1> HIDE DEF place, n
<1>6. /\ \A c \in S : place[c] \in 1..n
      /\ \A c \in S : \A d \in below[c] : place[d] < place[c]
      /\ \A c, d \in S : place[c] = place[d] => c = d
      /\ \A k \in 1..n : \E c \in S : place[c] = k
    BY <1>1, <1>2, <1>5, Places
<1>7. \A k \in 1..n : seq[k] \in S /\ place[seq[k]] = k
    BY <1>3, <1>4, <1>6
<1>8. DOMAIN seq = 1..n
    BY <1>3
<1>9. Range(seq) = S
    BY <1>6, <1>7, <1>8 DEF Range
<1>10. ASSUME NEW i \in DOMAIN seq, NEW j \in DOMAIN seq,
              seq[i] \in Range(m.classes[seq[j]].parents)
       PROVE  i < j
    BY <1>2, <1>6, <1>7, <1>8, <1>10
<1> QED
    BY <1>8, <1>9, <1>10

-----------------------------------------------------------------------------
(* The active part of a model, and the import of its classes.              *)

\* The classes of some groups when no uid was made twice.
LEMMA OneOfEach ==
    ASSUME NEW m, NEW gs, NEW classes \in ActiveClasses(m, gs)
    PROVE  classes \subseteq InGroups(m, gs) /\ (Whole(m) => classes = InGroups(m, gs))
<1> DEFINE found == InGroups(m, gs)
           others(c) == {d \in found \ {c} : Uid(d) = Uid(c)}
<1>1. PICK S \in SUBSET {c \in found : others(c) # {}} : classes = found \ S
    BY DEF ActiveClasses
<1>2. ASSUME Whole(m), NEW c \in found PROVE others(c) = {}
    <2>1. \A d \in found : Uid(d) = d
        BY <1>2 DEF Whole, InGroups
    <2> QED
        BY <1>2, <2>1
<1> HIDE DEF found
<1> QED
    BY <1>1, <1>2 DEF found

\* The model the code is generated from: all of it for the editor, or else the
\* active classes with the fields that are in an active group.
OfGroups(m, gs, classes) ==
    /\ classes = InGroups(m, gs)
    /\ \A c \in classes : \A f \in DOMAIN m.classes[c].own :
            \E g \in gs : <<c, f>> \in m.comps[g]
Loaded(m, gs, classes) ==
    /\ Complete(m) /\ NoLoop(m) /\ gs \subseteq Groups(m) /\ classes \subseteq Uids(m)
    /\ Whole(m) => classes = Uids(m) \/ OfGroups(m, gs, classes)
LEMMA ActiveLoaded ==
    ASSUME NEW m, Complete(m), NoLoop(m), NEW gs, gs \subseteq Groups(m),
           NEW active_ \in ActiveClasses(m, gs)
    PROVE  Loaded(KeepActiveFields(m, gs, active_), gs, active_)
<1> DEFINE comps == UNION {m.comps[g] : g \in gs}
           kept(c) == [f \in {f \in DOMAIN m.classes[c].own : <<c, f>> \in comps} |->
                        m.classes[c].own[f]]
           classes == [c \in DOMAIN m.classes |->
                        IF c \in active_ THEN [m.classes[c] EXCEPT !.own = kept(c)]
                        ELSE m.classes[c]]
<1> SUFFICES ASSUME NEW p, p = [m EXCEPT !.classes = classes]
             PROVE  Loaded(p, gs, active_)
    BY DEF KeepActiveFields
<1>1. /\ DOMAIN classes = Uids(m)
      /\ \A c \in active_ : c \in Uids(m) =>
            classes[c] = [m.classes[c] EXCEPT !.own = kept(c)]
      /\ \A c \in Uids(m) \ active_ : classes[c] = m.classes[c]
    BY DEF Uids
<1>2. /\ \A c : DOMAIN kept(c) \subseteq DOMAIN m.classes[c].own
      /\ \A c : \A f \in DOMAIN kept(c) : /\ kept(c)[f] = m.classes[c].own[f]
                                          /\ \E g \in gs : <<c, f>> \in m.comps[g]
    OBVIOUS
<1>3. active_ \subseteq Uids(m) /\ (Whole(m) => active_ = InGroups(m, gs))
    <2>1. InGroups(m, gs) \subseteq Uids(m)
        BY DEF InGroups, Uids
    <2> QED
        BY <2>1, OneOfEach
<1> HIDE DEF classes, kept
<1>4. p = [names |-> m.names, groups |-> m.groups, classes |-> classes,
           require |-> m.require, comps |-> m.comps]
    BY DEF Complete, IsModel
<1>5. /\ IsModel(p) /\ p.names = m.names /\ p.groups = m.groups /\ p.classes = classes
      /\ p.require = m.require /\ p.comps = m.comps
      /\ Uids(p) = Uids(m) /\ Groups(p) = Groups(m)
    BY <1>1, <1>4 DEF IsModel, Uids, Groups
<1>6. \A c \in Uids(m) : ClassMade(m, m.classes[c]) /\ IsClass(m.classes[c])
    BY DEF Complete, ClassMade
<1>7. ASSUME NEW c \in active_
      PROVE  /\ IsClass(classes[c]) /\ classes[c].own = kept(c)
             /\ classes[c].parents = m.classes[c].parents
             /\ classes[c].group = m.classes[c].group
             /\ classes[c].own = [f \in DOMAIN classes[c].own |-> classes[c].own[f]]
    <2> DEFINE own == kept(c)
               class == m.classes[c]
    <2>1. IsClass(class) /\ classes[c] = [class EXCEPT !.own = own]
        BY <1>1, <1>3, <1>6
    <2> HIDE DEF own, class
    <2>2. /\ IsClass(classes[c]) /\ classes[c].own = own
          /\ classes[c].parents = class.parents /\ classes[c].group = class.group
        BY <2>1, OwnPut
    <2>3. own = [f \in DOMAIN own |-> own[f]]
        BY DEF own, kept
    <2> QED
        BY <2>2, <2>3 DEF own, class
<1>8. \A c \in Uids(m) : classes[c].parents = m.classes[c].parents
    BY <1>1, <1>7
<1>9. \A c \in Uids(p) : ClassMade(p, p.classes[c])
    <2>1. \A c \in Uids(m) : ClassMade(p, m.classes[c])
        BY <1>5, <1>6, MoreMade
    <2>2. ASSUME NEW c \in active_ PROVE ClassMade(p, classes[c])
        <3>1. ClassMade(p, m.classes[c])
            BY <1>3, <2>1
        <3>2. \A f \in DOMAIN classes[c].own : FieldMade(p, classes[c].own[f])
            <4> TAKE f \in DOMAIN classes[c].own
            <4>1. \A h \in DOMAIN m.classes[c].own : FieldMade(p, m.classes[c].own[h])
                BY <3>1 DEF ClassMade
            <4>2. f \in DOMAIN kept(c) /\ classes[c].own[f] = kept(c)[f]
                BY <1>7
            <4>3. f \in DOMAIN m.classes[c].own /\ kept(c)[f] = m.classes[c].own[f]
                BY <1>2, <4>2
            <4>4. FieldMade(p, m.classes[c].own[f])
                BY <4>1, <4>3
            <4> QED
                BY <4>2, <4>3, <4>4
        <3> QED
            BY <1>7, <3>1, <3>2 DEF ClassMade
    <2> QED
        BY <1>1, <1>5, <2>1, <2>2
<1>10. Complete(p)
    BY <1>5, <1>9 DEF Complete
<1>11. NoLoop(p)
    <2>1. Parents(p) = Parents(m)
        BY <1>5, <1>8, SameParents
    <2> QED
        BY <1>5, <2>1 DEF NoLoop
<1>12. Whole(p) => active_ = InGroups(p, gs)
    <2>1. Whole(p) => Whole(m)
        BY <1>5 DEF Whole, Uids
    <2>2. InGroups(p, gs) = InGroups(m, gs)
        BY <1>5 DEF InGroups, Uids
    <2> QED
        BY <1>3, <2>1, <2>2
<1>13. \A c \in active_ : \A f \in DOMAIN p.classes[c].own :
            \E g \in gs : <<c, f>> \in p.comps[g]
    <2> TAKE c \in active_
    <2> TAKE f \in DOMAIN p.classes[c].own
    <2>1. f \in DOMAIN kept(c)
        BY <1>5, <1>7
    <2>2. \E g \in gs : <<c, f>> \in m.comps[g]
        BY <1>2, <2>1
    <2> QED
        BY <1>5, <2>2
<1> QED
    BY <1>3, <1>5, <1>10, <1>11, <1>12, <1>13 DEF Loaded, OfGroups

\* All that is above the classes of a module that is imported is in it.
LEMMA ImportedAbove ==
    ASSUME NEW m, Complete(m), NoLoop(m), Whole(m), NEW classes, NEW seq,
           NEW n \in Nat, DOMAIN seq = 1..n, Range(seq) \subseteq Uids(m),
           Imports(m, classes, seq),
           NEW c \in Range(seq) \cap Uids(m)
    PROVE  {c} \cup ParentsRecc(m)[c] \subseteq Range(seq)
<1>1. Acyclic(Parents(m)) /\ DOMAIN Parents(m) = Uids(m)
    BY DEF NoLoop, Parents, Uids
<1>2. ASSUME NEW x \in Uids(m) \cap Range(seq) PROVE Parents(m)[x] \subseteq Range(seq)
    <2>1. PICK i \in DOMAIN seq : seq[i] = x
        BY DEF Range
    <2>2. UidsOf(Parents(m)[x]) \subseteq {Uid(seq[j]) : j \in 1..(i - 1)}
        BY <2>1 DEF Imports, Parents, Uids
    <2>3. \A j \in 1..(i - 1) : j \in DOMAIN seq
        OBVIOUS
    <2>4. \A y \in Uids(m) : Uid(y) = y
        BY DEF Whole, Uids
    <2>5. \A j \in 1..(i - 1) : seq[j] \in Range(seq) /\ Uid(seq[j]) = seq[j]
        BY <2>3, <2>4 DEF Range
    <2>6. Parents(m)[x] \subseteq Uids(m)
        BY <1>1, AboveFacts
    <2>7. UidsOf(Parents(m)[x]) = Parents(m)[x]
        BY <2>4, <2>6, UidsOnce
    <2> QED
        BY <2>2, <2>5, <2>7
<1>3. \A x \in DOMAIN Parents(m) \cap Range(seq) : Above(Parents(m))[x] \subseteq Range(seq)
    BY <1>1, <1>2, AboveClosed
<1> QED
    BY <1>1, <1>3 DEF ParentsRecc

\* The classes of a module, generated from what was loaded: those that are
\* active and not pure, parents first.
Generated(m, gs, classes, seq) ==
    /\ Loaded(m, gs, classes) /\ DOMAIN seq = 1..Cardinality(NotPure(m, classes))
    /\ Cardinality(NotPure(m, classes)) \in Nat /\ Range(seq) = NotPure(m, classes)
    /\ \A i, j \in DOMAIN seq : seq[i] \in Range(m.classes[seq[j]].parents) => i < j

\* The classes of a module that is imported show no field of an inactive group.
LEMMA ShownActive ==
    ASSUME NEW m, NEW gs, NEW classes, NEW seq, Generated(m, gs, classes, seq),
           Whole(m), Imports(m, classes, seq), classes # Uids(m),
           NEW c \in Range(seq), NEW f \in DOMAIN AllFields(m)[c]
    PROVE  GroupsOf(m, <<AllFields(m)[c][f], f>>) \cap gs # {}
<1> DEFINE a == AllFields(m)[c][f]
<1>1. /\ Complete(m) /\ NoLoop(m) /\ c \in Uids(m) /\ gs \subseteq Groups(m)
      /\ Range(seq) \subseteq classes /\ classes \subseteq Uids(m)
    BY DEF Generated, Loaded, NotPure
<1>2. a \in {c} \cup ParentsRecc(m)[c] /\ f \in DOMAIN m.classes[a].own
    BY <1>1, Shown
<1>3. {c} \cup ParentsRecc(m)[c] \subseteq Range(seq)
    <2>1. \E n \in Nat : DOMAIN seq = 1..n
        BY DEF Generated
    <2> QED
        BY <1>1, <2>1, ImportedAbove
<1>4. a \in classes
    BY <1>1, <1>2, <1>3
<1>5. PICK g \in gs : <<a, f>> \in m.comps[g]
    BY <1>2, <1>4 DEF Generated, Loaded, OfGroups
<1>6. g \in GroupsOf(m, <<a, f>>)
    BY <1>1, <1>5 DEF GroupsOf
<1> QED
    BY <1>5, <1>6

\* Active groups that are with each the ones it requires: what a component of
\* one of them reaches is active.
LEMMA ReachedActive ==
    ASSUME NEW m, Complete(m), NoLoop(m), NEW gs, gs \subseteq Groups(m),
           \A g \in gs : m.require[g] \subseteq gs,
           NEW x, NEW g \in gs, x \in m.comps[g],
           NEW c \in Uids(m), Reaches(m, x, c)
    PROVE  c \in InGroups(m, gs)
<1>1. Acyclic(m.require) /\ DOMAIN m.require = Groups(m)
    BY DEF NoLoop, Groups
<1>2. \A y \in DOMAIN m.require \cap gs : Above(m.require)[y] \subseteq gs
    BY <1>1, AboveClosed
<1>3. g \in Groups(m) /\ Required(m)[g] \subseteq gs
    BY <1>1, <1>2 DEF Required
<1>4. g \in GroupsOf(m, x)
    BY <1>3 DEF GroupsOf
<1>5. PICK h \in GroupsOf(m, <<c>>) : h \in Required(m)[g]
    BY <1>4 DEF Reaches
<1> QED
    BY <1>3, <1>5 DEF GroupsOf, InGroups, Uids

\* A well grouped model, with each active group those it requires: the module
\* can be imported.
LEMMA WellGroupedImports ==
    ASSUME NEW m, NEW gs, NEW classes, NEW seq, Generated(m, gs, classes, seq),
           Whole(m), WellGrouped(m), \A g \in gs : m.require[g] \subseteq gs
    PROVE  Imports(m, classes, seq)
<1>1. /\ Complete(m) /\ NoLoop(m) /\ gs \subseteq Groups(m) /\ classes \subseteq Uids(m)
      /\ \A c : c \in Range(seq) <=> c \in classes /\ ~m.classes[c].pure
      /\ Acyclic(Parents(m)) /\ DOMAIN Parents(m) = Uids(m)
      /\ \A c \in Uids(m) : Parents(m)[c] = Range(m.classes[c].parents)
    BY DEF Generated, Loaded, NotPure, NoLoop, Parents, Uids
<1>2. ASSUME NEW c \in Uids(m), NEW p \in Parents(m)[c]
      PROVE  /\ p \in Uids(m) /\ Reaches(m, <<c>>, p)
             /\ m.classes[p].pure = m.classes[c].pure
    <2>1. p \in Uids(m)
        BY <1>1, AboveFacts
    <2> QED
        BY <1>1, <2>1 DEF WellGrouped, Uids
<1>3. ASSUME NEW c \in Range(seq), NEW p \in Parents(m)[c] PROVE p \in Range(seq)
    <2>1. c \in Uids(m) /\ p \in Uids(m) /\ ~m.classes[p].pure
        BY <1>1, <1>2
    <2>2. CASE classes = Uids(m)
        BY <1>1, <2>1, <2>2
    <2>3. CASE classes = InGroups(m, gs)
        <3>1. PICK g \in gs : <<c>> \in m.comps[g]
            BY <1>1, <2>3 DEF InGroups
        <3>2. p \in InGroups(m, gs)
            BY <1>1, <1>2, <2>1, <3>1, ReachedActive
        <3> QED
            BY <1>1, <2>1, <2>3, <3>2
    <2> QED
        BY <2>2, <2>3 DEF Generated, Loaded, OfGroups
<1>4. \A c \in Range(seq) : ParentsRecc(m)[c] \subseteq Range(seq)
    <2>1. \A c \in DOMAIN Parents(m) \cap Range(seq) :
                Above(Parents(m))[c] \subseteq Range(seq)
        BY <1>1, <1>3, AboveClosed
    <2> QED
        BY <1>1, <2>1 DEF ParentsRecc
<1>5. ASSUME NEW c \in Range(seq), NEW r \in UsedByFields(m, c) PROVE r \in Range(seq)
    <2> DEFINE shown == AllFields(m)[c]
               field(f) == m.classes[shown[f]].own[f]
               back(f) == IF field(f).back = None THEN {} ELSE {field(f).back[1]}
               named(f) == field(f).refs \cup back(f)
    <2>1. PICK f \in DOMAIN shown : r \in UidsOf(field(f).refs) \cup back(f)
        BY DEF UsedByFields
    <2>2. /\ shown[f] \in {c} \cup ParentsRecc(m)[c]
          /\ f \in DOMAIN m.classes[shown[f]].own
        BY <1>1, Shown
    <2>3. shown[f] \in Range(seq)
        BY <1>4, <2>2
    <2>4. shown[f] \in DOMAIN m.classes
        BY <1>1, <2>3 DEF Uids
    <2>5. /\ r \in Uids(m) /\ ~m.classes[r].pure
          /\ Reaches(m, <<shown[f], f>>, r)
        <3> HIDE DEF shown
        <3>1. \A x \in named(f) : /\ x \in Uids(m) /\ ~m.classes[x].pure
                                  /\ Reaches(m, <<shown[f], f>>, x)
            BY <2>2, <2>4 DEF WellGrouped, Uids
        <3>2. \A x \in Uids(m) : Uid(x) = x
            BY DEF Whole, Uids
        <3> HIDE DEF field, back
        <3>3. r \in named(f)
            BY <2>1, <3>1, <3>2 DEF UidsOf
        <3> QED
            BY <3>1, <3>3
    <2> HIDE DEF shown
    <2>6. CASE classes = Uids(m)
        BY <1>1, <2>5, <2>6
    <2>7. CASE classes # Uids(m)
        <3>1. /\ classes = InGroups(m, gs)
              /\ \E g \in gs : <<shown[f], f>> \in m.comps[g]
            BY <1>1, <2>2, <2>3, <2>7 DEF Generated, Loaded, OfGroups
        <3>2. r \in InGroups(m, gs)
            BY <1>1, <2>5, <3>1, ReachedActive
        <3> QED
            BY <1>1, <2>5, <3>1, <3>2
    <2> QED
        BY <2>6, <2>7
<1>6. ASSUME NEW c \in Range(seq), NEW d \in Childs(m, classes, c) PROVE d \in Range(seq)
    <2> DEFINE same == {x \in Uids(m) : m.classes[x].pure = m.classes[d].pure}
    <2>1. d \in classes /\ d \in Uids(m) /\ c \in ParentsRecc(m)[d]
        BY <1>1 DEF Childs
    <2>2. \A x \in DOMAIN Parents(m) \cap same : Parents(m)[x] \subseteq same
        BY <1>1, <1>2
    <2>3. d \in DOMAIN Parents(m) \cap same
        BY <1>1, <2>1
    <2> HIDE DEF same
    <2>4. Above(Parents(m))[d] \subseteq same
        BY <1>1, <2>2, <2>3, AboveClosed
    <2>5. m.classes[c].pure = m.classes[d].pure
        BY <2>1, <2>4 DEF ParentsRecc, same
    <2> QED
        BY <1>1, <2>1, <2>5
<1>7. /\ \A x \in Uids(m) : Uid(x) = x
      /\ Range(seq) \subseteq Uids(m)
      /\ UidsOf(Range(seq)) = Range(seq)
    BY <1>1, UidsOnce DEF Whole, Uids
<1>8. ASSUME NEW i \in DOMAIN seq
      PROVE  /\ UidsOf(Range(m.classes[seq[i]].parents)) \subseteq {Uid(seq[j]) : j \in 1..(i - 1)}
             /\ UsedByFields(m, seq[i]) \cup UidsOf(Childs(m, classes, seq[i]))
                    \subseteq UidsOf(Range(seq))
    <2>1. seq[i] \in Range(seq) /\ seq[i] \in Uids(m)
        BY <1>1 DEF Range
    <2>2. ASSUME NEW p \in Range(m.classes[seq[i]].parents)
          PROVE  p \in {seq[j] : j \in 1..(i - 1)}
        <3>1. p \in Range(seq)
            BY <1>1, <1>3, <2>1
        <3>2. PICK j \in DOMAIN seq : seq[j] = p
            BY <3>1 DEF Range
        <3>3. j < i
            BY <3>2 DEF Generated
        <3>4. j \in 1..(i - 1)
            BY <3>3 DEF Generated
        <3> QED
            BY <3>2, <3>4
    <2>3. /\ UidsOf(Range(m.classes[seq[i]].parents)) = Range(m.classes[seq[i]].parents)
          /\ UidsOf(Childs(m, classes, seq[i])) = Childs(m, classes, seq[i])
        <3>1. Range(m.classes[seq[i]].parents) \subseteq Uids(m)
            BY <1>1, <1>3, <2>1
        <3>2. Childs(m, classes, seq[i]) \subseteq Uids(m)
            BY <1>1 DEF Childs
        <3> QED
            BY <1>7, <3>1, <3>2, UidsOnce
    <2>4. ASSUME NEW j \in 1..(i - 1) PROVE Uid(seq[j]) = seq[j]
        <3>1. j \in DOMAIN seq
            BY DEF Generated
        <3> QED
            BY <1>7, <3>1 DEF Range
    <2> QED
        BY <1>5, <1>6, <1>7, <2>1, <2>2, <2>3, <2>4
<1> QED
    BY <1>8 DEF Imports

-----------------------------------------------------------------------------
(* The elements of the XML file.                                           *)

\* The elements that are left: each once, the classes before the groups.
Elements(t, b) ==
    /\ t \in Seq(Range(t))
    /\ \A i \in DOMAIN t : \/ t[i].elem = "class" /\ t[i].of \in Uids(b)
                           \/ t[i].elem = "group" /\ t[i].of \in Groups(b)
    /\ \A i, j \in DOMAIN t : t[i].elem = t[j].elem /\ t[i].of = t[j].of => i = j
    /\ \A i, j \in DOMAIN t : i < j /\ t[i].elem = "group" => t[j].elem = "group"
Left(t, kind) == {t[i].of : i \in {i \in DOMAIN t : t[i].elem = kind}}

\* One element is read, the others are left.
LEMMA OneElement ==
    ASSUME NEW t, NEW b, Elements(t, b), t # << >>
    PROVE  /\ Elements(Tail(t), b)
           /\ \/ /\ Head(t).elem = "class" /\ Head(t).of \in Uids(b) \cap Left(t, "class")
                 /\ Left(Tail(t), "class") = Left(t, "class") \ {Head(t).of}
                 /\ Left(Tail(t), "group") = Left(t, "group")
              \/ /\ Head(t).elem = "group" /\ Head(t).of \in Groups(b) \cap Left(t, "group")
                 /\ Left(t, "class") = {} /\ Left(Tail(t), "class") = {}
                 /\ Left(Tail(t), "group") = Left(t, "group") \ {Head(t).of}
<1> DEFINE s == Tail(t)
           n == Len(t)
<1>1. /\ n \in Nat \ {0} /\ DOMAIN t = 1..n /\ Head(t) = t[1]
      /\ DOMAIN s = 1..(n - 1) /\ \A i \in 1..(n - 1) : s[i] = t[i + 1] /\ i + 1 \in 1..n
    BY DEF Elements
<1>2. s \in Seq(Range(s))
    <2>1. s \in Seq(Range(t)) /\ Len(s) = n - 1
        BY DEF Elements
    <2> HIDE DEF s
    <2>2. \A i \in 1..Len(s) : s[i] \in Range(s)
        BY <2>1 DEF Range
    <2> QED
        BY <2>1, <2>2
<1> HIDE DEF s, n
<1>3. Elements(s, b)
    <2>1. \A i \in DOMAIN s : \/ s[i].elem = "class" /\ s[i].of \in Uids(b)
                              \/ s[i].elem = "group" /\ s[i].of \in Groups(b)
        BY <1>1 DEF Elements
    <2>2. ASSUME NEW i \in DOMAIN s, NEW j \in DOMAIN s,
                 s[i].elem = s[j].elem, s[i].of = s[j].of
          PROVE  i = j
        <3>1. i + 1 = j + 1
            BY <1>1, <2>2 DEF Elements
        <3> QED
            BY <1>1, <3>1
    <2>3. ASSUME NEW i \in DOMAIN s, NEW j \in DOMAIN s, i < j, s[i].elem = "group"
          PROVE  s[j].elem = "group"
        <3>1. i + 1 < j + 1
            BY <1>1, <2>3
        <3> QED
            BY <1>1, <2>3, <3>1 DEF Elements
    <2> QED
        BY <1>2, <2>1, <2>2, <2>3 DEF Elements
<1>4. \A kind : Left(t, kind) = Left(s, kind) \cup
                                (IF t[1].elem = kind THEN {t[1].of} ELSE {})
    <2>1. ASSUME NEW kind, NEW u
          PROVE  u \in Left(t, kind) <=>
                    u \in Left(s, kind) \/ (t[1].elem = kind /\ t[1].of = u)
        <3>1. ASSUME NEW i \in 1..n, t[i].elem = kind, t[i].of = u
              PROVE  u \in Left(s, kind) \/ (t[1].elem = kind /\ t[1].of = u)
            <4>1. CASE i # 1
                <5>1. i - 1 \in 1..(n - 1) /\ s[i - 1] = t[i]
                    <6>1. i - 1 \in 1..(n - 1) /\ (i - 1) + 1 = i
                        BY <1>1, <4>1
                    <6> QED
                        BY <1>1, <6>1
                <5> QED
                    BY <1>1, <3>1, <5>1 DEF Left
            <4> QED
                BY <3>1, <4>1
        <3>2. ASSUME NEW i \in 1..(n - 1), s[i].elem = kind, s[i].of = u
              PROVE  u \in Left(t, kind)
            BY <1>1, <3>2 DEF Left
        <3>3. t[1].elem = kind /\ t[1].of = u => u \in Left(t, kind)
            BY <1>1 DEF Left
        <3> QED
            BY <1>1, <3>1, <3>2, <3>3 DEF Left
    <2> QED
        BY <2>1
<1>5. t[1].of \notin Left(s, t[1].elem)
    <2>1. ASSUME NEW i \in DOMAIN s, s[i].elem = t[1].elem, s[i].of = t[1].of PROVE FALSE
        <3>1. i + 1 \in DOMAIN t /\ 1 \in DOMAIN t /\ t[i + 1] = s[i] /\ i + 1 # 1
            BY <1>1
        <3> QED
            BY <2>1, <3>1 DEF Elements
    <2> QED
        BY <2>1 DEF Left
<1>6. \/ t[1].elem = "class" /\ t[1].of \in Uids(b)
      \/ t[1].elem = "group" /\ t[1].of \in Groups(b)
    BY <1>1 DEF Elements
<1>7. t[1].elem = "group" => Left(t, "class") = {}
    <2>1. ASSUME t[1].elem = "group", NEW i \in DOMAIN t PROVE t[i].elem # "class"
        BY <1>1, <2>1 DEF Elements
    <2> QED
        BY <2>1 DEF Left
<1> QED
    BY <1>1, <1>3, <1>4, <1>5, <1>6, <1>7 DEF s

\* What save writes: all the classes, then all the groups.
File(order, list) ==
    [i \in DOMAIN order |-> [elem |-> "class", of |-> order[i]]]
    \o [i \in DOMAIN list |-> [elem |-> "group", of |-> list[i]]]
LEMMA AllElements ==
    ASSUME NEW b, NEW order, Lists(order, Uids(b)), NEW list, Lists(list, Groups(b))
    PROVE  /\ Elements(File(order, list), b)
           /\ Len(File(order, list)) = Len(order) + Len(list)
           /\ Left(File(order, list), "class") = Uids(b)
           /\ Left(File(order, list), "group") = Groups(b)
<1> DEFINE k == Len(order)
           n == Len(list)
           classes == [i \in DOMAIN order |-> [elem |-> "class", of |-> order[i]]]
           groups_ == [i \in DOMAIN list |-> [elem |-> "group", of |-> list[i]]]
           all == [elem : {"class", "group"}, of : Uids(b) \cup Groups(b)]
           t == classes \o groups_
<1>1. /\ k \in Nat /\ n \in Nat /\ DOMAIN order = 1..k /\ DOMAIN list = 1..n
      /\ \A i \in 1..k : order[i] \in Uids(b)
      /\ \A i \in 1..n : list[i] \in Groups(b)
      /\ \A u \in Uids(b) : \E i \in 1..k : order[i] = u
      /\ \A u \in Groups(b) : \E i \in 1..n : list[i] = u
      /\ \A i, j \in 1..k : order[i] = order[j] => i = j
      /\ \A i, j \in 1..n : list[i] = list[j] => i = j
    BY DEF Lists
<1>2. /\ classes \in Seq(all) /\ groups_ \in Seq(all)
      /\ Len(classes) = k /\ Len(groups_) = n
    BY <1>1
<1>3. /\ \A i \in 1..k : classes[i].elem = "class" /\ classes[i].of = order[i]
      /\ \A i \in 1..n : groups_[i].elem = "group" /\ groups_[i].of = list[i]
    BY <1>1
<1> HIDE DEF classes, groups_, all, k, n
<1>4. /\ t \in Seq(all) /\ Len(t) = k + n /\ DOMAIN t = 1..(k + n)
      /\ \A i \in 1..k : t[i] = classes[i]
      /\ \A i \in 1..n : t[k + i] = groups_[i]
    BY <1>1, <1>2
<1> HIDE DEF t
<1>5. \A i \in 1..(k + n) : \/ i \in 1..k
                            \/ i - k \in 1..n /\ i = k + (i - k) /\ i > k
    BY <1>1
<1>6. ASSUME NEW i \in 1..(k + n)
      PROVE  \/ i \in 1..k /\ t[i].elem = "class" /\ t[i].of = order[i]
             \/ i - k \in 1..n /\ i > k /\ t[i].elem = "group" /\ t[i].of = list[i - k]
    <2>1. CASE i \in 1..k
        BY <1>3, <1>4, <2>1
    <2>2. CASE i - k \in 1..n /\ i = k + (i - k) /\ i > k
        <3>1. t[i] = groups_[i - k]
            BY <1>4, <2>2
        <3> QED
            BY <1>3, <2>2, <3>1
    <2> QED
        BY <1>5, <2>1, <2>2
<1>7. Elements(t, b)
    <2>1. t \in Seq(Range(t))
        <3>1. \A i \in 1..Len(t) : t[i] \in Range(t)
            BY <1>4 DEF Range
        <3> QED
            BY <1>4, <3>1
    <2>2. \A i \in DOMAIN t : \/ t[i].elem = "class" /\ t[i].of \in Uids(b)
                              \/ t[i].elem = "group" /\ t[i].of \in Groups(b)
        BY <1>1, <1>4, <1>6
    <2>3. ASSUME NEW i \in DOMAIN t, NEW j \in DOMAIN t,
                 t[i].elem = t[j].elem, t[i].of = t[j].of
          PROVE  i = j
        <3>1. CASE t[i].elem = "class"
            <4>1. i \in 1..k /\ j \in 1..k /\ order[i] = order[j]
                BY <1>4, <1>6, <2>3, <3>1
            <4> QED
                BY <1>1, <4>1
        <3>2. CASE t[i].elem = "group"
            <4>1. i - k \in 1..n /\ j - k \in 1..n /\ list[i - k] = list[j - k]
                BY <1>4, <1>6, <2>3, <3>2
            <4>2. i - k = j - k
                BY <1>1, <4>1
            <4> QED
                BY <1>1, <1>4, <4>2
        <3> QED
            BY <2>2, <3>1, <3>2
    <2>4. ASSUME NEW i \in DOMAIN t, NEW j \in DOMAIN t, i < j, t[i].elem = "group"
          PROVE  t[j].elem = "group"
        <3>1. i > k
            BY <1>4, <1>6, <2>4
        <3>2. j \notin 1..k
            BY <1>1, <1>4, <2>4, <3>1
        <3> QED
            BY <1>4, <1>6, <3>2
    <2> QED
        BY <2>1, <2>2, <2>3, <2>4 DEF Elements
<1>8. Left(t, "class") = Uids(b)
    <2>1. ASSUME NEW u \in Uids(b) PROVE u \in Left(t, "class")
        <3>1. PICK i \in 1..k : order[i] = u
            BY <1>1
        <3>2. i \in DOMAIN t /\ t[i] = classes[i]
            BY <1>1, <1>4
        <3> QED
            BY <1>3, <3>1, <3>2 DEF Left
    <2>2. ASSUME NEW u \in Left(t, "class") PROVE u \in Uids(b)
        BY <1>1, <1>4, <1>6 DEF Left
    <2> QED
        BY <2>1, <2>2
<1>9. Left(t, "group") = Groups(b)
    <2>1. ASSUME NEW u \in Groups(b) PROVE u \in Left(t, "group")
        <3>1. PICK i \in 1..n : list[i] = u
            BY <1>1
        <3>2. k + i \in DOMAIN t /\ t[k + i] = groups_[i]
            BY <1>1, <1>4
        <3> QED
            BY <1>3, <3>1, <3>2 DEF Left
    <2>2. ASSUME NEW u \in Left(t, "group") PROVE u \in Groups(b)
        BY <1>1, <1>4, <1>6 DEF Left
    <2> QED
        BY <2>1, <2>2
<1> QED
    BY <1>4, <1>7, <1>8, <1>9 DEF File, t, k, n, classes, groups_

-----------------------------------------------------------------------------
(* The inductive invariant.                                                *)

\* What the file that was saved has made of the model so far.
Progress(cs, gs) ==
    /\ Halfway(model, before, cs, gs)
    /\ ~Redefines(before) => Kept(model, before, cs, gs)
Scripted == stage = "script" =>
    /\ before = EmptyModel /\ Built(model)
    /\ todo \in Seq(Range(todo)) /\ todo # << >> /\ \A i \in DOMAIN todo : IsCall(todo[i])
Edited == stage = "edit" =>
    IF before = EmptyModel THEN Built(model) ELSE Whole(before) => Progress({}, {})
Reading == stage = "xml" =>
    /\ before # EmptyModel
    /\ Whole(before) => /\ Elements(todo, before)
                        /\ Progress(Left(todo, "class"), Left(todo, "group"))
Unread == stage = "unread" /\ Whole(before) => Redefines(before)
Chosen == stage \in {"loaded", "generated", "imported", "NameError"} /\ Whole(before) =>
    Loaded(model, groups, active)
Coded == stage \in {"generated", "imported", "NameError"} /\ Whole(before) =>
    Generated(model, groups, active, code)
Tried == /\ stage = "imported" => Imports(model, active, code)
         /\ stage = "NameError" => ~Imports(model, active, code)
IInv ==
    Built(before) /\ Scripted /\ Edited /\ Reading /\ Unread /\ Chosen /\ Coded /\ Tried

\* The invariant holds before the first call.
LEMMA InitIInv == Init => IInv
<1> SUFFICES ASSUME Init PROVE IInv
    OBVIOUS
<1>1. Built(before) /\ Built(model)
    BY EmptyBuilt DEF Init
<1>2. todo \in Seq(Range(todo)) /\ todo # << >> /\ \A i \in DOMAIN todo : IsCall(todo[i])
    BY CallsAssumption DEF Init
<1> QED
    BY <1>1, <1>2 DEF Init, IInv, Scripted, Edited, Reading, Unread, Chosen, Coded, Tried

\* A model that can be edited, saved or loaded.
LEMMA EditedModel ==
    ASSUME IInv, stage = "edit", Whole(before)
    PROVE  Complete(model) /\ NoLoop(model)
<1>1. CASE before = EmptyModel
    BY <1>1 DEF IInv, Edited, Built
<1>2. CASE before # EmptyModel
    <2>1. Halfway(model, before, {}, {})
        BY <1>2 DEF IInv, Edited, Progress
    <2>2. NoLoop(before)
        BY DEF IInv, Built
    <2> QED
        BY <2>1, <2>2, HalfwayNoLoop DEF Halfway
<1> QED
    BY <1>1, <1>2

\* A call of the script.
LEMMA CallIInv ==
    ASSUME IInv, Call
    PROVE  IInv'
<1>1. /\ before = EmptyModel /\ Built(model) /\ todo # << >>
      /\ todo \in Seq(Range(todo)) /\ \A i \in DOMAIN todo : IsCall(todo[i])
    BY DEF IInv, Scripted, Call
<1>2. Built(model')
    <2>1. IsCall(Head(todo))
        BY <1>1
    <2> QED
        BY <1>1, <2>1, DoBuilt DEF Call
<1>3. todo' \in Seq(Range(todo')) /\ \A i \in DOMAIN todo' : IsCall(todo'[i])
    <2>1. /\ Len(todo) \in Nat \ {0} /\ Len(todo') = Len(todo) - 1
          /\ todo' \in Seq(Range(todo))
          /\ \A i \in 1..Len(todo') : todo'[i] = todo[i + 1] /\ i + 1 \in 1..Len(todo)
        BY <1>1 DEF Call
    <2>2. \A i \in 1..Len(todo') : todo'[i] \in Range(todo')
        BY <2>1 DEF Range
    <2> QED
        BY <1>1, <2>1, <2>2
<1>4. Built(before') /\ before' = EmptyModel
    BY <1>1 DEF Call, IInv
<1> QED
    BY <1>2, <1>3, <1>4
       DEF Call, IInv, Scripted, Edited, Reading, Unread, Chosen, Coded, Tried

\* A call of its own.
LEMMA EditIInv ==
    ASSUME IInv, Edit
    PROVE  IInv'
<1>1. before = EmptyModel /\ Built(model) /\ Built(before)
    BY DEF IInv, Edited, Edit
<1>2. PICK o \in NewClasses \cup NewFields : Accepts(model, o) /\ model' = Do(model, o)
    BY DEF Edit
<1>3. Built(model')
    BY <1>1, <1>2, CallsAssumption, DoBuilt
<1> QED
    BY <1>1, <1>3 DEF Edit, IInv, Scripted, Edited, Reading, Unread, Chosen, Coded, Tried

\* Nothing is read of the file as it is saved.
LEMMA NothingRead ==
    ASSUME NEW b, Built(b), Whole(b)
    PROVE  /\ Halfway(EmptyModel, b, Uids(b), Groups(b))
           /\ Kept(EmptyModel, b, Uids(b), Groups(b))
<1>1. Complete(EmptyModel) /\ Uids(EmptyModel) = {} /\ Groups(EmptyModel) = {}
    BY EmptyBuilt DEF Built, EmptyModel, Uids, Groups
<1> QED
    BY <1>1 DEF Halfway, Kept

\* The model is saved.
LEMMA SaveIInv ==
    ASSUME IInv, Save
    PROVE  IInv'
<1>1. Built(model) /\ before' = model /\ model' = EmptyModel /\ stage' = "xml"
    BY DEF IInv, Edited, Save
<1>2. model # EmptyModel
    BY DEF Save, EmptyModel
<1>3. ASSUME Whole(model)
      PROVE  /\ Elements(todo', model)
             /\ Halfway(model', before', Left(todo', "class"), Left(todo', "group"))
             /\ Kept(model', before', Left(todo', "class"), Left(todo', "group"))
    <2>1. PICK order \in Orders(model.names) : todo' = File(order, model.groups)
        BY DEF Save, File
    <2>2. Lists(model.names, Uids(model)) /\ Lists(model.groups, Groups(model))
        BY <1>1, <1>3 DEF Built, Complete, Dictionary, Whole, Uids
    <2>3. Lists(order, Uids(model))
        BY <2>2, OrdersList
    <2>4. /\ Elements(todo', model)
          /\ Left(todo', "class") = Uids(model) /\ Left(todo', "group") = Groups(model)
        BY <2>1, <2>2, <2>3, AllElements
    <2> QED
        BY <1>1, <1>3, <2>4, NothingRead
<1> QED
    BY <1>1, <1>2, <1>3
       DEF IInv, Scripted, Edited, Reading, Progress, Unread, Chosen, Coded, Tried

\* An element of the file is read.
LEMMA LoadIInv ==
    ASSUME IInv, Load
    PROVE  IInv'
<1> DEFINE b == before
           x == Head(todo).of
           cs == Left(todo, "class")
           gs == Left(todo, "group")
<1>1. before' = b /\ b # EmptyModel /\ Built(b)
    BY DEF IInv, Reading, Load, LoadOne
<1>2. CASE ~Whole(b)
    BY <1>1, <1>2
       DEF Load, LoadOne, IInv, Scripted, Edited, Reading, Unread, Chosen, Coded, Tried
<1>3. ASSUME Whole(b)
      PROVE  /\ Complete(b) /\ NoLoop(b) /\ Filed(b) /\ Elements(todo, b) /\ todo # << >>
             /\ Halfway(model, b, cs, gs) /\ (~Redefines(b) => Kept(model, b, cs, gs))
    BY <1>3 DEF IInv, Reading, Progress, Load, Built
\* What an element that is read makes of the model, and when it is not.
<1>4. ASSUME Whole(b), NEW reads, NEW loaded, LoadOne(reads, loaded),
             reads \/ Redefines(b),
             Elements(Tail(todo), b),
             Halfway(loaded, b, Left(Tail(todo), "class"), Left(Tail(todo), "group")),
             ~Redefines(b) =>
                Kept(loaded, b, Left(Tail(todo), "class"), Left(Tail(todo), "group"))
      PROVE  IInv'
    <2>1. CASE ~reads
        BY <1>1, <1>4, <2>1
           DEF Load, LoadOne, IInv, Scripted, Edited, Reading, Unread, Chosen, Coded, Tried
    <2>2. CASE reads
        <3>1. model' = loaded /\ todo' = Tail(todo)
              /\ stage' = (IF todo' = << >> THEN "edit" ELSE "xml")
            BY <1>4, <2>2 DEF Load, LoadOne
        <3>2. Progress(Left(todo, "class"), Left(todo, "group"))'
            BY <1>1, <1>4, <3>1 DEF Progress
        <3>3. CASE todo' = << >>
            <4>1. Left(todo', "class") = {} /\ Left(todo', "group") = {}
                BY <3>3 DEF Left
            <4>2. Progress({}, {})'
                BY <3>2, <4>1 DEF Progress
            <4> QED
                BY <1>1, <3>1, <3>3, <4>2
                   DEF IInv, Scripted, Edited, Reading, Unread, Chosen, Coded, Tried
        <3>4. CASE todo' # << >>
            BY <1>1, <1>4, <3>1, <3>2, <3>4
               DEF IInv, Scripted, Edited, Reading, Unread, Chosen, Coded, Tried
        <3> QED
            BY <3>3, <3>4
    <2> QED
        BY <2>1, <2>2
<1>5. CASE Whole(b)
    <2>1. Elements(Tail(todo), b)
        BY <1>3, <1>5, OneElement
    <2>2. CASE /\ Head(todo).elem = "class" /\ x \in Uids(b) \cap cs
               /\ Left(Tail(todo), "class") = cs \ {x} /\ Left(Tail(todo), "group") = gs
        <3> DEFINE class == b.classes[x]
        <3>1. Uid(x) = x /\ WrittenClass(b, x) = class
            BY <1>3, <1>5, <2>2, WrittenOnce DEF Whole, Uids
        <3>2. LoadOne(ReadsClass(model, x, class), LoadClass(model, x, class))
            BY <2>2, <3>1 DEF Load
        <3>3. ReadsClass(model, x, class)
            BY <1>3, <1>5, <2>2, ClassReads
        <3>4. PICK q : /\ q = LoadHead(model, x, class)
                       /\ Halfway(q, b, cs \ {x}, gs) /\ HeadRead(model, b, x, q)
            BY <1>3, <1>5, <2>2, LoadHeadReads
        <3>5. PICK p : /\ p = LoadClass(model, x, class)
                       /\ Halfway(p, b, cs \ {x}, gs) /\ FieldsRead(q, b, x, p)
            <4>1. x \in Uids(b) \ (cs \ {x})
                BY <2>2
            <4>2. LoadClass(model, x, class) = LoadFields(q, x, b.classes[x].own)
                BY <3>4 DEF LoadClass
            <4> HIDE DEF x, cs, gs, b, class
            <4> QED
                BY <1>3, <1>5, <3>4, <4>1, <4>2, LoadFieldsReads
        <3>6. ASSUME ~Redefines(b) PROVE Kept(p, b, cs \ {x}, gs)
            <4> HIDE DEF x, cs, gs, b
            <4> QED
                BY <1>1, <1>3, <1>5, <2>2, <3>4, <3>5, <3>6, ClassKept
        <3> HIDE DEF x, cs, gs, b, class
        <3> QED
            BY <1>4, <1>5, <2>1, <2>2, <3>2, <3>3, <3>5, <3>6
    <2>3. CASE /\ Head(todo).elem = "group" /\ x \in Groups(b) \cap gs
               /\ cs = {} /\ Left(Tail(todo), "class") = {}
               /\ Left(Tail(todo), "group") = gs \ {x}
        <3>1. /\ Uid(x) = x /\ UidsOf(b.require[x]) = b.require[x]
              /\ WrittenComps(b, x) = b.comps[x]
            BY <1>3, <1>5, <2>3, WrittenOnce DEF Whole
        <3>2. LoadOne(ReadsGroup(model, x, b.require[x], b.comps[x]),
                      LoadGroup(model, x, b.require[x], b.comps[x]))
            BY <2>3, <3>1 DEF Load
        <3>3. Halfway(model, b, {}, gs) /\ (~Redefines(b) => Kept(model, b, {}, gs))
            BY <1>3, <1>5, <2>3
        <3> HIDE DEF x, cs, gs, b
        <3>4. ~Redefines(b) => ReadsGroup(model, x, b.require[x], b.comps[x])
            BY <1>1, <2>3, <3>3, GroupReads
        <3>5. PICK p : /\ p = LoadGroup(model, x, b.require[x], b.comps[x])
                       /\ Halfway(p, b, {}, gs \ {x})
                       /\ \E q : Halfway(q, b, {}, gs) /\ GroupRead(model, b, x, q, p)
            BY <1>3, <1>5, <2>3, <3>3, LoadGroupReads
        <3>6. ASSUME ~Redefines(b) PROVE Kept(p, b, {}, gs \ {x})
            BY <1>1, <2>3, <3>3, <3>5, <3>6, GroupKept
        <3> QED
            BY <1>4, <1>5, <2>1, <2>3, <3>2, <3>4, <3>5, <3>6
    <2> QED
        BY <1>3, <1>5, <2>2, <2>3, OneElement
<1> QED
    BY <1>2, <1>5

\* The model is loaded by the editor.
LEMMA LoadForEditorIInv ==
    ASSUME IInv, LoadForEditor
    PROVE  IInv'
<1>1. Whole(before) => Complete(model) /\ NoLoop(model)
    BY EditedModel DEF LoadForEditor
<1>2. Whole(before) => Loaded(model', groups', active')
    <2>1. /\ model' = model /\ groups' = Range(model.groups)
          /\ active' = Range(model.names)
        BY DEF LoadForEditor
    <2> QED
        BY <1>1, <2>1 DEF Loaded, Complete, Dictionary, Whole, Uids
<1> QED
    BY <1>2 DEF LoadForEditor, IInv, Scripted, Edited, Reading, Unread, Chosen, Coded, Tried

\* The model is loaded by a site.
LEMMA LoadForSiteIInv ==
    ASSUME IInv, NEW settings, LoadForSite(settings)
    PROVE  IInv'
<1>1. Whole(before) => Complete(model) /\ NoLoop(model)
    BY EditedModel DEF LoadForSite
<1>2. ASSUME Whole(before), stage' = "loaded" PROVE Loaded(model', groups', active')
    <2>1. /\ groups' \subseteq Range(model.groups)
          /\ active' \in ActiveClasses(model, groups')
          /\ model' = KeepActiveFields(model, groups', active')
        BY <1>2 DEF LoadForSite
    <2>2. groups' \subseteq Groups(model)
        BY <1>1, <1>2, <2>1 DEF Complete, Dictionary
    <2> QED
        BY <1>1, <1>2, <2>1, <2>2, ActiveLoaded
<1> QED
    BY <1>2 DEF LoadForSite, IInv, Scripted, Edited, Reading, Unread, Chosen, Coded, Tried

\* The code is generated.
LEMMA GenerateIInv ==
    ASSUME IInv, Generate
    PROVE  IInv'
<1>1. CASE Recurses \/ ~Whole(before)
    BY <1>1 DEF Generate, IInv, Scripted, Edited, Reading, Unread, Chosen, Coded, Tried
<1>2. CASE ~Recurses /\ Whole(before)
    <2>1. Loaded(model, groups, active)
        BY <1>2 DEF IInv, Chosen, Generate
    <2>2. /\ Complete(model) /\ NoLoop(model) /\ active \subseteq Uids(model)
          /\ IsFiniteSet(Uids(model))
        BY <2>1 DEF Loaded, Complete
    <2> DEFINE made == model.names \o SetToSeq(Replaced(model))
    <2>3. Lists(made, Uids(model))
        <3>1. /\ Lists(model.names, Range(model.names))
              /\ Range(model.names) \cap Replaced(model) = {}
              /\ Range(model.names) \cup Replaced(model) = Uids(model)
              /\ Replaced(model) \subseteq Uids(model)
            BY <2>2 DEF Complete, Dictionary, Replaced, Uids
        <3>2. Lists(SetToSeq(Replaced(model)), Replaced(model))
            BY <2>2, <3>1, FS_Subset, SetToSeqLists
        <3> QED
            BY <3>1, <3>2, ListsConcatenated
    <2>4. PICK order \in Orders(made) : code' = GetClasses(model, active, order)
        BY <1>2 DEF Generate
    <2> HIDE DEF made
    <2>5. Lists(order, Uids(model))
        BY <2>3, OrdersList
    <2>6. /\ DOMAIN code' = 1..Cardinality(NotPure(model, active))
          /\ Range(code') = NotPure(model, active)
          /\ \A i, j \in DOMAIN code' :
                code'[i] \in Range(model.classes[code'[j]].parents) => i < j
        BY <2>2, <2>4, <2>5, ClassesSorted
    <2>7. Cardinality(NotPure(model, active)) \in Nat
        <3>1. NotPure(model, active) \subseteq Uids(model)
            BY <2>2 DEF NotPure
        <3> QED
            BY <2>2, <3>1, FS_Subset, FS_CardinalityType
    <2>8. Generated(model, groups, active, code')
        BY <2>1, <2>6, <2>7 DEF Generated
    <2> QED
        BY <1>2, <2>1, <2>8
           DEF Generate, IInv, Scripted, Edited, Reading, Unread, Chosen, Coded, Tried
<1> QED
    BY <1>1, <1>2

\* The module is imported, or a name is not there.
LEMMA ImportIInv ==
    ASSUME IInv, Import
    PROVE  IInv'
    BY DEF Import, IInv, Scripted, Edited, Reading, Unread, Chosen, Coded, Tried

\* The model, what it was saved as and what was loaded and generated from it.
THEOREM EditorialInvariant == Spec => []IInv
<1>1. Init => IInv
    BY InitIInv
<1>2. IInv /\ [Next]_vars => IInv'
    <2> SUFFICES ASSUME IInv, [Next]_vars PROVE IInv'
        OBVIOUS
    <2>1. CASE UNCHANGED vars
        BY <2>1 DEF vars, IInv, Scripted, Edited, Reading, Progress, Unread, Chosen, Coded, Tried
    <2>2. CASE Done
        BY <2>2 DEF Done, vars, IInv, Scripted, Edited, Reading, Progress, Unread, Chosen, Coded, Tried
    <2>3. ASSUME NEW settings, LoadForSite(settings) PROVE IInv'
        BY <2>3, LoadForSiteIInv
    <2> QED
        BY <2>1, <2>2, <2>3, CallIInv, EditIInv, SaveIInv, LoadIInv, LoadForEditorIInv,
           GenerateIInv, ImportIInv
           DEF Next
<1> QED
    BY <1>1, <1>2, PTL DEF Spec

\* ParentsFirst: the classes of the generated module come after the objects that
\* are their parents, whatever the models, replaced classes included, the groups
\* that are active and the order of the classes.
THEOREM ParentsBeforeChildren == Spec => []ParentsFirst
<1>1. IInv => ParentsFirst
    BY DEF IInv, Coded, Generated, ParentsFirst
<1> QED
    BY <1>1, EditorialInvariant, PTL

\* ActiveFieldsOnly: no class that was imported shows a field of an inactive
\* group, though only the fields of its own are filtered, when no uid was made
\* twice.
THEOREM FieldsOfActiveGroups == Spec => []ActiveFieldsOnly
<1>1. IInv => ActiveFieldsOnly
    <2> SUFFICES ASSUME IInv, stage = "imported", active # DOMAIN model.classes,
                        Whole(before), Whole(model),
                        NEW c \in Range(code), NEW f \in DOMAIN AllFields(model)[c]
                 PROVE  GroupsOf(model, <<AllFields(model)[c][f], f>>) \cap groups # {}
        BY DEF ActiveFieldsOnly
    <2>1. /\ Generated(model, groups, active, code) /\ Imports(model, active, code)
          /\ active # Uids(model)
        BY DEF IInv, Coded, Tried, Uids
    <2> QED
        BY <2>1, ShownActive
<1> QED
    BY <1>1, EditorialInvariant, PTL

\* ActiveGroupsSuffice: the module of a well grouped model can be imported when
\* the groups that the active ones require are active and no uid was made twice.
THEOREM WellGroupedModelsImported == Spec => []ActiveGroupsSuffice
<1>1. IInv => ActiveGroupsSuffice
    <2> SUFFICES ASSUME IInv, stage = "NameError", Whole(before), Whole(model),
                        WellGrouped(model),
                        \A g \in groups : model.require[g] \subseteq groups
                 PROVE  FALSE
        BY DEF ActiveGroupsSuffice
    <2>1. Generated(model, groups, active, code) /\ ~Imports(model, active, code)
        BY DEF IInv, Coded, Tried
    <2> QED
        BY <2>1, WellGroupedImports
<1> QED
    BY <1>1, EditorialInvariant, PTL

\* XmlKeepsModel: a model that redefines no field it inherits, and in which no
\* uid was made twice, can be read from its XML file and comes back.
THEOREM ModelsKeptByXml == Spec => []XmlKeepsModel
<1>1. IInv => XmlKeepsModel
    <2> SUFFICES ASSUME IInv, before # EmptyModel, Whole(before), ~Redefines(before)
                 PROVE  stage # "unread" /\ (stage = "edit" => Restored(model))
        BY DEF XmlKeepsModel
    <2>1. stage # "unread"
        BY DEF IInv, Unread
    <2>2. ASSUME stage = "edit" PROVE Restored(model)
        <3>1. /\ Halfway(model, before, {}, {}) /\ Kept(model, before, {}, {})
              /\ Built(before)
            BY <2>2 DEF IInv, Edited, Progress
        <3> QED
            BY <3>1, AllKept DEF Restored, Uids
    <2> QED
        BY <2>1, <2>2
<1> QED
    BY <1>1, EditorialInvariant, PTL

=============================================================================
