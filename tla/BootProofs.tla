----------------------------- MODULE BootProofs -----------------------------
(***************************************************************************)
(* How a boot goes, for any set of sites: Plugin.load_all and the          *)
(* recursion of Plugin._load; what is in the registry of hooks, and what   *)
(* the boot leaves behind; when the settings start; that datasources are   *)
(* initialised twice at most.                                              *)
(*                                                                         *)
(* The order of loading is not inductive alone.  What carries it is a      *)
(* statement about each activation of _load that is past check_deps: its   *)
(* plugin is marked as called, is not loaded, is in progress in no other   *)
(* activation, and each activable dependency it has gone through is loaded *)
(* or is the plugin of the activation right above.                         *)
(***************************************************************************)
EXTENDS Boot, FiniteSetTheorems, SequenceTheorems, WellFoundedInduction, TLAPS

Frames == [plugin : registered, todo : SUBSET registered, checked : BOOLEAN]
IsLoaded(n) == \E k \in 1..Len(order) : order[k] = n

\* One activation of _load.
FrameInv(i) ==
    /\ stack[i].checked =>
        /\ stack[i].plugin \in called
        /\ ~IsLoaded(stack[i].plugin)
        /\ \A j \in 1..Len(stack) :
                j # i /\ stack[j].checked => stack[j].plugin # stack[i].plugin
        /\ \A m \in Info(stack[i].plugin).deps \ stack[i].todo :
                Info(m).activable =>
                    IsLoaded(m) \/ (i < Len(stack) /\ stack[i + 1].plugin = m)
    /\ i < Len(stack) => stack[i].checked

Early == {"files", "lists", "register", "settings"}

SeqTypes == order \in Seq(registered) /\ stack \in Seq(Frames)
OrderInv ==
    /\ \A i \in 1..Len(order) : order[i] \in called
    /\ \A i, j \in 1..Len(order) : order[i] = order[j] => i = j
    /\ \A i \in 1..Len(order) : \A m \in Info(order[i]).deps :
            Info(m).activable => \E j \in 1..(i - 1) : order[j] = m
StackInv == \A i \in 1..Len(stack) : FrameInv(i)
Quiet == /\ stage # "loading" => stack = << >>
         /\ stage \in Early => order = << >>

LoadInv == SeqTypes /\ OrderInv /\ StackInv /\ Quiet

\* What the steps of load_all leave alone.
Kept == UNCHANGED <<found, registered>>
-----------------------------------------------------------------------------
\* The sequence below the top of the stack.
LEMMA BelowFacts ==
    ASSUME SeqTypes, stack # << >>
    PROVE  /\ Len(stack) \in Nat \ {0}
           /\ Top \in Frames /\ Top = stack[Len(stack)]
           /\ Below \in Seq(Frames)
           /\ Len(Below) = Len(stack) - 1
           /\ \A i \in 1..(Len(stack) - 1) : Below[i] = stack[i]
<1> DEFINE n == Len(stack)
<1>1. stack \in Seq(Frames) /\ n \in Nat
    BY DEF SeqTypes
<1>2. n # 0
    BY <1>1
<1>3. Top \in Frames /\ Top = stack[n]
    BY <1>1, <1>2 DEF Top
<1>4. /\ Below \in Seq(Frames) /\ Len(Below) = n - 1
      /\ \A i \in 1..(n - 1) : Below[i] = stack[i]
    <2> DEFINE F == Frames
               s == stack
               k == n - 1
    <2>1. \A i \in 1..k : s[i] \in F
        BY <1>1
    <2>2. 1 \in Int /\ k \in Int /\ k \in Nat
        BY <1>1, <1>2
    <2> HIDE DEF F, s, k
    <2>3. /\ SubSeq(s, 1, k) \in Seq(F)
          /\ Len(SubSeq(s, 1, k)) = IF 1 <= k THEN k - 1 + 1 ELSE 0
          /\ \A i \in 1..(k - 1 + 1) : SubSeq(s, 1, k)[i] = s[1 + i - 1]
        BY <2>1, <2>2, SubSeqProperties
    <2>4. Len(SubSeq(s, 1, k)) = k /\ \A i \in 1..k : SubSeq(s, 1, k)[i] = s[i]
        BY <2>2, <2>3
    <2> QED
        BY <2>3, <2>4 DEF Below, F, s, k
<1> QED
    BY <1>1, <1>2, <1>3, <1>4

\* ... and the stack whose top was replaced.
LEMMA ReplaceTop ==
    ASSUME SeqTypes, stack # << >>, NEW f \in Frames
    PROVE  /\ Append(Below, f) \in Seq(Frames)
           /\ Len(Append(Below, f)) = Len(stack)
           /\ \A i \in 1..(Len(stack) - 1) : Append(Below, f)[i] = stack[i]
           /\ Append(Below, f)[Len(stack)] = f
BY BelowFacts

\* ... and the stack with one more activation.
LEMMA Pushed ==
    ASSUME NEW rest \in Seq(Frames), NEW f \in Frames
    PROVE  /\ Append(rest, f) \in Seq(Frames)
           /\ Len(Append(rest, f)) = Len(rest) + 1
           /\ \A i \in 1..Len(rest) : Append(rest, f)[i] = rest[i]
           /\ Append(rest, f)[Len(rest) + 1] = f
<1> DEFINE F == Frames
<1> HIDE DEF F
<1> SUFFICES ASSUME NEW s \in Seq(F), NEW g \in F
             PROVE  /\ Append(s, g) \in Seq(F)
                    /\ Len(Append(s, g)) = Len(s) + 1
                    /\ \A i \in 1..Len(s) : Append(s, g)[i] = s[i]
                    /\ Append(s, g)[Len(s) + 1] = g
    BY DEF F
<1> QED
    OBVIOUS

\* An exception empties the stack.
LEMMA Unwound ==
    ASSUME LoadInv, Kept, stack' = << >>, order' = order, called \subseteq called',
           stage' \in Early => order' = << >>
    PROVE  LoadInv'
BY DEF LoadInv, Kept, SeqTypes, Frames, OrderInv, StackInv, Quiet, Info

\* The loop of load_all enters _load.
LEMMA EnteredFromLoop ==
    ASSUME LoadInv, Kept, stage' = "loading", NEW n \in registered,
           stack' = <<Entered(n)>>, UNCHANGED <<order, called>>
    PROVE  LoadInv'
<1>1. Entered(n) \in Frames /\ ~Entered(n).checked
    BY DEF Entered, Frames
<1>2. SeqTypes'
    BY <1>1 DEF LoadInv, SeqTypes, Kept, Frames
<1>3. \A i \in 1..Len(stack') : i = 1 /\ stack'[i] = Entered(n) /\ Len(stack') = 1
    OBVIOUS
<1>4. StackInv'
    BY <1>1, <1>3 DEF StackInv, FrameInv
<1>5. OrderInv' /\ Quiet'
    BY DEF LoadInv, OrderInv, Quiet, Kept, Info, Early
<1> QED
    BY <1>2, <1>4, <1>5 DEF LoadInv

\* _load returns: its plugin is loaded.
LEMMA Returned ==
    ASSUME LoadInv, Kept, stage' = "loading", stack # << >>, IsLoaded(Top.plugin),
           ~Top.checked, stack' = Below, UNCHANGED <<order, called>>
    PROVE  LoadInv'
<1> USE DEF LoadInv
<1>1. SeqTypes'
    BY BelowFacts DEF SeqTypes, Kept, Frames
<1>2. ASSUME NEW i \in 1..Len(stack')
      PROVE  FrameInv(i)'
    <2>1. i \in 1..Len(stack) /\ i < Len(stack) /\ stack'[i] = stack[i]
        BY BelowFacts
    <2>2. \A j \in 1..Len(stack') : j \in 1..Len(stack) /\ stack'[j] = stack[j]
        BY BelowFacts
    <2>3. FrameInv(i)
        BY <2>1 DEF StackInv
    <2>4. stack[i].checked
        BY <2>1, <2>3 DEF FrameInv
    <2>5. \A m : IsLoaded(m)' <=> IsLoaded(m)
        BY DEF IsLoaded
    <2>6. ASSUME NEW m \in Info(stack[i].plugin).deps \ stack[i].todo, Info(m).activable
          PROVE  IsLoaded(m) \/ (i < Len(stack') /\ stack'[i + 1].plugin = m)
        <3>1. IsLoaded(m) \/ stack[i + 1].plugin = m
            BY <2>3, <2>4, <2>6 DEF FrameInv
        <3>2. CASE i + 1 = Len(stack)
            BY <3>1, <3>2, BelowFacts
        <3>3. CASE i + 1 # Len(stack)
            BY <3>1, <3>3, <2>1, BelowFacts
        <3> QED
            BY <3>2, <3>3
    <2> QED
        BY <2>1, <2>2, <2>3, <2>4, <2>5, <2>6 DEF FrameInv, Kept, Info
<1>3. OrderInv' /\ Quiet'
    BY DEF OrderInv, Quiet, Kept, Info, Early
<1> QED
    BY <1>1, <1>2, <1>3 DEF StackInv

\* The import at the end of _load.
LEMMA Imported ==
    ASSUME LoadInv, Kept, stage' = "loading", stack # << >>, Top.checked, Top.todo = {},
           stack' = Below, order' = Append(order, Top.plugin), UNCHANGED called
    PROVE  LoadInv'
<1> USE DEF LoadInv
<1> DEFINE n == Len(stack)
           o == Len(order)
<1>1. n \in Nat \ {0} /\ o \in Nat /\ Top = stack[n] /\ Top.plugin \in registered
    BY BelowFacts DEF SeqTypes, Frames
<1>2. SeqTypes'
    BY <1>1, BelowFacts DEF SeqTypes, Kept, Frames
<1>3. FrameInv(n)
    BY <1>1 DEF StackInv
<1>4. /\ Top.plugin \in called /\ ~IsLoaded(Top.plugin)
      /\ \A m \in Info(Top.plugin).deps : Info(m).activable => IsLoaded(m)
    BY <1>1, <1>3 DEF FrameInv
<1>5. /\ Len(order') = o + 1 /\ order'[o + 1] = Top.plugin
      /\ \A k \in 1..o : order'[k] = order[k]
    BY <1>1 DEF SeqTypes
<1>6. \A m : IsLoaded(m)' <=> IsLoaded(m) \/ m = Top.plugin
    <2>1. \A k \in 1..Len(order') : k \in 1..o \/ k = o + 1
        BY <1>1, <1>5
    <2> QED
        BY <1>1, <1>5, <2>1 DEF IsLoaded
<1>7. OrderInv'
    <2>1. \A i \in 1..Len(order') : order'[i] \in called
        BY <1>1, <1>4, <1>5 DEF OrderInv
    <2>2. \A i, j \in 1..Len(order') : order'[i] = order'[j] => i = j
        BY <1>1, <1>4, <1>5 DEF OrderInv, IsLoaded
    <2>3. ASSUME NEW i \in 1..Len(order'), NEW m \in Info(order'[i]).deps, Info(m).activable
          PROVE  \E j \in 1..(i - 1) : order'[j] = m
        <3>1. CASE i = o + 1
            <4>1. PICK k \in 1..o : order[k] = m
                BY <1>4, <1>5, <2>3, <3>1 DEF IsLoaded
            <4> QED
                BY <1>1, <1>5, <3>1, <4>1
        <3>2. CASE i \in 1..o
            <4>1. PICK j \in 1..(i - 1) : order[j] = m
                BY <1>5, <2>3, <3>2 DEF OrderInv
            <4> QED
                BY <1>1, <1>5, <3>2, <4>1
        <3> QED
            BY <1>1, <1>5, <3>1, <3>2
    <2> QED
        BY <2>1, <2>2, <2>3 DEF OrderInv, Kept, Info
<1>8. ASSUME NEW i \in 1..Len(stack')
      PROVE  FrameInv(i)'
    <2>1. i \in 1..n /\ i < n /\ stack'[i] = stack[i]
        BY BelowFacts
    <2>2. \A j \in 1..Len(stack') : j \in 1..n /\ stack'[j] = stack[j]
        BY BelowFacts
    <2>3. FrameInv(i) /\ stack[i].checked
        BY <2>1 DEF StackInv, FrameInv
    <2>4. stack[i].plugin # Top.plugin
        BY <1>1, <2>1, <2>3 DEF FrameInv
    <2>5. ASSUME NEW m \in Info(stack[i].plugin).deps \ stack[i].todo, Info(m).activable
          PROVE  IsLoaded(m)' \/ (i < Len(stack') /\ stack'[i + 1].plugin = m)
        <3>1. IsLoaded(m) \/ stack[i + 1].plugin = m
            BY <2>3, <2>5 DEF FrameInv
        <3>2. CASE i + 1 = n
            BY <1>1, <1>6, <3>1, <3>2
        <3>3. CASE i + 1 # n
            BY <1>6, <3>1, <3>3, <2>1, BelowFacts
        <3> QED
            BY <3>2, <3>3
    <2> QED
        BY <1>6, <2>1, <2>2, <2>3, <2>4, <2>5 DEF FrameInv, Kept, Info
<1>9. Quiet'
    BY DEF Quiet, Early
<1> QED
    BY <1>2, <1>7, <1>8, <1>9 DEF StackInv

\* Loaded as a set and by index.
LEMMA LoadedByIndex ==
    ASSUME SeqTypes, NEW m
    PROVE  m \in Loaded <=> IsLoaded(m)
BY DEF SeqTypes, Loaded, Range, IsLoaded

\* check_deps found every dependency.
LEMMA DepsChecked ==
    ASSUME LoadInv, Kept, stage' = "loading", stack # << >>, ~Top.checked,
           ~IsLoaded(Top.plugin), Top.plugin \notin called,
           Info(Top.plugin).deps \subseteq registered,
           called' = called \cup {Top.plugin}, order' = order,
           stack' = Append(Below, [plugin |-> Top.plugin, checked |-> TRUE,
                                   todo |-> Info(Top.plugin).deps])
    PROVE  LoadInv'
<1> USE DEF LoadInv
<1> DEFINE n == Len(stack)
           f == [plugin |-> Top.plugin, checked |-> TRUE, todo |-> Info(Top.plugin).deps]
<1>1. n \in Nat \ {0} /\ f \in Frames
    BY BelowFacts DEF Frames
<1>2. /\ stack' \in Seq(Frames) /\ Len(stack') = n /\ stack'[n] = f
      /\ \A i \in 1..(n - 1) : stack'[i] = stack[i]
    BY <1>1, ReplaceTop
<1>3. SeqTypes'
    BY <1>2 DEF SeqTypes, Kept, Frames
<1>4. \A m : IsLoaded(m)' <=> IsLoaded(m)
    BY DEF IsLoaded
<1>5. \A i \in 1..(n - 1) : FrameInv(i) /\ stack[i].checked /\ stack[i].plugin \in called
    BY <1>1 DEF StackInv, FrameInv
<1>6. ASSUME NEW i \in 1..(n - 1)
      PROVE  FrameInv(i)'
    <2>1. i \in 1..n /\ stack'[i] = stack[i] /\ stack[i].plugin # Top.plugin
        BY <1>1, <1>2, <1>5
    <2>2. \A j \in 1..n : j # i /\ stack'[j].checked => stack'[j].plugin # stack[i].plugin
        <3>1. \A j \in 1..(n - 1) : j # i => stack[j].plugin # stack[i].plugin
            BY <1>1, <1>5 DEF FrameInv
        <3>2. \A j \in 1..n : j = n \/ j \in 1..(n - 1)
            BY <1>1
        <3> QED
            BY <1>2, <2>1, <3>1, <3>2
    <2>3. \A j \in 1..n : stack'[j].plugin = stack[j].plugin
        <3>1. \A j \in 1..n : j = n \/ j \in 1..(n - 1)
            BY <1>1
        <3> QED
            BY <1>2, <3>1, BelowFacts
    <2>4. i + 1 \in 1..n
        BY <1>1
    <2> QED
        BY <1>2, <1>4, <1>5, <2>1, <2>2, <2>3, <2>4 DEF FrameInv, Kept, Info
<1>7. FrameInv(n)'
    <2>1. \A j \in 1..n : j # n => stack'[j].plugin # Top.plugin
        BY <1>1, <1>2, <1>5
    <2> QED
        BY <1>1, <1>2, <1>4, <2>1 DEF FrameInv, Kept, Info
<1>8. \A i \in 1..Len(stack') : i = n \/ i \in 1..(n - 1)
    BY <1>1, <1>2
<1>9. OrderInv' /\ Quiet'
    BY DEF OrderInv, Quiet, Kept, Info, Early
<1> QED
    BY <1>3, <1>6, <1>7, <1>8, <1>9 DEF StackInv

\* The loop over the dependencies takes m.
LEMMA DependencyTaken ==
    ASSUME LoadInv, Kept, stage' = "loading", stack # << >>, Top.checked,
           NEW m \in Top.todo, UNCHANGED <<order, called>>,
           LET rest == Append(Below, [plugin |-> Top.plugin, checked |-> TRUE,
                                      todo |-> Top.todo \ {m}])
           IN  stack' = IF Info(m).activable THEN Append(rest, Entered(m)) ELSE rest
    PROVE  LoadInv'
<1> USE DEF LoadInv
<1> DEFINE n == Len(stack)
           f == [plugin |-> Top.plugin, checked |-> TRUE, todo |-> Top.todo \ {m}]
           rest == Append(Below, f)
<1>1. n \in Nat \ {0} /\ Top = stack[n] /\ f \in Frames /\ m \in registered
    BY BelowFacts DEF Frames
<1>2. Entered(m) \in Frames /\ ~Entered(m).checked /\ Entered(m).plugin = m
    BY <1>1 DEF Entered, Frames
<1>3. /\ rest \in Seq(Frames) /\ Len(rest) = n /\ rest[n] = f
      /\ \A i \in 1..(n - 1) : rest[i] = stack[i]
    BY <1>1, ReplaceTop
<1> HIDE DEF rest
<1>4. /\ stack' \in Seq(Frames)
      /\ \A i \in 1..n : stack'[i] = rest[i]
      /\ Info(m).activable => Len(stack') = n + 1 /\ stack'[n + 1] = Entered(m)
      /\ ~Info(m).activable => Len(stack') = n
    <2>1. stack' = IF Info(m).activable THEN Append(rest, Entered(m)) ELSE rest
        BY DEF rest
    <2>2. CASE Info(m).activable
        <3>1. stack' = Append(rest, Entered(m))
            BY <2>1, <2>2
        <3>2. /\ Append(rest, Entered(m)) \in Seq(Frames)
              /\ Len(Append(rest, Entered(m))) = Len(rest) + 1
              /\ \A i \in 1..Len(rest) : Append(rest, Entered(m))[i] = rest[i]
              /\ Append(rest, Entered(m))[Len(rest) + 1] = Entered(m)
            <4>1. rest \in Seq(Frames) /\ Entered(m) \in Frames
                BY <1>2, <1>3
            <4> HIDE DEF Frames
            <4> QED
                BY <4>1, Pushed
        <3>3. Len(rest) = n
            BY <1>3
        <3> QED
            BY <2>2, <3>1, <3>2, <3>3
    <2>3. CASE ~Info(m).activable
        BY <1>3, <2>1, <2>3
    <2> QED
        BY <2>2, <2>3
<1>5. SeqTypes'
    BY <1>4 DEF SeqTypes, Kept, Frames
<1>6. \A k : IsLoaded(k)' <=> IsLoaded(k)
    BY DEF IsLoaded
<1>7. \A i \in 1..n : /\ FrameInv(i) /\ stack[i].checked
                      /\ stack'[i].plugin = stack[i].plugin /\ stack'[i].checked
    <2>1. \A i \in 1..n : i = n \/ i \in 1..(n - 1)
        BY <1>1
    <2>2. \A i \in 1..n : FrameInv(i) /\ stack[i].checked
        BY <1>1, <2>1 DEF StackInv, FrameInv
    <2> QED
        BY <1>1, <1>3, <1>4, <2>1, <2>2
<1>8. \A j \in 1..Len(stack') : j \in 1..n \/ (j = n + 1 /\ ~stack'[j].checked)
    BY <1>1, <1>2, <1>4
<1>9. ASSUME NEW i \in 1..n
      PROVE  FrameInv(i)'
    <2>1. i \in 1..Len(stack') /\ i < n => i + 1 \in 1..n
        BY <1>1, <1>4
    <2>2. ASSUME NEW k \in Info(stack[i].plugin).deps \ stack'[i].todo, Info(k).activable
          PROVE  IsLoaded(k) \/ (i < Len(stack') /\ stack'[i + 1].plugin = k)
        <3>1. CASE i # n
            <4>1. i \in 1..(n - 1) /\ stack'[i] = stack[i]
                BY <1>1, <1>3, <1>4, <3>1
            <4>2. IsLoaded(k) \/ (i < n /\ stack[i + 1].plugin = k)
                BY <1>7, <2>2, <4>1 DEF FrameInv
            <4>3. i + 1 \in 1..n /\ i < Len(stack')
                BY <1>1, <1>4, <4>1
            <4> QED
                BY <1>7, <4>2, <4>3
        <3>2. CASE i = n
            <4>1. k = m \/ k \notin Top.todo
                BY <1>3, <1>4, <2>2, <3>2
            <4>2. CASE k = m
                BY <1>1, <1>2, <1>4, <2>2, <3>2, <4>2
            <4>3. CASE k \notin Top.todo
                BY <1>1, <1>7, <2>2, <3>2, <4>3 DEF FrameInv
            <4> QED
                BY <4>1, <4>2, <4>3
        <3> QED
            BY <3>1, <3>2
    <2>3. \A j \in 1..Len(stack') :
            j # i /\ stack'[j].checked => stack'[j].plugin # stack[i].plugin
        BY <1>7, <1>8 DEF FrameInv
    <2>4. stack[i].plugin \in called /\ ~IsLoaded(stack[i].plugin)
        BY <1>7 DEF FrameInv
    <2> QED
        BY <1>6, <1>7, <2>2, <2>3, <2>4 DEF FrameInv, Kept, Info
<1>10. ASSUME NEW i \in 1..Len(stack'), i = n + 1, ~stack'[i].checked
       PROVE  FrameInv(i)'
    BY <1>1, <1>4, <1>10 DEF FrameInv
<1>11. OrderInv' /\ Quiet'
    BY DEF OrderInv, Quiet, Kept, Info, Early
<1> QED
    BY <1>5, <1>8, <1>9, <1>10, <1>11 DEF StackInv
-----------------------------------------------------------------------------
\* Steps that leave load_all alone.
LEMMA Elsewhere ==
    ASSUME LoadInv, UNCHANGED <<stack, order>>, called \subseteq called' \/ order = << >>,
           stack = << >>, order = << >> \/ Kept,
           stage' \in Early => order = << >>
    PROVE  LoadInv'
<1>1. CASE order = << >>
    BY <1>1 DEF LoadInv, SeqTypes, Frames, OrderInv, StackInv, Quiet
<1>2. CASE order # << >>
    BY <1>2 DEF LoadInv, Kept, SeqTypes, Frames, OrderInv, StackInv, Quiet, Info
<1> QED
    BY <1>1, <1>2

\* Every step of load_all keeps the invariant.
LEMMA LoadStepKeeps ==
    ASSUME LoadInv, LoadStep
    PROVE  LoadInv'
<1> USE DEF LoadInv
<1>1. ASSUME NEW n \in Name, LoadNext(n) PROVE LoadInv'
    BY <1>1, EnteredFromLoop DEF LoadNext, Kept
<1>2. ASSUME NEW n \in Name, LoadDep(n) PROVE LoadInv'
    BY <1>2, DependencyTaken DEF LoadDep, LeftBehind, Kept
<1>3. ASSUME AlreadyLoaded PROVE LoadInv'
    BY <1>3, Returned, LoadedByIndex DEF AlreadyLoaded, Return, Kept
<1>4. ASSUME NotActivable PROVE LoadInv'
    BY <1>4, Unwound DEF NotActivable, Raise, Kept, Early
<1>5. ASSUME Circular PROVE LoadInv'
    BY <1>5, Unwound DEF Circular, Raise, Kept, Early
<1>6. ASSUME CheckDeps PROVE LoadInv'
    <2>1. CASE stack' = << >>
        BY <1>6, <2>1, Unwound DEF CheckDeps, Leave, MarkCalled, Kept, Early
    <2>2. CASE stack' # << >>
        BY <1>6, <2>2, DepsChecked, LoadedByIndex
           DEF CheckDeps, MarkCalled, MissingDeps, DepsFirst, Kept
    <2> QED
        BY <2>1, <2>2
<1>7. ASSUME Import PROVE LoadInv'
    BY <1>7, Imported DEF Import, Return, Kept
<1>8. ASSUME ImportFails PROVE LoadInv'
    BY <1>8, Unwound DEF ImportFails, Raise, Break, Leave, Kept, Early
<1> QED
    BY <1>1, <1>2, <1>3, <1>4, <1>5, <1>6, <1>7, <1>8 DEF LoadStep

\* No callback runs before the plugins are loaded.
NotYet == ~PastLoading => running = << >>

\* A callback changes nothing of load_all.
LEMMA CallbackKeeps ==
    ASSUME LoadInv, NotYet, RunCallback
    PROVE  LoadInv' /\ NotYet'
<1>1. UNCHANGED <<found, registered, stack, order, called>>
    BY DEF RunCallback, plugVars
<1>2. PastLoading /\ stack = << >>
    BY DEF RunCallback, NotYet, PastLoading, LoadInv, Quiet
<1>3. stage' = stage \/ (stage' \in {"failed", "halfstarted"} /\ running' = << >>)
    BY DEF RunCallback, Aborts
<1>4. SeqTypes' /\ OrderInv'
    BY <1>1 DEF LoadInv, SeqTypes, OrderInv, Frames, Info
<1>5. StackInv' /\ Quiet' /\ NotYet'
    BY <1>1, <1>2, <1>3 DEF StackInv, Quiet, NotYet, PastLoading, Early
<1> QED
    BY <1>4, <1>5 DEF LoadInv

\* The invariant holds of every step of the boot.
LEMMA NextKeeps ==
    ASSUME LoadInv, NotYet, [Next]_vars
    PROVE  LoadInv' /\ NotYet'
<1>1. ASSUME SettingsStep, UNCHANGED hookVars PROVE LoadInv' /\ NotYet'
    <2>1. stage \in Early /\ stack = << >> /\ order = << >> /\ UNCHANGED <<stack, order>>
        BY <1>1 DEF SettingsStep, ReadFiles, RegisterNext, Populate, ReadList, plugVars,
                    Early, LoadInv, Quiet
    <2> QED
        BY <1>1, <2>1, Elsewhere DEF NotYet, PastLoading, Early, hookVars
<1>2. ASSUME StartHooks PROVE LoadInv' /\ NotYet'
    <2>1. stack = << >> /\ order = << >> /\ UNCHANGED order /\ stack' = << >>
        BY <1>2 DEF StartHooks, LoadInv, Quiet, Early
    <2> QED
        BY <1>2, <2>1, Elsewhere DEF StartHooks, Early, NotYet, PastLoading, hookVars
<1>3. ASSUME LoadStep, UNCHANGED hookVars PROVE LoadInv' /\ NotYet'
    <2>1. stage = "loading"
        BY <1>3 DEF LoadStep, LoadNext, LoadDep, AlreadyLoaded, NotActivable, Circular,
                    CheckDeps, Import, ImportFails
    <2> QED
        BY <1>3, <2>1, LoadStepKeeps DEF NotYet, PastLoading, hookVars
<1>4. ASSUME EndLoading PROVE LoadInv' /\ NotYet'
    <2>1. stack = << >> /\ UNCHANGED <<stack, order, called, found, registered>>
        BY <1>4 DEF EndLoading, AllTried, plugVars
    <2>2. stage' \in {"loaded", "failed"} /\ running = << >>
              /\ (stage' = "failed" => running' = running)
        BY <1>4 DEF EndLoading, AllTried, NotYet, PastLoading, Fail
    <2> QED
        BY <2>1, <2>2, Elsewhere DEF Kept, Early, NotYet, PastLoading
<1>5. ASSUME ExposeAgain \/ Bootstraped \/ ImportLeapi PROVE LoadInv' /\ NotYet'
    <2>1. stack = << >> /\ UNCHANGED <<stack, order, called, found, registered>>
        BY <1>5 DEF ExposeAgain, Bootstraped, ImportLeapi, plugVars, LoadInv, Quiet
    <2>2. stage' \in {"exposed", "bootstraped", "ready"}
        BY <1>5 DEF ExposeAgain, Bootstraped, ImportLeapi
    <2> QED
        BY <2>1, <2>2, Elsewhere DEF Kept, Early, NotYet, PastLoading
<1>6. ASSUME RunCallback PROVE LoadInv' /\ NotYet'
    BY <1>6, CallbackKeeps
<1>7. ASSUME UNCHANGED vars PROVE LoadInv' /\ NotYet'
    BY <1>7 DEF vars, plugVars, hookVars, LoadInv, SeqTypes, Frames, OrderInv, StackInv,
                FrameInv, IsLoaded, Quiet, Info, Early, NotYet, PastLoading
<1> QED
    BY <1>1, <1>2, <1>3, <1>4, <1>5, <1>6, <1>7 DEF Next, Done

\* Plugins are loaded behind the plugins they depend on, each once: for every
\* set of sites, whatever their plugins and their dependencies.
THEOREM LoadOrder == Spec => []DependenciesFirst
<1>1. Init => LoadInv /\ NotYet
    BY DEF Init, NotYet, PastLoading, LoadInv, SeqTypes, Frames, OrderInv, StackInv, Quiet, Early
<1>2. LoadInv /\ NotYet /\ [Next]_vars => LoadInv' /\ NotYet'
    BY NextKeeps
<1>3. LoadInv => DependenciesFirst
    <2> SUFFICES ASSUME LoadInv PROVE DependenciesFirst
        OBVIOUS
    <2>1. DOMAIN order = 1..Len(order)
        BY DEF LoadInv, SeqTypes
    <2> QED
        BY <2>1 DEF LoadInv, OrderInv, DependenciesFirst
<1> QED
    BY <1>1, <1>2, <1>3, PTL DEF Spec
-----------------------------------------------------------------------------
\* The loop of load_all has been through loaded plugins only, unless it has an
\* error to raise.
TriedInv ==
    /\ stage = "loading" => errors # {} \/ \A n \in tried : IsLoaded(n)
    /\ LoadedAll => \A n \in registered : IsLoaded(n)

AllInv == LoadInv /\ NotYet /\ TriedInv

\* A step that is not one of load_all, or that leaves what it has been through.
LEMMA TriedElsewhere ==
    ASSUME TriedInv, UNCHANGED <<order, tried, errors, registered>>,
           stage' = "loading" => stage = "loading", LoadedAll' => LoadedAll
    PROVE  TriedInv'
BY DEF TriedInv, IsLoaded

\* A plugin is loaded at the end of _load.
LEMMA TriedReturn ==
    ASSUME LoadInv, TriedInv, Kept, stage = "loading", stage' = stage, stack # << >>,
           errors' = errors, Return,
           \/ order' = order /\ IsLoaded(Top.plugin)
           \/ order' = Append(order, Top.plugin)
    PROVE  TriedInv'
<1>1. order \in Seq(registered) /\ Len(order) \in Nat
    BY DEF LoadInv, SeqTypes
<1>2. PICK p \in registered : p = Top.plugin
    BY BelowFacts DEF LoadInv, Frames
<1>3. IsLoaded(p)' /\ \A n : IsLoaded(n) => IsLoaded(n)'
    <2>1. CASE order' = order /\ IsLoaded(p)
        BY <2>1 DEF IsLoaded
    <2>2. CASE order' = Append(order, p)
        <3>1. /\ Len(order') = Len(order) + 1 /\ order'[Len(order) + 1] = p
              /\ \A i \in 1..Len(order) : order'[i] = order[i]
            BY <1>1, <2>2
        <3>2. Len(order) + 1 \in 1..Len(order') /\ 1..Len(order) \subseteq 1..Len(order')
            BY <1>1, <3>1
        <3> HIDE <2>2
        <3> QED
            BY <3>1, <3>2 DEF IsLoaded
    <2> QED
        BY <1>2, <2>1, <2>2
<1>4. tried' = tried \/ tried' = tried \cup {p}
    BY <1>2 DEF Return
<1>5. errors # {} \/ \A n \in tried : IsLoaded(n)
    BY DEF TriedInv
<1>6. errors' # {} \/ \A n \in tried' : IsLoaded(n)'
    BY <1>3, <1>4, <1>5
<1> QED
    BY <1>6 DEF TriedInv, LoadedAll, PastLoading

\* ... for every step of load_all.
LEMMA TriedInLoading ==
    ASSUME LoadInv, TriedInv, LoadStep
    PROVE  TriedInv'
<1> DEFINE Wrong == errors' # {} \/ BrokenOff'
<1>1. stage = "loading" /\ stage' \in {"loading", "broken", "halfloaded"} /\ Kept
    BY DEF LoadStep, LoadNext, LoadDep, AlreadyLoaded, NotActivable, Circular, CheckDeps,
           Import, ImportFails, Raise, Break, Leave, BrokenOff, Kept
<1>2. ASSUME Wrong PROVE TriedInv'
    BY <1>1, <1>2 DEF TriedInv, LoadedAll, PastLoading, BrokenOff
<1>3. ASSUME NEW n \in Name, LoadNext(n) \/ LoadDep(n) PROVE TriedInv'
    BY <1>1, <1>3, TriedElsewhere DEF LoadNext, LoadDep, LoadedAll, PastLoading
<1>4. ASSUME AlreadyLoaded PROVE TriedInv'
    <2>1. IsLoaded(Top.plugin)
        BY <1>4, LoadedByIndex DEF AlreadyLoaded, LoadInv
    <2> QED
        BY <1>1, <1>4, <2>1, TriedReturn DEF AlreadyLoaded
<1>5. ASSUME NotActivable \/ Circular \/ ImportFails PROVE Wrong
    BY <1>5 DEF NotActivable, Circular, ImportFails, Raise, Break, Leave, BrokenOff
<1>6. ASSUME CheckDeps PROVE TriedInv'
    <2>1. CASE UNCHANGED <<tried, errors, order, registered>>
        BY <1>1, <1>6, <2>1, TriedElsewhere DEF LoadedAll, PastLoading
    <2>2. CASE ~UNCHANGED <<tried, errors, order, registered>>
        <3>1. errors' = errors \cup [plugin : {stack[1].plugin}, kind : {"dependencies"}]
            BY <1>6, <2>2 DEF CheckDeps
        <3>2. [plugin |-> stack[1].plugin, kind |-> "dependencies"] \in errors'
            BY <3>1
        <3> QED
            BY <1>2, <3>2
    <2> QED
        BY <2>1, <2>2
<1>7. ASSUME Import PROVE TriedInv'
    BY <1>1, <1>7, TriedReturn DEF Import
<1> QED
    BY <1>2, <1>3, <1>4, <1>5, <1>6, <1>7 DEF LoadStep

\* ... and for every step of the boot.
LEMMA TriedStep ==
    ASSUME AllInv, [Next]_vars
    PROVE  TriedInv'
<1> USE DEF AllInv
<1>1. ASSUME SettingsStep \/ StartHooks PROVE TriedInv'
    <2>1. ~LoadedAll'
        BY <1>1 DEF SettingsStep, ReadFiles, RegisterNext, Populate, ReadList, StartHooks,
                    LoadedAll, PastLoading, Fail
    <2>2. stage' = "loading" => errors' # {} \/ tried' = {}
        BY <1>1 DEF SettingsStep, ReadFiles, RegisterNext, Populate, ReadList, StartHooks,
                    Fail
    <2> QED
        BY <2>1, <2>2 DEF TriedInv
<1>2. ASSUME LoadStep PROVE TriedInv'
    BY <1>2, TriedInLoading
<1>3. ASSUME EndLoading PROVE TriedInv'
    <2>1. UNCHANGED <<order, registered>> /\ stage' \in {"failed", "loaded"}
        BY <1>3 DEF EndLoading, plugVars, Fail
    <2>2. CASE errors # {}
        BY <1>3, <2>2 DEF EndLoading, Fail, TriedInv, LoadedAll, PastLoading
    <2>3. CASE errors = {}
        BY <1>3, <2>1, <2>3 DEF EndLoading, AllTried, TriedInv, IsLoaded, LoadedAll, PastLoading
    <2> QED
        BY <2>2, <2>3
<1>4. ASSUME ExposeAgain \/ Bootstraped \/ ImportLeapi PROVE TriedInv'
    <2>1. PastLoading /\ stage' # "loading" /\ UNCHANGED <<order, tried, errors, registered>>
        BY <1>4 DEF ExposeAgain, Bootstraped, ImportLeapi, plugVars, PastLoading
    <2> QED
        BY <2>1, TriedElsewhere DEF LoadedAll
<1>5. ASSUME RunCallback PROVE TriedInv'
    <2>1. UNCHANGED <<order, tried, errors, registered>>
        BY <1>5 DEF RunCallback, plugVars
    <2>2. stage' = stage \/ stage' = "failed" \/ (PastLoading /\ stage' = "halfstarted")
        BY <1>5 DEF RunCallback, Aborts, NotYet
    <2> QED
        BY <2>1, <2>2, TriedElsewhere DEF LoadedAll, PastLoading
<1>6. ASSUME UNCHANGED vars PROVE TriedInv'
    BY <1>6, TriedElsewhere DEF vars, plugVars, LoadedAll, PastLoading
<1> QED
    BY <1>1, <1>2, <1>3, <1>4, <1>5, <1>6 DEF Next, Done

\* Once load_all has ended without an error every registered plugin is loaded,
\* those that a dependency passed over included.
THEOREM NoPluginLeft == Spec => []EveryPluginLoaded
<1>1. Init => AllInv
    BY DEF Init, AllInv, NotYet, TriedInv, LoadedAll, PastLoading, LoadInv, SeqTypes, Frames, OrderInv,
           StackInv, Quiet, Early
<1>2. AllInv /\ [Next]_vars => AllInv'
    BY NextKeeps, TriedStep DEF AllInv
<1>3. AllInv => EveryPluginLoaded
    <2> SUFFICES ASSUME AllInv, LoadedAll PROVE Loaded = registered
        BY DEF EveryPluginLoaded
    <2>1. order \in Seq(registered) /\ \A n \in registered : IsLoaded(n)
        BY DEF AllInv, LoadInv, SeqTypes, TriedInv
    <2>2. \A k \in DOMAIN order : order[k] \in registered
        BY <2>1
    <2>3. \A n \in registered : \E k \in DOMAIN order : order[k] = n
        BY <2>1 DEF IsLoaded
    <2> QED
        BY <2>2, <2>3 DEF Loaded, Range
<1> QED
    BY <1>1, <1>2, <1>3, PTL DEF Spec
-----------------------------------------------------------------------------
(* What load_all comes to.                                                 *)

\* A plugin that passed check_deps.
Sound(n) == Info(n).activable /\ Info(n).deps \subseteq registered /\ WrongDeps(n) = {}

\* Each activation was entered for a dependency of the one below it.
StackSound ==
    /\ \A i \in 1..Len(stack) : stack[i].checked =>
            Sound(stack[i].plugin) /\ stack[i].todo \subseteq Info(stack[i].plugin).deps
    /\ \A i \in 1..Len(stack) : i < Len(stack) =>
            stack[i + 1].plugin \in Info(stack[i].plugin).deps

\* Loaded plugins passed every test, and no two of them share a method.
OrderSound ==
    /\ \A k \in 1..Len(order) : Sound(order[k]) /\ Info(order[k]).loader = "loads"
    /\ \A j, k \in 1..Len(order) : j # k =>
            Info(order[j]).methods \cap Info(order[k]).methods = {}
    /\ \A x : x \in methods <=> \E k \in 1..Len(order) : x \in Info(order[k]).methods

\* While there is no error, the plugins _load was called for are loaded or
\* under way; where there is one, the plugins are to blame.
InProgress(n) == \E i \in 1..Len(stack) : stack[i].checked /\ stack[i].plugin = n
ErrorsSound ==
    /\ stage = "loading" /\ errors = {} => \A n \in called : IsLoaded(n) \/ InProgress(n)
    /\ errors # {} \/ BrokenOff => ~AllLoadable
    /\ stage \in Early => errors = {} /\ methods = {}

ResultInv == StackSound /\ OrderSound /\ ErrorsSound

\* A nonempty set of numbers has a least one.
LEMMA LeastNumber ==
    ASSUME NEW T, T \subseteq Nat, T # {}
    PROVE  \E x \in T : \A y \in T : x <= y
<1> DEFINE Less == {ss \in Nat \X Nat : ss[1] < ss[2]}
<1>1. IsWellFoundedOn(Less, Nat)
    BY NatLessThanWellFounded DEF OpToRel
<1>2. PICK x \in T : \A y \in T : <<y, x>> \notin Less
    BY <1>1, WFMin, Zenon
<1>3. ASSUME NEW y \in T PROVE x <= y
    <2>1. x \in Nat /\ y \in Nat
        OBVIOUS
    <2>2. <<y, x>> \in Nat \X Nat /\ <<y, x>>[1] = y /\ <<y, x>>[2] = x
        BY <2>1
    <2>3. ~(y < x)
        BY <1>2, <2>2
    <2> QED
        BY <2>1, <2>3
<1> QED
    BY <1>3

\* The plugins a cycle would consist of were not loaded one behind another.
LEMMA LoadedIsAcyclic ==
    ASSUME LoadInv, OrderSound, \A n \in registered : IsLoaded(n)
    PROVE  ~Cyclic
<1> SUFFICES ASSUME NEW set \in SUBSET registered, set # {},
                    \A n \in set : Info(n).deps \cap set # {}
             PROVE  FALSE
    BY DEF Cyclic
<1> DEFINE places == {k \in 1..Len(order) : order[k] \in set}
<1>1. Len(order) \in Nat /\ places \subseteq Nat /\ places # {}
    <2>1. PICK n \in set : n \in registered
        OBVIOUS
    <2>2. PICK k \in 1..Len(order) : order[k] = n
        BY <2>1 DEF IsLoaded
    <2>3. Len(order) \in Nat
        BY DEF LoadInv, SeqTypes
    <2> QED
        BY <2>1, <2>2, <2>3
<1>2. PICK k \in places : \A j \in places : k <= j
    BY <1>1, LeastNumber
<1>3. PICK m \in set : m \in Info(order[k]).deps
    OBVIOUS
<1>4. Info(m).activable
    BY DEF OrderSound, Sound, IsLoaded
<1>5. PICK j \in 1..(k - 1) : order[j] = m
    BY <1>3, <1>4 DEF LoadInv, OrderInv
<1>6. j \in places /\ j < k /\ k \in Nat
    BY <1>1, <1>5
<1> QED
    BY <1>1, <1>2, <1>6

\* When load_all has ended without an error there was nothing to object to.
LEMMA LoadedIsLoadable ==
    ASSUME LoadInv, OrderSound, \A n \in registered : IsLoaded(n)
    PROVE  AllLoadable
<1>1. ASSUME NEW n \in registered
      PROVE  /\ Info(n).activable /\ Info(n).deps \subseteq registered
             /\ Info(n).loader = "loads" /\ WrongDeps(n) = {}
    BY DEF OrderSound, Sound, IsLoaded
<1>2. ASSUME NEW n \in registered, NEW m \in registered \ {n}
      PROVE  Info(n).methods \cap Info(m).methods = {}
    <2>1. PICK j \in 1..Len(order) : order[j] = n
        BY DEF IsLoaded
    <2>2. PICK k \in 1..Len(order) : order[k] = m
        BY DEF IsLoaded
    <2>3. j # k
        BY <2>1, <2>2
    <2> QED
        BY <2>1, <2>2, <2>3 DEF OrderSound
<1> QED
    BY <1>1, <1>2, LoadedIsAcyclic DEF AllLoadable

\* A plugin that is called again before it is loaded is on a cycle: the
\* plugins of the activations from its first one on.
LEMMA CircularIsCyclic ==
    ASSUME LoadInv, StackSound, stack # << >>, ~Top.checked, InProgress(Top.plugin)
    PROVE  Cyclic
<1> DEFINE n == Len(stack)
<1>1. n \in Nat \ {0} /\ Top = stack[n] /\ \A i \in 1..n : stack[i].plugin \in registered
    <2>1. n \in Nat \ {0} /\ Top = stack[n]
        BY BelowFacts DEF LoadInv
    <2>2. \A i \in 1..n : stack[i] \in Frames
        BY DEF LoadInv, SeqTypes
    <2> QED
        BY <2>1, <2>2 DEF Frames
<1>2. PICK i \in 1..n : stack[i].checked /\ stack[i].plugin = Top.plugin
    BY DEF InProgress
<1>3. i < n
    BY <1>1, <1>2
<1> DEFINE set == {stack[j].plugin : j \in i..(n - 1)}
<1>4. set \in SUBSET registered /\ stack[i].plugin \in set
    BY <1>1, <1>3
<1>5. ASSUME NEW j \in i..(n - 1)
      PROVE  Info(stack[j].plugin).deps \cap set # {}
    <2>1. j \in 1..n /\ j < n
        BY <1>1
    <2>2. stack[j + 1].plugin \in Info(stack[j].plugin).deps
        BY <2>1 DEF StackSound
    <2>3. stack[j + 1].plugin \in set
        <3>1. CASE j + 1 = n
            BY <1>1, <1>2, <1>4, <3>1
        <3>2. CASE j + 1 # n
            BY <1>1, <3>2
        <3> QED
            BY <3>1, <3>2
    <2> QED
        BY <2>2, <2>3
<1>6. \A m \in set : Info(m).deps \cap set # {}
    BY <1>5
<1> HIDE DEF set
<1> QED
    BY <1>4, <1>6 DEF Cyclic

\* What the plugins are does not change while they are loaded.
LEMMA SamePlugins ==
    ASSUME Kept
    PROVE  /\ AllLoadable' <=> AllLoadable
           /\ \A n : Info(n)' = Info(n) /\ (Sound(n)' <=> Sound(n))
BY DEF Kept, AllLoadable, Cyclic, Info, Sound, WrongDeps

\* ... and so what is said of the loaded ones stays.
LEMMA OrderSoundKept ==
    ASSUME Kept, UNCHANGED <<order, methods>>, OrderSound
    PROVE  OrderSound'
<1>1. \A k \in 1..Len(order) : Sound(order[k]) /\ Info(order[k]).loader = "loads"
    BY DEF OrderSound
<1>2. \A k \in 1..Len(order') : Sound(order[k])' /\ Info(order[k])'.loader = "loads"
    BY <1>1 DEF Kept, Info, Sound, WrongDeps
<1> QED
    BY <1>2 DEF Kept, OrderSound, Info

\* An error leaves every activation.
LEMMA ResultUnwound ==
    ASSUME ResultInv, Kept, stack' = << >>, UNCHANGED <<order, methods>>,
           stage' \notin Early, ~AllLoadable,
           stage' = "loading" => errors' # {}
    PROVE  ResultInv'
<1>1. StackSound'
    BY DEF StackSound
<1>2. OrderSound'
    BY OrderSoundKept DEF ResultInv
<1>3. ErrorsSound'
    BY SamePlugins DEF ErrorsSound
<1> QED
    BY <1>1, <1>2, <1>3 DEF ResultInv

\* A step that puts one activation on the stack, or nothing.
LEMMA ResultEntered ==
    ASSUME LoadInv, ResultInv, Kept, NEW n \in registered, stage = "loading",
           stack = << >>, stack' = <<Entered(n)>>,
           UNCHANGED <<stage, order, methods, errors, called>>
    PROVE  ResultInv'
<1>1. \A i \in 1..Len(stack') : i = 1 /\ stack'[i] = Entered(n) /\ Len(stack') = 1
    OBVIOUS
<1>2. StackSound'
    BY <1>1 DEF StackSound, Entered
<1>3. OrderSound'
    BY OrderSoundKept DEF ResultInv
<1>4. ErrorsSound'
    BY SamePlugins DEF ResultInv, ErrorsSound, InProgress, IsLoaded, Early, BrokenOff
<1> QED
    BY <1>2, <1>3, <1>4 DEF ResultInv

\* The top activation is left: its plugin is loaded.
LEMMA StackSoundBelow ==
    ASSUME LoadInv, StackSound, Kept, stack # << >>, stack' = Below
    PROVE  /\ StackSound'
           /\ \A n : InProgress(n) => InProgress(n)' \/ n = Top.plugin
<1> DEFINE n == Len(stack)
<1>1. /\ n \in Nat \ {0} /\ Top = stack[n] /\ Len(stack') = n - 1
      /\ \A i \in 1..(n - 1) : stack'[i] = stack[i]
    BY BelowFacts DEF LoadInv
<1>2. StackSound'
    <2>1. \A i \in 1..(n - 1) : i \in 1..n
        BY <1>1
    <2>2. \A i \in 1..(n - 1) : i < n - 1 => i + 1 \in 1..(n - 1) /\ i < n
        BY <1>1
    <2> QED
        BY <1>1, <2>1, <2>2, SamePlugins DEF StackSound
<1>3. \A m : InProgress(m) => InProgress(m)' \/ m = Top.plugin
    <2>1. \A i \in 1..n : i = n \/ i \in 1..(n - 1)
        BY <1>1
    <2> QED
        BY <1>1, <2>1 DEF InProgress
<1> QED
    BY <1>2, <1>3

\* _load returns for a plugin that is loaded.
LEMMA ResultReturned ==
    ASSUME LoadInv, ResultInv, AlreadyLoaded
    PROVE  ResultInv'
<1>1. Kept /\ stack # << >> /\ stack' = Below /\ UNCHANGED <<stage, order, methods, errors, called>>
    BY DEF AlreadyLoaded, Return, Kept
<1>2. IsLoaded(Top.plugin)
    BY LoadedByIndex DEF AlreadyLoaded, LoadInv
<1>3. StackSound' /\ \A n : InProgress(n) => InProgress(n)' \/ n = Top.plugin
    BY <1>1, StackSoundBelow DEF ResultInv
<1>4. OrderSound'
    BY <1>1, OrderSoundKept DEF ResultInv
<1>5. ErrorsSound'
    BY <1>1, <1>2, <1>3, SamePlugins DEF ResultInv, ErrorsSound, IsLoaded, BrokenOff
<1> QED
    BY <1>3, <1>4, <1>5 DEF ResultInv

\* The loader file is imported.
LEMMA ResultImported ==
    ASSUME LoadInv, ResultInv, Import
    PROVE  ResultInv'
<1> DEFINE p == Top.plugin
           o == Len(order)
           n == Len(stack)
<1>1. /\ Kept /\ stack # << >> /\ stack' = Below /\ UNCHANGED <<stage, errors, called>>
      /\ Top.checked /\ Info(p).loader = "loads"
      /\ Info(p).methods \cap methods = {} /\ methods' = methods \cup Info(p).methods
      /\ order' = Append(order, p)
    BY DEF Import, Return, Kept
<1>2. /\ StackSound'
      /\ \A m : InProgress(m) => InProgress(m)' \/ m = p
    BY <1>1, StackSoundBelow DEF ResultInv
<1>3. n \in Nat \ {0} /\ Top = stack[n] /\ p \in registered
    BY <1>1, BelowFacts DEF LoadInv, Frames
<1>4. Sound(p)
    BY <1>1, <1>3 DEF ResultInv, StackSound
<1>5. /\ o \in Nat /\ Len(order') = o + 1 /\ order'[o + 1] = p
      /\ \A k \in 1..o : order'[k] = order[k]
    BY <1>1, <1>3 DEF LoadInv, SeqTypes
<1>6. \A k \in 1..Len(order') : k \in 1..o \/ k = o + 1
    BY <1>5
<1>7. 1..o \subseteq 1..Len(order') /\ o + 1 \in 1..Len(order')
    BY <1>5
<1>8. OrderSound'
    <2>1. \A k \in 1..Len(order') : Sound(order'[k]) /\ Info(order'[k]).loader = "loads"
        BY <1>1, <1>4, <1>5, <1>6 DEF ResultInv, OrderSound
    <2>2. \A k \in 1..o : Info(p).methods \cap Info(order[k]).methods = {}
        BY <1>1 DEF ResultInv, OrderSound
    <2>3. ASSUME NEW j \in 1..Len(order'), NEW k \in 1..Len(order'), j # k
          PROVE  Info(order'[j]).methods \cap Info(order'[k]).methods = {}
        <3>1. CASE j \in 1..o /\ k \in 1..o
            BY <1>5, <2>3, <3>1 DEF ResultInv, OrderSound
        <3>2. CASE j = o + 1 /\ k \in 1..o
            BY <1>5, <2>2, <3>2
        <3>3. CASE k = o + 1 /\ j \in 1..o
            BY <1>5, <2>2, <3>3
        <3> QED
            BY <1>6, <2>3, <3>1, <3>2, <3>3
    <2>4. \A x : x \in methods' <=> \E k \in 1..Len(order') : x \in Info(order'[k]).methods
        <3> TAKE x
        <3>1. x \in methods <=> \E k \in 1..o : x \in Info(order[k]).methods
            BY DEF ResultInv, OrderSound
        <3> QED
            BY <1>1, <1>5, <1>6, <1>7, <3>1
    <2>5. /\ \A k \in 1..Len(order') : Sound(order[k])' /\ Info(order[k])'.loader = "loads"
          /\ \A j, k \in 1..Len(order') : j # k =>
                Info(order[j])'.methods \cap Info(order[k])'.methods = {}
          /\ \A x : x \in methods' <=> \E k \in 1..Len(order') : x \in Info(order[k])'.methods
        <3>1. UNCHANGED <<found, registered>>
            BY <1>1 DEF Kept
        <3> QED
            BY <2>1, <2>3, <2>4, <3>1 DEF Info, Sound, WrongDeps
    <2> QED
        BY <2>5 DEF OrderSound
<1>9. ErrorsSound'
    <2>1. \A m : IsLoaded(m) \/ m = p => IsLoaded(m)'
        BY <1>5, <1>7 DEF IsLoaded
    <2>2. stage = "loading"
        BY DEF Import
    <2> QED
        BY <1>1, <1>2, <2>1, <2>2, SamePlugins DEF ResultInv, ErrorsSound, Early, BrokenOff
<1> QED
    BY <1>2, <1>8, <1>9 DEF ResultInv

\* check_deps finds nothing amiss.
LEMMA ResultChecked ==
    ASSUME LoadInv, ResultInv, CheckDeps, stack' # << >>
    PROVE  ResultInv'
<1> DEFINE n == Len(stack)
           p == Top.plugin
           f == [plugin |-> p, checked |-> TRUE, todo |-> Info(p).deps]
<1>1. /\ Kept /\ stack # << >> /\ ~Top.checked /\ stage = "loading"
      /\ UNCHANGED <<stage, order, methods, errors>> /\ called' = called \cup {p}
      /\ Sound(p) /\ stack' = Append(Below, f)
    BY DEF CheckDeps, MarkCalled, DepsFirst, MissingDeps, Kept, Sound
<1>2. f \in Frames
    BY <1>1, BelowFacts DEF Frames, LoadInv, Sound
<1>3. /\ n \in Nat \ {0} /\ Top = stack[n]
      /\ Len(stack') = n /\ stack'[n] = f
      /\ \A i \in 1..(n - 1) : stack'[i] = stack[i]
    BY <1>1, <1>2, BelowFacts, ReplaceTop DEF LoadInv
<1> HIDE DEF f
<1>4. \A i \in 1..n : i = n \/ i \in 1..(n - 1)
    BY <1>3
<1>5. \A i \in 1..n : stack'[i].plugin = stack[i].plugin
    BY <1>3, <1>4 DEF f
<1>6. StackSound'
    <2>1. \A i \in 1..n : stack'[i].checked =>
            Sound(stack'[i].plugin) /\ stack'[i].todo \subseteq Info(stack'[i].plugin).deps
        BY <1>1, <1>3, <1>4 DEF ResultInv, StackSound, f
    <2>2. \A i \in 1..n : i < n => stack'[i + 1].plugin \in Info(stack'[i].plugin).deps
        <3>1. \A i \in 1..n : i < n => i + 1 \in 1..n
            BY <1>3
        <3> QED
            BY <1>5, <3>1 DEF ResultInv, StackSound
    <2> QED
        BY <1>1, <1>3, <2>1, <2>2, SamePlugins DEF StackSound
<1>7. OrderSound'
    BY <1>1, OrderSoundKept DEF ResultInv
<1>8. ErrorsSound'
    <2>1. \A m : InProgress(m) => InProgress(m)'
        BY <1>1, <1>3, <1>4 DEF InProgress
    <2>2. PICK q : q = p
        OBVIOUS
    <2>3. n \in 1..Len(stack') /\ stack'[n].checked /\ stack'[n].plugin = q
        BY <1>3, <2>2 DEF f
    <2>4. InProgress(q)' /\ called' = called \cup {q}
        BY <1>1, <2>2, <2>3 DEF InProgress
    <2> QED
        BY <1>1, <2>1, <2>4, SamePlugins DEF ResultInv, ErrorsSound, IsLoaded, Early, BrokenOff
<1> QED
    BY <1>6, <1>7, <1>8 DEF ResultInv

\* The loop over the dependencies takes m.
LEMMA ResultTaken ==
    ASSUME LoadInv, ResultInv, NEW m, LoadDep(m)
    PROVE  ResultInv'
<1> DEFINE n == Len(stack)
           p == Top.plugin
           f == [plugin |-> p, checked |-> TRUE, todo |-> Top.todo \ {m}]
           rest == Append(Below, f)
<1>1. /\ Kept /\ stack # << >> /\ Top.checked /\ m \in Top.todo /\ stage = "loading"
      /\ UNCHANGED <<stage, order, methods, errors, called>>
      /\ stack' = IF Info(m).activable THEN Append(rest, Entered(m)) ELSE rest
    BY DEF LoadDep, LeftBehind, Kept
<1>2. f \in Frames /\ m \in registered
    BY <1>1, BelowFacts DEF Frames, LoadInv
<1>3. /\ n \in Nat \ {0} /\ Top = stack[n] /\ rest \in Seq(Frames)
      /\ Len(rest) = n /\ rest[n] = f
      /\ \A i \in 1..(n - 1) : rest[i] = stack[i]
    BY <1>1, <1>2, BelowFacts, ReplaceTop DEF LoadInv
<1> HIDE DEF rest
<1>4. Entered(m) \in Frames /\ Entered(m).plugin = m /\ ~Entered(m).checked
    BY <1>2 DEF Entered, Frames
<1>5. \/ Len(stack') = n /\ \A i \in 1..n : stack'[i] = rest[i]
      \/ /\ Len(stack') = n + 1 /\ stack'[n + 1] = Entered(m)
         /\ \A i \in 1..n : stack'[i] = rest[i]
    <2>1. CASE ~Info(m).activable
        BY <1>1, <1>3, <2>1
    <2>2. CASE Info(m).activable
        <3>1. stack' = Append(rest, Entered(m))
            BY <1>1, <2>2
        <3>2. /\ Len(Append(rest, Entered(m))) = n + 1
              /\ \A i \in 1..n : Append(rest, Entered(m))[i] = rest[i]
              /\ Append(rest, Entered(m))[n + 1] = Entered(m)
            <4> HIDE DEF Frames
            <4> QED
                BY <1>3, <1>4, Pushed
        <3> QED
            BY <3>1, <3>2
    <2> QED
        BY <2>1, <2>2
<1>6. \A i \in 1..n : /\ stack'[i].plugin = stack[i].plugin
                      /\ stack[i].checked => stack'[i].checked
                      /\ stack'[i].checked => stack[i].checked
                      /\ stack'[i].todo \subseteq stack[i].todo
    <2>1. \A i \in 1..n : i = n \/ i \in 1..(n - 1)
        BY <1>3
    <2>2. \A i \in 1..n : stack'[i] = rest[i]
        BY <1>5
    <2> QED
        BY <1>1, <1>3, <2>1, <2>2
<1>7. n \in 1..n /\ Sound(p) /\ Top.todo \subseteq Info(p).deps
    BY <1>1, <1>3 DEF ResultInv, StackSound
<1>8. StackSound'
    <2>1. \A i \in 1..Len(stack') :
            \/ i \in 1..n
            \/ i = n + 1 /\ Len(stack') = n + 1 /\ stack'[i] = Entered(m)
        BY <1>3, <1>5
    <2>2. \A i \in 1..Len(stack') : stack'[i].checked =>
            Sound(stack'[i].plugin) /\ stack'[i].todo \subseteq Info(stack'[i].plugin).deps
        BY <1>4, <1>6, <2>1 DEF ResultInv, StackSound
    <2>3. ASSUME NEW i \in 1..Len(stack'), i < Len(stack')
          PROVE  stack'[i + 1].plugin \in Info(stack'[i].plugin).deps
        <3>1. CASE i < n
            <4>1. i \in 1..n /\ i + 1 \in 1..n
                BY <1>3, <3>1
            <4> QED
                BY <1>6, <3>1, <4>1 DEF ResultInv, StackSound
        <3>2. CASE i = n
            <4>1. stack'[i + 1] = Entered(m)
                BY <1>3, <1>5, <2>3, <3>2
            <4> QED
                BY <1>1, <1>3, <1>4, <1>6, <1>7, <3>2, <4>1
        <3> QED
            BY <1>3, <1>5, <2>3, <3>1, <3>2
    <2> QED
        BY <1>1, <2>2, <2>3, SamePlugins DEF StackSound
<1>9. OrderSound'
    BY <1>1, OrderSoundKept DEF ResultInv
<1>10. ErrorsSound'
    <2>1. 1..n \subseteq 1..Len(stack')
        BY <1>3, <1>5
    <2>2. \A k : InProgress(k) => InProgress(k)'
        BY <1>6, <2>1 DEF InProgress
    <2> QED
        BY <1>1, <2>2, SamePlugins DEF ResultInv, ErrorsSound, IsLoaded, Early, BrokenOff
<1> QED
    BY <1>8, <1>9, <1>10 DEF ResultInv

\* Every step of load_all keeps the invariant: what it objects to is there.
LEMMA ResultInLoading ==
    ASSUME LoadInv, ResultInv, LoadStep
    PROVE  ResultInv'
<1> DEFINE p == Top.plugin
<1>1. /\ Kept /\ stage = "loading" /\ stage' \in {"loading", "broken", "halfloaded"}
      /\ stage' \notin Early
    BY DEF LoadStep, LoadNext, LoadDep, AlreadyLoaded, NotActivable, Circular, CheckDeps,
           Import, ImportFails, Raise, Break, Leave, Kept, Early
<1>2. stack # << >> => p \in registered /\ Len(stack) \in 1..Len(stack) /\ Top = stack[Len(stack)]
    BY BelowFacts DEF LoadInv, Frames
<1>3. ASSUME NEW n \in Name, LoadNext(n) PROVE ResultInv'
    BY <1>1, <1>3, ResultEntered DEF LoadNext
<1>4. ASSUME NEW n \in Name, LoadDep(n) PROVE ResultInv'
    BY <1>4, ResultTaken
<1>5. ASSUME AlreadyLoaded PROVE ResultInv'
    BY <1>5, ResultReturned
<1>6. ASSUME NotActivable PROVE ResultInv'
    <2>1. ~AllLoadable
        BY <1>2, <1>6 DEF NotActivable, AllLoadable
    <2> QED
        BY <1>1, <1>6, <2>1, ResultUnwound DEF NotActivable, Raise
<1>7. ASSUME Circular PROVE ResultInv'
    <2>1. ~AllLoadable
        <3>1. CASE errors # {}
            BY <3>1 DEF ResultInv, ErrorsSound
        <3>2. CASE errors = {}
            <4>1. ~IsLoaded(p)
                BY <1>7, LoadedByIndex DEF Circular, LoadInv
            <4>2. InProgress(p)
                BY <1>7, <3>2, <4>1 DEF Circular, ResultInv, ErrorsSound
            <4> QED
                BY <1>7, <4>2, CircularIsCyclic DEF Circular, ResultInv, AllLoadable
        <3> QED
            BY <3>1, <3>2
    <2> QED
        BY <1>1, <1>7, <2>1, ResultUnwound DEF Circular, Raise
<1>8. ASSUME CheckDeps PROVE ResultInv'
    <2>1. CASE stack' # << >>
        BY <1>8, <2>1, ResultChecked
    <2>2. CASE WrongDeps(p) # {}
        <3>1. ~AllLoadable
            BY <1>2, <1>8, <2>2 DEF CheckDeps, AllLoadable
        <3>2. stage' # "loading" /\ stack' = << >> /\ UNCHANGED <<order, methods>>
            BY <1>8, <2>2 DEF CheckDeps, Leave
        <3> QED
            BY <1>1, <3>1, <3>2, ResultUnwound
    <2>3. CASE stack' = << >> /\ WrongDeps(p) = {}
        <3>1. MissingDeps(p) # {} /\ UNCHANGED <<order, methods>>
              /\ errors' = errors \cup [plugin : {stack[1].plugin}, kind : {"dependencies"}]
            <4>1. CASE MissingDeps(p) # {}
                BY <1>8, <2>3, <4>1 DEF CheckDeps
            <4>2. CASE MissingDeps(p) = {}
                <5>1. stack # << >> /\ stack' = Append(Below, [plugin |-> p, checked |-> TRUE,
                                                          todo |-> DepsFirst(p)])
                    BY <1>8, <2>3, <4>2 DEF CheckDeps
                <5>2. Below \in Seq(Frames)
                    BY <5>1, BelowFacts DEF LoadInv
                <5> QED
                    BY <2>3, <5>1, <5>2
            <4> QED
                BY <4>1, <4>2
        <3>2. [plugin |-> stack[1].plugin, kind |-> "dependencies"] \in errors'
            BY <3>1
        <3>3. ~AllLoadable
            BY <1>2, <1>8, <3>1 DEF CheckDeps, AllLoadable, MissingDeps
        <3> QED
            BY <1>1, <2>3, <3>1, <3>2, <3>3, ResultUnwound
    <2> QED
        BY <2>1, <2>2, <2>3
<1>9. ASSUME Import PROVE ResultInv'
    BY <1>9, ResultImported
<1>10. ASSUME ImportFails PROVE ResultInv'
    <2>1. stack # << >> /\ Top.checked /\ UNCHANGED <<order, methods>> /\ stack' = << >>
        BY <1>10 DEF ImportFails, Raise, Break, Leave
    <2>2. stage' = "loading" => errors' # {}
        BY <1>10 DEF ImportFails, Raise, Break, Leave
    <2>3. CASE Info(p).loader # "loads"
        BY <1>1, <1>2, <2>1, <2>2, <2>3, ResultUnwound DEF AllLoadable
    <2>4. CASE Info(p).loader = "loads"
        <3>1. PICK x : x \in Info(p).methods \cap methods
            BY <1>10, <2>4 DEF ImportFails
        <3>2. PICK k \in 1..Len(order) : x \in Info(order[k]).methods
            BY <3>1 DEF ResultInv, OrderSound
        <3>3. ~IsLoaded(p)
            BY <1>2, <2>1 DEF LoadInv, StackInv, FrameInv
        <3>4. order[k] \in registered /\ order[k] # p
            BY <3>3 DEF IsLoaded, LoadInv, SeqTypes
        <3>5. ~AllLoadable
            BY <1>2, <2>1, <3>1, <3>2, <3>4 DEF AllLoadable
        <3> QED
            BY <1>1, <2>1, <2>2, <3>5, ResultUnwound
    <2> QED
        BY <2>3, <2>4
<1> QED
    BY <1>3, <1>4, <1>5, <1>6, <1>7, <1>8, <1>9, <1>10 DEF LoadStep

\* ... and for every step of the boot.
LEMMA ResultStep ==
    ASSUME LoadInv, NotYet, ResultInv, [Next]_vars
    PROVE  ResultInv'
<1> USE DEF ResultInv
<1>1. ASSUME SettingsStep PROVE ResultInv'
    <2>1. /\ stage \in Early /\ stage' \in Early \cup {"failed"}
          /\ stack = << >> /\ order = << >> /\ errors = {} /\ methods = {}
          /\ UNCHANGED <<stack, order, errors, methods>>
        BY <1>1 DEF SettingsStep, ReadFiles, RegisterNext, Populate, ReadList, plugVars,
                    Early, LoadInv, Quiet, ErrorsSound, Fail
    <2> QED
        BY <2>1 DEF StackSound, OrderSound, ErrorsSound, Early, BrokenOff
<1>2. ASSUME StartHooks PROVE ResultInv'
    <2>1. /\ order = << >> /\ methods = {} /\ UNCHANGED <<order, methods>> /\ stack' = << >>
          /\ called' = {} /\ errors' = {} /\ stage' = "loading"
        BY <1>2 DEF StartHooks, LoadInv, Quiet, Early, ErrorsSound
    <2> QED
        BY <2>1 DEF StackSound, OrderSound, ErrorsSound, Early, BrokenOff
<1>3. ASSUME LoadStep PROVE ResultInv'
    BY <1>3, ResultInLoading
<1>4. ASSUME \/ EndLoading \/ ExposeAgain \/ Bootstraped \/ ImportLeapi \/ RunCallback
      PROVE  ResultInv'
    <2>1. Kept /\ UNCHANGED <<stack, order, methods, errors>>
        BY <1>4 DEF EndLoading, ExposeAgain, Bootstraped, ImportLeapi, RunCallback, plugVars,
                    Kept
    <2>2. stage' \notin Early /\ stage' # "loading" /\ (BrokenOff' => BrokenOff)
        BY <1>4 DEF EndLoading, ExposeAgain, Bootstraped, ImportLeapi, RunCallback, Fail,
                    Aborts, Early, NotYet, PastLoading, BrokenOff
    <2>3. StackSound' /\ OrderSound'
        BY <2>1, SamePlugins, OrderSoundKept DEF StackSound
    <2>4. ErrorsSound'
        BY <2>1, <2>2, SamePlugins DEF ErrorsSound
    <2> QED
        BY <2>3, <2>4
<1>5. ASSUME UNCHANGED vars PROVE ResultInv'
    <2>1. Kept /\ UNCHANGED <<stage, stack, order, methods, errors, called>>
        BY <1>5 DEF vars, plugVars, Kept
    <2>2. StackSound' /\ OrderSound'
        BY <2>1, SamePlugins, OrderSoundKept DEF StackSound
    <2>3. ErrorsSound'
        BY <2>1, SamePlugins DEF ErrorsSound, Early, IsLoaded, InProgress, BrokenOff
    <2> QED
        BY <2>2, <2>3
<1> QED
    BY <1>1, <1>2, <1>3, <1>4, <1>5 DEF Next, Done

\* load_all ends without an error exactly when every plugin is activable, has
\* its dependencies among the plugins and of a type it can use, loads, and
\* there is no cycle and no method of two: in whatever order load_all and the
\* loops of _load take the plugins.
THEOREM LoadAllOutcome == Spec => []LoadOutcome
<1> DEFINE Inv == AllInv /\ ResultInv
<1>1. Init => Inv
    BY DEF Init, AllInv, NotYet, TriedInv, LoadedAll, PastLoading, LoadInv, SeqTypes, Frames,
           OrderInv, StackInv, Quiet, Early, ResultInv, StackSound, OrderSound, ErrorsSound,
           BrokenOff
<1>2. Inv /\ [Next]_vars => Inv'
    BY NextKeeps, TriedStep, ResultStep DEF AllInv
<1>3. Inv => LoadOutcome
    BY LoadedIsLoadable DEF AllInv, TriedInv, ResultInv, ErrorsSound, LoadOutcome, LoadedAll
<1> QED
    BY <1>1, <1>2, <1>3, PTL DEF Spec
-----------------------------------------------------------------------------
(* The registry of hooks.                                                  *)

\* A sequence, whatever its elements are.
Proper(s) == \E S : s \in Seq(S)

\* x is an element of s.
Has(s, x) == \E k \in 1..Len(s) : s[k] = x

\* Callback cb is among the calls of s.
Among(cb, s) == \E k \in 1..Len(s) : s[k].cb = cb

\* The calls of each hook are a sequence.
ProperHooks(r) == \A n \in DOMAIN r : Proper(r[n])

\* Sequences put together.
LEMMA JoinedElements ==
    ASSUME NEW s, NEW t, Proper(s), Proper(t)
    PROVE  /\ Proper(s \o t)
           /\ \A x : Has(s \o t, x) <=> Has(s, x) \/ Has(t, x)
<1>1. PICK S : s \in Seq(S)
    BY DEF Proper
<1>2. PICK T : t \in Seq(T)
    BY DEF Proper
<1> DEFINE U == S \cup T
           j == s \o t
           m == Len(s)
           n == Len(t)
<1>3. s \in Seq(U) /\ t \in Seq(U)
    BY <1>1, <1>2
<1>4. /\ j \in Seq(U) /\ Len(j) = m + n /\ m \in Nat /\ n \in Nat
      /\ \A i \in 1..(m + n) : j[i] = IF i <= m THEN s[i] ELSE t[i - m]
    <2> HIDE DEF U
    <2> QED
        BY <1>3, ConcatProperties
<1> HIDE DEF j, U, m, n
<1>5. \A i \in 1..m : i \in 1..(m + n) /\ j[i] = s[i]
    BY <1>4
<1>6. \A i \in 1..n : m + i \in 1..(m + n) /\ j[m + i] = t[i]
    <2> TAKE i \in 1..n
    <2>1. m + i \in 1..(m + n) /\ ~(m + i <= m) /\ m + i - m = i
        BY <1>4
    <2> QED
        BY <1>4, <2>1
<1>7. \A i \in 1..(m + n) : i \in 1..m \/ (i - m \in 1..n /\ j[i] = t[i - m])
    BY <1>4
<1>8. \A x : Has(j, x) <=> Has(s, x) \/ Has(t, x)
    <2> TAKE x
    <2>1. Has(j, x) => Has(s, x) \/ Has(t, x)
        BY <1>4, <1>5, <1>7 DEF Has, m, n
    <2>2. Has(s, x) => Has(j, x)
        BY <1>4, <1>5 DEF Has, m
    <2>3. Has(t, x) => Has(j, x)
        BY <1>4, <1>6 DEF Has, n
    <2> QED
        BY <2>1, <2>2, <2>3
<1> QED
    BY <1>4, <1>8 DEF Proper, j

\* ... and the callbacks of calls.
LEMMA JoinedCalls ==
    ASSUME NEW s, NEW t, Proper(s), Proper(t)
    PROVE  /\ Proper(s \o t)
           /\ \A cb : Among(cb, s \o t) <=> Among(cb, s) \/ Among(cb, t)
<1>1. \A r, cb : Among(cb, r) <=> \E x : Has(r, x) /\ x.cb = cb
    BY DEF Among, Has
<1>2. Proper(s \o t) /\ \A x : Has(s \o t, x) <=> Has(s, x) \/ Has(t, x)
    BY JoinedElements
<1> QED
    BY <1>1, <1>2

\* No calls.
LEMMA NoCalls ==
    Proper(<< >>) /\ \A cb : ~Among(cb, << >>)
BY DEF Proper, Among

\* A sequence cut in two.
LEMMA CutCalls ==
    ASSUME NEW s, Proper(s), NEW m \in 0..Len(s)
    PROVE  /\ Proper(SubSeq(s, 1, m)) /\ Proper(SubSeq(s, m + 1, Len(s)))
           /\ \A cb : Among(cb, s) <=>
                Among(cb, SubSeq(s, 1, m)) \/ Among(cb, SubSeq(s, m + 1, Len(s)))
<1>1. PICK S : s \in Seq(S)
    BY DEF Proper
<1> DEFINE n == Len(s)
           a == SubSeq(s, 1, m)
           b == SubSeq(s, m + 1, n)
<1>2. n \in Nat /\ m \in Nat /\ m <= n /\ \A i \in 1..n : s[i] \in S
    BY <1>1
<1>3. a \in Seq(S) /\ Len(a) = m /\ \A i \in 1..m : a[i] = s[i]
    <2>1. \A i \in 1..m : s[i] \in S
        BY <1>2
    <2> QED
        BY <1>2, <2>1, SubSeqProperties
<1>4. b \in Seq(S) /\ Len(b) = n - m /\ \A i \in 1..(n - m) : b[i] = s[m + i]
    <2>1. \A i \in (m + 1)..n : s[i] \in S
        BY <1>2
    <2>2. /\ SubSeq(s, m + 1, n) \in Seq(S)
          /\ Len(SubSeq(s, m + 1, n)) = IF m + 1 <= n THEN n - (m + 1) + 1 ELSE 0
          /\ \A i \in 1..(n - (m + 1) + 1) : SubSeq(s, m + 1, n)[i] = s[m + 1 + i - 1]
        BY <1>2, <2>1, SubSeqProperties
    <2>3. n - (m + 1) + 1 = n - m /\ \A i \in 1..(n - m) : m + 1 + i - 1 = m + i
        BY <1>2
    <2>4. Len(b) = n - m
        BY <1>2, <2>2
    <2> QED
        BY <2>2, <2>3, <2>4
<1> HIDE DEF a, b
<1>5. \A i \in 1..n : i \in 1..m \/ i - m \in 1..(n - m)
    BY <1>2
<1>6. \A cb : Among(cb, s) <=> Among(cb, a) \/ Among(cb, b)
    <2> TAKE cb
    <2>1. Among(cb, s) => Among(cb, a) \/ Among(cb, b)
        <3>1. ASSUME NEW i \in 1..n, s[i].cb = cb PROVE Among(cb, a) \/ Among(cb, b)
            <4>1. CASE i \in 1..m
                BY <1>3, <3>1, <4>1 DEF Among
            <4>2. CASE i - m \in 1..(n - m)
                <5>1. b[i - m] = s[i]
                    BY <1>2, <1>4, <4>2
                <5> QED
                    BY <1>4, <3>1, <4>2, <5>1 DEF Among
            <4> QED
                BY <1>5, <4>1, <4>2
        <3> QED
            BY <3>1 DEF Among
    <2>2. Among(cb, a) => Among(cb, s)
        BY <1>2, <1>3 DEF Among
    <2>3. Among(cb, b) => Among(cb, s)
        <3>1. \A i \in 1..(n - m) : m + i \in 1..n
            BY <1>2
        <3> QED
            BY <1>4, <3>1 DEF Among
    <2> QED
        BY <2>1, <2>2, <2>3
<1> QED
    BY <1>3, <1>4, <1>6 DEF Proper, a, b

\* A callback is put behind some of those registered.
LEMMA PlaceBehind ==
    ASSUME NEW s, Proper(s), NEW prio
    PROVE  Cardinality({k \in DOMAIN s : s[k].prio <= prio}) \in 0..Len(s)
<1> DEFINE less == {k \in DOMAIN s : s[k].prio <= prio}
<1>1. DOMAIN s = 1..Len(s) /\ Len(s) \in Nat
    BY DEF Proper
<1>2. IsFiniteSet(1..Len(s)) /\ Cardinality(1..Len(s)) = Len(s)
    <2>1. \A m \in Nat : IsFiniteSet(1..m) /\ Cardinality(1..m) = m
        <3> TAKE m \in Nat
        <3>1. 1 \in Int /\ m \in Int
            OBVIOUS
        <3>2. IsFiniteSet(1..m) /\ Cardinality(1..m) = IF 1 > m THEN 0 ELSE m - 1 + 1
            BY <3>1, FS_Interval
        <3> QED
            BY <3>2
    <2> QED
        BY <1>1, <2>1
<1>3. less \in SUBSET (1..Len(s))
    BY <1>1
<1>4. IsFiniteSet(less) /\ Cardinality(less) <= Len(s)
    BY <1>2, <1>3, FS_Subset
<1>5. Cardinality(less) \in Nat
    BY <1>4, FS_CardinalityType
<1> QED
    BY <1>1, <1>4, <1>5

\* Callbacks that are registered come to those of their hook.
LEMMA RegisteredCalls ==
    ASSUME NEW r, ProperHooks(r), NEW name, NEW cbs, Proper(cbs), NEW prio
    PROVE  LET r2 == RegisterHooks(r, name, cbs, prio)
           IN  /\ ProperHooks(r2)
               /\ \A n, cb : Among(cb, HookCalls(r2, n)) <=>
                    \/ Among(cb, HookCalls(r, n))
                    \/ n = name /\ Has(cbs, cb)
<1> DEFINE r2 == RegisterHooks(r, name, cbs, prio)
           old == HookCalls(r, name)
           less == {k \in DOMAIN old : old[k].prio <= prio}
           before == Cardinality(less)
           mid == [k \in DOMAIN cbs |-> [cb |-> cbs[k], prio |-> prio]]
           low == SubSeq(old, 1, before)
           high == SubSeq(old, before + 1, Len(old))
           new == low \o mid \o high
<1>1. CASE cbs = << >>
    <2>1. r2 = r /\ Len(cbs) = 0
        BY <1>1 DEF RegisterHooks
    <2>2. \A cb : ~Has(cbs, cb)
        BY <2>1 DEF Has
    <2> QED
        BY <2>1, <2>2
<1>2. CASE cbs # << >>
    <2>1. r2 = [n \in DOMAIN r \cup {name} |-> IF n = name THEN new ELSE r[n]]
        BY <1>2 DEF RegisterHooks
    <2>2. Proper(old)
        BY NoCalls DEF ProperHooks, HookCalls
    <2>3. before \in 0..Len(old)
        BY <2>2, PlaceBehind
    <2> HIDE DEF before
    <2>4. /\ Proper(low) /\ Proper(high)
          /\ \A cb : Among(cb, old) <=> Among(cb, low) \/ Among(cb, high)
        BY <2>2, <2>3, CutCalls
    <2>5. Proper(mid) /\ \A cb : Among(cb, mid) <=> Has(cbs, cb)
        <3> PICK S : cbs \in Seq(S)
            BY DEF Proper
        <3>1. DOMAIN cbs = 1..Len(cbs) /\ Len(cbs) \in Nat
            OBVIOUS
        <3>2. mid \in Seq([cb : S, prio : {prio}]) /\ Len(mid) = Len(cbs)
            BY <3>1
        <3>3. \A k \in 1..Len(cbs) : mid[k].cb = cbs[k]
            BY <3>1
        <3> HIDE DEF mid
        <3> QED
            BY <3>2, <3>3 DEF Proper, Among, Has
    <2> HIDE DEF old, low, mid, high
    <2>6. Proper(low \o mid) /\ \A cb : Among(cb, low \o mid) <=> Among(cb, low) \/ Among(cb, mid)
        BY <2>4, <2>5, JoinedCalls
    <2>7. Proper(new) /\ \A cb : Among(cb, new) <=> Among(cb, low \o mid) \/ Among(cb, high)
        BY <2>4, <2>6, JoinedCalls
    <2> HIDE DEF new, r2
    <2>8. HookCalls(r2, name) = new /\ \A n : n # name => HookCalls(r2, n) = HookCalls(r, n)
        BY <2>1 DEF HookCalls
    <2>9. ProperHooks(r2)
        BY <2>1, <2>7 DEF ProperHooks
    <2>10. \A n, cb : Among(cb, HookCalls(r2, n)) <=>
                    \/ Among(cb, HookCalls(r, n))
                    \/ n = name /\ Has(cbs, cb)
        BY <2>4, <2>5, <2>6, <2>7, <2>8 DEF old
    <2> QED
        BY <2>9, <2>10 DEF r2
<1> QED
    BY <1>1, <1>2

\* ... as does a single one.
LEMMA HookRegistered ==
    ASSUME NEW r, ProperHooks(r), NEW name, NEW cb, NEW prio
    PROVE  LET r2 == RegisterHook(r, name, cb, prio)
           IN  /\ ProperHooks(r2)
               /\ \A n, c : Among(c, HookCalls(r2, n)) <=>
                    Among(c, HookCalls(r, n)) \/ (n = name /\ c = cb)
<1> DEFINE s == <<cb>>
<1>1. s \in Seq({cb}) /\ Len(s) = 1 /\ s[1] = cb
    OBVIOUS
<1>2. RegisterHook(r, name, cb, prio) = RegisterHooks(r, name, s, prio)
    BY DEF RegisterHook
<1> HIDE DEF s
<1>3. Proper(s) /\ \A c : Has(s, c) <=> c = cb
    BY <1>1 DEF Proper, Has
<1> QED
    BY <1>2, <1>3, RegisteredCalls

\* The registries after each of the decorators hs, up to the n-th.
Registries(f, r, cb, hs, n) ==
    /\ f = [k \in 0..n |-> f[k]]
    /\ \A k \in 0..n : f[k] = IF k = 0 THEN r
            ELSE RegisterHook(f[k - 1], hs[k].hook, cb, hs[k].prio)

\* ... are defined.
LEMMA DefinedUpTo ==
    ASSUME NEW r, NEW cb, NEW hs, NEW n \in Nat
    PROVE  \E f : Registries(f, r, cb, hs, n)
<1> DEFINE Step(x, k) == RegisterHook(x, hs[k].hook, cb, hs[k].prio)
           Solves(f, m) == /\ f = [k \in 0..m |-> f[k]]
                           /\ \A k \in 0..m : f[k] = IF k = 0 THEN r ELSE Step(f[k - 1], k)
           Def(m) == \E f : Solves(f, m)
           undefined == {m \in Nat : ~Def(m)}
<1> SUFFICES ASSUME undefined # {} PROVE FALSE
    BY DEF Registries
<1> HIDE DEF Step
<1>1. PICK m \in undefined : \A k \in undefined : m <= k
    BY LeastNumber
<1>2. m # 0
    <2> DEFINE g == [k \in 0..0 |-> r]
    <2>1. Solves(g, 0)
        OBVIOUS
    <2> QED
        BY <2>1
<1>3. m \in Nat /\ m - 1 \in Nat /\ Def(m - 1)
    <2>1. m \in Nat /\ m - 1 \in Nat /\ ~(m <= m - 1)
        BY <1>2
    <2>2. m - 1 \notin undefined
        <3> HIDE DEF undefined
        <3> QED
            BY <1>1, <2>1
    <2> HIDE DEF Def
    <2> QED
        BY <2>1, <2>2
<1>4. PICK f : Solves(f, m - 1)
    BY <1>3
<1> DEFINE g == [k \in 0..m |-> IF k = m THEN Step(f[m - 1], m) ELSE f[k]]
<1>5. \A k \in 0..m : g[k] = IF k = 0 THEN r ELSE Step(g[k - 1], k)
    <2> TAKE k \in 0..m
    <2>1. CASE k = m
        <3>1. k - 1 \in 0..m /\ k - 1 # m /\ g[k - 1] = f[k - 1]
            BY <1>3, <2>1
        <3> QED
            BY <1>2, <2>1, <3>1
    <2>2. CASE k # m
        <3>1. k \in 0..(m - 1) /\ g[k] = f[k]
            BY <1>3, <2>2
        <3>2. k # 0 => k - 1 \in 0..m /\ k - 1 # m
            BY <1>3, <2>2
        <3> HIDE DEF g
        <3>3. f[k] = IF k = 0 THEN r ELSE Step(f[k - 1], k)
            BY <1>4, <3>1
        <3>4. k # 0 => g[k - 1] = f[k - 1]
            BY <3>2 DEF g
        <3> QED
            BY <3>1, <3>3, <3>4
    <2> QED
        BY <2>1, <2>2
<1>6. Solves(g, m)
    BY <1>5
<1>7. Def(m)
    BY <1>6
<1> QED
    BY <1>7

\* ... and the last of them is what the decorators leave.
LEMMA EachUnfolds ==
    ASSUME NEW r, NEW cb, NEW H, NEW hs \in Seq(H)
    PROVE  \E f : Registries(f, r, cb, hs, Len(hs)) /\ RegisterEach(r, cb, hs) = f[Len(hs)]
<1> DEFINE n == Len(hs)
           After(f) == [k \in 0..n |-> IF k = 0 THEN r
                          ELSE RegisterHook(f[k - 1], hs[k].hook, cb, hs[k].prio)]
<1>1. n \in Nat
    OBVIOUS
<1>2. \E f : f = After(f)
    <2>1. PICK f : Registries(f, r, cb, hs, n)
        BY <1>1, DefinedUpTo
    <2>2. f = After(f)
        BY <2>1 DEF Registries
    <2> QED
        BY <2>2
<1> HIDE DEF n
<1> DEFINE c == CHOOSE f : f = After(f)
<1>3. c = After(c)
    BY <1>2
<1>4. RegisterEach(r, cb, hs) = c[n]
    BY DEF RegisterEach, n
<1> HIDE DEF c
<1>5. Registries(c, r, cb, hs, n)
    <2>1. \A k \in 0..n : c[k] = IF k = 0 THEN r
                          ELSE RegisterHook(c[k - 1], hs[k].hook, cb, hs[k].prio)
        BY <1>3
    <2>2. c = [k \in 0..n |-> c[k]]
        BY <1>3
    <2> QED
        BY <2>1, <2>2 DEF Registries
<1> QED
    BY <1>4, <1>5 DEF n

\* What the decorators of a file register is their callback.
LEMMA EachRegistered ==
    ASSUME NEW r, ProperHooks(r), NEW cb, NEW H, NEW hs \in Seq(H)
    PROVE  LET r2 == RegisterEach(r, cb, hs)
           IN  /\ ProperHooks(r2)
               /\ \A n, c : Among(c, HookCalls(r, n)) => Among(c, HookCalls(r2, n))
               /\ \A n, c : Among(c, HookCalls(r2, n)) => Among(c, HookCalls(r, n)) \/ c = cb
<1> DEFINE n == Len(hs)
<1>1. n \in Nat
    OBVIOUS
<1>2. PICK f : Registries(f, r, cb, hs, n) /\ RegisterEach(r, cb, hs) = f[n]
    BY EachUnfolds
<1> DEFINE Fine(x) ==
        /\ ProperHooks(x)
        /\ \A m, c : Among(c, HookCalls(r, m)) => Among(c, HookCalls(x, m))
        /\ \A m, c : Among(c, HookCalls(x, m)) => Among(c, HookCalls(r, m)) \/ c = cb
           wrong == {k \in 0..n : ~Fine(f[k])}
<1> HIDE DEF n
<1>3. Fine(f[0])
    <2>1. f[0] = r
        BY <1>1, <1>2 DEF Registries
    <2> QED
        BY <2>1
<1>4. ASSUME NEW k \in 1..n, Fine(f[k - 1])
      PROVE  Fine(f[k])
    <2>1. f[k] = RegisterHook(f[k - 1], hs[k].hook, cb, hs[k].prio)
        <3>1. k \in 0..n /\ k # 0
            BY <1>1
        <3> QED
            BY <1>2, <3>1 DEF Registries
    <2> DEFINE x == f[k - 1]
               y == f[k]
               h == hs[k].hook
               prio == hs[k].prio
    <2>2. y = RegisterHook(x, h, cb, prio) /\ Fine(x) /\ ProperHooks(x)
        BY <1>4, <2>1
    <2> HIDE DEF x, y, h, prio
    <2>3. /\ ProperHooks(y)
          /\ \A m, c : Among(c, HookCalls(y, m)) <=>
                Among(c, HookCalls(x, m)) \/ (m = h /\ c = cb)
        BY <2>2, HookRegistered
    <2>4. Fine(y)
        BY <2>2, <2>3
    <2> QED
        BY <2>4 DEF y
<1> HIDE DEF Fine
<1>5. wrong = {}
    <2> SUFFICES ASSUME wrong # {} PROVE FALSE
        OBVIOUS
    <2>1. PICK k \in wrong : \A j \in wrong : k <= j
        <3>1. wrong \subseteq Nat
            BY <1>1
        <3> QED
            BY <3>1, LeastNumber
    <2>2. k \in 1..n /\ k - 1 \in 0..n /\ k - 1 < k
        BY <1>1, <1>3, <2>1
    <2>3. k - 1 \notin wrong
        BY <1>1, <2>1, <2>2
    <2> QED
        BY <1>4, <2>1, <2>2, <2>3
<1>6. Fine(f[n])
    BY <1>1, <1>5
<1> QED
    BY <1>2, <1>6 DEF Fine

\* An import of copies of the dynamic code registers the initialisation of
\* those that are new.
LEMMA ImportDyncodeCalls ==
    ASSUME NEW r, ProperHooks(r), NEW new
    PROVE  LET r2 == ImportDyncode(r, new)
           IN  /\ ProperHooks(r2)
               /\ \A n, cb : Among(cb, HookCalls(r2, n)) <=>
                    \/ Among(cb, HookCalls(r, n))
                    \/ /\ n = "lodel2_plugins_loaded"
                       /\ \E c \in Copy \cap new : cb = <<"init_datasources", c>>
<1> DEFINE One(c) == IF c \in new THEN << <<"init_datasources", c>> >> ELSE << >>
           cbs == One("leapi") \o One("context")
           S == {<<"init_datasources", c>> : c \in Copy}
<1>1. /\ cbs \in Seq(S)
      /\ \A cb : Has(cbs, cb) <=> \E c \in Copy \cap new : cb = <<"init_datasources", c>>
    <2>1. CASE "leapi" \in new /\ "context" \in new
        <3>1. One("leapi") \in Seq(S) /\ One("context") \in Seq(S)
            BY <2>1 DEF Copy, Has
        <3>2. /\ cbs \in Seq(S) /\ Len(cbs) = 2
              /\ cbs[1] = <<"init_datasources", "leapi">>
              /\ cbs[2] = <<"init_datasources", "context">>
            BY <2>1, <3>1
        <3> HIDE DEF cbs
        <3>3. \A k : k \in 1..2 <=> k = 1 \/ k = 2
            OBVIOUS
        <3> QED
            BY <2>1, <3>2, <3>3 DEF Copy, Has
    <2>2. CASE "leapi" \in new /\ "context" \notin new
        BY <2>2 DEF Copy, Has
    <2>3. CASE "leapi" \notin new /\ "context" \in new
        BY <2>3 DEF Copy, Has
    <2>4. CASE "leapi" \notin new /\ "context" \notin new
        BY <2>4 DEF Copy, Has
    <2> QED
        BY <2>1, <2>2, <2>3, <2>4
<1>2. ImportDyncode(r, new) = RegisterHooks(r, "lodel2_plugins_loaded", cbs, LastPriority)
    BY DEF ImportDyncode
<1> HIDE DEF cbs, S
<1>3. Proper(cbs)
    BY <1>1 DEF Proper
<1> QED
    BY <1>1, <1>2, <1>3, RegisteredCalls

\* What is known after each of the directories, up to the n-th.
Discoveries(f, dirs, n) ==
    /\ f = [k \in 0..n |-> f[k]]
    /\ \A k \in 0..n : f[k] = IF k = 0 THEN << >> ELSE KeepHighest(f[k - 1], dirs[k])

\* ... is defined.
LEMMA DiscoveredUpTo ==
    ASSUME NEW dirs, NEW n \in Nat
    PROVE  \E f : Discoveries(f, dirs, n)
<1> DEFINE Step(x, k) == KeepHighest(x, dirs[k])
           Solves(f, m) == /\ f = [k \in 0..m |-> f[k]]
                           /\ \A k \in 0..m : f[k] = IF k = 0 THEN << >> ELSE Step(f[k - 1], k)
           Def(m) == \E f : Solves(f, m)
           undefined == {m \in Nat : ~Def(m)}
<1> SUFFICES ASSUME undefined # {} PROVE FALSE
    BY DEF Discoveries
<1> HIDE DEF Step
<1>1. PICK m \in undefined : \A k \in undefined : m <= k
    BY LeastNumber
<1>2. m # 0
    <2> DEFINE g == [k \in 0..0 |-> << >>]
    <2>1. Solves(g, 0)
        OBVIOUS
    <2> QED
        BY <2>1
<1>3. m \in Nat /\ m - 1 \in Nat /\ Def(m - 1)
    <2>1. m \in Nat /\ m - 1 \in Nat /\ ~(m <= m - 1)
        BY <1>2
    <2>2. m - 1 \notin undefined
        <3> HIDE DEF undefined
        <3> QED
            BY <1>1, <2>1
    <2> HIDE DEF Def
    <2> QED
        BY <2>1, <2>2
<1>4. PICK f : Solves(f, m - 1)
    BY <1>3
<1> DEFINE g == [k \in 0..m |-> IF k = m THEN Step(f[m - 1], m) ELSE f[k]]
<1>5. \A k \in 0..m : g[k] = IF k = 0 THEN << >> ELSE Step(g[k - 1], k)
    <2> TAKE k \in 0..m
    <2>1. CASE k = m
        <3>1. k - 1 \in 0..m /\ k - 1 # m /\ g[k - 1] = f[k - 1]
            BY <1>3, <2>1
        <3> QED
            BY <1>2, <2>1, <3>1
    <2>2. CASE k # m
        <3>1. k \in 0..(m - 1) /\ g[k] = f[k]
            BY <1>3, <2>2
        <3>2. k # 0 => k - 1 \in 0..m /\ k - 1 # m
            BY <1>3, <2>2
        <3> HIDE DEF g
        <3>3. f[k] = IF k = 0 THEN << >> ELSE Step(f[k - 1], k)
            BY <1>4, <3>1
        <3>4. k # 0 => g[k - 1] = f[k - 1]
            BY <3>2 DEF g
        <3> QED
            BY <3>1, <3>3, <3>4
    <2> QED
        BY <2>1, <2>2
<1>6. Solves(g, m)
    BY <1>5
<1>7. Def(m)
    BY <1>6
<1> QED
    BY <1>7

\* A plugin that is known is one of the directories.
LEMMA DiscoveredDirs ==
    ASSUME NEW D, NEW dirs \in Seq(D), NEW n \in DOMAIN Discover(dirs)
    PROVE  Discover(dirs)[n] \in Range(dirs)
<1> DEFINE len == Len(dirs)
           After(f) == [k \in 0..len |-> IF k = 0 THEN << >>
                                         ELSE KeepHighest(f[k - 1], dirs[k])]
<1>1. len \in Nat
    OBVIOUS
<1>2. PICK f : f = After(f) /\ Discover(dirs) = f[len]
    <2>1. \E f : f = After(f)
        <3>1. PICK f : Discoveries(f, dirs, len)
            BY <1>1, DiscoveredUpTo
        <3>2. f = After(f)
            BY <3>1 DEF Discoveries
        <3> QED
            BY <3>2
    <2> HIDE DEF len
    <2> DEFINE c == CHOOSE f : f = After(f)
    <2>2. c = After(c)
        BY <2>1
    <2>3. Discover(dirs) = c[len]
        BY DEF Discover, len
    <2> QED
        BY <2>2, <2>3
<1> DEFINE Fine(x) == \A m \in DOMAIN x : x[m] \in Range(dirs)
           wrong == {k \in 0..len : ~Fine(f[k])}
<1>3. \A k \in 1..len : dirs[k] \in Range(dirs)
    BY <1>1 DEF Range
<1> HIDE DEF len
<1>4. Fine(f[0])
    <2>1. f[0] = << >>
        BY <1>1, <1>2
    <2> QED
        BY <2>1
<1>5. ASSUME NEW k \in 1..len, Fine(f[k - 1])
      PROVE  Fine(f[k])
    <2>1. f[k] = KeepHighest(f[k - 1], dirs[k])
        <3>1. k \in 0..len /\ k # 0
            BY <1>1
        <3> QED
            BY <1>2, <3>1
    <2> QED
        BY <1>3, <1>5, <2>1 DEF KeepHighest
<1> HIDE DEF Fine
<1>6. wrong = {}
    <2> SUFFICES ASSUME wrong # {} PROVE FALSE
        OBVIOUS
    <2>1. PICK k \in wrong : \A j \in wrong : k <= j
        <3>1. wrong \subseteq Nat
            BY <1>1
        <3> QED
            BY <3>1, LeastNumber
    <2>2. k \in 1..len /\ k - 1 \in 0..len /\ k - 1 < k
        BY <1>1, <1>4, <2>1
    <2>3. k - 1 \notin wrong
        BY <1>1, <2>1, <2>2
    <2> QED
        BY <1>5, <2>1, <2>2, <2>3
<1>7. Fine(f[len])
    BY <1>1, <1>6
<1> QED
    BY <1>2, <1>7 DEF Fine
-----------------------------------------------------------------------------
(* What is registered, and by what.                                        *)

\* Only an import of the dynamic code registers its initialisation, for the
\* copy that is imported; only core_hooks registers the custom methods.
Registry(r, cs) ==
    /\ ProperHooks(r)
    /\ \A n, cb : Among(cb, HookCalls(r, n)) =>
        /\ cb[1] = "init_datasources" =>
                n = "lodel2_plugins_loaded" /\ \E c \in cs : cb = <<"init_datasources", c>>
        /\ cb[1] = "custom_methods" =>
                n = "lodel2_dyncode_loaded" /\ cb = <<"custom_methods">>
        /\ cb[1] = "check_datasources" => n = "lodel2_bootstraped"
    /\ \A c \in cs : Among(<<"init_datasources", c>>, HookCalls(r, "lodel2_plugins_loaded"))
    /\ cs \subseteq Copy

PluginsLoading == stage = "loading" \/ PastLoading

\* The plugins come from the directories of the instance.
FoundInv ==
    /\ site \in Sites
    /\ found = << >> \/ found = Discover(site.dirs)
    /\ registered \subseteq DOMAIN found

HooksInv ==
    /\ Registry(hooks, copies)
    /\ PluginsLoading => Among(<<"custom_methods">>, HookCalls(hooks, "lodel2_dyncode_loaded"))
    /\ stage \in Early => copies = {}

\* What is assumed of the directories is true of the plugins.
LEMMA RegisteredPlugin ==
    ASSUME FoundInv, NEW n \in registered
    PROVE  /\ Info(n).hooks \in Seq(Range(Info(n).hooks))
           /\ Info(n).probes \subseteq Copy /\ Info(n).imports \subseteq Copy
<1>1. n \in DOMAIN found
    BY DEF FoundInv
<1>2. found = Discover(site.dirs)
    BY <1>1 DEF FoundInv
<1>3. site.dirs \in Seq(Range(site.dirs))
    BY SitesAssumption DEF FoundInv
<1>4. found[n] \in Range(site.dirs)
    BY <1>1, <1>2, <1>3, DiscoveredDirs
<1> QED
    BY <1>4, SitesAssumption DEF FoundInv, Info

\* Copies of the dynamic code are imported.
LEMMA RegistryExposed ==
    ASSUME NEW r, NEW cs, Registry(r, cs), NEW set \in SUBSET Copy
    PROVE  /\ Registry(ImportDyncode(r, set \ cs), cs \cup set)
           /\ \A n, cb : Among(cb, HookCalls(r, n)) =>
                            Among(cb, HookCalls(ImportDyncode(r, set \ cs), n))
<1> DEFINE r2 == ImportDyncode(r, set \ cs)
<1>1. /\ ProperHooks(r2)
      /\ \A n, cb : Among(cb, HookCalls(r2, n)) <=>
                    \/ Among(cb, HookCalls(r, n))
                    \/ /\ n = "lodel2_plugins_loaded"
                       /\ \E c \in Copy \cap (set \ cs) : cb = <<"init_datasources", c>>
    BY ImportDyncodeCalls DEF Registry
<1> HIDE DEF r2
<1>2. \A c \in cs \cup set : Among(<<"init_datasources", c>>, HookCalls(r2, "lodel2_plugins_loaded"))
    <2>1. /\ \A c \in cs : Among(<<"init_datasources", c>>, HookCalls(r, "lodel2_plugins_loaded"))
          /\ cs \cup set \subseteq Copy
        BY DEF Registry
    <2>2. ASSUME NEW c \in cs \cup set
          PROVE  Among(<<"init_datasources", c>>, HookCalls(r2, "lodel2_plugins_loaded"))
        <3>1. CASE c \in cs
            BY <1>1, <2>1, <3>1
        <3>2. CASE c \notin cs
            BY <1>1, <2>1, <3>2
        <3> QED
            BY <3>1, <3>2
    <2> HIDE DEF r2
    <2> QED
        BY <2>2, Zenon
<1>3. ASSUME NEW n, NEW cb, Among(cb, HookCalls(r2, n))
      PROVE  /\ cb[1] = "init_datasources" =>
                n = "lodel2_plugins_loaded" /\ \E c \in cs \cup set : cb = <<"init_datasources", c>>
             /\ cb[1] = "custom_methods" =>
                n = "lodel2_dyncode_loaded" /\ cb = <<"custom_methods">>
             /\ cb[1] = "check_datasources" => n = "lodel2_bootstraped"
    <2>1. CASE Among(cb, HookCalls(r, n))
        BY <2>1 DEF Registry
    <2>2. ASSUME n = "lodel2_plugins_loaded", NEW c \in Copy \cap (set \ cs),
                 cb = <<"init_datasources", c>>
          PROVE  /\ cb[1] = "init_datasources" =>
                     n = "lodel2_plugins_loaded" /\ \E d \in cs \cup set : cb = <<"init_datasources", d>>
                 /\ cb[1] \notin {"custom_methods", "check_datasources"}
        BY <2>2
    <2> QED
        BY <1>1, <1>3, <2>1, <2>2
<1> QED
    BY <1>1, <1>2, <1>3 DEF Registry, r2

\* Other callbacks are registered.
LEMMA RegistryOthers ==
    ASSUME NEW r, NEW cs, Registry(r, cs), NEW r2, ProperHooks(r2),
           \A n, c : Among(c, HookCalls(r, n)) => Among(c, HookCalls(r2, n)),
           \A n, c : Among(c, HookCalls(r2, n)) =>
                \/ Among(c, HookCalls(r, n))
                \/ c[1] \notin {"init_datasources", "custom_methods", "check_datasources"}
    PROVE  Registry(r2, cs)
BY DEF Registry

\* Where the plugins come from does not change.
LEMMA FoundStep ==
    ASSUME FoundInv, [Next]_vars
    PROVE  FoundInv'
<1>1. ASSUME RegisterNext PROVE FoundInv'
    <2> DEFINE n == plugins[Cardinality(registered) + 1]
    <2>1. /\ found' = IF found = << >> THEN Discover(site.dirs) ELSE found
          /\ site' = site
          /\ registered' = registered \/ (registered' = registered \cup {n} /\ n \in DOMAIN found')
        BY <1>1 DEF RegisterNext, Refused
    <2>2. CASE found = << >>
        <3>1. registered = {}
            BY <2>2 DEF FoundInv
        <3> QED
            BY <2>1, <2>2, <3>1 DEF FoundInv
    <2>3. CASE found # << >>
        BY <2>1, <2>3 DEF FoundInv
    <2> QED
        BY <2>2, <2>3
<1>2. ASSUME UNCHANGED <<site, found, registered>> PROVE FoundInv'
    BY <1>2 DEF FoundInv
<1>3. ASSUME SettingsStep, ~RegisterNext PROVE UNCHANGED <<site, found, registered>>
    BY <1>3 DEF SettingsStep, ReadFiles, Populate, ReadList, plugVars
<1>4. ASSUME LoadStep PROVE UNCHANGED <<site, found, registered>>
    BY <1>4 DEF LoadStep, LoadNext, LoadDep, AlreadyLoaded, NotActivable, Circular, CheckDeps,
           Import, ImportFails, Raise, Break, Leave
<1>5. ASSUME \/ StartHooks \/ EndLoading \/ ExposeAgain \/ Bootstraped \/ ImportLeapi
             \/ RunCallback \/ UNCHANGED vars
      PROVE  UNCHANGED <<site, found, registered>>
    BY <1>5 DEF StartHooks, EndLoading, ExposeAgain, Bootstraped, ImportLeapi, RunCallback,
                plugVars, vars
<1> QED
    BY <1>1, <1>2, <1>3, <1>4, <1>5 DEF Next, Done

-----------------------------------------------------------------------------
(* The lists of plugins, and the checks left for the dynamic code.         *)

IsList(v) == v = None \/ Proper(v)

ListsInv == stage \in {"files", "lists", "register"} =>
    /\ \A o \in ListOptions \cap DOMAIN conf : IsList(conf[o])
    /\ stage \in {"lists", "register"} =>
            \A t \in PluginTypes \ listsLeft : ListOption(t) \in DOMAIN conf
    /\ stage = "register" => listsLeft = {}
    /\ stage = "files" => listsLeft = PluginTypes

\* The option of a list is that of one type.
LEMMA ListTypes ==
    ASSUME NEW t \in PluginTypes
    PROVE  TypeOf(ListOption(t)) = t /\ ListOption(t) \in ListOptions
<1>1. \A u \in PluginTypes : ListOption(u) = ListOption(t) => u = t
    BY DEF PluginTypes, ListOption, ListKey
<1>2. TypeOf(ListOption(t)) \in PluginTypes /\ ListOption(TypeOf(ListOption(t))) = ListOption(t)
    BY DEF TypeOf
<1> QED
    BY <1>1, <1>2 DEF ListOptions

\* What the files say of a list is a list.
LEMMA ListsRead ==
    ASSUME FoundInv, NEW o \in ListOptions \cap DOMAIN Merged(site.files)
    PROVE  IsList(Merged(site.files)[o])
<1> DEFINE files == site.files
           h == CHOOSE d \in Range(files) : o \in DOMAIN d
<1>1. o \in UNION {DOMAIN d : d \in Range(files)} /\ Merged(files)[o] = h[o]
    BY DEF Merged
<1>2. PICK d \in Range(files) : o \in DOMAIN d
    BY <1>1
<1>3. h \in Range(files) /\ o \in DOMAIN h
    BY <1>2
<1>4. h[o] = None \/ h[o] \in Seq(Name)
    BY <1>3, SitesAssumption DEF FoundInv
<1> QED
    BY <1>1, <1>4 DEF IsList, Proper

\* The loop over the plugin types reads each list once.
LEMMA ListsStep ==
    ASSUME FoundInv, NotYet, ListsInv, [Next]_vars
    PROVE  ListsInv'
<1>1. ASSUME ReadFiles PROVE ListsInv'
    <2>1. CASE Redeclared(site.files)
        BY <1>1, <2>1 DEF ReadFiles, Fail, ListsInv
    <2>2. CASE ~Redeclared(site.files)
        <3>1. /\ stage = "files" /\ stage' = "lists" /\ conf' = Merged(site.files)
              /\ listsLeft' = listsLeft
            BY <1>1, <2>2 DEF ReadFiles
        <3> QED
            BY <3>1, ListsRead DEF ListsInv
    <2> QED
        BY <2>1, <2>2
<1>2. ASSUME NEW t \in PluginTypes, ReadList(t) PROVE ListsInv'
    <2> DEFINE o == ListOption(t)
               v == Got(o, ListDefault(t))
    <2>1. /\ stage = "lists" /\ t \in listsLeft /\ listsLeft' = listsLeft \ {t}
          /\ conf' = AllGot([p \in {o} |-> v])
          /\ stage' = IF listsLeft' = {} THEN "register" ELSE stage
        BY <1>2 DEF ReadList
    <2>2. IsList(v)
        <3>1. IsList(ListDefault(t))
            <4>1. <<"dummy_datasource">> \in Seq({"dummy_datasource"})
                OBVIOUS
            <4> QED
                BY <4>1 DEF ListDefault, IsList, Proper
        <3>2. o \in DOMAIN conf => IsList(conf[o])
            BY <2>1, ListTypes DEF ListsInv
        <3> QED
            BY <3>1, <3>2 DEF Got
    <2>3. /\ DOMAIN conf' = DOMAIN conf \cup {o}
          /\ \A p \in DOMAIN conf' : conf'[p] = IF p \in DOMAIN conf THEN conf[p] ELSE v
        BY <2>1 DEF AllGot, Got
    <2>4. \A p \in ListOptions \cap DOMAIN conf' : IsList(conf'[p])
        BY <2>1, <2>2, <2>3 DEF ListsInv
    <2> HIDE DEF v
    <2>5. \A u \in PluginTypes \ listsLeft' : ListOption(u) \in DOMAIN conf'
        BY <2>1, <2>3 DEF ListsInv
    <2> QED
        BY <2>1, <2>4, <2>5 DEF ListsInv
<1>3. ASSUME RegisterNext PROVE ListsInv'
    <2>1. UNCHANGED <<conf, listsLeft>> /\ (stage' = "failed" \/ stage' = stage)
        BY <1>3 DEF RegisterNext, setVars, Fail
    <2> QED
        BY <2>1 DEF ListsInv
<1>4. ASSUME Populate PROVE ListsInv'
    BY <1>4 DEF Populate, Fail, ListsInv
<1>5. ASSUME UNCHANGED vars PROVE ListsInv'
    <2>1. UNCHANGED <<stage, conf, listsLeft>>
        BY <1>5 DEF vars, setVars
    <2> QED
        BY <2>1 DEF ListsInv
<1>6. ASSUME ~SettingsStep, ~UNCHANGED vars PROVE stage' \notin {"files", "lists", "register"}
    <2>1. ASSUME LoadStep PROVE stage' \in {"loading", "broken", "halfloaded"}
        BY <2>1 DEF LoadStep, LoadNext, LoadDep, AlreadyLoaded, NotActivable, Circular, CheckDeps,
           Import, ImportFails, Raise, Break, Leave
    <2>2. ASSUME RunCallback
          PROVE  stage' \in {stage, "failed", "halfstarted"} /\ stage \notin Early
        BY <2>2 DEF RunCallback, Aborts, NotYet, PastLoading, Early
    <2> QED
        BY <1>6, <2>1, <2>2 DEF Next, Done, StartHooks, EndLoading, Fail, ExposeAgain,
                                Bootstraped, ImportLeapi, Early
<1>7. ASSUME stage' \notin {"files", "lists", "register"} PROVE ListsInv'
    BY <1>7 DEF ListsInv
<1> QED
    BY <1>1, <1>2, <1>3, <1>4, <1>5, <1>6, <1>7 DEF SettingsStep

\* One of the checks left for the dynamic code.
IsCheck(cb) == cb[1] \in {"check_plugin", "check_emfield"}
AreChecks(s) == Proper(s) /\ \A cb : Has(s, cb) => IsCheck(cb)

\* What a list of plugins leaves.
LEMMA PluginChecksAre ==
    ASSUME NEW t, NEW v, IsList(v)
    PROVE  /\ AreChecks(PluginChecks(t, v))
           /\ v # None => \A n : Has(v, n) => Has(PluginChecks(t, v), <<"check_plugin", n, t>>)
<1>1. CASE v # None
    <2> DEFINE s == [k \in DOMAIN v |-> <<"check_plugin", v[k], t>>]
    <2>1. PluginChecks(t, v) = s
        BY <1>1 DEF PluginChecks
    <2>2. PICK S : v \in Seq(S)
        BY <1>1 DEF IsList, Proper
    <2>3. s \in Seq({<<"check_plugin", x, t>> : x \in S}) /\ Len(s) = Len(v)
        BY <2>2
    <2>4. \A k \in 1..Len(s) : s[k] = <<"check_plugin", v[k], t>>
        BY <2>2, <2>3
    <2> HIDE DEF s
    <2> QED
        BY <2>1, <2>3, <2>4 DEF AreChecks, Proper, Has, IsCheck
<1>2. CASE v = None
    BY <1>2, NoCalls DEF AreChecks, Has, PluginChecks
<1> QED
    BY <1>1, <1>2

\* What a field leaves.
LEMMA EmfieldChecksAre ==
    ASSUME NEW o, NEW v
    PROVE  AreChecks(EmfieldChecks(o, v))
<1>1. CASE Valid(o, v)
    <2> DEFINE s == << <<"check_emfield", v>> >>
    <2>1. EmfieldChecks(o, v) = s
        BY <1>1 DEF EmfieldChecks
    <2>2. s \in Seq({<<"check_emfield", v>>}) /\ Len(s) = 1 /\ s[1] = <<"check_emfield", v>>
        OBVIOUS
    <2> HIDE DEF s
    <2>3. \A cb : Has(s, cb) => cb = <<"check_emfield", v>>
        BY <2>2 DEF Has
    <2> QED
        BY <2>1, <2>2, <2>3 DEF AreChecks, Proper, IsCheck
<1>2. CASE ~Valid(o, v)
    BY <1>2, NoCalls DEF AreChecks, Has, EmfieldChecks
<1> QED
    BY <1>1, <1>2

\* What all of them leave, together.
LEMMA LateChecksTogether ==
    ASSUME NEW r, NEW options, NEW value, \A o \in ListOptions : IsList(value[o])
    PROVE  \E all :
            /\ AreChecks(all)
            /\ AddLateChecks(r, options, value)
                    = RegisterHooks(r, "lodel2_dyncode_bootstraped", all, LastPriority)
            /\ \A t \in PluginTypes : \A x :
                    Has(PluginChecks(t, value[ListOption(t)]), x) => Has(all, x)
<1> DEFINE OfList(t) == PluginChecks(t, value[ListOption(t)])
           OfField(o) == IF o \in options THEN EmfieldChecks(o, value[o]) ELSE << >>
           a == OfList("datasource")
           b == OfList("session_handler")
           c == OfList("ui")
           d == OfList("extension")
           e == OfField(<<LoginSection, "login_classfield">>)
           f == OfField(<<LoginSection, "pass_classfield">>)
           r2 == AddLateChecks(r, options, value)
<1>1. \A t \in PluginTypes : AreChecks(OfList(t))
    BY PluginChecksAre DEF ListOptions
<1>2. \A o : AreChecks(OfField(o))
    <2> TAKE o
    <2>1. CASE o \in options
        BY <2>1, EmfieldChecksAre
    <2>2. CASE o \notin options
        BY <2>2, NoCalls DEF AreChecks, Has
    <2> QED
        BY <2>1, <2>2
<1>3. r2 = RegisterHooks(r, "lodel2_dyncode_bootstraped", a \o b \o c \o d \o e \o f, LastPriority)
    BY DEF AddLateChecks
<1>4. /\ AreChecks(a) /\ AreChecks(b) /\ AreChecks(c) /\ AreChecks(d) /\ AreChecks(e)
      /\ AreChecks(f)
    <2> HIDE DEF OfList, OfField
    <2> QED
        BY <1>1, <1>2 DEF PluginTypes
<1>5. \A t \in PluginTypes : OfList(t) \in {a, b, c, d}
    BY DEF PluginTypes
<1> HIDE DEF a, b, c, d, e, f, r2
<1>6. \A s, t : AreChecks(s) /\ AreChecks(t) =>
            /\ AreChecks(s \o t)
            /\ \A x : Has(s, x) \/ Has(t, x) => Has(s \o t, x)
    BY JoinedElements DEF AreChecks
<1>7. PICK all : all = a \o b \o c \o d \o e \o f
    OBVIOUS
<1>8. AreChecks(all) /\ \A x : Has(a, x) \/ Has(b, x) \/ Has(c, x) \/ Has(d, x) => Has(all, x)
    <2>1. AreChecks(a \o b) /\ \A x : Has(a, x) \/ Has(b, x) => Has(a \o b, x)
        BY <1>4, <1>6
    <2>2. AreChecks(a \o b \o c) /\ \A x : Has(a \o b, x) \/ Has(c, x) => Has(a \o b \o c, x)
        BY <1>4, <1>6, <2>1
    <2>3. /\ AreChecks(a \o b \o c \o d)
          /\ \A x : Has(a \o b \o c, x) \/ Has(d, x) => Has(a \o b \o c \o d, x)
        BY <1>4, <1>6, <2>2
    <2>4. /\ AreChecks(a \o b \o c \o d \o e)
          /\ \A x : Has(a \o b \o c \o d, x) => Has(a \o b \o c \o d \o e, x)
        BY <1>4, <1>6, <2>3
    <2>5. /\ AreChecks(a \o b \o c \o d \o e \o f)
          /\ \A x : Has(a \o b \o c \o d \o e, x) => Has(a \o b \o c \o d \o e \o f, x)
        BY <1>4, <1>6, <2>4
    <2> QED
        BY <1>7, <2>1, <2>2, <2>3, <2>4, <2>5
<1>9. r2 = RegisterHooks(r, "lodel2_dyncode_bootstraped", all, LastPriority)
    BY <1>3, <1>7
<1>10. \A t \in PluginTypes : \A x : Has(OfList(t), x) => Has(all, x)
    BY <1>5, <1>8
<1> QED
    BY <1>8, <1>9, <1>10 DEF r2

\* ... is run when the dynamic code is there.
LEMMA LateChecksAdded ==
    ASSUME NEW r, ProperHooks(r), NEW options, NEW value,
           \A o \in ListOptions : IsList(value[o])
    PROVE  LET r2 == AddLateChecks(r, options, value)
           IN  /\ ProperHooks(r2)
               /\ \A n, c : Among(c, HookCalls(r, n)) => Among(c, HookCalls(r2, n))
               /\ \A n, c : Among(c, HookCalls(r2, n)) => Among(c, HookCalls(r, n)) \/ IsCheck(c)
               /\ \A t \in PluginTypes : \A c : Has(PluginChecks(t, value[ListOption(t)]), c) =>
                                Among(c, HookCalls(r2, "lodel2_dyncode_bootstraped"))
<1> DEFINE r2 == AddLateChecks(r, options, value)
<1>1. PICK all :
            /\ AreChecks(all)
            /\ r2 = RegisterHooks(r, "lodel2_dyncode_bootstraped", all, LastPriority)
            /\ \A t \in PluginTypes : \A x :
                    Has(PluginChecks(t, value[ListOption(t)]), x) => Has(all, x)
    BY LateChecksTogether
<1> HIDE DEF r2
<1>2. /\ ProperHooks(r2)
      /\ \A n, cb : Among(cb, HookCalls(r2, n)) <=>
            \/ Among(cb, HookCalls(r, n))
            \/ n = "lodel2_dyncode_bootstraped" /\ Has(all, cb)
    BY <1>1, RegisteredCalls DEF AreChecks
<1>3. \A n, cb : Among(cb, HookCalls(r2, n)) => Among(cb, HookCalls(r, n)) \/ IsCheck(cb)
    BY <1>1, <1>2 DEF AreChecks
<1> QED
    BY <1>1, <1>2, <1>3 DEF r2
-----------------------------------------------------------------------------
(* The registry through the boot.                                          *)

\* No callback is taken from the registry.
Grow == \A n, cb : Among(cb, HookCalls(hooks, n)) => Among(cb, HookCalls(hooks', n))

\* The settings register late checks only.
LEMMA HooksInSettings ==
    ASSUME ListsInv, HooksInv, SettingsStep
    PROVE  HooksInv' /\ Grow
<1>1. /\ stage \in Early /\ copies = {} /\ UNCHANGED copies
      /\ stage' \in Early \cup {"failed"}
    BY DEF SettingsStep, ReadFiles, RegisterNext, Populate, ReadList, plugVars, Early, Fail,
           HooksInv
<1>2. ~PluginsLoading'
    BY <1>1 DEF PluginsLoading, PastLoading, Early
<1>3. CASE UNCHANGED hooks
    BY <1>1, <1>2, <1>3 DEF HooksInv, Grow, Registry
<1>4. CASE ~UNCHANGED hooks
    <2>1. Populate /\ ~Duplicated(Specs)
        BY <1>4 DEF SettingsStep, ReadFiles, RegisterNext, Populate, ReadList, plugVars
    <2>2. PICK spec : conf' = AllGot(spec) /\ hooks' = AddLateChecks(hooks, DOMAIN spec, conf')
        BY <2>1 DEF Populate
    <2>3. stage = "register" /\ \A t \in PluginTypes : ListOption(t) \in DOMAIN conf
        BY <2>1 DEF Populate, ListsInv
    <2>4. \A o \in ListOptions : o \in DOMAIN conf /\ conf'[o] = conf[o]
        BY <2>2, <2>3 DEF AllGot, Got, ListOptions
    <2>5. \A o \in ListOptions : IsList(conf'[o])
        BY <2>3, <2>4 DEF ListsInv
    <2>6. /\ ProperHooks(hooks')
          /\ \A n, c : Among(c, HookCalls(hooks, n)) => Among(c, HookCalls(hooks', n))
          /\ \A n, c : Among(c, HookCalls(hooks', n)) => Among(c, HookCalls(hooks, n)) \/ IsCheck(c)
        BY <2>2, <2>5, LateChecksAdded DEF HooksInv, Grow, Registry
    <2>7. Registry(hooks', copies)
        BY <2>6, RegistryOthers DEF IsCheck, HooksInv
    <2> QED
        BY <1>1, <1>2, <2>6, <2>7 DEF HooksInv, Grow
<1> QED
    BY <1>3, <1>4

\* core_hooks.py registers the custom methods, and load_all begins.
LEMMA HooksStarted ==
    ASSUME HooksInv, StartHooks
    PROVE  HooksInv' /\ Grow
<1> DEFINE h1 == RegisterHook(hooks, "lodel2_bootstraped", <<"check_datasources">>, LastPriority)
           h2 == RegisterHook(h1, "lodel2_dyncode_loaded", <<"custom_methods">>, LastPriority)
           ctx == IF site.mode = "uwsgi" THEN {"context"} ELSE {}
<1>1. /\ stage = "settings" /\ stage' = "loading" /\ copies' = copies \cup ctx
      /\ hooks' = ImportDyncode(h2, ctx \ copies)
    BY DEF StartHooks, CoreHooks
<1>2. ctx \in SUBSET Copy
    BY DEF Copy
<1> HIDE DEF ctx
<1>3. /\ ProperHooks(h1)
      /\ \A n, c : Among(c, HookCalls(h1, n)) <=>
            \/ Among(c, HookCalls(hooks, n))
            \/ n = "lodel2_bootstraped" /\ c = <<"check_datasources">>
    BY HookRegistered DEF HooksInv, Grow, Registry
<1> HIDE DEF h1
<1>4. /\ ProperHooks(h2)
      /\ \A n, c : Among(c, HookCalls(h2, n)) <=>
            \/ Among(c, HookCalls(h1, n))
            \/ n = "lodel2_dyncode_loaded" /\ c = <<"custom_methods">>
    BY <1>3, HookRegistered
<1> HIDE DEF h2
<1>5. Registry(h2, copies)
    <2>1. \A n, c : Among(c, HookCalls(h2, n)) =>
            \/ Among(c, HookCalls(hooks, n))
            \/ n = "lodel2_bootstraped" /\ c = <<"check_datasources">>
            \/ n = "lodel2_dyncode_loaded" /\ c = <<"custom_methods">>
        BY <1>3, <1>4
    <2>2. \A n, c : Among(c, HookCalls(hooks, n)) => Among(c, HookCalls(h2, n))
        BY <1>3, <1>4
    <2>3. <<"check_datasources">>[1] = "check_datasources" /\ <<"custom_methods">>[1] = "custom_methods"
        OBVIOUS
    <2> QED
        BY <1>4, <2>1, <2>2, <2>3 DEF HooksInv, Grow, Registry
<1>6. /\ Registry(hooks', copies')
      /\ \A n, c : Among(c, HookCalls(h2, n)) => Among(c, HookCalls(hooks', n))
    BY <1>1, <1>2, <1>5, RegistryExposed
<1>7. Grow
    BY <1>3, <1>4, <1>6 DEF Grow
<1> QED
    BY <1>1, <1>4, <1>6, <1>7 DEF HooksInv, Early

\* Copies of the dynamic code are imported once load_all has begun.
LEMMA HooksExposed ==
    ASSUME HooksInv, PluginsLoading, NEW set \in SUBSET Copy,
           hooks' = ImportDyncode(hooks, set \ copies), copies' = copies \cup set,
           stage' \notin Early
    PROVE  HooksInv' /\ Grow
BY RegistryExposed DEF HooksInv, Grow

\* load_all imports copies of the dynamic code and the loader files.
LEMMA HooksInLoading ==
    ASSUME FoundInv, LoadInv, HooksInv, LoadStep
    PROVE  HooksInv' /\ Grow
<1>1. /\ stage = "loading" /\ stage' \in {"loading", "broken", "halfloaded"}
      /\ PluginsLoading /\ stage' \notin Early
    BY DEF LoadStep, LoadNext, LoadDep, AlreadyLoaded, NotActivable, Circular, CheckDeps,
           Import, ImportFails, Raise, Break, Leave, Early, PluginsLoading
<1>2. stack # << >> => Top.plugin \in registered /\ Top.todo \subseteq registered
    BY BelowFacts DEF LoadInv, Frames
<1>3. ASSUME UNCHANGED <<hooks, copies>> PROVE HooksInv' /\ Grow
    BY <1>1, <1>3 DEF HooksInv, Grow, PluginsLoading
<1>4. ASSUME NEW n \in registered, Activate(n) PROVE HooksInv' /\ Grow
    <2>1. Info(n).probes \in SUBSET Copy
        BY RegisteredPlugin
    <2> QED
        BY <1>1, <1>4, <2>1, HooksExposed DEF Activate, Expose
<1>5. ASSUME Import PROVE HooksInv' /\ Grow
    <2> DEFINE p == Info(Top.plugin)
               r == ImportDyncode(hooks, p.imports \ copies)
               cb == <<"plugin", Top.plugin>>
    <2>1. /\ stack # << >> /\ hooks' = RegisterEach(r, cb, p.hooks)
          /\ copies' = copies \cup p.imports
        BY <1>5 DEF Import
    <2>2. p.imports \in SUBSET Copy /\ p.hooks \in Seq(Range(p.hooks))
        BY <1>2, <2>1, RegisteredPlugin
    <2>3. /\ Registry(r, copies')
          /\ \A n, c : Among(c, HookCalls(hooks, n)) => Among(c, HookCalls(r, n))
        BY <2>1, <2>2, RegistryExposed DEF HooksInv, Grow
    <2>4. cb[1] = "plugin"
        OBVIOUS
    <2> HIDE DEF p, r, cb
    <2>5. /\ ProperHooks(hooks')
          /\ \A n, c : Among(c, HookCalls(r, n)) => Among(c, HookCalls(hooks', n))
          /\ \A n, c : Among(c, HookCalls(hooks', n)) => Among(c, HookCalls(r, n)) \/ c = cb
        BY <2>1, <2>2, <2>3, EachRegistered DEF Registry
    <2>6. Registry(hooks', copies')
        BY <2>3, <2>4, <2>5, RegistryOthers
    <2> QED
        BY <1>1, <2>3, <2>5, <2>6 DEF HooksInv, Grow
<1>6. ASSUME ImportFails PROVE HooksInv' /\ Grow
    <2>1. stack # << >> /\ Expose(Info(Top.plugin).imports)
        BY <1>6 DEF ImportFails
    <2>2. Info(Top.plugin).imports \in SUBSET Copy
        BY <1>2, <2>1, RegisteredPlugin
    <2> QED
        BY <1>1, <2>1, <2>2, HooksExposed DEF Expose
<1>7. ASSUME NEW m \in Name, LoadDep(m) PROVE HooksInv' /\ Grow
    <2>1. m \in registered /\ Activate(m)
        BY <1>2, <1>7 DEF LoadDep
    <2> QED
        BY <1>4, <2>1
<1>8. ASSUME NotActivable \/ Circular \/ CheckDeps PROVE HooksInv' /\ Grow
    <2>1. Top.plugin \in registered /\ Activate(Top.plugin)
        BY <1>2, <1>8 DEF NotActivable, Circular, CheckDeps
    <2> QED
        BY <1>4, <2>1
<1>9. ASSUME NEW n \in Name, LoadNext(n) \/ AlreadyLoaded PROVE HooksInv' /\ Grow
    BY <1>3, <1>9 DEF LoadNext, AlreadyLoaded
<1>10. ASSUME AlreadyLoaded PROVE HooksInv' /\ Grow
    BY <1>3, <1>10 DEF AlreadyLoaded
<1> QED
    BY <1>5, <1>6, <1>7, <1>8, <1>9, <1>10 DEF LoadStep

\* ... and so through every step of the boot.
LEMMA HooksStep ==
    ASSUME FoundInv, ListsInv, LoadInv, NotYet, HooksInv, [Next]_vars
    PROVE  HooksInv' /\ Grow
<1>1. ASSUME SettingsStep PROVE HooksInv' /\ Grow
    BY <1>1, HooksInSettings
<1>2. ASSUME StartHooks PROVE HooksInv' /\ Grow
    BY <1>2, HooksStarted
<1>3. ASSUME LoadStep PROVE HooksInv' /\ Grow
    BY <1>3, HooksInLoading
<1>4. ASSUME ExposeAgain \/ ImportLeapi PROVE HooksInv' /\ Grow
    <2>1. PICK set \in SUBSET Copy : Expose(set)
        BY <1>4 DEF ExposeAgain, ImportLeapi, Copy
    <2>2. PluginsLoading /\ stage' \notin Early
        BY <1>4 DEF ExposeAgain, ImportLeapi, PluginsLoading, PastLoading, Early
    <2> QED
        BY <2>1, <2>2, HooksExposed DEF Expose
<1>5. ASSUME EndLoading \/ Bootstraped PROVE HooksInv' /\ Grow
    <2>1. UNCHANGED <<hooks, copies>> /\ PluginsLoading /\ stage' \notin Early
        BY <1>5 DEF EndLoading, Bootstraped, AllTried, Fail, plugVars, PluginsLoading,
                    PastLoading, Early
    <2> QED
        BY <2>1 DEF HooksInv, Grow
<1>6. ASSUME RunCallback PROVE HooksInv' /\ Grow
    <2>1. /\ UNCHANGED <<hooks, copies>> /\ stage' \in {stage, "failed", "halfstarted"}
          /\ stage \notin Early
        BY <1>6 DEF RunCallback, Aborts, plugVars, NotYet, PastLoading, Early
    <2> QED
        BY <2>1 DEF HooksInv, Grow, PluginsLoading, PastLoading, Early
<1>7. ASSUME UNCHANGED vars PROVE HooksInv' /\ Grow
    BY <1>7 DEF vars, plugVars, HooksInv, Grow, PluginsLoading, PastLoading
<1> QED
    BY <1>1, <1>2, <1>3, <1>4, <1>5, <1>6, <1>7 DEF Next, Done
-----------------------------------------------------------------------------
(* The callbacks that are left of the running call.                        *)

\* The hook's callbacks are those registered.
LEMMA ProperCalls ==
    ASSUME NEW r, ProperHooks(r), NEW n
    PROVE  Proper(HookCalls(r, n))
BY NoCalls DEF ProperHooks, HookCalls

\* The hook lodel2_dyncode_loaded is called with the classes of a copy.
LEMMA OnCopyCalls ==
    ASSUME NEW s, Proper(s), NEW c
    PROVE  /\ Proper(OnCopy(s, c))
           /\ \A cb : Among(cb, OnCopy(s, c)) =>
                cb = <<"custom_methods", c>> \/ (cb # <<"custom_methods">> /\ Among(cb, s))
           /\ Among(<<"custom_methods">>, s) => Among(<<"custom_methods", c>>, OnCopy(s, c))
<1> DEFINE With(cb) == IF cb = <<"custom_methods">> THEN <<"custom_methods", c>> ELSE cb
           t == [k \in DOMAIN s |-> [cb |-> With(s[k].cb), prio |-> s[k].prio]]
<1>1. OnCopy(s, c) = t
    BY DEF OnCopy
<1> HIDE DEF With
<1>2. PICK S : s \in Seq(S)
    BY DEF Proper
<1>3. t \in Seq({[cb |-> With(x.cb), prio |-> x.prio] : x \in S}) /\ Len(t) = Len(s)
    BY <1>2
<1>4. \A k \in 1..Len(s) : t[k].cb = With(s[k].cb)
    BY <1>2
<1> HIDE DEF t
<1> QED
    BY <1>1, <1>3, <1>4 DEF Among, Proper, With

\* The first callback, and those behind it.
LEMMA FirstCallback ==
    ASSUME NEW s, Proper(s), s # << >>
    PROVE  /\ Proper(Tail(s))
           /\ \A cb : Among(cb, s) <=> cb = Head(s).cb \/ Among(cb, Tail(s))
<1> DEFINE n == Len(s)
           t == Tail(s)
           h == Head(s)
<1>1. PICK S : s \in Seq(S)
    BY DEF Proper
<1>2. /\ n \in Nat \ {0} /\ h = s[1] /\ t \in Seq(S) /\ Len(t) = n - 1
      /\ \A i \in 1..(n - 1) : t[i] = s[i + 1]
    BY <1>1, HeadTailProperties
<1> HIDE DEF n, t, h
<1>3. \A cb : Among(cb, t) <=> \E i \in 1..(n - 1) : s[i + 1].cb = cb
    BY <1>2 DEF Among
<1>4. \A i : i \in 1..n <=> i = 1 \/ (i - 1 \in 1..(n - 1) /\ i \in Int)
    BY <1>2
<1>5. \A i \in 1..(n - 1) : i + 1 \in 1..n /\ i \in Int
    BY <1>2
<1>6. ASSUME NEW cb, Among(cb, s) PROVE cb = h.cb \/ Among(cb, t)
    <2>1. PICK i \in 1..n : s[i].cb = cb
        BY <1>6 DEF Among, n
    <2>2. i - 1 + 1 = i
        BY <1>2
    <2> QED
        BY <1>2, <1>3, <1>4, <2>1, <2>2
<1>7. ASSUME NEW cb, cb = h.cb \/ Among(cb, t) PROVE Among(cb, s)
    BY <1>2, <1>3, <1>5, <1>7 DEF Among, n
<1> QED
    BY <1>2, <1>6, <1>7 DEF Proper, t, h

\* What a callback that touches datasources or methods is; the check of the
\* datasources is in no call that initialises some.
CallsFine(s) ==
    /\ Proper(s)
    /\ \A cb : Among(cb, s) =>
        /\ cb[1] = "init_datasources" => \E c \in Copy : cb = <<"init_datasources", c>>
        /\ cb[1] = "custom_methods" => \E c \in Copy : cb = <<"custom_methods", c>>
        /\ cb[1] = "check_datasources" => \A d : Among(d, s) => d[1] # "init_datasources"

RunInv ==
    /\ CallsFine(running)
    /\ ~PastLoading => running = << >>
    /\ inits \in [Copy -> Nat] /\ added = [c \in Copy |-> added[c]]
    /\ stage \in Early \cup {"loading"} => \A c \in Copy : inits[c] = 0 /\ added[c] = {}
    /\ stage = "bootstraped" => site.mode = "console"

\* The callbacks of a hook that is not called with classes.
LEMMA CalledFine ==
    ASSUME NEW r, NEW cs, Registry(r, cs), NEW n, n # "lodel2_dyncode_loaded"
    PROVE  CallsFine(HookCalls(r, n))
<1>1. ASSUME NEW cb, NEW d, Among(cb, HookCalls(r, n)), Among(d, HookCalls(r, n)),
             cb[1] = "check_datasources"
      PROVE  d[1] # "init_datasources"
    <2>1. n = "lodel2_bootstraped"
        BY <1>1 DEF Registry
    <2> QED
        BY <1>1, <2>1 DEF Registry
<1> QED
    BY <1>1, ProperCalls DEF Registry, CallsFine

\* A callback is run to its end, and what is left.
Drops(cb) ==
    /\ \A d : Among(d, running) => d = cb \/ Among(d, running')
    /\ \A d : Among(d, running') => Among(d, running)
Inits(c) ==
    /\ ClassesInit /\ inits' = [inits EXCEPT ![c] = @ + 1] /\ added' = added
    /\ Among(<<"init_datasources", c>>, running)
    /\ Among(<<"custom_methods", c>>, running')
    /\ \A d : Among(d, running) => d = <<"init_datasources", c>> \/ Among(d, running')
    /\ \A d : Among(d, running') =>
            Among(d, running) \/ d[1] \notin {"init_datasources", "check_datasources"}
Sets(c) ==
    /\ inits' = inits
    /\ \E place \in Places : added' = [added EXCEPT ![c] = SetRegistered(@, place)]
    /\ Drops(<<"custom_methods", c>>)
Other ==
    /\ UNCHANGED <<inits, added>>
    /\ \E cb : Drops(cb) /\ cb[1] \notin {"init_datasources", "custom_methods"}

\* An exception of a callback ends the boot.
Aborted ==
    /\ running' = << >> /\ UNCHANGED <<inits, added>>
    /\ stage' \in {"failed", "halfstarted"}

\* Whatever the exceptions are.
LEMMA Aborting ==
    ASSUME NEW exceptions, Aborts(exceptions)
    PROVE  Aborted
BY DEF Aborts, Aborted

\* What an instance has met that serves all the same.
LEMMA AbortCause ==
    ASSUME RunInv, RunCallback, stage' = "halfstarted"
    PROVE  /\ site.mode = "uwsgi"
           /\ NameErrors \/ \E cb : Among(cb, running) /\ cb[1] = "check_datasources"
<1> DEFINE cb == Head(running).cb
<1>1. running # << >> /\ stage # "halfstarted" /\ CallsFine(running)
    BY DEF RunCallback, RunInv, PastLoading
<1>2. Among(cb, running)
    BY <1>1, FirstCallback DEF CallsFine
<1>3. PICK exceptions :
        /\ Aborts(exceptions)
        /\ \/ cb[1] = "init_datasources" /\ exceptions = InitExceptions
           \/ cb[1] = "check_datasources"
           \/ exceptions = {"ValidationError"}
    BY <1>1 DEF RunCallback
<1>4. "NameError" \in exceptions /\ site.mode = "uwsgi"
    BY <1>3 DEF Aborts
<1>5. ASSUME exceptions = InitExceptions PROVE NameErrors
    <2>1. PICK c \in site.classes : ClassUndefinedName(c)
        BY <1>4, <1>5 DEF InitExceptions
    <2> QED
        BY <2>1 DEF ClassUndefinedName, NameErrors
<1> HIDE DEF cb
<1> QED
    BY <1>2, <1>3, <1>4, <1>5

\* The four ways it can go.
LEMMA CallbackRun ==
    ASSUME HooksInv, RunInv, RunCallback
    PROVE  /\ CallsFine(running') /\ PastLoading
           /\ \/ Aborted
              \/ /\ stage' = stage
                 /\ Other \/ \E c \in Copy : Inits(c) \/ Sets(c)
<1> DEFINE cb == Head(running).cb
           rest == Tail(running)
<1>1. running # << >> /\ PastLoading /\ CallsFine(running)
    BY DEF RunCallback, RunInv
<1>2. /\ Proper(rest)
      /\ \A d : Among(d, running) <=> d = cb \/ Among(d, rest)
    BY <1>1, FirstCallback DEF CallsFine
<1>3. CallsFine(rest) /\ Among(cb, running)
    BY <1>1, <1>2 DEF CallsFine
<1>4. running' = rest => Drops(cb)
    BY <1>2 DEF Drops
<1>5. CASE Aborted
    <2>1. running' = << >>
        BY <1>5 DEF Aborted
    <2> QED
        BY <1>1, <1>5, <2>1, NoCalls DEF CallsFine
<1>6. CASE ~Aborted /\ cb[1] = "init_datasources"
    <2>1. /\ ClassesInit /\ inits' = [inits EXCEPT ![cb[2]] = @ + 1]
          /\ running' = OnCopy(HookCalls(hooks, "lodel2_dyncode_loaded"), cb[2]) \o rest
          /\ UNCHANGED <<stage, added>>
        BY <1>6, Aborting DEF RunCallback
    <2>2. PICK c \in Copy : cb = <<"init_datasources", c>>
        BY <1>1, <1>3, <1>6 DEF CallsFine
    <2>3. cb[2] = c
        BY <2>2
    <2> DEFINE calls == HookCalls(hooks, "lodel2_dyncode_loaded")
               onc == OnCopy(calls, c)
    <2>4. Proper(calls) /\ Among(<<"custom_methods">>, calls)
        BY <1>1, ProperCalls DEF HooksInv, Registry, PluginsLoading
    <2>5. \A d : Among(d, calls) =>
            /\ d[1] \notin {"init_datasources", "check_datasources"}
            /\ d[1] = "custom_methods" => d = <<"custom_methods">>
        BY DEF HooksInv, Registry
    <2> HIDE DEF calls
    <2>6. /\ Proper(onc) /\ Among(<<"custom_methods", c>>, onc)
          /\ \A d : Among(d, onc) =>
                d = <<"custom_methods", c>> \/ (d # <<"custom_methods">> /\ Among(d, calls))
        BY <2>4, OnCopyCalls
    <2>7. running' = onc \o rest
        BY <2>1, <2>3 DEF calls
    <2> HIDE DEF onc, cb, rest
    <2>8. Proper(running') /\ \A d : Among(d, running') <=> Among(d, onc) \/ Among(d, rest)
        BY <1>2, <2>6, <2>7, JoinedCalls
    <2>9. \A d : Among(d, onc) => d[1] \notin {"init_datasources", "check_datasources"}
            /\ (d[1] = "custom_methods" => d = <<"custom_methods", c>>)
        BY <2>5, <2>6
    <2>10. CallsFine(running')
        <3>1. \A d : Among(d, running) => d[1] # "check_datasources"
            <4>1. Among(<<"init_datasources", c>>, running)
                BY <1>3, <2>2
            <4>2. <<"init_datasources", c>>[1] = "init_datasources"
                OBVIOUS
            <4> QED
                BY <1>1, <4>1, <4>2 DEF CallsFine
        <3>2. \A d : Among(d, rest) => d[1] # "check_datasources"
            BY <1>2, <3>1
        <3> QED
            BY <1>3, <2>8, <2>9, <3>2 DEF CallsFine
    <2>11. Inits(c)
        BY <1>2, <2>1, <2>2, <2>3, <2>6, <2>8, <2>9 DEF Inits
    <2> QED
        BY <1>1, <2>1, <2>10, <2>11
<1>7. CASE ~Aborted /\ cb[1] = "custom_methods"
    <2>1. /\ \E place \in Places : added' = [added EXCEPT ![cb[2]] = SetRegistered(@, place)]
          /\ running' = rest /\ UNCHANGED <<stage, inits>>
        BY <1>7 DEF RunCallback
    <2>2. PICK c \in Copy : cb = <<"custom_methods", c>>
        BY <1>1, <1>3, <1>7 DEF CallsFine
    <2>3. cb[2] = c
        BY <2>2
    <2>4. Sets(c)
        BY <1>4, <2>1, <2>2, <2>3 DEF Sets
    <2> QED
        BY <1>1, <1>3, <2>1, <2>4
<1>8. CASE ~Aborted /\ cb[1] \notin {"init_datasources", "custom_methods"}
    <2>1. running' = rest /\ UNCHANGED <<stage, inits, added>>
        BY <1>8, Aborting DEF RunCallback
    <2> HIDE DEF cb
    <2>2. Other
        BY <1>4, <1>8, <2>1 DEF Other
    <2> QED
        BY <1>1, <1>3, <2>1, <2>2
<1> QED
    BY <1>5, <1>6, <1>7, <1>8

\* A call of hooks begins.
Begins == (EndLoading /\ stage' = "loaded") \/ ExposeAgain \/ Bootstraped \/ ImportLeapi

\* Once load_all has ended the plugins and the settings do not change.
Fixed == UNCHANGED <<site, found, registered, called, order, methods, conf>>

\* What a step is before load_all ends, and after.
LEMMA KindOfStep ==
    ASSUME RunInv, [Next]_vars
    PROVE  \/ /\ ~PastLoading /\ ~PastLoading' /\ UNCHANGED hookVars
              /\ stage' \in Early \cup {"loading"} => stage \in Early \cup {"loading"}
           \/ Begins /\ Fixed
           \/ RunCallback /\ Fixed
           \/ UNCHANGED vars
<1>1. ASSUME SettingsStep, UNCHANGED hookVars
      PROVE  /\ ~PastLoading /\ ~PastLoading' /\ UNCHANGED hookVars
             /\ stage \in Early \cup {"loading"}
    BY <1>1 DEF SettingsStep, ReadFiles, RegisterNext, Populate, ReadList, Fail, PastLoading,
                Early
<1>2. ASSUME StartHooks
      PROVE  /\ ~PastLoading /\ ~PastLoading' /\ UNCHANGED hookVars
             /\ stage \in Early \cup {"loading"}
    BY <1>2 DEF StartHooks, PastLoading, Early
<1>3. ASSUME LoadStep, UNCHANGED hookVars
      PROVE  /\ ~PastLoading /\ ~PastLoading' /\ UNCHANGED hookVars
             /\ stage \in Early \cup {"loading"}
    BY <1>3 DEF LoadStep, LoadNext, LoadDep, AlreadyLoaded, NotActivable, Circular, CheckDeps,
                Import, ImportFails, Raise, Break, Leave, PastLoading
<1>4. ASSUME EndLoading, stage' # "loaded"
      PROVE  /\ ~PastLoading /\ ~PastLoading' /\ UNCHANGED hookVars
             /\ stage \in Early \cup {"loading"}
    BY <1>4 DEF EndLoading, AllTried, Fail, PastLoading, hookVars
<1>5. ASSUME EndLoading \/ ExposeAgain \/ Bootstraped \/ ImportLeapi \/ RunCallback
      PROVE  Fixed
    BY <1>5 DEF EndLoading, ExposeAgain, Bootstraped, ImportLeapi, RunCallback, plugVars,
                setVars, Fixed
<1>6. CASE UNCHANGED vars
    BY <1>6
<1> QED
    BY <1>1, <1>2, <1>3, <1>4, <1>5, <1>6 DEF Next, Done, Begins

\* Where a call begins no callback is left of another.
LEMMA CallBegun ==
    ASSUME HooksInv', RunInv, Begins
    PROVE  /\ running = << >> /\ CallsFine(running') /\ PastLoading'
           /\ UNCHANGED <<inits, added, site>>
           /\ stage \in {"loading", "loaded", "exposed", "bootstraped"}
           /\ stage = "loading" => stage' = "loaded"
                /\ running' = HookCalls(hooks', "lodel2_plugins_loaded")
           /\ stage' = "exposed" => running' = HookCalls(hooks', "lodel2_plugins_loaded")
           /\ stage \in {"exposed", "bootstraped"} \/ (stage = "loaded" /\ site.mode # "multi") =>
                \A cb : Among(cb, running') => cb[1] # "init_datasources"
           /\ stage' = "bootstraped" => site.mode = "console"
           /\ stage = "loaded" => (stage' = "exposed" <=> site.mode = "multi")
           /\ stage' = "exposed" => site.mode = "multi" /\ "context" \in copies'
           /\ stage = "bootstraped" => site.mode = "console"
<1>1. Registry(hooks', copies')
    BY DEF HooksInv
<1>2. ASSUME NEW n, n # "lodel2_dyncode_loaded"
      PROVE  /\ CallsFine(HookCalls(hooks', n))
             /\ n # "lodel2_plugins_loaded" =>
                    \A cb : Among(cb, HookCalls(hooks', n)) => cb[1] # "init_datasources"
    BY <1>1, <1>2, CalledFine DEF Registry
<1>3. ASSUME EndLoading, stage' = "loaded"
      PROVE  /\ running = << >> /\ running' = HookCalls(hooks', "lodel2_plugins_loaded")
             /\ UNCHANGED <<inits, added, site>> /\ stage = "loading"
    BY <1>3 DEF EndLoading, Call, AllTried, Fail, plugVars, RunInv, PastLoading
<1>4. ASSUME ExposeAgain
      PROVE  /\ running = << >> /\ running' = HookCalls(hooks', "lodel2_plugins_loaded")
             /\ UNCHANGED <<inits, added, site>> /\ stage = "loaded" /\ stage' = "exposed"
             /\ site.mode = "multi" /\ "context" \in copies'
    BY <1>4 DEF ExposeAgain, Expose
<1>5. ASSUME Bootstraped
      PROVE  /\ running = << >> /\ running' = HookCalls(hooks', "lodel2_bootstraped")
             /\ UNCHANGED <<inits, added, site>> /\ stage \in {"exposed", "loaded"}
             /\ stage' \in {"bootstraped", "ready"}
             /\ stage' = "bootstraped" => site.mode = "console"
             /\ stage = "loaded" => site.mode # "multi"
    BY <1>5 DEF Bootstraped, Call, plugVars
<1>6. ASSUME ImportLeapi
      PROVE  /\ running = << >> /\ UNCHANGED <<inits, added, site>>
             /\ stage = "bootstraped" /\ stage' = "ready" /\ site.mode = "console"
             /\ CallsFine(running')
             /\ \A cb : Among(cb, running') => cb[1] # "init_datasources"
    <2> DEFINE a == HookCalls(hooks', "lodel2_dyncode_bootstraped")
               b == HookCalls(hooks', "lodel2_loader_main")
    <2>1. /\ running = << >> /\ UNCHANGED <<inits, added, site>> /\ running' = a \o b
          /\ stage = "bootstraped" /\ stage' = "ready"
        BY <1>6 DEF ImportLeapi
    <2>2. site.mode = "console"
        BY <2>1 DEF RunInv
    <2>3. CallsFine(a) /\ CallsFine(b)
          /\ \A cb : Among(cb, a) \/ Among(cb, b) => cb[1] # "init_datasources"
        BY <1>2
    <2> HIDE DEF a, b
    <2>4. Proper(running') /\ \A cb : Among(cb, running') <=> Among(cb, a) \/ Among(cb, b)
        BY <2>1, <2>3, JoinedCalls DEF CallsFine
    <2>5. CallsFine(running')
        BY <2>3, <2>4 DEF CallsFine
    <2> QED
        BY <2>1, <2>2, <2>3, <2>4, <2>5
<1>7. CASE EndLoading /\ stage' = "loaded"
    BY <1>2, <1>3, <1>7 DEF PastLoading
<1>8. CASE ExposeAgain
    BY <1>2, <1>4, <1>8 DEF PastLoading
<1>9. CASE Bootstraped
    BY <1>2, <1>5, <1>9 DEF PastLoading
<1>10. CASE ImportLeapi
    BY <1>6, <1>10 DEF PastLoading
<1> QED
    BY <1>7, <1>8, <1>9, <1>10 DEF Begins

\* What is left of a call stays in order.
LEMMA RunStep ==
    ASSUME HooksInv, HooksInv', RunInv, [Next]_vars
    PROVE  RunInv'
<1>1. CASE /\ ~PastLoading /\ ~PastLoading' /\ UNCHANGED hookVars
           /\ stage' \in Early \cup {"loading"} => stage \in Early \cup {"loading"}
    BY <1>1 DEF RunInv, hookVars, PastLoading
<1>2. CASE Begins
    BY <1>2, CallBegun DEF RunInv, PastLoading, Early
<1>3. CASE RunCallback
    <2>1. CallsFine(running') /\ PastLoading
        BY <1>3, CallbackRun
    <2>2. /\ stage' \in {stage, "failed", "halfstarted"} /\ site' = site
          /\ stage' \in {"failed", "halfstarted"} => running' = << >>
        <3>1. stage \notin {"failed", "halfstarted"}
            BY <2>1 DEF PastLoading
        <3> QED
            BY <1>3, <3>1 DEF RunCallback, Aborts
    <2>3. inits' \in [Copy -> Nat] /\ added' = [c \in Copy |-> added'[c]]
        <3>1. CASE Aborted
            BY <3>1 DEF Aborted, RunInv
        <3>2. CASE Other
            BY <3>2 DEF Other, RunInv
        <3>3. ASSUME NEW c \in Copy, Inits(c) PROVE inits' \in [Copy -> Nat] /\ added' = [d \in Copy |-> added'[d]]
            BY <3>3 DEF Inits, RunInv
        <3>4. ASSUME NEW c \in Copy, Sets(c) PROVE inits' \in [Copy -> Nat] /\ added' = [d \in Copy |-> added'[d]]
            <4>1. PICK place \in Places : added' = [added EXCEPT ![c] = SetRegistered(@, place)]
                BY <3>4 DEF Sets
            <4>2. PICK set : set = SetRegistered(added[c], place)
                OBVIOUS
            <4>3. added' = [added EXCEPT ![c] = set]
                BY <4>1, <4>2
            <4> QED
                BY <3>4, <4>3 DEF Sets, RunInv
        <3> QED
            BY <1>3, <3>1, <3>2, <3>3, <3>4, CallbackRun
    <2> QED
        BY <2>1, <2>2, <2>3 DEF RunInv, PastLoading, Early
<1>4. CASE UNCHANGED vars
    BY <1>4 DEF vars, hookVars, RunInv, PastLoading, CallsFine
<1> QED
    BY <1>1, <1>2, <1>3, <1>4, KindOfStep
-----------------------------------------------------------------------------
(* The custom methods.                                                     *)

\* The methods that classes have not got of themselves; and the copies are
\* complete whose classes have one of the name of each, set on them or on an
\* ancestor.
Missing == {m \in methods : \E c \in site.classes : c.name = m[1] /\ m[2] \notin c.methods}
Complete ==
    {c \in Copy : \A m \in Missing :
        \E a \in added[c] : a[2] = m[2] /\ a[1] \in {m[1]} \cup Ancestors(m[1])}

\* A copy whose datasources are initialised has the custom methods, or will.
NoneReplaced == PastLoading => \A c \in Copy : added[c] \subseteq Missing
NoneMissed ==
    PastLoading => \A c \in Copy :
        inits[c] > 0 => c \in Complete \/ Among(<<"custom_methods", c>>, running)
MethodsInv == NoneReplaced /\ NoneMissed

\* Of the methods that can be set none is lost but to that of an ancestor.
LEMMA NoneHidden ==
    ASSUME site \in Sites, NEW set, NEW place \in Places, NEW m \in Settable(set)
    PROVE  \E a \in SetRegistered(set, place) : a[2] = m[2] /\ a[1] \in {m[1]} \cup Ancestors(m[1])
<1> DEFINE Before(a, b) == a[2] = b[2] /\ a[1] \in Ancestors(b[1]) /\ place[a[1]] < place[b[1]]
           H == {a \in Settable(set) : Before(a, m)}
           T == {place[a[1]] : a \in H}
<1>1. \A a \in Settable(set) : place[a[1]] \in Nat
    <2> DEFINE named == {c.name : c \in site.classes}
    <2>1. \A a \in Settable(set) : a[1] \in named
        BY DEF Settable
    <2>2. place \in [named -> 1..Cardinality(named)]
        BY DEF Places, Bijection, Injection
    <2>3. IsFiniteSet(named)
        <3> DEFINE f == [c \in site.classes |-> c.name]
        <3>1. f \in Surjection(site.classes, named)
            BY DEF Surjection
        <3>2. IsFiniteSet(site.classes)
            BY SitesAssumption
        <3> HIDE DEF f, named
        <3> QED
            BY <3>1, <3>2, FS_Surjection
    <2>4. Cardinality(named) \in Nat
        BY <2>3, FS_CardinalityType
    <2> HIDE DEF named
    <2> QED
        BY <2>1, <2>2, <2>4
<1>2. \A a, b : a \in Ancestors(b) => Ancestors(a) \subseteq Ancestors(b)
    <2> SUFFICES ASSUME NEW a, NEW b, a \in Ancestors(b), NEW x \in Ancestors(a)
                 PROVE  x \in Ancestors(b)
        OBVIOUS
    <2>1. PICK c \in site.classes : c.name = b /\ a \in c.ancestors
        BY DEF Ancestors
    <2>2. PICK k \in site.classes : k.name = a /\ x \in k.ancestors
        BY DEF Ancestors
    <2>3. k.ancestors \subseteq c.ancestors
        BY <2>1, <2>2, SitesAssumption
    <2> QED
        BY <2>1, <2>2, <2>3 DEF Ancestors
<1>3. SetRegistered(set, place) =
        set \cup {b \in Settable(set) : ~\E a \in Settable(set) : Before(a, b)}
    BY DEF SetRegistered
<1> HIDE DEF Before
<1>4. CASE H = {}
    BY <1>3, <1>4
<1>5. CASE H # {}
    <2>1. T \subseteq Nat /\ T # {}
        BY <1>1, <1>5
    <2> HIDE DEF T
    <2>2. PICK x \in T : \A y \in T : x <= y
        BY <2>1, LeastNumber
    <2>3. PICK a \in H : place[a[1]] = x
        BY <2>2 DEF T
    <2>4. ASSUME NEW b \in Settable(set), Before(b, a) PROVE FALSE
        <3>1. /\ place[b[1]] \in Nat /\ place[a[1]] \in Nat /\ place[m[1]] \in Nat
              /\ a \in Settable(set) /\ Before(a, m)
            BY <1>1
        <3>2. b[2] = m[2] /\ b[1] \in Ancestors(m[1]) /\ place[b[1]] < place[m[1]]
              /\ place[b[1]] < place[a[1]]
            BY <1>2, <2>4, <3>1 DEF Before
        <3>3. place[b[1]] \in T
            BY <3>2 DEF T, Before
        <3> QED
            BY <2>2, <2>3, <3>1, <3>2, <3>3
    <2>5. a \in SetRegistered(set, place)
        BY <1>3, <2>4
    <2> QED
        BY <2>5 DEF Before
<1> QED
    BY <1>4, <1>5

\* The call of the hook leaves a copy complete.
LEMMA CompletedSet ==
    ASSUME site \in Sites, NEW set, set \subseteq Missing, NEW place \in Places
    PROVE  /\ SetRegistered(set, place) \subseteq Missing
           /\ \A m \in Missing : \E a \in SetRegistered(set, place) :
                a[2] = m[2] /\ a[1] \in {m[1]} \cup Ancestors(m[1])
<1>1. Settable(set) \subseteq Missing
    BY DEF Settable, Missing, Shown
<1>2. SetRegistered(set, place) \subseteq Missing /\ set \subseteq SetRegistered(set, place)
    BY <1>1 DEF SetRegistered
<1>3. ASSUME NEW m \in Missing
      PROVE  \E a \in SetRegistered(set, place) :
                a[2] = m[2] /\ a[1] \in {m[1]} \cup Ancestors(m[1])
    <2>1. CASE m \in Settable(set)
        BY <2>1, NoneHidden
    <2>2. CASE m \notin Settable(set)
        <3>1. PICK c \in site.classes : m \in methods /\ c.name = m[1] /\ m[2] \notin c.methods
            BY DEF Missing
        <3>2. m[2] \in Shown(c, set)
            BY <2>2, <3>1 DEF Settable
        <3>3. PICK a \in set : a[1] \in {c.name} \cup c.ancestors /\ m[2] = a[2]
            BY <3>1, <3>2 DEF Shown
        <3>4. a[1] \in {m[1]} \cup Ancestors(m[1])
            BY <3>1, <3>3 DEF Ancestors
        <3> QED
            BY <1>2, <3>3, <3>4
    <2> QED
        BY <2>1, <2>2
<1> QED
    BY <1>2, <1>3

\* What can raise a NameError is said by the plugins and the settings.
LEMMA NameErrorsStay ==
    ASSUME UNCHANGED <<site, found, registered, conf>>
    PROVE  NameErrors' <=> NameErrors
<1>1. \A d, ro : UndefinedName(d, ro)' <=> UndefinedName(d, ro)
    BY DEF UndefinedName, Datasources, Writable, DsOption, Families, HasInstance, Info
<1>2. \A n : WrongDeps(n)' = WrongDeps(n) /\ Info(n)' = Info(n)
    BY DEF WrongDeps, Info
<1> QED
    BY <1>1, <1>2 DEF NameErrors

\* What a fixed part of the state says stays.
LEMMA FixedFacts ==
    ASSUME Fixed
    PROVE  /\ Missing' = Missing /\ \A x : Ancestors(x)' = Ancestors(x)
           /\ \A c \in Copy : added'[c] = added[c] => (c \in Complete' <=> c \in Complete)
           /\ ClassesInit' <=> ClassesInit
           /\ NameErrors' <=> NameErrors
<1>1. \A d, ro : DatasourceInit(d, ro)' <=> DatasourceInit(d, ro)
    BY DEF Fixed, DatasourceInit, Datasources, Writable, DsOption, Families,
           HasInstance, Info, Loaded, Range
<1>2. ClassesInit' <=> ClassesInit
    BY <1>1 DEF Fixed, ClassesInit, ClassInit
<1>4. NameErrors' <=> NameErrors
    BY NameErrorsStay DEF Fixed
<1>5. Missing' = Missing /\ \A x : Ancestors(x)' = Ancestors(x)
    BY DEF Fixed, Missing, Ancestors
<1>6. ASSUME NEW c \in Copy, added'[c] = added[c] PROVE c \in Complete' <=> c \in Complete
    BY <1>5, <1>6 DEF Complete
<1> QED
    BY <1>2, <1>4, <1>5, <1>6

\* Every step keeps it.
LEMMA MethodsStep ==
    ASSUME FoundInv, HooksInv, HooksInv', RunInv, MethodsInv, [Next]_vars
    PROVE  MethodsInv'
<1>1. CASE ~PastLoading'
    BY <1>1 DEF MethodsInv, NoneReplaced, NoneMissed
<1>2. CASE Begins /\ Fixed
    <2>1. /\ running = << >> /\ UNCHANGED <<inits, added>> /\ Missing' = Missing
          /\ \A c \in Copy : added'[c] = added[c] => (c \in Complete' <=> c \in Complete)
          /\ stage \in {"loading", "loaded", "exposed", "bootstraped"}
        BY <1>2, CallBegun, FixedFacts
    <2>2. CASE stage = "loading"
        <3>1. \A c \in Copy : inits'[c] = 0 /\ added'[c] = {}
            BY <2>1, <2>2 DEF RunInv
        <3>2. \A c \in Copy : ~(inits'[c] > 0) /\ added'[c] \subseteq Missing'
            BY <3>1
        <3> QED
            BY <3>2 DEF MethodsInv, NoneReplaced, NoneMissed
    <2>3. CASE stage # "loading"
        <3>1. PastLoading /\ \A cb : ~Among(cb, running)
            BY <2>1, <2>3, NoCalls DEF PastLoading
        <3> QED
            BY <2>1, <3>1 DEF MethodsInv, NoneReplaced, NoneMissed
    <2> QED
        BY <2>2, <2>3
<1>3. CASE RunCallback /\ Fixed /\ PastLoading'
    <2>1. /\ PastLoading /\ Missing' = Missing /\ inits \in [Copy -> Nat] /\ site \in Sites
          /\ \A c \in Copy : added'[c] = added[c] => (c \in Complete' <=> c \in Complete)
          /\ added = [c \in Copy |-> added[c]]
        BY <1>3, CallbackRun, FixedFacts DEF RunInv, FoundInv
    <2>2. ~Aborted
        BY <1>3 DEF Aborted, PastLoading
    <2>3. CASE Other
        <3>1. PICK cb : Drops(cb) /\ cb[1] \notin {"init_datasources", "custom_methods"}
            BY <2>3 DEF Other
        <3>2. \A c \in Copy : Among(<<"custom_methods", c>>, running)
                                => Among(<<"custom_methods", c>>, running')
            BY <3>1 DEF Drops
        <3> QED
            BY <2>1, <2>3, <3>2 DEF Other, MethodsInv, NoneReplaced, NoneMissed
    <2>4. ASSUME NEW k \in Copy, Inits(k) PROVE MethodsInv'
        <3>1. \A c \in Copy : Among(<<"custom_methods", c>>, running)
                                => Among(<<"custom_methods", c>>, running')
            <4>1. \A c \in Copy : <<"custom_methods", c>> # <<"init_datasources", k>>
                OBVIOUS
            <4> QED
                BY <2>4, <4>1 DEF Inits
        <3>2. \A c \in Copy : c # k => inits'[c] = inits[c]
            BY <2>1, <2>4 DEF Inits
        <3> QED
            BY <2>1, <2>4, <3>1, <3>2 DEF Inits, MethodsInv, NoneReplaced, NoneMissed
    <2>5. ASSUME NEW k \in Copy, Sets(k) PROVE MethodsInv'
        <3>1. \A c \in Copy : c # k => (Among(<<"custom_methods", c>>, running)
                                => Among(<<"custom_methods", c>>, running'))
            <4>1. \A c \in Copy : c # k => <<"custom_methods", c>> # <<"custom_methods", k>>
                OBVIOUS
            <4> QED
                BY <2>5, <4>1 DEF Sets, Drops
        <3>2. PICK place \in Places : added' = [added EXCEPT ![k] = SetRegistered(@, place)]
            BY <2>5 DEF Sets
        <3>3. added'[k] \subseteq Missing /\ k \in Complete'
              /\ \A c \in Copy : c # k => added'[c] = added[c]
            <4>1. PICK set : set = SetRegistered(added[k], place)
                OBVIOUS
            <4>2. added' = [added EXCEPT ![k] = set]
                BY <3>2, <4>1
            <4>3. added'[k] = set /\ \A c \in Copy : c # k => added'[c] = added[c]
                BY <2>1, <4>2
            <4>4. /\ set \subseteq Missing
                  /\ \A m \in Missing : \E a \in set :
                        a[2] = m[2] /\ a[1] \in {m[1]} \cup Ancestors(m[1])
                BY <2>1, <4>1, CompletedSet DEF MethodsInv, NoneReplaced, NoneMissed
            <4>5. k \in Complete'
                BY <1>3, <2>1, <4>3, <4>4, FixedFacts DEF Complete
            <4> QED
                BY <4>3, <4>4, <4>5
        <3> QED
            BY <2>1, <2>5, <3>1, <3>2, <3>3 DEF Sets, MethodsInv, NoneReplaced, NoneMissed
    <2> QED
        BY <1>3, <2>2, <2>3, <2>4, <2>5, CallbackRun
<1>4. CASE UNCHANGED vars
    <2>1. UNCHANGED <<stage, added, inits, running>> /\ Fixed
        BY <1>4 DEF vars, hookVars, plugVars, setVars, Fixed
    <2> QED
        BY <2>1, FixedFacts DEF MethodsInv, NoneReplaced, NoneMissed, PastLoading
<1> QED
    BY <1>1, <1>2, <1>3, <1>4, KindOfStep

\* The methods registered are those of the plugins loaded.
LEMMA MethodsOfLoaded ==
    ASSUME LoadInv, OrderSound
    PROVE  methods = UNION {Info(n).methods : n \in Loaded}
<1>1. \A m : m \in methods <=> \E k \in 1..Len(order) : m \in Info(order[k]).methods
    BY DEF OrderSound
<1>2. \A n : n \in Loaded <=> IsLoaded(n)
    BY LoadedByIndex DEF LoadInv
<1> QED
    BY <1>1, <1>2 DEF IsLoaded

-----------------------------------------------------------------------------
(* The datasources of an instance that serves.                             *)

Pending(c) == Among(<<"init_datasources", c>>, running)

\* The copy the controllers use is there before the hook that initialises its
\* datasources is called, and a copy is initialised only if it can be.  Where a
\* NameError has been swallowed there was cause for one, or the datasources are
\* initialised.
ServingInv ==
    /\ PluginsLoading /\ site.mode = "uwsgi" => "context" \in copies
    /\ PastLoading => \A c \in Copy : inits[c] > 0 => ClassesInit
    /\ \/ PastLoading /\ site.mode = "uwsgi"
       \/ stage \in {"exposed", "ready"} /\ site.mode = "multi"
       => inits["context"] > 0 \/ Pending("context")
    /\ stage \in {"halfloaded", "halfstarted"} => site.mode = "uwsgi"
    /\ stage = "halfloaded" => NameErrors
    /\ stage = "halfstarted" => NameErrors \/ (inits["context"] > 0 /\ ClassesInit)

\* A callback leaves no initialisation out.
LEMMA NoneLeftOut ==
    ASSUME HooksInv, RunInv, RunCallback, stage' \notin {"failed", "halfstarted"}
    PROVE  /\ \A c \in Copy : (inits'[c] > 0 \/ Pending(c)') <=> (inits[c] > 0 \/ Pending(c))
           /\ \A c \in Copy : inits'[c] > 0 => inits[c] > 0 \/ ClassesInit
           /\ stage' = stage
<1>1. inits \in [Copy -> Nat]
    BY DEF RunInv
<1>2. ~Aborted
    BY DEF Aborted
<1>3. CASE Other
    <2>1. PICK cb : Drops(cb) /\ cb[1] \notin {"init_datasources", "custom_methods"}
        BY <1>3 DEF Other
    <2>2. \A c \in Copy : Pending(c)' <=> Pending(c)
        BY <2>1 DEF Drops, Pending
    <2> QED
        BY <1>2, <1>3, <2>2, CallbackRun DEF Other
<1>4. ASSUME NEW k \in Copy, Sets(k), stage' = stage
      PROVE  /\ \A c \in Copy : (inits'[c] > 0 \/ Pending(c)') <=> (inits[c] > 0 \/ Pending(c))
             /\ \A c \in Copy : inits'[c] > 0 => inits[c] > 0 \/ ClassesInit
             /\ stage' = stage
    <2>1. \A c \in Copy : <<"init_datasources", c>> # <<"custom_methods", k>>
        OBVIOUS
    <2>2. \A c \in Copy : Pending(c)' <=> Pending(c)
        BY <1>4, <2>1 DEF Sets, Drops, Pending
    <2> QED
        BY <1>4, <2>2 DEF Sets
<1>5. ASSUME NEW k \in Copy, Inits(k), stage' = stage
      PROVE  /\ \A c \in Copy : (inits'[c] > 0 \/ Pending(c)') <=> (inits[c] > 0 \/ Pending(c))
             /\ \A c \in Copy : inits'[c] > 0 => inits[c] > 0 \/ ClassesInit
             /\ stage' = stage
    <2>1. ClassesInit /\ Pending(k) /\ inits'[k] = inits[k] + 1 /\ inits[k] \in Nat
          /\ \A c \in Copy : c # k => inits'[c] = inits[c]
        BY <1>1, <1>5 DEF Inits, Pending
    <2>2. \A c \in Copy : c # k => <<"init_datasources", c>> # <<"init_datasources", k>>
        OBVIOUS
    <2>3. \A c \in Copy : c # k => (Pending(c)' <=> Pending(c))
        BY <1>5, <2>2 DEF Inits, Pending
    <2> QED
        BY <1>5, <2>1, <2>3
<1> QED
    BY <1>2, <1>3, <1>4, <1>5, CallbackRun

\* load_all is left by a NameError that there is cause for.
LEMMA NameErrorLeft ==
    ASSUME LoadInv, LoadStep, stage' \in {"halfloaded", "halfstarted"}
    PROVE  stage' = "halfloaded" /\ site.mode = "uwsgi" /\ NameErrors
<1> DEFINE p == Top.plugin
<1>1. stack # << >> => p \in registered
    BY BelowFacts DEF LoadInv, Frames
<1>2. CASE CheckDeps
    <2>1. WrongDeps(p) # {} /\ Leave("NameError") /\ stack # << >>
        BY <1>2 DEF CheckDeps
    <2> QED
        BY <1>1, <2>1 DEF Leave, NameErrors
<1>3. CASE ImportFails
    <2>1. Info(p).loader = "NameError" /\ stage' = "halfloaded" /\ site.mode = "uwsgi"
          /\ stack # << >>
        BY <1>3 DEF ImportFails, Raise, Break, Leave
    <2> QED
        BY <1>1, <2>1 DEF NameErrors
<1> QED
    BY <1>2, <1>3 DEF LoadStep, LoadNext, LoadDep, AlreadyLoaded, NotActivable, Circular, Import, Raise

\* Every step keeps the invariant.
LEMMA ServingStep ==
    ASSUME LoadInv, HooksInv, HooksInv', RunInv, ServingInv, [Next]_vars
    PROVE  ServingInv'
<1>1. CASE ~PastLoading /\ ~PastLoading'
    <2>1. PluginsLoading' /\ site'.mode = "uwsgi" => "context" \in copies'
        <3>1. CASE StartHooks
            BY <3>1 DEF StartHooks
        <3>2. CASE LoadStep
            <4>1. stage = "loading" /\ site' = site /\ copies \subseteq copies'
                BY <3>2 DEF LoadStep, LoadNext, LoadDep, AlreadyLoaded, NotActivable, Circular,
                    CheckDeps, Import, ImportFails, Raise, Break, Leave, Activate, Expose
            <4> QED
                BY <4>1 DEF ServingInv, PluginsLoading
        <3>3. CASE SettingsStep
            <4>1. ~PluginsLoading'
                BY <3>3 DEF SettingsStep, ReadFiles, RegisterNext, Populate, ReadList, Fail,
                            PluginsLoading, PastLoading
            <4> QED
                BY <4>1
        <3>4. CASE EndLoading \/ ExposeAgain \/ Bootstraped \/ ImportLeapi \/ RunCallback
            <4>1. ~PluginsLoading'
                BY <1>1, <3>4, CallbackRun DEF EndLoading, ExposeAgain, Bootstraped, ImportLeapi,
                        Fail, PluginsLoading, PastLoading
            <4> QED
                BY <4>1
        <3>5. CASE UNCHANGED vars
            <4>1. UNCHANGED <<site, stage, copies>>
                BY <3>5 DEF vars, plugVars
            <4> QED
                BY <4>1 DEF ServingInv, PluginsLoading, PastLoading
        <3> QED
            BY <3>1, <3>2, <3>3, <3>4, <3>5 DEF Next, Done
    <2>2. ASSUME stage' \in {"halfloaded", "halfstarted"}
          PROVE  /\ site'.mode = "uwsgi"
                 /\ stage' = "halfloaded" => NameErrors'
                 /\ stage' = "halfstarted" =>
                        NameErrors' \/ (inits'["context"] > 0 /\ ClassesInit')
        <3>1. CASE LoadStep /\ UNCHANGED <<setVars, hookVars>>
            <4>1. stage' = "halfloaded" /\ site.mode = "uwsgi" /\ NameErrors
                BY <2>2, <3>1, NameErrorLeft
            <4>2. UNCHANGED <<site, found, registered, conf>>
                BY <3>1 DEF LoadStep, LoadNext, LoadDep, AlreadyLoaded, NotActivable, Circular,
                    CheckDeps, Import, ImportFails, Raise, Break, Leave, setVars
            <4>3. NameErrors'
                BY <4>1, <4>2, NameErrorsStay
            <4> QED
                BY <4>1, <4>2, <4>3
        <3>2. CASE UNCHANGED vars
            <4>1. UNCHANGED <<site, stage, inits>> /\ Fixed
                BY <3>2 DEF vars, hookVars, plugVars, setVars, Fixed
            <4> QED
                BY <2>2, <4>1, FixedFacts DEF ServingInv
        <3>3. ~(SettingsStep \/ StartHooks \/ EndLoading \/ ExposeAgain \/ Bootstraped
                \/ ImportLeapi \/ RunCallback)
            BY <1>1, <2>2, CallbackRun DEF SettingsStep, ReadFiles, RegisterNext, Populate,
                ReadList, Fail, StartHooks, EndLoading, ExposeAgain, Bootstraped, ImportLeapi
        <3> QED
            BY <3>1, <3>2, <3>3 DEF Next, Done
    <2> QED
        BY <1>1, <2>1, <2>2 DEF ServingInv, PastLoading
<1>2. CASE Begins /\ Fixed
    <2>1. /\ running = << >> /\ UNCHANGED <<inits, site>> /\ PastLoading'
          /\ ClassesInit' <=> ClassesInit
          /\ stage \in {"loading", "loaded", "exposed", "bootstraped"} /\ PluginsLoading
        BY <1>2, CallBegun, FixedFacts DEF PluginsLoading, PastLoading
    <2>2. \A cb : ~Among(cb, running)
        BY <2>1, NoCalls
    <2>3. copies \subseteq copies'
        BY <1>2 DEF Begins, EndLoading, ExposeAgain, Bootstraped, ImportLeapi, Expose, plugVars
    <2>4. \A c \in Copy : inits'[c] > 0 => ClassesInit'
        <3>1. CASE stage = "loading"
            BY <2>1, <3>1 DEF RunInv
        <3>2. CASE stage # "loading"
            BY <2>1, <3>2 DEF ServingInv, PastLoading
        <3> QED
            BY <3>1, <3>2
    <2>5. ASSUME PluginsLoading', site'.mode = "uwsgi"
          PROVE  "context" \in copies' /\ (inits'["context"] > 0 \/ Pending("context")')
        <3>1. "context" \in copies'
            BY <2>1, <2>3, <2>5 DEF ServingInv
        <3>2. CASE stage = "loading"
            <4>1. running' = HookCalls(hooks', "lodel2_plugins_loaded")
                BY <1>2, <3>2, CallBegun
            <4> QED
                BY <3>1, <4>1 DEF HooksInv, Registry, Pending
        <3>3. CASE stage # "loading"
            BY <2>1, <2>2, <2>5, <3>1, <3>3 DEF ServingInv, PastLoading, Pending
        <3> QED
            BY <3>2, <3>3
    <2>6. ASSUME stage' \in {"exposed", "ready"}, site'.mode = "multi"
          PROVE  inits'["context"] > 0 \/ Pending("context")'
        <3>1. CASE stage' = "exposed"
            <4>1. running' = HookCalls(hooks', "lodel2_plugins_loaded") /\ "context" \in copies'
                BY <1>2, <3>1, CallBegun
            <4> QED
                BY <4>1 DEF HooksInv, Registry, Pending
        <3>2. CASE stage' = "ready"
            <4>1. stage = "exposed"
                BY <1>2, <2>1, <2>6, <3>2, CallBegun DEF Begins, EndLoading, ExposeAgain,
                        Bootstraped, ImportLeapi
            <4> QED
                BY <2>1, <2>2, <2>6, <4>1 DEF ServingInv, Pending
        <3> QED
            BY <2>6, <3>1, <3>2
    <2> QED
        <3>1. stage' \notin {"halfloaded", "halfstarted"}
            BY <2>1 DEF PastLoading
        <3> QED
            BY <2>1, <2>4, <2>5, <2>6, <3>1 DEF ServingInv, PluginsLoading
<1>3. CASE RunCallback /\ Fixed
    <2>1. CASE stage' = "failed"
        BY <2>1 DEF ServingInv, PluginsLoading, PastLoading
    <2>3. CASE stage' = "halfstarted"
        <3>1. /\ site.mode = "uwsgi" /\ PastLoading
              /\ NameErrors \/ \E cb : Among(cb, running) /\ cb[1] = "check_datasources"
            BY <1>3, <2>3, AbortCause, CallbackRun
        <3>2. ASSUME NEW cb, Among(cb, running), cb[1] = "check_datasources"
              PROVE  inits["context"] > 0 /\ ClassesInit
            <4>1. ~Pending("context")
                <5>1. <<"init_datasources", "context">>[1] = "init_datasources"
                    OBVIOUS
                <5> QED
                    BY <3>2, <5>1 DEF RunInv, CallsFine, Pending
            <4> QED
                BY <3>1, <4>1 DEF ServingInv, Copy
        <3>3. inits' = inits
            BY <1>3, <2>3, <3>1, CallbackRun DEF Aborted, PastLoading
        <3>4. site' = site /\ (NameErrors' <=> NameErrors) /\ (ClassesInit' <=> ClassesInit)
            BY <1>3, FixedFacts DEF Fixed
        <3>5. NameErrors' \/ (inits'["context"] > 0 /\ ClassesInit')
            BY <3>1, <3>2, <3>3, <3>4
        <3> QED
            BY <2>3, <3>1, <3>4, <3>5 DEF ServingInv, PluginsLoading, PastLoading
    <2>2. CASE stage' \notin {"failed", "halfstarted"}
        <3>1. /\ \A c \in Copy : (inits'[c] > 0 \/ Pending(c)') <=> (inits[c] > 0 \/ Pending(c))
              /\ \A c \in Copy : inits'[c] > 0 => inits[c] > 0 \/ ClassesInit
              /\ stage' = stage
            BY <1>3, <2>2, NoneLeftOut
        <3>2. "context" \in Copy /\ copies' = copies /\ site' = site
            BY <1>3 DEF Copy, RunCallback, plugVars
        <3>3. (ClassesInit' <=> ClassesInit) /\ PastLoading
            BY <1>3, FixedFacts, CallbackRun
        <3> QED
            BY <3>1, <3>2, <3>3 DEF ServingInv, PluginsLoading, PastLoading
    <2> QED
        BY <2>1, <2>2, <2>3
<1>4. CASE UNCHANGED vars
    <2>1. UNCHANGED <<site, stage, copies, inits, running>> /\ Fixed
        BY <1>4 DEF vars, hookVars, plugVars, setVars, Fixed
    <2> QED
        BY <2>1, FixedFacts DEF ServingInv, PluginsLoading, PastLoading, Pending
<1> QED
    BY <1>1, <1>2, <1>3, <1>4, KindOfStep
-----------------------------------------------------------------------------
(* The datasources of the console.                                         *)

Imports(n, c) == c \in Info(n).probes \cup Info(n).imports

\* The copies that are imported while the plugins are loaded are those that
\* they import, and those are what the hook initialises.
ConsoleInv ==
    /\ stage = "loading" =>
        /\ \A n \in called : Info(n).probes \subseteq copies
        /\ \A k \in 1..Len(order) : Info(order[k]).imports \subseteq copies
        /\ "leapi" \in copies => \E n \in registered : Imports(n, "leapi")
    /\ PastLoading /\ site.mode = "console" =>
        (inits["leapi"] > 0 \/ Pending("leapi") <=> \E n \in registered : Imports(n, "leapi"))

\* The plugins import copies.
LEMMA ImportsInLoading ==
    ASSUME LoadInv, ConsoleInv, LoadStep
    PROVE  ConsoleInv'
<1>1. /\ stage = "loading" /\ stage' \in {"loading", "broken", "halfloaded"} /\ ~PastLoading' /\ Kept
    BY DEF LoadStep, LoadNext, LoadDep, AlreadyLoaded, NotActivable, Circular, CheckDeps,
           Import, ImportFails, Raise, Break, Leave, PastLoading, Kept
<1>2. stack # << >> => Top.plugin \in registered /\ Top.todo \subseteq registered
    BY BelowFacts DEF LoadInv, Frames
<1>3. \A n : Info(n)' = Info(n)
    BY <1>1 DEF Kept, Info
<1>4. ASSUME UNCHANGED <<called, order>>, copies \subseteq copies',
             \A c \in copies' \ copies : \E n \in registered : Imports(n, c)
      PROVE  ConsoleInv'
    <2>1. \A k \in 1..Len(order') : order'[k] = order[k]
        BY <1>4
    <2>2. "leapi" \in copies' => \E n \in registered : Imports(n, "leapi")
        BY <1>1, <1>4 DEF ConsoleInv
    <2> QED
        BY <1>1, <1>3, <1>4, <2>2 DEF ConsoleInv, Kept, Imports
<1>5. ASSUME NEW n \in registered, Activate(n)
      PROVE  /\ copies \subseteq copies' /\ Info(n).probes \subseteq copies'
             /\ \A c \in copies' \ copies : \E m \in registered : Imports(m, c)
    BY <1>5 DEF Activate, Expose, Imports
<1>6. ASSUME NEW n \in Name, LoadNext(n) PROVE ConsoleInv'
    BY <1>4, <1>6 DEF LoadNext
<1>7. ASSUME NEW m \in Name, LoadDep(m) PROVE ConsoleInv'
    BY <1>2, <1>4, <1>5, <1>7 DEF LoadDep
<1>8. ASSUME AlreadyLoaded PROVE ConsoleInv'
    BY <1>4, <1>8 DEF AlreadyLoaded
<1>9. ASSUME NotActivable \/ Circular PROVE ConsoleInv'
    BY <1>2, <1>4, <1>5, <1>9 DEF NotActivable, Circular, Raise
<1>10. ASSUME CheckDeps PROVE ConsoleInv'
    <2>1. /\ Top.plugin \in registered /\ Activate(Top.plugin)
          /\ called' = called \cup {Top.plugin} /\ order' = order
        BY <1>2, <1>10 DEF CheckDeps, MarkCalled
    <2>2. /\ copies \subseteq copies' /\ Info(Top.plugin).probes \subseteq copies'
          /\ \A c \in copies' \ copies : \E m \in registered : Imports(m, c)
        BY <1>5, <2>1
    <2>3. "leapi" \in copies' => \E n \in registered : Imports(n, "leapi")
        BY <1>1, <2>2 DEF ConsoleInv
    <2>4. \A n \in called' : Info(n).probes \subseteq copies'
        BY <1>1, <2>1, <2>2 DEF ConsoleInv
    <2> QED
        BY <1>1, <1>3, <2>1, <2>2, <2>3, <2>4 DEF ConsoleInv, Kept, Imports
<1>11. ASSUME Import PROVE ConsoleInv'
    <2>1. /\ stack # << >> /\ copies' = copies \cup Info(Top.plugin).imports
          /\ order' = Append(order, Top.plugin) /\ called' = called
        BY <1>11 DEF Import
    <2>2. \A c \in copies' \ copies : Imports(Top.plugin, c) /\ Top.plugin \in registered
        BY <1>2, <2>1 DEF Imports
    <2>3. "leapi" \in copies' => \E n \in registered : Imports(n, "leapi")
        BY <1>1, <2>2 DEF ConsoleInv
    <2>4. \A k \in 1..Len(order') : \/ k \in 1..Len(order) /\ order'[k] = order[k]
                                    \/ order'[k] = Top.plugin
        <3>1. order \in Seq(registered) /\ Top.plugin \in registered
            BY <1>2, <2>1 DEF LoadInv, SeqTypes
        <3> QED
            BY <2>1, <3>1
    <2>5. \A k \in 1..Len(order') : Info(order'[k]).imports \subseteq copies'
        BY <1>1, <2>1, <2>4 DEF ConsoleInv
    <2>6. \A n \in called' : Info(n).probes \subseteq copies'
        BY <1>1, <2>1 DEF ConsoleInv
    <2> QED
        BY <1>1, <1>3, <2>3, <2>5, <2>6 DEF ConsoleInv, Kept, Imports
<1>12. ASSUME ImportFails PROVE ConsoleInv'
    BY <1>2, <1>4, <1>12 DEF ImportFails, Expose, Raise, Break, Leave, Imports
<1> QED
    BY <1>6, <1>7, <1>8, <1>9, <1>10, <1>11, <1>12 DEF LoadStep

\* Every step keeps the invariant.
LEMMA ConsoleStep ==
    ASSUME LoadInv, TriedInv', HooksInv, HooksInv', RunInv, ConsoleInv, [Next]_vars
    PROVE  ConsoleInv'
<1>1. CASE ~PastLoading /\ ~PastLoading'
    <2>1. CASE stage' # "loading"
        BY <1>1, <2>1 DEF ConsoleInv
    <2>2. CASE StartHooks
        <3>1. called' = {} /\ order' = << >> /\ copies' \subseteq {"context"}
            BY <2>2 DEF StartHooks, LoadInv, Quiet, Early, HooksInv
        <3>2. "leapi" \notin copies' /\ Len(order') = 0
            BY <3>1
        <3> QED
            BY <1>1, <3>1, <3>2 DEF ConsoleInv
    <2>3. CASE LoadStep
        BY <2>3, ImportsInLoading
    <2>4. CASE UNCHANGED vars
        <3>1. UNCHANGED <<site, stage, copies, called, order, found, registered>>
            BY <2>4 DEF vars, plugVars
        <3> QED
            BY <1>1, <3>1 DEF ConsoleInv, Imports, Info, PastLoading
    <2>5. SettingsStep \/ EndLoading \/ ExposeAgain \/ Bootstraped \/ ImportLeapi \/ RunCallback
            => stage' # "loading"
        BY <1>1, CallbackRun DEF SettingsStep, ReadFiles, RegisterNext, Populate, ReadList,
            EndLoading, ExposeAgain, Bootstraped, ImportLeapi, Fail
    <2> QED
        BY <2>1, <2>2, <2>3, <2>4, <2>5 DEF Next, Done
<1>2. CASE Begins /\ Fixed
    <2>1. /\ running = << >> /\ UNCHANGED <<inits, site>> /\ PastLoading'
          /\ stage \in {"loading", "loaded", "exposed", "bootstraped"}
        BY <1>2, CallBegun
    <2>2. \A n : Imports(n, "leapi")' <=> Imports(n, "leapi")
        BY <1>2 DEF Fixed, Imports, Info
    <2>3. stage' # "loading"
        BY <2>1 DEF PastLoading
    <2>4. CASE stage = "loading"
        <3>1. running' = HookCalls(hooks', "lodel2_plugins_loaded") /\ stage' = "loaded"
              /\ UNCHANGED <<copies, order, called, found, registered>>
            BY <1>2, <2>1, <2>4, CallBegun DEF Begins, EndLoading, ExposeAgain, Bootstraped,
                ImportLeapi, plugVars
        <3>2. Pending("leapi")' <=> "leapi" \in copies
            <4>1. <<"init_datasources", "leapi">>[1] = "init_datasources"
                OBVIOUS
            <4>2. \A c : <<"init_datasources", "leapi">> = <<"init_datasources", c>> => c = "leapi"
                OBVIOUS
            <4> QED
                BY <3>1, <4>1, <4>2 DEF HooksInv, Registry, Pending
        <3>3. "leapi" \in Copy /\ inits'["leapi"] = 0
            BY <2>1, <2>4 DEF RunInv, Copy
        <3>4. \A n \in registered : Imports(n, "leapi") => "leapi" \in copies
            <4> TAKE n \in registered
            <4>1. PICK k \in 1..Len(order) : order[k] = n
                BY <2>1, <3>1 DEF TriedInv, LoadedAll, IsLoaded
            <4>2. n \in called
                BY <4>1 DEF LoadInv, OrderInv
            <4> QED
                BY <2>4, <4>1, <4>2 DEF ConsoleInv, Imports
        <3>5. ~(inits'["leapi"] > 0)
            BY <3>3
        <3>6. "leapi" \in copies <=> \E n \in registered : Imports(n, "leapi")
            BY <2>4, <3>4 DEF ConsoleInv
        <3> QED
            BY <2>2, <2>3, <3>1, <3>2, <3>5, <3>6 DEF ConsoleInv
    <2>5. CASE stage # "loading"
        <3>1. site.mode = "console" => ~Pending("leapi")'
            <4>1. <<"init_datasources", "leapi">>[1] = "init_datasources"
                OBVIOUS
            <4> QED
                BY <1>2, <2>1, <2>5, <4>1, CallBegun DEF Pending
        <3>2. PastLoading /\ ~Pending("leapi") /\ registered' = registered
            BY <1>2, <2>1, <2>5, NoCalls DEF PastLoading, Pending, Fixed
        <3> QED
            BY <2>1, <2>2, <2>3, <3>1, <3>2 DEF ConsoleInv
    <2> QED
        BY <2>4, <2>5
<1>3. CASE RunCallback /\ Fixed
    <2>1. CASE stage' \in {"failed", "halfstarted"}
        BY <2>1 DEF ConsoleInv, PastLoading
    <2>2. CASE stage' \notin {"failed", "halfstarted"}
        <3>1. /\ \A c \in Copy : (inits'[c] > 0 \/ Pending(c)') <=> (inits[c] > 0 \/ Pending(c))
              /\ stage' = stage
            BY <1>3, <2>2, NoneLeftOut
        <3>2. "leapi" \in Copy /\ PastLoading /\ stage' # "loading" /\ UNCHANGED <<site, registered>>
              /\ \A n : Imports(n, "leapi")' <=> Imports(n, "leapi")
            BY <1>3, <3>1, CallbackRun DEF Copy, Fixed, Imports, Info, PastLoading
        <3> QED
            BY <3>1, <3>2 DEF ConsoleInv, PastLoading
    <2> QED
        BY <2>1, <2>2
<1>4. CASE UNCHANGED vars
    <2>1. UNCHANGED <<site, stage, copies, inits, running, called, order, found, registered>>
        BY <1>4 DEF vars, hookVars, plugVars
    <2> QED
        BY <2>1 DEF ConsoleInv, PastLoading, Pending, Imports, Info
<1> QED
    BY <1>1, <1>2, <1>3, <1>4, KindOfStep
-----------------------------------------------------------------------------
(* What the boot comes to.                                                 *)

BootInv ==
    /\ AllInv /\ ResultInv
    /\ FoundInv /\ ListsInv /\ HooksInv /\ RunInv
    /\ MethodsInv /\ ServingInv /\ ConsoleInv

\* The invariant is one.
LEMMA BootInvariant ==
    Spec => []BootInv
<1>1. Init => BootInv
    <2> SUFFICES ASSUME Init PROVE BootInv
        OBVIOUS
    <2>1. AllInv /\ ResultInv
        BY DEF Init, AllInv, NotYet, TriedInv, LoadedAll, PastLoading, LoadInv, SeqTypes, Frames,
           OrderInv, StackInv, Quiet, Early, ResultInv, StackSound, OrderSound, ErrorsSound,
           BrokenOff
    <2>2. FoundInv /\ ListsInv
        BY DEF Init, FoundInv, ListsInv
    <2>3. HooksInv
        <3>1. \A n : HookCalls(hooks, n) = << >>
            BY DEF Init, HookCalls
        <3>2. ProperHooks(hooks) /\ copies = {} /\ ~PluginsLoading
            BY DEF Init, ProperHooks, PluginsLoading, PastLoading
        <3> QED
            BY <3>1, <3>2, NoCalls DEF HooksInv, Registry
    <2>4. RunInv
        BY NoCalls DEF Init, RunInv, CallsFine
    <2>5. MethodsInv /\ ServingInv /\ ConsoleInv
        BY DEF Init, MethodsInv, NoneReplaced, NoneMissed, ServingInv, ConsoleInv, PluginsLoading,
               PastLoading
    <2> QED
        BY <2>1, <2>2, <2>3, <2>4, <2>5 DEF BootInv
<1>2. BootInv /\ [Next]_vars => BootInv'
    <2> SUFFICES ASSUME BootInv, [Next]_vars PROVE BootInv'
        OBVIOUS
    <2>1. AllInv' /\ ResultInv'
        BY NextKeeps, TriedStep, ResultStep DEF BootInv, AllInv
    <2>2. FoundInv' /\ ListsInv'
        BY FoundStep, ListsStep DEF BootInv, AllInv
    <2>3. HooksInv'
        BY HooksStep DEF BootInv, AllInv
    <2>4. RunInv'
        BY <2>3, RunStep DEF BootInv
    <2>5. MethodsInv' /\ ServingInv' /\ ConsoleInv'
        BY <2>1, <2>3, MethodsStep, ServingStep, ConsoleStep DEF BootInv, AllInv
    <2> QED
        BY <2>1, <2>2, <2>3, <2>4, <2>5 DEF BootInv
<1> QED
    BY <1>1, <1>2, PTL DEF Spec

\* Once an instance is ready each class, in every copy whose datasources are
\* initialised, has a method of the name of every custom method of a loaded plugin
\* for it: the one registered behind the import of the copy included; its own, or
\* that of an ancestor the dictionary had first.
THEOREM MethodsOnCopies == Spec => []MethodsSet
<1>1. BootInv => MethodsSet
    <2> DEFINE wanted == {m \in UNION {Info(n).methods : n \in Loaded} :
                            \E k \in site.classes : k.name = m[1] /\ m[2] \notin k.methods}
    <2>1. SUFFICES ASSUME BootInv, Ready, NEW c \in Copy, inits[c] > 0
                   PROVE  /\ added[c] \subseteq wanted
                          /\ \A m \in wanted : \E a \in added[c] :
                                a[2] = m[2] /\ a[1] \in {m[1]} \cup Ancestors(m[1])
        BY DEF MethodsSet
    <2>2. PastLoading /\ ~Among(<<"custom_methods", c>>, running)
        BY <2>1, NoCalls DEF Ready, PastLoading
    <2>3. added[c] \subseteq Missing /\ c \in Complete
        BY <2>1, <2>2 DEF BootInv, MethodsInv, NoneReplaced, NoneMissed
    <2>4. methods = UNION {Info(n).methods : n \in Loaded}
        BY <2>1, MethodsOfLoaded DEF BootInv, AllInv, ResultInv
    <2>5. Missing = wanted
        BY <2>4 DEF Missing
    <2> HIDE DEF wanted
    <2> QED
        BY <2>3, <2>5 DEF Complete
<1> QED
    BY <1>1, BootInvariant, PTL

\* An instance that serves requests has initialised the datasources of the
\* copy of the dynamic code that its controllers use, and each of its classes
\* writes to a datasource that is not read only and whose plugin is loaded:
\* unless it is one in uwsgi mode whose plugins, loader files or datasources are
\* of those that raise a NameError.
THEOREM ServingInitialised == Spec => []ServingHasDatasources
<1>1. BootInv => ServingHasDatasources
    <2> DEFINE HasDatasources ==
                  /\ inits["context"] > 0
                  /\ \A c \in site.classes :
                        /\ DsOption(c.rw, "read_only") # "true"
                        /\ DsOption(c.rw, "identifier")[1] \in Loaded
    <2> SUFFICES ASSUME BootInv, Serving
                 PROVE  HasDatasources \/ (stage # "ready" /\ site.mode = "uwsgi" /\ NameErrors)
        BY DEF ServingHasDatasources
    <2>1. inits["context"] > 0 /\ ClassesInit => HasDatasources
        BY DEF ClassesInit, ClassInit, DatasourceInit, Writable
    <2> HIDE DEF HasDatasources
    <2>2. CASE stage \in {"halfloaded", "halfstarted"}
        BY <2>1, <2>2 DEF BootInv, ServingInv
    <2>3. CASE Ready /\ site.mode \in {"uwsgi", "multi"}
        <3>1. PastLoading /\ stage = "ready" /\ ~Pending("context")
            BY <2>3, NoCalls DEF Ready, PastLoading, Pending
        <3>2. inits["context"] > 0 /\ "context" \in Copy
            BY <2>3, <3>1 DEF BootInv, ServingInv, Copy
        <3> QED
            BY <2>1, <2>3, <3>1, <3>2 DEF BootInv, ServingInv
    <2> QED
        BY <2>2, <2>3 DEF Serving
<1> QED
    BY <1>1, BootInvariant, PTL

\* In the console the datasources of the copy that the prompt imports are
\* initialised exactly if a plugin imported that copy when it was loaded.
THEOREM ConsoleInitialised == Spec => []ConsoleDatasources
<1>1. BootInv => ConsoleDatasources
    <2> SUFFICES ASSUME BootInv, Ready, site.mode = "console"
                 PROVE  inits["leapi"] > 0 <=>
                            \E n \in Loaded : "leapi" \in Info(n).probes \cup Info(n).imports
        BY DEF ConsoleDatasources
    <2>1. PastLoading /\ ~Pending("leapi")
        BY NoCalls DEF Ready, PastLoading, Pending
    <2>2. inits["leapi"] > 0 <=> \E n \in registered : Imports(n, "leapi")
        BY <2>1 DEF BootInv, ConsoleInv
    <2>3. \A n : n \in registered <=> n \in Loaded
        <3>1. \A n \in registered : IsLoaded(n)
            BY <2>1 DEF BootInv, AllInv, TriedInv, LoadedAll
        <3>2. \A n : IsLoaded(n) => n \in registered
            BY DEF BootInv, AllInv, LoadInv, SeqTypes, IsLoaded
        <3> QED
            BY <3>1, <3>2, LoadedByIndex DEF BootInv, AllInv, LoadInv
    <2> QED
        BY <2>2, <2>3 DEF Imports
<1> QED
    BY <1>1, BootInvariant, PTL
-----------------------------------------------------------------------------
(* What the files say of the lists of plugins.                             *)

\* No element twice.
Unrepeated(s) == \A i, j \in 1..Len(s) : s[i] = s[j] => i = j

\* The sequences put together have none twice if they share none.
LEMMA JoinedUnrepeated ==
    ASSUME NEW s, NEW t, Proper(s), Proper(t)
    PROVE  Unrepeated(s \o t) <=>
            Unrepeated(s) /\ Unrepeated(t) /\ \A x : ~(Has(s, x) /\ Has(t, x))
<1> DEFINE j == s \o t
           m == Len(s)
           n == Len(t)
<1>1. /\ m \in Nat /\ n \in Nat /\ Len(j) = m + n
      /\ \A i \in 1..(m + n) : j[i] = IF i <= m THEN s[i] ELSE t[i - m]
    <2>1. PICK S : s \in Seq(S)
        BY DEF Proper
    <2>2. PICK T : t \in Seq(T)
        BY DEF Proper
    <2> DEFINE U == S \cup T
    <2>3. s \in Seq(U) /\ t \in Seq(U)
        BY <2>1, <2>2
    <2> HIDE DEF U
    <2> QED
        BY <2>3, ConcatProperties
<1> HIDE DEF j, m, n
<1>2. \A i \in 1..m : i \in 1..(m + n) /\ j[i] = s[i]
    BY <1>1
<1>3. \A i \in 1..n : m + i \in 1..(m + n) /\ j[m + i] = t[i]
    <2> TAKE i \in 1..n
    <2>1. m + i \in 1..(m + n) /\ ~(m + i <= m) /\ m + i - m = i
        BY <1>1
    <2> QED
        BY <1>1, <2>1
<1>4. \A i \in 1..(m + n) : (i \in 1..m /\ j[i] = s[i]) \/ (i - m \in 1..n /\ j[i] = t[i - m])
    BY <1>1
<1>5. ASSUME Unrepeated(j)
      PROVE  Unrepeated(s) /\ Unrepeated(t) /\ \A x : ~(Has(s, x) /\ Has(t, x))
    <2>1. Unrepeated(s)
        BY <1>1, <1>2, <1>5 DEF Unrepeated, m
    <2>2. ASSUME NEW i \in 1..n, NEW k \in 1..n, t[i] = t[k] PROVE i = k
        <3>1. m + i = m + k
            BY <1>1, <1>3, <1>5, <2>2 DEF Unrepeated
        <3> QED
            BY <1>1, <3>1
    <2>3. ASSUME NEW i \in 1..m, NEW k \in 1..n, s[i] = t[k] PROVE FALSE
        <3>1. i = m + k
            BY <1>1, <1>2, <1>3, <1>5, <2>3 DEF Unrepeated
        <3> QED
            BY <1>1, <3>1
    <2> QED
        BY <2>1, <2>2, <2>3 DEF Unrepeated, Has, m, n
<1>6. ASSUME Unrepeated(s), Unrepeated(t), \A x : ~(Has(s, x) /\ Has(t, x)),
             NEW i \in 1..(m + n), NEW k \in 1..(m + n), j[i] = j[k]
      PROVE  i = k
    <2>1. CASE i \in 1..m /\ j[i] = s[i] /\ k \in 1..m /\ j[k] = s[k]
        BY <1>6, <2>1 DEF Unrepeated, m
    <2>2. CASE i - m \in 1..n /\ j[i] = t[i - m] /\ k - m \in 1..n /\ j[k] = t[k - m]
        <3>1. i - m = k - m
            BY <1>6, <2>2 DEF Unrepeated, n
        <3> QED
            BY <1>1, <3>1
    <2>3. CASE i \in 1..m /\ j[i] = s[i] /\ k - m \in 1..n /\ j[k] = t[k - m]
        BY <1>6, <2>3 DEF Has, m, n
    <2>4. CASE i - m \in 1..n /\ j[i] = t[i - m] /\ k \in 1..m /\ j[k] = s[k]
        BY <1>6, <2>4 DEF Has, m, n
    <2> QED
        BY <1>4, <2>1, <2>2, <2>3, <2>4
<1> QED
    BY <1>1, <1>5, <1>6 DEF Unrepeated, j

\* A list is that of the only file that gives it.
LEMMA ListValues ==
    ASSUME FoundInv, NEW t \in PluginTypes
    PROVE  /\ ~Redeclared(site.files) =>
                ListValue(t) = IF ListOption(t) \in DOMAIN Merged(site.files)
                               THEN Merged(site.files)[ListOption(t)] ELSE ListDefault(t)
           /\ Proper(Listed(t)) /\ IsList(ListValue(t))
           /\ ListValue(t) # None => Listed(t) = ListValue(t)
           /\ ListValue(t) = None => \A x : ~Has(Listed(t), x)
<1> DEFINE files == site.files
           o == ListOption(t)
           given == {f \in Range(files) : o \in DOMAIN f}
           h == CHOOSE d \in Range(files) : o \in DOMAIN d
           g == CHOOSE f \in given : TRUE
<1>1. files \in Seq(Range(files)) /\ o \in ListOptions
    BY SitesAssumption, ListTypes DEF FoundInv
<1>2. ListValue(t) = IF given = {} THEN ListDefault(t) ELSE g[o]
    BY DEF ListValue
<1>3. o \in DOMAIN Merged(files) <=> given # {}
    BY DEF Merged
<1>4. given # {} => Merged(files)[o] = h[o]
    BY <1>3 DEF Merged
<1>5. given # {} => g \in Range(files) /\ o \in DOMAIN g /\ h \in Range(files) /\ o \in DOMAIN h
    OBVIOUS
<1>6. ASSUME ~Redeclared(files), given # {} PROVE g = h
    <2>1. PICK i \in DOMAIN files : files[i] = g
        BY <1>5, <1>6 DEF Range
    <2>2. PICK k \in DOMAIN files : files[k] = h
        BY <1>5, <1>6 DEF Range
    <2>3. ~(i < k) /\ ~(k < i)
        BY <1>5, <1>6, <2>1, <2>2 DEF Redeclared
    <2>4. i \in Int /\ k \in Int
        BY <1>1
    <2> QED
        BY <2>1, <2>2, <2>3, <2>4
<1>7. IsList(ListDefault(t))
    <2>1. <<"dummy_datasource">> \in Seq({"dummy_datasource"})
        OBVIOUS
    <2> QED
        BY <2>1 DEF ListDefault, IsList, Proper
<1>8. IsList(ListValue(t))
    <2>1. CASE given = {}
        BY <1>2, <1>7, <2>1
    <2>2. CASE given # {}
        <3>1. g[o] = None \/ g[o] \in Seq(Name)
            BY <1>1, <1>5, <2>2, SitesAssumption DEF FoundInv
        <3> QED
            BY <1>2, <2>2, <3>1 DEF IsList, Proper
    <2> QED
        BY <2>1, <2>2
<1>9. Proper(Listed(t)) /\ (ListValue(t) # None => Listed(t) = ListValue(t))
      /\ (ListValue(t) = None => \A x : ~Has(Listed(t), x))
    BY <1>8, NoCalls DEF Listed, IsList, Has
<1> QED
    BY <1>2, <1>3, <1>4, <1>6, <1>8, <1>9

\* The lists of these types name no plugin twice.
Apart(types) ==
    /\ \A t \in types : Unrepeated(Listed(t))
    /\ \A t, u \in types : \A x : t # u => ~(Has(Listed(t), x) /\ Has(Listed(u), x))

\* These are the plugins of the lists of these types.
IsListOf(s, types) ==
    /\ Proper(s)
    /\ \A x : Has(s, x) <=> \E t \in types : Has(Listed(t), x)
    /\ Unrepeated(s) <=> Apart(types)

\* One list more.
LEMMA OneListMore ==
    ASSUME FoundInv, NEW s, NEW types \in SUBSET PluginTypes, NEW t \in PluginTypes \ types,
           IsListOf(s, types)
    PROVE  IsListOf(s \o Listed(t), types \cup {t})
<1> DEFINE l == Listed(t)
           j == s \o l
           all == types \cup {t}
<1>1. Proper(l)
    BY ListValues
<1>2. Proper(j) /\ \A x : Has(j, x) <=> Has(s, x) \/ Has(l, x)
    BY <1>1, JoinedElements DEF IsListOf
<1>3. Unrepeated(j) <=> Unrepeated(s) /\ Unrepeated(l) /\ \A x : ~(Has(s, x) /\ Has(l, x))
    BY <1>1, JoinedUnrepeated DEF IsListOf
<1> HIDE DEF j
<1>4. \A x : Has(j, x) <=> \E u \in all : Has(Listed(u), x)
    BY <1>2 DEF IsListOf
<1>5. Unrepeated(j) <=> Apart(all)
    <2>1. ASSUME Unrepeated(j) PROVE Apart(all)
        <3>1. Apart(types) /\ Unrepeated(l)
            BY <1>3, <2>1 DEF IsListOf
        <3>2. \A u \in types : \A x : ~(Has(Listed(u), x) /\ Has(l, x))
            BY <1>3, <2>1 DEF IsListOf
        <3> HIDE DEF l
        <3> QED
            BY <3>1, <3>2 DEF Apart, l
    <2>2. ASSUME Apart(all) PROVE Unrepeated(j)
        <3>1. Apart(types) /\ Unrepeated(l)
            BY <2>2 DEF Apart
        <3>2. \A u \in types : \A x : ~(Has(Listed(u), x) /\ Has(l, x))
            BY <2>2 DEF Apart
        <3> QED
            BY <1>3, <3>1, <3>2 DEF IsListOf
    <2> QED
        BY <2>1, <2>2
<1> QED
    BY <1>2, <1>4, <1>5 DEF IsListOf, j

\* No lists, and all of them in the order of PluginList.
LEMMA AllLists ==
    ASSUME FoundInv
    PROVE  IsListOf(<< >>, {}) /\ IsListOf(PluginList, PluginTypes)
<1>1. IsListOf(<< >>, {})
    BY NoCalls DEF IsListOf, Has, Unrepeated, Apart
<1>2. IsListOf(<< >> \o Listed("datasource"), {"datasource"})
    BY <1>1, OneListMore, {} \cup {"datasource"} = {"datasource"} DEF PluginTypes
<1>3. << >> \o Listed("datasource") = Listed("datasource")
    <2>1. PICK S : Listed("datasource") \in Seq(S)
        BY ListValues DEF PluginTypes, Proper
    <2> QED
        BY <2>1, ConcatEmptySeq
<1>4. IsListOf(Listed("datasource") \o Listed("session_handler"), {"datasource", "session_handler"})
    <2>1. IsListOf(Listed("datasource") \o Listed("session_handler"),
                   {"datasource"} \cup {"session_handler"})
        BY <1>2, <1>3, OneListMore DEF PluginTypes
    <2>2. {"datasource"} \cup {"session_handler"} = {"datasource", "session_handler"}
        OBVIOUS
    <2> QED
        BY <2>1, <2>2
<1>5. IsListOf(Listed("datasource") \o Listed("session_handler") \o Listed("ui"),
               {"datasource", "session_handler", "ui"})
    <2> DEFINE s == Listed("datasource") \o Listed("session_handler")
               two == {"datasource", "session_handler"}
    <2>1. two \in SUBSET PluginTypes /\ "ui" \in PluginTypes \ two
        BY DEF PluginTypes
    <2>2. two \cup {"ui"} = {"datasource", "session_handler", "ui"}
        OBVIOUS
    <2>3. IsListOf(s, two)
        BY <1>4
    <2> HIDE DEF s, two
    <2>4. IsListOf(s \o Listed("ui"), two \cup {"ui"})
        BY <2>1, <2>3, OneListMore
    <2> QED
        BY <2>2, <2>4 DEF s
<1>6. IsListOf(PluginList, PluginTypes)
    <2> DEFINE s == Listed("datasource") \o Listed("session_handler") \o Listed("ui")
               three == {"datasource", "session_handler", "ui"}
    <2>1. three \in SUBSET PluginTypes /\ "extension" \in PluginTypes \ three
        BY DEF PluginTypes
    <2>2. three \cup {"extension"} = PluginTypes
        BY DEF PluginTypes
    <2>3. IsListOf(s, three)
        BY <1>5
    <2> HIDE DEF s, three
    <2>4. IsListOf(s \o Listed("extension"), three \cup {"extension"})
        BY <2>1, <2>3, OneListMore
    <2> QED
        BY <2>2, <2>4 DEF s, PluginList
<1> QED
    BY <1>1, <1>6
-----------------------------------------------------------------------------
(* What is read, and what is registered.                                   *)

ReadTypes == PluginTypes \ listsLeft
ReadOptions == {ListOption(t) : t \in ReadTypes}
Given == Merged(site.files)

\* The plugins registered are the first of the list, and nothing is wrong with
\* them.
FirstRegistered(k) ==
    /\ k \in 0..Len(plugins) /\ Cardinality(registered) = k /\ IsFiniteSet(registered)
    /\ \A x : x \in registered <=> \E i \in 1..k : plugins[i] = x
    /\ \A i, j \in 1..k : plugins[i] = plugins[j] => i = j
    /\ \A x \in registered :
            /\ x \in DOMAIN Discover(site.dirs)
            /\ Discover(site.dirs)[x].confspec
            /\ Discover(site.dirs)[x].type \in PluginTypes
    /\ \A x, y \in registered :
            /\ Discover(site.dirs)[x].type = "session_handler"
            /\ Discover(site.dirs)[y].type = "session_handler"
            => x = y

\* The options are those of the files and of the lists read.
ConfInv ==
    /\ DOMAIN conf = DOMAIN Given \cup ReadOptions
    /\ \A o \in DOMAIN Given : conf[o] = Given[o]
    /\ \A t \in ReadTypes : conf[ListOption(t)] = ListValue(t)
    /\ unread = DOMAIN Given \ ReadOptions
    /\ \A o : o \in badOptions <=>
            \E t \in ReadTypes : o = ListOption(t) /\ ~Valid(o, ListValue(t))

ReadInv ==
    /\ listsLeft \subseteq PluginTypes
    /\ stage = "files" =>
            listsLeft = PluginTypes /\ badOptions = {} /\ plugins = << >> /\ registered = {}
    /\ stage \in {"lists", "register"} =>
            ~Redeclared(site.files) /\ ConfInv /\ IsListOf(plugins, ReadTypes)
    /\ stage = "lists" => registered = {}
    /\ stage = "register" => listsLeft = {} /\ \E k : FirstRegistered(k)

\* Nothing is registered yet.
LEMMA NoneRegistered ==
    ASSUME registered = {}, Proper(plugins)
    PROVE  FirstRegistered(0)
<1>1. Cardinality(registered) = 0 /\ IsFiniteSet(registered)
    BY FS_EmptySet
<1>2. Len(plugins) \in Nat
    BY DEF Proper
<1> QED
    BY <1>1, <1>2 DEF FirstRegistered

\* The files are read.
LEMMA FilesRead ==
    ASSUME FoundInv, ReadInv, ReadFiles
    PROVE  ReadInv' /\ (stage' = "failed" => Redeclared(site.files))
<1>1. CASE Redeclared(site.files)
    BY <1>1 DEF ReadFiles, Fail, ReadInv
<1>2. CASE ~Redeclared(site.files)
    <2>1. /\ stage = "files" /\ stage' = "lists" /\ conf' = Given /\ unread' = DOMAIN conf'
          /\ UNCHANGED <<site, badOptions, listsLeft, plugins, registered>>
        BY <1>2 DEF ReadFiles, plugVars, Given
    <2>2. ReadTypes' = {} /\ ReadOptions' = {} /\ Given' = Given
        BY <2>1 DEF ReadInv, ReadTypes, ReadOptions, Given
    <2>3. ConfInv'
        BY <2>1, <2>2 DEF ConfInv, ReadInv
    <2>4. IsListOf(plugins, {})
        BY <2>1, AllLists DEF ReadInv
    <2>5. IsListOf(plugins, {})'
        BY <2>1, <2>4 DEF IsListOf, Apart
    <2> QED
        BY <1>2, <2>1, <2>2, <2>3, <2>5 DEF ReadInv
<1> QED
    BY <1>1, <1>2

\* What the site says of the lists stays.
LEMMA ListsStay ==
    ASSUME UNCHANGED site
    PROVE  /\ Given' = Given /\ PluginList' = PluginList
           /\ \A t : ListValue(t)' = ListValue(t) /\ Listed(t)' = Listed(t)
           /\ \A s, types : IsListOf(s, types)' <=> IsListOf(s, types)
<1>1. \A t : ListValue(t)' = ListValue(t) /\ Listed(t)' = Listed(t)
    BY DEF ListValue, Listed
<1>2. Given' = Given /\ PluginList' = PluginList
    BY <1>1 DEF Given, PluginList
<1>3. \A types : Apart(types)' <=> Apart(types)
    BY <1>1 DEF Apart
<1> QED
    BY <1>1, <1>2, <1>3 DEF IsListOf

\* Only the absence of a session handler is refused.
LEMMA ValidLists ==
    ASSUME NEW t \in PluginTypes, NEW v
    PROVE  Valid(ListOption(t), v) <=> t # "session_handler" \/ v # None
<1> DEFINE o == ListOption(t)
<1>1. o \in ListOptions
    BY ListTypes
<1>2. o[2] # "identifier" /\ o[1] = <<"lodel2">>
    BY DEF ListOption, ListKey, Lodel, PluginTypes
<1>3. ~Classfield(o)
    <2>1. Len(<<"lodel2">>) = 1 /\ Len(<<"lodel2", "auth">>) = 2
        OBVIOUS
    <2> QED
        BY <1>2, <2>1 DEF Classfield, LoginSection
<1>4. o = ListOption("session_handler") <=> t = "session_handler"
    BY DEF ListOption, ListKey, PluginTypes
<1> HIDE DEF o
<1>5. Valid(o, v) <=> o # ListOption("session_handler") \/ v # None
    BY <1>1, <1>2, <1>3 DEF Valid
<1> QED
    BY <1>4, <1>5 DEF o

\* A list is read.
LEMMA ListRead ==
    ASSUME FoundInv, ReadInv, NEW t \in PluginTypes, ReadList(t)
    PROVE  ReadInv'
<1> DEFINE o == ListOption(t)
           v == Got(o, ListDefault(t))
<1>1. /\ stage = "lists" /\ t \in listsLeft /\ listsLeft' = listsLeft \ {t}
      /\ conf' = AllGot([p \in {o} |-> v]) /\ unread' = unread \ {o}
      /\ IF Valid(o, v)
         THEN /\ plugins' = plugins \o (IF v = None THEN << >> ELSE v)
              /\ UNCHANGED badOptions
         ELSE badOptions' = badOptions \cup {o} /\ UNCHANGED plugins
      /\ stage' = IF listsLeft' = {} THEN "register" ELSE stage
      /\ UNCHANGED <<site, registered>>
    BY DEF ReadList, plugVars
<1>2. /\ ~Redeclared(site.files) /\ ConfInv /\ IsListOf(plugins, ReadTypes)
      /\ listsLeft \subseteq PluginTypes /\ registered = {}
    BY <1>1 DEF ReadInv
<1>3. /\ ReadTypes' = ReadTypes \cup {t} /\ t \notin ReadTypes
      /\ ReadOptions' = ReadOptions \cup {o}
      /\ Given' = Given /\ ReadTypes \in SUBSET PluginTypes
    BY <1>1, <1>2, ListsStay DEF ReadTypes, ReadOptions
<1>4. o \notin ReadOptions /\ TypeOf(o) = t /\ o \in ListOptions
    <2>1. \A u \in PluginTypes : ListOption(u) = o => u = t
        BY DEF PluginTypes, ListOption, ListKey
    <2> QED
        BY <1>3, <2>1, ListTypes DEF ReadOptions
<1>5. v = ListValue(t)
    <2>1. ListValue(t) = IF o \in DOMAIN Given THEN Given[o] ELSE ListDefault(t)
        BY <1>2, ListValues DEF Given
    <2> QED
        BY <1>2, <1>4, <2>1 DEF ConfInv, Got
<1> HIDE DEF v
<1>6. ConfInv'
    <2>1. /\ DOMAIN conf' = DOMAIN conf \cup {o}
          /\ \A p \in DOMAIN conf : conf'[p] = conf[p]
          /\ conf'[o] = v
        BY <1>1, <1>5 DEF AllGot, Got, v
    <2>2. DOMAIN conf' = DOMAIN Given' \cup ReadOptions'
        BY <1>2, <1>3, <2>1 DEF ConfInv
    <2>3. \A p \in DOMAIN Given' : conf'[p] = Given'[p]
        BY <1>2, <1>3, <2>1 DEF ConfInv
    <2>4. \A u \in ReadTypes' : conf'[ListOption(u)] = ListValue(u)'
        <3>1. \A u \in ReadTypes : conf'[ListOption(u)] = ListValue(u)
            BY <1>2, <2>1 DEF ConfInv, ReadOptions
        <3> QED
            BY <1>1, <1>3, <1>5, <2>1, <3>1, ListsStay
    <2>5. unread' = DOMAIN Given' \ ReadOptions'
        BY <1>1, <1>2, <1>3 DEF ConfInv
    <2>6. \A p : p \in badOptions' <=>
            \E u \in ReadTypes' : p = ListOption(u) /\ ~Valid(p, ListValue(u)')
        <3>1. \A p : p \in badOptions' <=> p \in badOptions \/ (p = o /\ ~Valid(o, v))
            BY <1>1
        <3> QED
            BY <1>1, <1>2, <1>3, <1>5, <3>1, ListsStay DEF ConfInv
    <2> QED
        BY <2>2, <2>3, <2>4, <2>5, <2>6 DEF ConfInv
<1>7. IsListOf(plugins, ReadTypes)'
    <2>1. IsListOf(plugins \o Listed(t), ReadTypes')
        BY <1>2, <1>3, OneListMore
    <2>2. plugins' = plugins \o Listed(t)
        <3>1. CASE Valid(o, v)
            BY <1>1, <1>5, <3>1 DEF Listed
        <3>2. CASE ~Valid(o, v)
            <4>1. v = None
                BY <3>2, ValidLists
            <4>2. Listed(t) = << >>
                BY <1>5, <4>1 DEF Listed
            <4>3. PICK S : plugins \in Seq(S)
                BY <1>2 DEF IsListOf, Proper
            <4> QED
                BY <1>1, <3>2, <4>2, <4>3, ConcatEmptySeq
        <3> QED
            BY <3>1, <3>2
    <2>3. IsListOf(plugins', ReadTypes')
        BY <2>1, <2>2
    <2>4. PICK s, types : s = plugins' /\ types = ReadTypes'
        OBVIOUS
    <2>5. IsListOf(s, types)'
        BY <1>1, <2>3, <2>4, ListsStay
    <2> QED
        BY <2>4, <2>5 DEF IsListOf, Apart
<1>8. registered' = {} /\ listsLeft' \subseteq PluginTypes
    BY <1>1, <1>2
<1>9. FirstRegistered(0)'
    <2>1. Proper(plugins') /\ Len(plugins') \in Nat
        BY <1>7 DEF IsListOf, Proper
    <2>2. Cardinality(registered') = 0 /\ IsFiniteSet(registered')
        BY <1>8, FS_EmptySet
    <2> QED
        BY <1>8, <2>1, <2>2 DEF FirstRegistered
<1> QED
    BY <1>1, <1>2, <1>6, <1>7, <1>8, <1>9 DEF ReadInv
-----------------------------------------------------------------------------
(* What the settings come to.                                              *)

\* Nothing is wrong with the plugins that the lists name.
Acceptable(x) ==
    /\ x \in DOMAIN Discover(site.dirs)
    /\ Discover(site.dirs)[x].confspec
    /\ Discover(site.dirs)[x].type \in PluginTypes
OneSession(x, y) ==
    /\ Discover(site.dirs)[x].type = "session_handler"
    /\ Discover(site.dirs)[y].type = "session_handler"
    => x = y

\* The elements of a sequence.
LEMMA RangeIsHas ==
    ASSUME NEW s, Proper(s)
    PROVE  \A x : x \in Range(s) <=> Has(s, x)
<1>1. DOMAIN s = 1..Len(s)
    BY DEF Proper
<1> QED
    BY <1>1 DEF Range, Has

\* The plugins are in order if those of any list of all the types are.
LEMMA PluginsOfLists ==
    ASSUME FoundInv, NEW s, IsListOf(s, PluginTypes)
    PROVE  PluginsInOrder <=>
            /\ Unrepeated(s)
            /\ \A x : Has(s, x) => Acceptable(x)
            /\ \A x, y : Has(s, x) /\ Has(s, y) => OneSession(x, y)
<1>1. IsListOf(PluginList, PluginTypes)
    BY AllLists
<1>2. /\ Unrepeated(PluginList) <=> Unrepeated(s)
      /\ \A x : Has(PluginList, x) <=> Has(s, x)
    BY <1>1 DEF IsListOf
<1>3. \A x : x \in Range(PluginList) <=> Has(s, x)
    BY <1>1, <1>2, RangeIsHas DEF IsListOf
<1>4. DOMAIN PluginList = 1..Len(PluginList)
    BY <1>1 DEF IsListOf, Proper
<1>5. PluginsInOrder <=>
        \E list \in {PluginList} : \E seen \in {Discover(site.dirs)} :
            /\ \A i, j \in DOMAIN list : list[i] = list[j] => i = j
            /\ \A n \in Range(list) :
                    n \in DOMAIN seen /\ seen[n].confspec /\ seen[n].type \in PluginTypes
            /\ \A n, m \in Range(list) :
                    seen[n].type = "session_handler" /\ seen[m].type = "session_handler" => n = m
    BY DEF PluginsInOrder
<1>6. PluginsInOrder <=>
        /\ \A i, j \in DOMAIN PluginList : PluginList[i] = PluginList[j] => i = j
        /\ \A n \in Range(PluginList) : Acceptable(n)
        /\ \A n, m \in Range(PluginList) : OneSession(n, m)
    BY <1>5 DEF Acceptable, OneSession
<1>7. (\A i, j \in DOMAIN PluginList : PluginList[i] = PluginList[j] => i = j) <=> Unrepeated(s)
    BY <1>2, <1>4 DEF Unrepeated
<1> QED
    BY <1>3, <1>6, <1>7

\* A plugin is registered, or there is a reason not to.
LEMMA PluginRegistered ==
    ASSUME FoundInv, ReadInv, RegisterNext
    PROVE  ReadInv' /\ (stage' = "failed" => ~PluginsInOrder)
<1> DEFINE seen == Discover(site.dirs)
           k == Cardinality(registered)
           n == plugins[k + 1]
<1>1. /\ stage = "register" /\ k < Len(plugins)
      /\ found' = IF found = << >> THEN seen ELSE found
      /\ IF Refused(n, found')
         THEN stage' = "failed" /\ UNCHANGED registered
         ELSE registered' = registered \cup {n} /\ UNCHANGED stage
      /\ UNCHANGED <<site, conf, unread, badOptions, listsLeft, plugins>>
    BY DEF RegisterNext, Fail, setVars
<1>2. /\ FirstRegistered(k) /\ listsLeft = {} /\ ReadTypes = PluginTypes
      /\ ~Redeclared(site.files) /\ ConfInv /\ IsListOf(plugins, PluginTypes)
    BY <1>1 DEF ReadInv, FirstRegistered, ReadTypes
<1>3. found' = seen
    BY <1>1 DEF FoundInv
<1>4. k \in Nat /\ Len(plugins) \in Nat /\ k + 1 \in 1..Len(plugins) /\ IsFiniteSet(registered)
    BY <1>1, <1>2 DEF IsListOf, Proper, FirstRegistered
<1>5. Has(plugins, n) /\ \A x \in registered : Has(plugins, x)
    BY <1>2, <1>4 DEF Has, FirstRegistered
<1>6. ASSUME Refused(n, seen) PROVE ReadInv' /\ ~PluginsInOrder
    <2>1. CASE n \in registered
        <3>1. PICK i \in 1..k : plugins[i] = n
            BY <1>2, <2>1 DEF FirstRegistered
        <3>2. i \in 1..Len(plugins) /\ i # k + 1
            BY <1>4
        <3>3. ~Unrepeated(plugins)
            BY <1>4, <3>1, <3>2 DEF Unrepeated
        <3> QED
            BY <1>1, <1>3, <1>6, <1>2, <3>3, PluginsOfLists DEF ReadInv
    <2>2. CASE n \notin registered
        <3>1. ~Acceptable(n) \/ \E m \in registered : ~OneSession(n, m)
            BY <1>6, <2>2 DEF Refused, Acceptable, OneSession
        <3> QED
            BY <1>1, <1>2, <1>3, <1>5, <1>6, <3>1, PluginsOfLists DEF ReadInv
    <2> QED
        BY <2>1, <2>2
<1>7. ASSUME ~Refused(n, seen) PROVE ReadInv' /\ stage' = "register"
    <2>1. registered' = registered \cup {n} /\ stage' = "register"
        BY <1>1, <1>3, <1>7
    <2>2. n \notin registered /\ Acceptable(n) /\ \A m \in registered : OneSession(n, m) /\ OneSession(m, n)
        BY <1>7 DEF Refused, Acceptable, OneSession
    <2>3. Cardinality(registered') = k + 1 /\ IsFiniteSet(registered')
        <3>1. Cardinality(registered \cup {n}) = k + 1 /\ IsFiniteSet(registered \cup {n})
            BY <1>4, <2>2, FS_AddElement
        <3> QED
            BY <2>1, <3>1
    <2>4. \A x : x \in registered' <=> \E i \in 1..(k + 1) : plugins[i] = x
        <3>1. \A i : i \in 1..(k + 1) <=> i \in 1..k \/ i = k + 1
            BY <1>4
        <3> QED
            BY <1>2, <2>1, <3>1 DEF FirstRegistered
    <2>5. \A i, j \in 1..(k + 1) : plugins[i] = plugins[j] => i = j
        <3>1. \A i : i \in 1..(k + 1) <=> i \in 1..k \/ i = k + 1
            BY <1>4
        <3>2. \A i \in 1..k : plugins[i] # n
            BY <1>2, <2>2 DEF FirstRegistered
        <3> QED
            BY <1>2, <3>1, <3>2 DEF FirstRegistered
    <2>6. \A x \in registered' : Acceptable(x)
        BY <1>2, <2>1, <2>2 DEF FirstRegistered, Acceptable
    <2>7. \A x, y \in registered' : OneSession(x, y)
        BY <1>2, <2>1, <2>2 DEF FirstRegistered, OneSession
    <2>8. k + 1 \in 0..Len(plugins)
        BY <1>4
    <2>9. PICK c : c = k + 1
        OBVIOUS
    <2> HIDE DEF k, n
    <2>10. FirstRegistered(c)'
        BY <1>1, <2>3, <2>4, <2>5, <2>6, <2>7, <2>8, <2>9
        DEF FirstRegistered, Acceptable, OneSession
    <2>11. ConfInv'
        BY <1>1, <1>2, ListsStay DEF ConfInv, ReadTypes, ReadOptions
    <2>12. IsListOf(plugins, ReadTypes)'
        <3>1. ReadTypes' = PluginTypes /\ \A t : Listed(t)' = Listed(t)
            BY <1>1, <1>2, ListsStay DEF ReadTypes
        <3> QED
            BY <1>1, <1>2, <3>1 DEF IsListOf, Apart
    <2> QED
        BY <1>1, <1>2, <2>1, <2>11, <2>12, <2>10 DEF ReadInv
<1> QED
    BY <1>1, <1>3, <1>6, <1>7

\* The specifications that are merged: lodel's own and those of the plugins.
SpecsFor(s, seen) == <<CoreSpec>> \o [k \in DOMAIN s |-> seen[s[k]].spec]

\* ... in whatever order the plugins are.
LEMMA SpecsForFacts ==
    ASSUME NEW s, Proper(s), NEW seen
    PROVE  /\ Len(SpecsFor(s, seen)) = Len(s) + 1
           /\ DOMAIN SpecsFor(s, seen) = 1..(Len(s) + 1)
           /\ SpecsFor(s, seen)[1] = CoreSpec
           /\ \A k \in 1..Len(s) : SpecsFor(s, seen)[k + 1] = seen[s[k]].spec
           /\ Range(SpecsFor(s, seen)) = {CoreSpec} \cup {seen[x].spec : x \in Range(s)}
<1> DEFINE n == Len(s)
           c == CoreSpec
           T == {c} \cup {seen[x].spec : x \in Range(s)}
           one == <<c>>
           t == [k \in DOMAIN s |-> seen[s[k]].spec]
           j == one \o t
<1>1. DOMAIN s = 1..n /\ n \in Nat
    BY DEF Proper
<1>2. one \in Seq(T) /\ Len(one) = 1 /\ one[1] = c
    <2> HIDE DEF c
    <2> QED
        OBVIOUS
<1>3. t \in Seq(T) /\ Len(t) = n /\ \A k \in 1..n : t[k] = seen[s[k]].spec
    BY <1>1 DEF Range
<1> HIDE DEF c, T, one, t, n
<1>4. /\ j \in Seq(T) /\ Len(j) = 1 + n
      /\ \A i \in 1..(1 + n) : j[i] = IF i <= 1 THEN one[i] ELSE t[i - 1]
    <2>1. /\ j \in Seq(T) /\ Len(j) = Len(one) + Len(t)
          /\ \A i \in 1..(Len(one) + Len(t)) :
                j[i] = IF i <= Len(one) THEN one[i] ELSE t[i - Len(one)]
        BY <1>2, <1>3, ConcatProperties
    <2>2. Len(one) = 1 /\ Len(t) = n
        BY <1>2, <1>3
    <2> QED
        BY <2>1, <2>2
<1>5. SpecsFor(s, seen) = j
    BY DEF SpecsFor, j, one, t, c
<1> HIDE DEF j
<1>6. Len(j) = n + 1 /\ DOMAIN j = 1..(n + 1)
    BY <1>1, <1>4
<1>7. j[1] = c
    <2>1. 1 \in 1..(1 + n) /\ 1 <= 1
        BY <1>1
    <2> QED
        BY <1>2, <1>4, <2>1
<1>8. \A k \in 1..n : j[k + 1] = seen[s[k]].spec
    <2> TAKE k \in 1..n
    <2>1. k + 1 \in 1..(1 + n) /\ ~(k + 1 <= 1) /\ k + 1 - 1 = k
        BY <1>1
    <2> QED
        BY <1>3, <1>4, <2>1
<1>9. Range(j) = T
    <2>1. \A x \in Range(j) : x \in T
        BY <1>4, <1>6 DEF Range
    <2>2. c \in Range(j)
        <3>1. 1 \in 1..(n + 1)
            BY <1>1
        <3> QED
            BY <1>6, <1>7, <3>1 DEF Range
    <2>3. \A x \in Range(s) : seen[x].spec \in Range(j)
        <3>1. ASSUME NEW k \in 1..n PROVE seen[s[k]].spec \in Range(j)
            <4>1. k + 1 \in 1..(n + 1)
                BY <1>1
            <4> QED
                BY <1>6, <1>8, <4>1 DEF Range
        <3> QED
            BY <1>1, <3>1 DEF Range
    <2> QED
        BY <2>1, <2>2, <2>3 DEF T
<1> QED
    BY <1>5, <1>6, <1>7, <1>8, <1>9 DEF n, c, T

\* An option is specified twice if two of the plugins do, or one and lodel.
LEMMA DuplicatedSpecs ==
    ASSUME NEW s, Proper(s), Unrepeated(s), NEW seen
    PROVE  Duplicated(SpecsFor(s, seen)) <=>
            \E n, m \in Range(s) :
                \/ n # m /\ DOMAIN seen[n].spec \cap DOMAIN seen[m].spec # {}
                \/ DOMAIN seen[n].spec \cap DOMAIN CoreSpec # {}
<1> DEFINE j == SpecsFor(s, seen)
           len == Len(s)
           c == CoreSpec
<1>1. /\ DOMAIN j = 1..(len + 1) /\ len \in Nat /\ j[1] = c /\ DOMAIN s = 1..len
      /\ \A k \in 1..len : j[k + 1] = seen[s[k]].spec
    BY SpecsForFacts DEF Proper
<1>2. Duplicated(j) <=> \E i, k \in DOMAIN j : i < k /\ DOMAIN j[i] \cap DOMAIN j[k] # {}
    BY DEF Duplicated
<1> HIDE DEF j, len, c
<1>3. ASSUME NEW i \in DOMAIN j, NEW k \in DOMAIN j, i < k, DOMAIN j[i] \cap DOMAIN j[k] # {}
      PROVE  \E n, m \in Range(s) :
                \/ n # m /\ DOMAIN seen[n].spec \cap DOMAIN seen[m].spec # {}
                \/ DOMAIN seen[n].spec \cap DOMAIN c # {}
    <2>1. k - 1 \in 1..len /\ k - 1 + 1 = k
        BY <1>1, <1>3
    <2>2. j[k] = seen[s[k - 1]].spec /\ s[k - 1] \in Range(s)
        BY <1>1, <2>1 DEF Range
    <2>3. CASE i = 1
        BY <1>1, <1>3, <2>2, <2>3
    <2>4. CASE i # 1
        <3>1. i - 1 \in 1..len /\ i - 1 + 1 = i /\ i - 1 # k - 1
            BY <1>1, <1>3, <2>4
        <3>2. j[i] = seen[s[i - 1]].spec /\ s[i - 1] \in Range(s)
            BY <1>1, <3>1 DEF Range
        <3>3. s[i - 1] # s[k - 1]
            BY <2>1, <3>1 DEF Unrepeated, len
        <3> QED
            BY <1>3, <2>2, <3>2, <3>3
    <2> QED
        BY <2>3, <2>4
<1>4. ASSUME NEW n \in Range(s), NEW m \in Range(s), n # m,
             DOMAIN seen[n].spec \cap DOMAIN seen[m].spec # {}
      PROVE  \E i, k \in DOMAIN j : i < k /\ DOMAIN j[i] \cap DOMAIN j[k] # {}
    <2>1. PICK a \in 1..len : s[a] = n
        BY <1>1 DEF Range
    <2>2. PICK b \in 1..len : s[b] = m
        BY <1>1 DEF Range
    <2>3. /\ a + 1 \in DOMAIN j /\ b + 1 \in DOMAIN j
          /\ a + 1 < b + 1 \/ b + 1 < a + 1
        BY <1>1, <1>4, <2>1, <2>2
    <2>4. j[a + 1] = seen[n].spec /\ j[b + 1] = seen[m].spec
        BY <1>1, <2>1, <2>2
    <2> QED
        BY <1>4, <2>3, <2>4
<1>5. ASSUME NEW n \in Range(s), DOMAIN seen[n].spec \cap DOMAIN c # {}
      PROVE  \E i, k \in DOMAIN j : i < k /\ DOMAIN j[i] \cap DOMAIN j[k] # {}
    <2>1. PICK a \in 1..len : s[a] = n
        BY <1>1 DEF Range
    <2>2. 1 \in DOMAIN j /\ a + 1 \in DOMAIN j /\ 1 < a + 1 /\ j[a + 1] = seen[n].spec
        BY <1>1, <2>1
    <2> QED
        BY <1>1, <1>5, <2>2
<1> QED
    BY <1>2, <1>3, <1>4, <1>5 DEF j, c

\* The options are in order if those of any list of all the types are.
LEMMA OptionsOfLists ==
    ASSUME FoundInv, NEW s, IsListOf(s, PluginTypes), Unrepeated(s),
           NEW seen, seen = Discover(site.dirs),
           NEW full, full = Expanded(Merged(SpecsFor(s, seen)), DOMAIN Given \cup ListOptions)
    PROVE  OptionsInOrder <=>
            /\ ~Duplicated(SpecsFor(s, seen))
            /\ DOMAIN Given \subseteq DOMAIN full \cup ListOptions
            /\ \A o \in DOMAIN full \ ListOptions :
                    Valid(o, IF o \in DOMAIN Given THEN Given[o] ELSE full[o])
            /\ ~NameClash(DOMAIN full)
<1> DEFINE list == PluginList
           Fine(given, l, dirs) ==
                /\ \A n, m \in Range(l) :
                        /\ n # m => DOMAIN dirs[n].spec \cap DOMAIN dirs[m].spec = {}
                        /\ DOMAIN dirs[n].spec \cap DOMAIN CoreSpec = {}
                /\ \E spec \in {Merged(<<CoreSpec>> \o [k \in DOMAIN l |-> dirs[l[k]].spec])} :
                   \E f \in {Expanded(spec, DOMAIN given \cup ListOptions)} :
                        /\ DOMAIN given \subseteq DOMAIN f \cup ListOptions
                        /\ \A o \in DOMAIN f \ ListOptions :
                                Valid(o, IF o \in DOMAIN given THEN given[o] ELSE f[o])
                        /\ ~NameClash(DOMAIN f)
<1>1. Proper(s) /\ Proper(list) /\ \A x : x \in Range(list) <=> x \in Range(s)
    BY AllLists, RangeIsHas DEF IsListOf
<1>2. OptionsInOrder <=> Fine(Given, list, seen)
    BY DEF OptionsInOrder, Given
<1>3. Merged(SpecsFor(list, seen)) = Merged(SpecsFor(s, seen))
    <2>1. Range(SpecsFor(list, seen)) = Range(SpecsFor(s, seen))
        <3>1. Range(list) = Range(s)
            BY <1>1
        <3> HIDE DEF list
        <3> QED
            BY <1>1, <3>1, SpecsForFacts
    <2> QED
        BY <2>1 DEF Merged
<1> HIDE DEF list
<1>4. Duplicated(SpecsFor(s, seen)) <=>
            \E n, m \in Range(s) :
                \/ n # m /\ DOMAIN seen[n].spec \cap DOMAIN seen[m].spec # {}
                \/ DOMAIN seen[n].spec \cap DOMAIN CoreSpec # {}
    BY <1>1, DuplicatedSpecs
<1>5. ~Duplicated(SpecsFor(s, seen)) <=>
            \A n, m \in Range(list) :
                /\ n # m => DOMAIN seen[n].spec \cap DOMAIN seen[m].spec = {}
                /\ DOMAIN seen[n].spec \cap DOMAIN CoreSpec = {}
    BY <1>1, <1>4
<1>6. Expanded(Merged(<<CoreSpec>> \o [k \in DOMAIN list |-> seen[list[k]].spec]),
               DOMAIN Given \cup ListOptions) = full
    BY <1>3 DEF SpecsFor
<1>7. Fine(Given, list, seen) <=>
        /\ \A n, m \in Range(list) :
                /\ n # m => DOMAIN seen[n].spec \cap DOMAIN seen[m].spec = {}
                /\ DOMAIN seen[n].spec \cap DOMAIN CoreSpec = {}
        /\ DOMAIN Given \subseteq DOMAIN full \cup ListOptions
        /\ \A o \in DOMAIN full \ ListOptions :
                Valid(o, IF o \in DOMAIN Given THEN Given[o] ELSE full[o])
        /\ ~NameClash(DOMAIN full)
    BY <1>6
<1> QED
    BY <1>2, <1>5, <1>7

\* The settings start exactly if they are in order, and not before.
LEMMA SettingsStart ==
    ASSUME FoundInv, ReadInv, started = FALSE, Populate
    PROVE  /\ started' \in BOOLEAN
           /\ started' <=> SettingsInOrder
           /\ stage' = IF started' THEN "settings" ELSE "failed"
<1> DEFINE seen == Discover(site.dirs)
           all == SpecsFor(plugins, seen)
           spec == Merged(all)
           full == Expanded(spec, DOMAIN conf)
<1>1. /\ stage = "register" /\ Cardinality(registered) = Len(plugins)
      /\ ~Redeclared(site.files) /\ ConfInv /\ IsListOf(plugins, PluginTypes)
      /\ ReadTypes = PluginTypes /\ ReadOptions = ListOptions
      /\ FirstRegistered(Len(plugins))
    BY DEF Populate, ReadInv, ReadTypes, ReadOptions, ListOptions, FirstRegistered
<1>2. PluginsInOrder /\ Unrepeated(plugins)
    <2>1. Unrepeated(plugins)
        BY <1>1 DEF FirstRegistered, Unrepeated
    <2>2. \A x : Has(plugins, x) <=> x \in registered
        BY <1>1 DEF FirstRegistered, Has
    <2> QED
        BY <1>1, <2>1, <2>2, PluginsOfLists DEF FirstRegistered, Acceptable, OneSession
<1>3. FilesInOrder <=> badOptions = {}
    BY <1>1, ListTypes DEF FilesInOrder, ConfInv
<1>4. Specs = all
    <2>1. \A k \in DOMAIN plugins : Info(plugins[k]) = seen[plugins[k]]
        <3> TAKE k \in DOMAIN plugins
        <3>1. k \in 1..Len(plugins)
            BY <1>1 DEF IsListOf, Proper
        <3>2. plugins[k] \in registered
            BY <1>1, <3>1 DEF FirstRegistered
        <3>3. found = seen
            BY <3>2 DEF FoundInv
        <3> QED
            BY <3>3 DEF Info
    <2>2. [k \in DOMAIN plugins |-> Info(plugins[k]).spec] = [k \in DOMAIN plugins |-> seen[plugins[k]].spec]
        BY <2>1
    <2> QED
        BY <2>2 DEF Specs, SpecsFor
<1>5. DOMAIN conf = DOMAIN Given \cup ListOptions
    BY <1>1 DEF ConfInv
<1> HIDE DEF all, seen
<1>6. OptionsInOrder <=>
        /\ ~Duplicated(all)
        /\ DOMAIN Given \subseteq DOMAIN full \cup ListOptions
        /\ \A o \in DOMAIN full \ ListOptions :
                Valid(o, IF o \in DOMAIN Given THEN Given[o] ELSE full[o])
        /\ ~NameClash(DOMAIN full)
    <2>1. full = Expanded(Merged(all), DOMAIN Given \cup ListOptions)
        BY <1>5
    <2> HIDE DEF full
    <2> QED
        BY <1>1, <1>2, <2>1, OptionsOfLists DEF all, seen
<1>7. CASE Duplicated(all)
    <2>1. stage' = "failed" /\ started' = started
        BY <1>4, <1>7 DEF Populate, Fail
    <2> QED
        BY <1>6, <1>7, <2>1 DEF SettingsInOrder
<1>8. CASE ~Duplicated(all)
    <2> DEFINE bad == {o \in DOMAIN full : ~Valid(o, Got(o, full[o]))}
    <2>1. /\ unread' = unread \ DOMAIN full /\ badOptions' = badOptions \cup bad
          /\ started' = (unread' = {} /\ badOptions' = {} /\ ~NameClash(DOMAIN full))
          /\ stage' = IF started' THEN "settings" ELSE "failed"
        <3>1. /\ MergedSpec = spec
              /\ ~Duplicated(Specs)
            BY <1>4, <1>8 DEF MergedSpec
        <3> HIDE DEF spec
        <3> QED
            BY <3>1 DEF Populate
    <2> HIDE DEF full
    <2>2. unread' = {} <=> DOMAIN Given \subseteq DOMAIN full \cup ListOptions
        BY <1>1, <2>1 DEF ConfInv
    <2>3. badOptions = {} /\ bad = {} <=>
            /\ badOptions = {}
            /\ \A o \in DOMAIN full \ ListOptions :
                    Valid(o, IF o \in DOMAIN Given THEN Given[o] ELSE full[o])
        <3>1. \A o : o \notin ListOptions => Got(o, full[o]) = IF o \in DOMAIN Given THEN Given[o] ELSE full[o]
            BY <1>1 DEF ConfInv, Got
        <3>2. badOptions = {} => \A o \in ListOptions : Valid(o, Got(o, full[o]))
            <4> SUFFICES ASSUME badOptions = {}, NEW t \in PluginTypes
                         PROVE  Valid(ListOption(t), Got(ListOption(t), full[ListOption(t)]))
                BY DEF ListOptions
            <4>1. Got(ListOption(t), full[ListOption(t)]) = ListValue(t)
                BY <1>1, ListTypes DEF ConfInv, Got
            <4>2. Valid(ListOption(t), ListValue(t))
                BY <1>1 DEF ConfInv
            <4> QED
                BY <4>1, <4>2
        <3> QED
            BY <3>1, <3>2
    <2>4. badOptions' = {} <=> badOptions = {} /\ bad = {}
        BY <2>1
    <2> HIDE DEF bad
    <2>5. started' <=> unread' = {} /\ badOptions' = {} /\ ~NameClash(DOMAIN full)
        BY <2>1
    <2>6. started' <=> SettingsInOrder
        BY <1>2, <1>3, <1>6, <1>8, <2>2, <2>3, <2>4, <2>5 DEF SettingsInOrder
    <2>7. started' \in BOOLEAN
        BY <2>1
    <2> QED
        BY <2>1, <2>6, <2>7
<1> QED
    BY <1>7, <1>8

\* The settings are started once, if they are in order.
StartInv ==
    /\ stage \in {"files", "lists", "register"} => started = FALSE
    /\ stage \notin {"files", "lists", "register", "failed"} => started = TRUE
    /\ started \in BOOLEAN
    /\ started => SettingsInOrder
    /\ stage = "failed" /\ ~started => ~SettingsInOrder

\* Whether the settings are in order is a question about the site.
LEMMA OrderStays ==
    ASSUME UNCHANGED site
    PROVE  SettingsInOrder' <=> SettingsInOrder
<1>1. /\ Given' = Given /\ PluginList' = PluginList
      /\ \A t : ListValue(t)' = ListValue(t)
    BY ListsStay
<1>2. FilesInOrder' <=> FilesInOrder
    BY <1>1 DEF FilesInOrder
<1>3. PluginsInOrder' <=> PluginsInOrder
    BY <1>1 DEF PluginsInOrder
<1>4. OptionsInOrder' <=> OptionsInOrder
    BY <1>1 DEF OptionsInOrder
<1> QED
    BY <1>2, <1>3, <1>4 DEF SettingsInOrder

\* After the settings are populated neither the site nor they change.
LEMMA StartedStays ==
    ASSUME NotYet, RunInv, [Next]_vars, ~(SettingsStep /\ UNCHANGED hookVars), ~UNCHANGED vars
    PROVE  /\ UNCHANGED <<site, started>>
           /\ stage \notin {"files", "lists", "register", "failed"}
           /\ stage' \notin {"files", "lists", "register"}
<1>1. ASSUME LoadStep, UNCHANGED <<setVars, hookVars>>
      PROVE  /\ UNCHANGED <<site, started>> /\ stage = "loading"
             /\ stage' \in {"loading", "broken", "halfloaded"}
    BY <1>1 DEF LoadStep, LoadNext, LoadDep, AlreadyLoaded, NotActivable, Circular, CheckDeps,
           Import, ImportFails, Raise, Break, Leave, setVars
<1>2. ASSUME RunCallback
      PROVE  /\ UNCHANGED <<site, started>> /\ PastLoading
             /\ stage' \in {stage, "failed", "halfstarted"}
    BY <1>2 DEF RunCallback, RunInv, Aborts, setVars
<1>3. ASSUME StartHooks
      PROVE  /\ UNCHANGED <<site, started>> /\ stage = "settings" /\ stage' = "loading"
    BY <1>3 DEF StartHooks, setVars
<1>4. ASSUME EndLoading
      PROVE  /\ UNCHANGED <<site, started>> /\ stage = "loading" /\ stage' \in {"loaded", "failed"}
    BY <1>4 DEF EndLoading, AllTried, Fail, setVars
<1>5. ASSUME ExposeAgain \/ Bootstraped \/ ImportLeapi
      PROVE  /\ UNCHANGED <<site, started>> /\ stage \in {"loaded", "exposed", "bootstraped"}
             /\ stage' \in {"exposed", "bootstraped", "ready"}
    BY <1>5 DEF ExposeAgain, Bootstraped, ImportLeapi, setVars
<1> QED
    BY <1>1, <1>2, <1>3, <1>4, <1>5 DEF Next, Done, PastLoading

\* Every step keeps what is read.
LEMMA ReadStep ==
    ASSUME FoundInv, NotYet, RunInv, ReadInv, StartInv, [Next]_vars
    PROVE  ReadInv' /\ StartInv'
<1>1. CASE ReadFiles
    <2>1. /\ ReadInv' /\ UNCHANGED <<site, started>> /\ stage = "files"
          /\ stage' \in {"lists", "failed"}
        BY <1>1, FilesRead DEF ReadFiles, Fail
    <2>2. stage' = "failed" => ~SettingsInOrder
        BY <1>1, FilesRead DEF SettingsInOrder, FilesInOrder
    <2> QED
        BY <2>1, <2>2, OrderStays DEF StartInv
<1>2. ASSUME NEW t \in PluginTypes, ReadList(t) PROVE ReadInv' /\ StartInv'
    <2>1. /\ ReadInv' /\ UNCHANGED <<site, started>> /\ stage = "lists"
          /\ stage' \in {"lists", "register"}
        BY <1>2, ListRead DEF ReadList
    <2> QED
        BY <2>1, OrderStays DEF StartInv
<1>3. CASE RegisterNext
    <2>1. /\ ReadInv' /\ UNCHANGED <<site, started>> /\ stage = "register"
          /\ stage' \in {"register", "failed"}
        BY <1>3, PluginRegistered DEF RegisterNext, Fail, setVars
    <2>2. stage' = "failed" => ~SettingsInOrder
        BY <1>3, PluginRegistered DEF SettingsInOrder
    <2> QED
        BY <2>1, <2>2, OrderStays DEF StartInv
<1>4. CASE Populate
    <2>1. /\ UNCHANGED <<site, listsLeft>> /\ stage = "register"
        BY <1>4 DEF Populate
    <2>2. /\ started' \in BOOLEAN /\ (started' <=> SettingsInOrder)
          /\ stage' = IF started' THEN "settings" ELSE "failed"
        BY <1>4, <2>1, SettingsStart DEF StartInv
    <2>3. started' = TRUE \/ started' = FALSE
        BY <2>2
    <2> QED
        BY <2>1, <2>2, <2>3, OrderStays DEF StartInv, ReadInv
<1>5. CASE UNCHANGED vars
    <2>1. UNCHANGED <<site, stage, listsLeft, badOptions, plugins, registered, started, conf, unread>>
        BY <1>5 DEF vars, plugVars, setVars
    <2>2. /\ StartInv' /\ ReadTypes' = ReadTypes /\ ReadOptions' = ReadOptions /\ Given' = Given
          /\ \A t : Listed(t)' = Listed(t) /\ ListValue(t)' = ListValue(t)
        BY <2>1, OrderStays, ListsStay DEF StartInv, ReadTypes, ReadOptions
    <2>3. (ConfInv' <=> ConfInv) /\ \A k : FirstRegistered(k)' <=> FirstRegistered(k)
        BY <2>1, <2>2 DEF ConfInv, FirstRegistered
    <2>4. IsListOf(plugins, ReadTypes)' <=> IsListOf(plugins, ReadTypes)
        BY <2>1, <2>2 DEF IsListOf, Apart
    <2> QED
        BY <2>1, <2>2, <2>3, <2>4 DEF ReadInv
<1>6. CASE ~(SettingsStep /\ UNCHANGED hookVars) /\ ~UNCHANGED vars
    <2>1. /\ UNCHANGED <<site, started>>
          /\ stage \notin {"files", "lists", "register", "failed"}
          /\ stage' \notin {"files", "lists", "register"}
        BY <1>6, StartedStays
    <2>2. StartInv'
        BY <2>1, OrderStays DEF StartInv
    <2>3. listsLeft' = listsLeft
        BY <1>6 DEF Next, Done, StartHooks, LoadStep, EndLoading, ExposeAgain, Bootstraped,
            ImportLeapi, RunCallback, setVars
    <2> QED
        BY <2>1, <2>2, <2>3 DEF ReadInv
<1> QED
    BY <1>1, <1>2, <1>3, <1>4, <1>5, <1>6 DEF SettingsStep

\* What is read, and the start, through a run.
LEMMA ReadInvariant ==
    Spec => [](ReadInv /\ StartInv)
<1>1. Init => ReadInv /\ StartInv
    BY DEF Init, ReadInv, StartInv
<1>2. BootInv /\ ReadInv /\ StartInv /\ [Next]_vars => (ReadInv /\ StartInv)'
    BY ReadStep DEF BootInv, AllInv
<1> QED
    BY <1>1, <1>2, BootInvariant, PTL DEF Spec

\* The settings start exactly for the instances whose files, plugins and
\* options are in order, in whatever order the lists of plugins are read.
THEOREM SettingsStarted == Spec => []SettingsOutcome
<1>1. StartInv => SettingsOutcome
    BY DEF StartInv, SettingsOutcome
<1> QED
    BY <1>1, ReadInvariant, PTL
-----------------------------------------------------------------------------
(* The types of the plugins of each list.                                  *)

TypeCheck(n, t) == <<"check_plugin", n, t>>

\* Each list leaves the check of the type of its plugins, and a console is
\* ready when these have passed.
TypedInv ==
    /\ stage = "settings" \/ PluginsLoading =>
        \A t \in PluginTypes : \A n : Has(Listed(t), n) =>
            Among(TypeCheck(n, t), HookCalls(hooks, "lodel2_dyncode_bootstraped"))
    /\ stage = "ready" /\ site.mode = "console" =>
        \A t \in PluginTypes : \A n : Has(Listed(t), n) =>
            Info(n).type = t \/ Among(TypeCheck(n, t), running)

\* The settings leave the checks.
LEMMA ChecksLeft ==
    ASSUME FoundInv, ReadInv, ListsInv, HooksInv, Populate, stage' = "settings"
    PROVE  \A t \in PluginTypes : \A n : Has(Listed(t), n) =>
            Among(TypeCheck(n, t), HookCalls(hooks', "lodel2_dyncode_bootstraped"))
<1>1. ~Duplicated(Specs)
    BY DEF Populate, Fail
<1>2. PICK spec : conf' = AllGot(spec) /\ hooks' = AddLateChecks(hooks, DOMAIN spec, conf')
    BY <1>1 DEF Populate
<1>3. ConfInv /\ ReadTypes = PluginTypes /\ ReadOptions = ListOptions /\ stage = "register"
    BY DEF Populate, ReadInv, ReadTypes, ReadOptions, ListOptions
<1>4. \A t \in PluginTypes : conf'[ListOption(t)] = ListValue(t)
    BY <1>2, <1>3, ListTypes DEF AllGot, Got, ConfInv
<1>5. \A o \in ListOptions : IsList(conf'[o])
    BY <1>4, ListValues DEF ListOptions
<1>6. \A t \in PluginTypes : \A c : Has(PluginChecks(t, conf'[ListOption(t)]), c) =>
                    Among(c, HookCalls(hooks', "lodel2_dyncode_bootstraped"))
    BY <1>2, <1>5, LateChecksAdded DEF HooksInv, Registry
<1> QED
    <2> SUFFICES ASSUME NEW t \in PluginTypes, NEW n, Has(Listed(t), n)
                 PROVE  Among(TypeCheck(n, t), HookCalls(hooks', "lodel2_dyncode_bootstraped"))
        OBVIOUS
    <2>1. ListValue(t) # None /\ Has(ListValue(t), n) /\ IsList(ListValue(t))
        BY ListValues
    <2>2. Has(PluginChecks(t, ListValue(t)), TypeCheck(n, t))
        BY <2>1, PluginChecksAre DEF TypeCheck
    <2> QED
        BY <1>4, <1>6, <2>2

\* A check that was run has passed.
LEMMA CheckRun ==
    ASSUME HooksInv, RunInv, RunCallback, ~Aborted,
           NEW n, NEW t, Among(TypeCheck(n, t), running)
    PROVE  Info(n).type = t \/ Among(TypeCheck(n, t), running')
<1> DEFINE cb == Head(running).cb
           k == TypeCheck(n, t)
<1>1. running # << >> /\ Proper(running)
    BY DEF RunCallback, RunInv, CallsFine
<1>2. \A d : Among(d, running) <=> d = cb \/ Among(d, Tail(running))
    BY <1>1, FirstCallback
<1>3. k[1] = "check_plugin" /\ k[2] = n /\ k[3] = t
    BY DEF TypeCheck
<1>4. CASE cb = k
    <2>1. LateCheck(k)
        BY <1>3, <1>4, Aborting DEF RunCallback
    <2> QED
        BY <1>3, <2>1 DEF LateCheck
<1>5. CASE cb # k
    <2>1. Among(k, Tail(running))
        BY <1>2, <1>5
    <2>2. CASE \E c \in Copy : Inits(c)
        <3>1. k # <<"init_datasources", "leapi">> /\ k # <<"init_datasources", "context">>
            BY <1>3
        <3> QED
            BY <1>3, <2>2, <3>1 DEF Inits, Copy
    <2>3. CASE running' = Tail(running)
        BY <2>1, <2>3
    <2>4. running' # Tail(running) => cb[1] = "init_datasources"
        BY Aborting DEF RunCallback
    <2>5. ASSUME cb[1] = "init_datasources" PROVE \E c \in Copy : Inits(c)
        <3>1. ClassesInit /\ inits' = [inits EXCEPT ![cb[2]] = @ + 1]
            BY <2>5, Aborting DEF RunCallback
        <3>2. ~Other /\ ~\E c \in Copy : Sets(c)
            <4>1. ASSUME inits' = inits PROVE FALSE
                <5>1. PICK c \in Copy : cb = <<"init_datasources", c>>
                    BY <1>1, <1>2, <2>5 DEF RunInv, CallsFine
                <5>2. cb[2] = c /\ inits \in [Copy -> Nat]
                    BY <5>1 DEF RunInv
                <5>3. inits'[c] = inits[c] + 1 /\ inits[c] \in Nat
                    BY <3>1, <5>2
                <5> QED
                    BY <4>1, <5>3
            <4> QED
                BY <4>1 DEF Other, Sets
        <3> QED
            BY <3>2, CallbackRun
    <2> QED
        BY <2>2, <2>3, <2>4, <2>5
<1> QED
    BY <1>4, <1>5

\* Every step keeps the checks.
LEMMA TypedStep ==
    ASSUME BootInv, BootInv', ReadInv, TypedInv, [Next]_vars
    PROVE  TypedInv'
<1>1. /\ HooksInv /\ HooksInv' /\ RunInv /\ FoundInv /\ ListsInv /\ LoadInv /\ NotYet /\ Grow
    BY HooksStep DEF BootInv, AllInv
<1>2. ASSUME UNCHANGED site, stage = "settings" \/ PluginsLoading
      PROVE  \A t \in PluginTypes : \A n : Has(Listed(t)', n) =>
                Among(TypeCheck(n, t), HookCalls(hooks', "lodel2_dyncode_bootstraped"))
    BY <1>1, <1>2, ListsStay DEF TypedInv, Grow
<1>3. CASE Populate
    <2>1. stage' = "settings" \/ stage' = "failed"
        BY <1>3 DEF Populate, Fail
    <2>2. site' = site
        BY <1>3 DEF Populate
    <2>3. CASE stage' = "settings"
        BY <1>1, <1>3, <2>2, <2>3, ChecksLeft, ListsStay DEF TypedInv
    <2> QED
        BY <2>1, <2>3 DEF TypedInv, PluginsLoading, PastLoading
<1>4. CASE SettingsStep /\ ~Populate
    <2>1. stage' \in {"lists", "register", "failed"}
        BY <1>4 DEF SettingsStep, ReadFiles, RegisterNext, ReadList, Fail
    <2> QED
        BY <2>1 DEF TypedInv, PluginsLoading, PastLoading
<1>5. CASE StartHooks \/ LoadStep
    <2>1. /\ UNCHANGED site /\ (stage = "settings" \/ PluginsLoading)
          /\ stage' \in {"loading", "broken", "halfloaded"}
        BY <1>5 DEF StartHooks, LoadStep, LoadNext, LoadDep, AlreadyLoaded, NotActivable, Circular,
           CheckDeps, Import, ImportFails, Raise, Break, Leave, PluginsLoading
    <2> QED
        BY <1>2, <2>1 DEF TypedInv
<1>6. CASE EndLoading /\ stage' = "failed"
    BY <1>6 DEF TypedInv, PluginsLoading, PastLoading
<1>7. CASE Begins
    <2>1. /\ UNCHANGED site /\ PluginsLoading
          /\ stage \in {"loading", "loaded", "exposed", "bootstraped"}
        BY <1>1, <1>7, CallBegun DEF PluginsLoading, PastLoading
    <2>2. CASE ImportLeapi
        <3> DEFINE a == HookCalls(hooks', "lodel2_dyncode_bootstraped")
                   b == HookCalls(hooks', "lodel2_loader_main")
        <3>1. running' = a \o b
            BY <2>2 DEF ImportLeapi
        <3>2. Proper(a) /\ Proper(b)
            BY <1>1, ProperCalls DEF HooksInv, Registry
        <3>3. \A d : Among(d, a) => Among(d, running')
            BY <3>1, <3>2, JoinedCalls
        <3> QED
            BY <1>2, <2>1, <3>3 DEF TypedInv
    <2>3. CASE ~ImportLeapi
        <3>1. stage' = "ready" => site.mode # "console"
            BY <1>7, <2>3 DEF Begins, ExposeAgain, Bootstraped
        <3> QED
            BY <1>2, <2>1, <3>1 DEF TypedInv
    <2> QED
        BY <2>2, <2>3
<1>8. CASE RunCallback
    <2>1. UNCHANGED <<site, found>> /\ PastLoading
        BY <1>1, <1>8 DEF RunCallback, RunInv, plugVars
    <2>2. CASE Aborted
        BY <2>2 DEF Aborted, TypedInv, PluginsLoading, PastLoading
    <2>3. CASE ~Aborted
        <3>1. stage' = stage
            BY <1>1, <1>8, <2>3, CallbackRun
        <3>2. \A n : Info(n)' = Info(n)
            BY <2>1 DEF Info
        <3>3. \A t : Listed(t)' = Listed(t)
            BY <2>1, ListsStay
        <3>4. stage = "ready" /\ site.mode = "console" =>
                \A t \in PluginTypes : \A n : Has(Listed(t), n) =>
                    Info(n).type = t \/ Among(TypeCheck(n, t), running')
            BY <1>1, <1>8, <2>3, CheckRun DEF TypedInv
        <3> QED
            BY <1>2, <2>1, <3>1, <3>2, <3>3, <3>4 DEF TypedInv, PluginsLoading
    <2> QED
        BY <2>2, <2>3
<1>9. CASE UNCHANGED vars
    <2>1. UNCHANGED <<site, stage, found, running, hooks>>
        BY <1>9 DEF vars, plugVars, hookVars
    <2>2. \A t : Listed(t)' = Listed(t)
        BY <2>1, ListsStay
    <2> QED
        BY <2>1, <2>2 DEF TypedInv, PluginsLoading, PastLoading, Info
<1>10. EndLoading => stage' = "failed" \/ stage' = "loaded"
    BY DEF EndLoading, Fail
<1> QED
    BY <1>3, <1>4, <1>5, <1>6, <1>7, <1>8, <1>9, <1>10 DEF Next, Done, Begins

\* In a console that is ready every plugin is of the type of the list that
\* names it.
THEOREM ConsoleTyped == Spec => []ConsoleListsTyped
<1>1. Init => TypedInv
    BY DEF Init, TypedInv, PluginsLoading, PastLoading
<1>2. BootInv /\ BootInv' /\ ReadInv /\ StartInv /\ TypedInv /\ [Next]_vars => TypedInv'
    BY TypedStep
<1>3. BootInv /\ TypedInv => ConsoleListsTyped
    <2> SUFFICES ASSUME BootInv, TypedInv, Ready, site.mode = "console",
                        NEW t \in PluginTypes, NEW n \in Range(Listed(t))
                 PROVE  Info(n).type = t
        BY DEF ConsoleListsTyped
    <2>1. Has(Listed(t), n)
        BY ListValues, RangeIsHas DEF BootInv
    <2>2. ~Among(TypeCheck(n, t), running)
        BY NoCalls DEF Ready
    <2> QED
        BY <2>1, <2>2 DEF TypedInv, Ready
<1> QED
    BY <1>1, <1>2, <1>3, BootInvariant, ReadInvariant, PTL DEF Spec
-----------------------------------------------------------------------------
(* How often the datasources of a copy are initialised.                    *)

\* Callback cb is at most once among the calls of s.
Once(cb, s) == \A i, j \in 1..Len(s) : s[i].cb = cb /\ s[j].cb = cb => i = j

\* What is not among the calls is not there twice.
LEMMA OnceAbsent ==
    ASSUME NEW s, NEW cb, ~Among(cb, s)
    PROVE  Once(cb, s)
BY DEF Once, Among

\* Calls put together.
LEMMA OnceJoined ==
    ASSUME NEW s, NEW t, Proper(s), Proper(t), NEW cb, Once(cb, s), Once(cb, t),
           ~(Among(cb, s) /\ Among(cb, t))
    PROVE  Once(cb, s \o t)
<1> DEFINE j == s \o t
           m == Len(s)
           n == Len(t)
<1>1. /\ m \in Nat /\ n \in Nat /\ Len(j) = m + n
      /\ \A i \in 1..(m + n) : j[i] = IF i <= m THEN s[i] ELSE t[i - m]
    <2>1. PICK S : s \in Seq(S)
        BY DEF Proper
    <2>2. PICK T : t \in Seq(T)
        BY DEF Proper
    <2> DEFINE U == S \cup T
    <2>3. s \in Seq(U) /\ t \in Seq(U)
        BY <2>1, <2>2
    <2> HIDE DEF U
    <2> QED
        BY <2>3, ConcatProperties
<1> HIDE DEF j, m, n
<1>2. \A i \in 1..(m + n) : (i \in 1..m /\ j[i] = s[i]) \/ (i - m \in 1..n /\ j[i] = t[i - m])
    BY <1>1
<1>3. ASSUME NEW i \in 1..(m + n), NEW k \in 1..(m + n), j[i].cb = cb, j[k].cb = cb
      PROVE  i = k
    <2>1. CASE i \in 1..m /\ j[i] = s[i] /\ k \in 1..m /\ j[k] = s[k]
        BY <1>3, <2>1 DEF Once, m
    <2>2. CASE i - m \in 1..n /\ j[i] = t[i - m] /\ k - m \in 1..n /\ j[k] = t[k - m]
        <3>1. i - m = k - m
            BY <1>3, <2>2 DEF Once, n
        <3> QED
            BY <1>1, <3>1
    <2>3. CASE i \in 1..m /\ j[i] = s[i] /\ k - m \in 1..n /\ j[k] = t[k - m]
        BY <1>3, <2>3 DEF Among, m, n
    <2>4. CASE i - m \in 1..n /\ j[i] = t[i - m] /\ k \in 1..m /\ j[k] = s[k]
        BY <1>3, <2>4 DEF Among, m, n
    <2> QED
        BY <1>2, <2>1, <2>2, <2>3, <2>4
<1> QED
    BY <1>1, <1>3 DEF Once, j

\* Calls cut in two.
LEMMA OnceCut ==
    ASSUME NEW s, Proper(s), NEW m \in 0..Len(s), NEW cb, Once(cb, s)
    PROVE  /\ Once(cb, SubSeq(s, 1, m)) /\ Once(cb, SubSeq(s, m + 1, Len(s)))
           /\ ~(Among(cb, SubSeq(s, 1, m)) /\ Among(cb, SubSeq(s, m + 1, Len(s))))
<1>1. PICK S : s \in Seq(S)
    BY DEF Proper
<1> DEFINE n == Len(s)
           a == SubSeq(s, 1, m)
           b == SubSeq(s, m + 1, n)
<1>2. n \in Nat /\ m \in Nat /\ m <= n /\ \A i \in 1..n : s[i] \in S
    BY <1>1
<1>3. Len(a) = m /\ \A i \in 1..m : a[i] = s[i]
    <2>1. \A i \in 1..m : s[i] \in S
        BY <1>2
    <2> QED
        BY <1>2, <2>1, SubSeqProperties
<1>4. Len(b) = n - m /\ \A i \in 1..(n - m) : b[i] = s[m + i]
    <2>1. \A i \in (m + 1)..n : s[i] \in S
        BY <1>2
    <2>2. /\ Len(SubSeq(s, m + 1, n)) = IF m + 1 <= n THEN n - (m + 1) + 1 ELSE 0
          /\ \A i \in 1..(n - (m + 1) + 1) : SubSeq(s, m + 1, n)[i] = s[m + 1 + i - 1]
        BY <1>2, <2>1, SubSeqProperties
    <2>3. n - (m + 1) + 1 = n - m /\ \A i \in 1..(n - m) : m + 1 + i - 1 = m + i
        BY <1>2
    <2>4. Len(b) = n - m
        BY <1>2, <2>2
    <2> QED
        BY <2>2, <2>3, <2>4
<1> HIDE DEF a, b
<1>5. /\ \A i \in 1..m : i \in 1..n
      /\ \A i \in 1..(n - m) : m + i \in 1..n
      /\ \A i \in 1..m : \A k \in 1..(n - m) : i # m + k
      /\ \A i, k \in 1..(n - m) : m + i = m + k => i = k
    BY <1>2
<1>6. Once(cb, a)
    BY <1>3, <1>5 DEF Once
<1>7. ASSUME NEW i \in 1..(n - m), NEW k \in 1..(n - m), b[i].cb = cb, b[k].cb = cb
      PROVE  i = k
    <2>1. m + i = m + k
        BY <1>4, <1>5, <1>7 DEF Once
    <2> QED
        BY <1>5, <2>1
<1>8. ASSUME NEW i \in 1..m, NEW k \in 1..(n - m), a[i].cb = cb, b[k].cb = cb
      PROVE  FALSE
    BY <1>3, <1>4, <1>5, <1>8 DEF Once
<1> QED
    BY <1>3, <1>4, <1>6, <1>7, <1>8 DEF Once, Among, a, b

\* What is registered once is there once.
LEMMA OnceRegistered ==
    ASSUME NEW r, ProperHooks(r), NEW name, NEW cbs, Proper(cbs), NEW prio,
           NEW x, \A n : Once(x, HookCalls(r, n)),
           \A i, j \in 1..Len(cbs) : cbs[i] = x /\ cbs[j] = x => i = j,
           ~(Has(cbs, x) /\ Among(x, HookCalls(r, name)))
    PROVE  \A n : Once(x, HookCalls(RegisterHooks(r, name, cbs, prio), n))
<1> DEFINE r2 == RegisterHooks(r, name, cbs, prio)
           old == HookCalls(r, name)
           less == {k \in DOMAIN old : old[k].prio <= prio}
           before == Cardinality(less)
           mid == [k \in DOMAIN cbs |-> [cb |-> cbs[k], prio |-> prio]]
           low == SubSeq(old, 1, before)
           high == SubSeq(old, before + 1, Len(old))
           new == low \o mid \o high
<1>1. CASE cbs = << >>
    BY <1>1 DEF RegisterHooks
<1>2. CASE cbs # << >>
    <2>1. r2 = [n \in DOMAIN r \cup {name} |-> IF n = name THEN new ELSE r[n]]
        BY <1>2 DEF RegisterHooks
    <2>2. Proper(old)
        BY NoCalls DEF ProperHooks, HookCalls
    <2>3. before \in 0..Len(old)
        BY <2>2, PlaceBehind
    <2> HIDE DEF before
    <2>4. /\ Proper(low) /\ Proper(high) /\ Once(x, low) /\ Once(x, high)
          /\ ~(Among(x, low) /\ Among(x, high))
          /\ Among(x, low) \/ Among(x, high) => Among(x, old)
        BY <2>2, <2>3, CutCalls, OnceCut
    <2>5. Proper(mid) /\ Once(x, mid) /\ (Among(x, mid) => ~Among(x, old))
        <3> PICK S : cbs \in Seq(S)
            BY DEF Proper
        <3>1. DOMAIN cbs = 1..Len(cbs) /\ Len(cbs) \in Nat
            OBVIOUS
        <3>2. mid \in Seq([cb : S, prio : {prio}]) /\ Len(mid) = Len(cbs)
            BY <3>1
        <3>3. \A k \in 1..Len(cbs) : mid[k].cb = cbs[k]
            BY <3>1
        <3> HIDE DEF mid
        <3> QED
            BY <3>2, <3>3 DEF Proper, Among, Has, Once
    <2> HIDE DEF old, low, mid, high
    <2>6. /\ Proper(low \o mid) /\ Once(x, low \o mid)
          /\ Among(x, low \o mid) => Among(x, low) \/ Among(x, mid)
        BY <2>4, <2>5, JoinedCalls, OnceJoined
    <2>7. Once(x, new)
        BY <2>4, <2>5, <2>6, OnceJoined
    <2> HIDE DEF new, r2
    <2>8. HookCalls(r2, name) = new /\ \A n : n # name => HookCalls(r2, n) = HookCalls(r, n)
        BY <2>1 DEF HookCalls
    <2> QED
        BY <2>7, <2>8 DEF r2
<1> QED
    BY <1>1, <1>2

\* ... as is what a single decorator registers.
LEMMA OnceHook ==
    ASSUME NEW r, ProperHooks(r), NEW name, NEW cb, NEW prio,
           NEW x, \A n : Once(x, HookCalls(r, n)), x # cb
    PROVE  \A n : Once(x, HookCalls(RegisterHook(r, name, cb, prio), n))
<1> DEFINE s == <<cb>>
<1>1. s \in Seq({cb}) /\ Len(s) = 1 /\ s[1] = cb
    OBVIOUS
<1>2. RegisterHook(r, name, cb, prio) = RegisterHooks(r, name, s, prio)
    BY DEF RegisterHook
<1> HIDE DEF s
<1>3. Proper(s) /\ ~Has(s, x) /\ \A i \in 1..Len(s) : s[i] # x
    BY <1>1 DEF Proper, Has
<1> QED
    BY <1>2, <1>3, OnceRegistered

\* ... and those of a file.
LEMMA OnceEach ==
    ASSUME NEW r, ProperHooks(r), NEW cb, NEW H, NEW hs \in Seq(H),
           NEW x, \A m : Once(x, HookCalls(r, m)), x # cb
    PROVE  \A m : Once(x, HookCalls(RegisterEach(r, cb, hs), m))
<1> DEFINE n == Len(hs)
           Fine(y) == ProperHooks(y) /\ \A m : Once(x, HookCalls(y, m))
<1>1. n \in Nat
    OBVIOUS
<1>2. PICK f : Registries(f, r, cb, hs, n) /\ RegisterEach(r, cb, hs) = f[n]
    BY EachUnfolds
<1> HIDE DEF n
<1> DEFINE wrong == {k \in 0..n : ~Fine(f[k])}
<1>3. Fine(f[0])
    <2>1. f[0] = r
        BY <1>1, <1>2 DEF Registries
    <2> QED
        BY <2>1
<1>4. ASSUME NEW k \in 1..n, Fine(f[k - 1])
      PROVE  Fine(f[k])
    <2>1. k \in 0..n /\ k # 0
        BY <1>1
    <2>2. f[k] = RegisterHook(f[k - 1], hs[k].hook, cb, hs[k].prio)
        BY <1>2, <2>1 DEF Registries
    <2> DEFINE y == f[k - 1]
               z == f[k]
               h == hs[k].hook
               prio == hs[k].prio
    <2>3. z = RegisterHook(y, h, cb, prio) /\ Fine(y)
        BY <1>4, <2>2
    <2> HIDE DEF y, z, h, prio
    <2>4. Fine(z)
        BY <2>3, HookRegistered, OnceHook
    <2> QED
        BY <2>4 DEF z
<1> HIDE DEF Fine
<1>5. wrong = {}
    <2> SUFFICES ASSUME wrong # {} PROVE FALSE
        OBVIOUS
    <2>1. PICK k \in wrong : \A j \in wrong : k <= j
        <3>1. wrong \subseteq Nat
            BY <1>1
        <3> QED
            BY <3>1, LeastNumber
    <2>2. k \in 1..n /\ k - 1 \in 0..n /\ k - 1 < k
        BY <1>1, <1>3, <2>1
    <2>3. k - 1 \notin wrong
        BY <1>1, <2>1, <2>2
    <2> QED
        BY <1>4, <2>1, <2>2, <2>3
<1>6. Fine(f[n])
    BY <1>1, <1>5
<1> QED
    BY <1>2, <1>6 DEF Fine

\* The callback that initialises the datasources of a copy.
Initialises(c) == <<"init_datasources", c>>

\* ... is registered once, when the copy is imported.
LEMMA OnceImported ==
    ASSUME NEW r, ProperHooks(r), NEW new, NEW c \in Copy,
           \A n : Once(Initialises(c), HookCalls(r, n)),
           c \notin new \/ ~Among(Initialises(c), HookCalls(r, "lodel2_plugins_loaded"))
    PROVE  \A n : Once(Initialises(c), HookCalls(ImportDyncode(r, new), n))
<1> DEFINE One(d) == IF d \in new THEN << <<"init_datasources", d>> >> ELSE << >>
           cbs == One("leapi") \o One("context")
           S == {<<"init_datasources", d>> : d \in Copy}
           x == Initialises(c)
<1>1. /\ cbs \in Seq(S)
      /\ Has(cbs, x) => c \in new
      /\ \A i, j \in 1..Len(cbs) : cbs[i] = x /\ cbs[j] = x => i = j
    <2>1. CASE "leapi" \in new /\ "context" \in new
        <3>1. One("leapi") \in Seq(S) /\ One("context") \in Seq(S)
            BY <2>1 DEF Copy, Has
        <3>2. /\ cbs \in Seq(S) /\ Len(cbs) = 2
              /\ cbs[1] = <<"init_datasources", "leapi">>
              /\ cbs[2] = <<"init_datasources", "context">>
            BY <2>1, <3>1
        <3> HIDE DEF cbs
        <3>3. \A k : k \in 1..2 <=> k = 1 \/ k = 2
            OBVIOUS
        <3>4. c \in new
            BY <2>1 DEF Copy
        <3>5. cbs[1] # cbs[2]
            BY <3>2
        <3> QED
            BY <3>2, <3>3, <3>4, <3>5
    <2>2. CASE "leapi" \in new /\ "context" \notin new
        BY <2>2 DEF Copy, Has, Initialises
    <2>3. CASE "leapi" \notin new /\ "context" \in new
        BY <2>3 DEF Copy, Has, Initialises
    <2>4. CASE "leapi" \notin new /\ "context" \notin new
        BY <2>4 DEF Copy, Has
    <2> QED
        BY <2>1, <2>2, <2>3, <2>4
<1>2. ImportDyncode(r, new) = RegisterHooks(r, "lodel2_plugins_loaded", cbs, LastPriority)
    BY DEF ImportDyncode
<1> HIDE DEF cbs, S, x
<1>3. Proper(cbs)
    BY <1>1 DEF Proper
<1>4. ~(Has(cbs, x) /\ Among(x, HookCalls(r, "lodel2_plugins_loaded")))
    BY <1>1 DEF x
<1>5. \A n : Once(x, HookCalls(r, n))
    BY DEF x
<1>6. \A n : Once(x, HookCalls(RegisterHooks(r, "lodel2_plugins_loaded", cbs, LastPriority), n))
    BY <1>1, <1>3, <1>4, <1>5, OnceRegistered
<1> QED
    BY <1>2, <1>6 DEF x

\* No callback is registered twice that initialises a copy.
OnceInv == \A c \in Copy : \A n : Once(Initialises(c), HookCalls(hooks, n))

\* Late checks do not initialise.
LEMMA OnceLateChecks ==
    ASSUME NEW r, ProperHooks(r), NEW options, NEW value,
           \A o \in ListOptions : IsList(value[o]), NEW c \in Copy,
           \A n : Once(Initialises(c), HookCalls(r, n))
    PROVE  \A n : Once(Initialises(c), HookCalls(AddLateChecks(r, options, value), n))
<1>1. PICK all : /\ AreChecks(all)
                 /\ AddLateChecks(r, options, value)
                        = RegisterHooks(r, "lodel2_dyncode_bootstraped", all, LastPriority)
    BY LateChecksTogether
<1>2. Proper(all) /\ ~Has(all, Initialises(c))
    BY <1>1 DEF AreChecks, IsCheck, Initialises
<1>3. \A i \in 1..Len(all) : all[i] # Initialises(c)
    BY <1>2 DEF Has
<1> QED
    BY <1>1, <1>2, <1>3, OnceRegistered

\* Copies of the dynamic code are imported.
LEMMA OnceExposed ==
    ASSUME NEW r, NEW cs, Registry(r, cs), NEW set, NEW c \in Copy,
           \A n : Once(Initialises(c), HookCalls(r, n))
    PROVE  \A n : Once(Initialises(c), HookCalls(ImportDyncode(r, set \ cs), n))
<1>1. ASSUME Among(Initialises(c), HookCalls(r, "lodel2_plugins_loaded")) PROVE c \in cs
    <2>1. Initialises(c)[1] = "init_datasources" /\ Initialises(c)[2] = c
        BY DEF Initialises
    <2>2. PICK d \in cs : Initialises(c) = <<"init_datasources", d>>
        BY <1>1, <2>1 DEF Registry
    <2> QED
        BY <2>1, <2>2
<1>2. ProperHooks(r)
    BY DEF Registry
<1> QED
    BY <1>1, <1>2, OnceImported

\* Every step of the boot keeps it.
LEMMA OnceStep ==
    ASSUME FoundInv, ListsInv, LoadInv, NotYet, HooksInv, OnceInv, [Next]_vars
    PROVE  OnceInv'
<1> SUFFICES ASSUME NEW c \in Copy
             PROVE  \A n : Once(Initialises(c), HookCalls(hooks', n))
    BY DEF OnceInv
<1> DEFINE x == Initialises(c)
<1>1. Registry(hooks, copies) /\ ProperHooks(hooks) /\ \A n : Once(x, HookCalls(hooks, n))
    BY DEF HooksInv, Registry, OnceInv
<1>2. x[1] = "init_datasources"
    BY DEF Initialises
<1> HIDE DEF x
<1> SUFFICES \A n : Once(x, HookCalls(hooks', n))
    BY DEF x
<1>3. CASE UNCHANGED hooks
    BY <1>1, <1>3
<1>4. ASSUME NEW set, hooks' = ImportDyncode(hooks, set \ copies)
      PROVE  \A n : Once(x, HookCalls(hooks', n))
    BY <1>1, <1>4, OnceExposed DEF x
<1>5. CASE SettingsStep
    <2>1. CASE Populate /\ ~Duplicated(Specs)
        <3>1. PICK spec : conf' = AllGot(spec) /\ hooks' = AddLateChecks(hooks, DOMAIN spec, conf')
            BY <2>1 DEF Populate
        <3>2. stage = "register" /\ \A t \in PluginTypes : ListOption(t) \in DOMAIN conf
            BY <2>1 DEF Populate, ListsInv
        <3>3. \A o \in ListOptions : o \in DOMAIN conf /\ conf'[o] = conf[o]
            BY <3>1, <3>2 DEF AllGot, Got, ListOptions
        <3>4. \A o \in ListOptions : IsList(conf'[o])
            BY <3>2, <3>3 DEF ListsInv
        <3> QED
            BY <1>1, <3>1, <3>4, OnceLateChecks DEF x
    <2>2. CASE ~(Populate /\ ~Duplicated(Specs))
        <3>1. UNCHANGED hooks
            BY <1>5, <2>2 DEF SettingsStep, ReadFiles, RegisterNext, Populate, ReadList, plugVars
        <3> QED
            BY <1>3, <3>1
    <2> QED
        BY <2>1, <2>2
<1>6. CASE StartHooks
    <2> DEFINE h1 == RegisterHook(hooks, "lodel2_bootstraped", <<"check_datasources">>, LastPriority)
               h2 == RegisterHook(h1, "lodel2_dyncode_loaded", <<"custom_methods">>, LastPriority)
               ctx == IF site.mode = "uwsgi" THEN {"context"} ELSE {}
    <2>1. copies = {} /\ hooks' = ImportDyncode(h2, ctx \ copies)
        BY <1>6 DEF StartHooks, CoreHooks, HooksInv, Early
    <2>2. x # <<"check_datasources">> /\ x # <<"custom_methods">>
        BY <1>2
    <2> HIDE DEF ctx
    <2>3. ProperHooks(h1) /\ \A n : Once(x, HookCalls(h1, n))
        BY <1>1, <2>2, HookRegistered, OnceHook
    <2>4. \A n, d : Among(d, HookCalls(h1, n)) <=>
            Among(d, HookCalls(hooks, n)) \/ (n = "lodel2_bootstraped" /\ d = <<"check_datasources">>)
        BY <1>1, HookRegistered
    <2> HIDE DEF h1
    <2>5. ProperHooks(h2) /\ \A n : Once(x, HookCalls(h2, n))
        BY <2>2, <2>3, HookRegistered, OnceHook
    <2>6. \A n, d : Among(d, HookCalls(h2, n)) <=>
            Among(d, HookCalls(h1, n)) \/ (n = "lodel2_dyncode_loaded" /\ d = <<"custom_methods">>)
        BY <2>3, HookRegistered
    <2> HIDE DEF h2
    <2>7. ~Among(x, HookCalls(hooks, "lodel2_plugins_loaded"))
        BY <1>1, <1>2, <2>1 DEF Registry
    <2>8. ~Among(x, HookCalls(h2, "lodel2_plugins_loaded"))
        BY <2>4, <2>6, <2>7
    <2> QED
        BY <2>1, <2>5, <2>8, OnceImported DEF x
<1>7. CASE LoadStep
    <2>1. CASE Import
        <3> DEFINE p == Info(Top.plugin)
                   r == ImportDyncode(hooks, p.imports \ copies)
                   cb == <<"plugin", Top.plugin>>
        <3>1. hooks' = RegisterEach(r, cb, p.hooks)
            BY <2>1 DEF Import
        <3>2. Top.plugin \in registered
            BY <2>1, BelowFacts DEF LoadInv, Frames, Import
        <3>3. p.imports \in SUBSET Copy /\ p.hooks \in Seq(Range(p.hooks))
            BY <3>2, RegisteredPlugin
        <3>4. Registry(r, copies \cup p.imports) /\ \A n : Once(x, HookCalls(r, n))
            BY <1>1, <3>3, RegistryExposed, OnceExposed DEF x
        <3>5. x # cb
            BY <1>2
        <3> HIDE DEF p, r, cb
        <3> QED
            BY <3>1, <3>3, <3>4, <3>5, OnceEach DEF Registry
    <2>2. CASE ~Import
        <3>1. UNCHANGED hooks \/ \E set : hooks' = ImportDyncode(hooks, set \ copies)
            BY <1>7, <2>2 DEF LoadStep, LoadNext, LoadDep, AlreadyLoaded, NotActivable, Circular,
               CheckDeps, ImportFails, Activate, Expose
        <3> QED
            BY <1>3, <1>4, <3>1
    <2> QED
        BY <2>1, <2>2
<1>8. CASE ExposeAgain \/ ImportLeapi
    BY <1>4, <1>8 DEF ExposeAgain, ImportLeapi, Expose
<1>9. CASE EndLoading \/ Bootstraped \/ RunCallback \/ UNCHANGED vars
    <2>1. UNCHANGED hooks
        BY <1>9 DEF EndLoading, Bootstraped, RunCallback, vars, plugVars
    <2> QED
        BY <1>3, <2>1
<1> QED
    BY <1>5, <1>6, <1>7, <1>8, <1>9 DEF Next, Done

\* How often a copy is initialised when the running call is over.  Plugins are
\* loaded once, and in a multisite server their hook is called twice.
Times(c) == inits[c] + (IF Among(Initialises(c), running) THEN 1 ELSE 0)
TimesInv == \A c \in Copy :
    /\ Once(Initialises(c), running)
    /\ Times(c) <= 2
    /\ stage = "loaded" => Times(c) <= 1

\* The first callback is not behind itself.
LEMMA OnceFirst ==
    ASSUME NEW s, Proper(s), s # << >>, NEW x, Once(x, s)
    PROVE  Once(x, Tail(s)) /\ (Head(s).cb = x => ~Among(x, Tail(s)))
<1> DEFINE n == Len(s)
           t == Tail(s)
           h == Head(s)
<1>1. PICK S : s \in Seq(S)
    BY DEF Proper
<1>2. /\ n \in Nat \ {0} /\ h = s[1] /\ Len(t) = n - 1
      /\ \A i \in 1..(n - 1) : t[i] = s[i + 1]
    BY <1>1, HeadTailProperties
<1> HIDE DEF n, t, h
<1>3. /\ 1 \in 1..n /\ \A i \in 1..(n - 1) : i + 1 \in 1..n /\ i + 1 # 1
      /\ \A i, k \in 1..(n - 1) : i + 1 = k + 1 => i = k
    BY <1>2
<1>4. Once(x, t)
    BY <1>2, <1>3 DEF Once, n
<1>5. h.cb = x => ~Among(x, t)
    BY <1>2, <1>3 DEF Once, Among, n
<1> QED
    BY <1>4, <1>5 DEF t, h

\* A callback of the running call, as to the initialisation of a copy.
LEMMA TimesRun ==
    ASSUME HooksInv, RunInv, TimesInv, RunCallback, ~Aborted, NEW c \in Copy
    PROVE  Once(Initialises(c), running') /\ Times(c)' <= Times(c) /\ stage' = stage
<1> DEFINE x == Initialises(c)
           cb == Head(running).cb
           rest == Tail(running)
<1>1. running # << >> /\ PastLoading /\ CallsFine(running) /\ Once(x, running)
    BY DEF RunCallback, RunInv, TimesInv
<1>2. /\ Proper(rest) /\ Once(x, rest) /\ (cb = x => ~Among(x, rest))
      /\ \A d : Among(d, running) <=> d = cb \/ Among(d, rest)
    BY <1>1, FirstCallback, OnceFirst DEF CallsFine
<1>3. inits \in [Copy -> Nat] /\ x[1] = "init_datasources" /\ x[2] = c
    BY DEF RunInv, Initialises
<1>4. CASE cb[1] = "init_datasources"
    <2>1. /\ inits' = [inits EXCEPT ![cb[2]] = @ + 1] /\ stage' = stage
          /\ running' = OnCopy(HookCalls(hooks, "lodel2_dyncode_loaded"), cb[2]) \o rest
        BY <1>4, Aborting DEF RunCallback
    <2>2. PICK d \in Copy : cb = Initialises(d)
        BY <1>1, <1>2, <1>4 DEF CallsFine, Initialises
    <2>3. cb[2] = d
        BY <2>2 DEF Initialises
    <2> DEFINE calls == HookCalls(hooks, "lodel2_dyncode_loaded")
               onc == OnCopy(calls, d)
    <2>4. Proper(calls) /\ ~Among(x, calls)
        BY <1>3, ProperCalls DEF HooksInv, Registry
    <2> HIDE DEF calls
    <2>5. Proper(onc) /\ ~Among(x, onc)
        <3>1. x # <<"custom_methods", d>>
            BY <1>3
        <3> QED
            BY <2>4, <3>1, OnCopyCalls
    <2>6. running' = onc \o rest
        BY <2>1, <2>3 DEF calls
    <2> HIDE DEF onc, cb, rest, x
    <2>7. Once(x, running') /\ (Among(x, running') <=> Among(x, rest))
        BY <1>2, <2>5, <2>6, JoinedCalls, OnceJoined, OnceAbsent
    <2>8. CASE d = c
        <3>1. cb = x /\ inits'[c] = inits[c] + 1
            BY <1>3, <2>1, <2>2, <2>3, <2>8 DEF x
        <3>2. Among(x, running) /\ ~Among(x, running')
            BY <1>2, <2>7, <3>1
        <3>3. Times(c) = inits[c] + 1 /\ Times(c)' = inits[c] + 1
            BY <1>3, <3>1, <3>2 DEF Times, x
        <3> QED
            BY <1>3, <2>1, <2>7, <3>3 DEF x
    <2>9. CASE d # c
        <3>1. cb # x /\ inits'[c] = inits[c]
            BY <1>3, <2>1, <2>3, <2>9
        <3>2. Among(x, running) <=> Among(x, running')
            BY <1>2, <2>7, <3>1
        <3>3. Times(c)' = Times(c) /\ Times(c) \in Nat
            BY <1>3, <3>1, <3>2 DEF Times, x
        <3> QED
            BY <2>1, <2>7, <3>3 DEF x
    <2> QED
        BY <2>8, <2>9
<1>5. CASE cb[1] # "init_datasources"
    <2>1. running' = rest /\ UNCHANGED <<stage, inits>>
        BY <1>5, Aborting DEF RunCallback
    <2>2. cb # x
        BY <1>3, <1>5
    <2> HIDE DEF x, cb, rest
    <2>3. Among(x, running) <=> Among(x, running')
        BY <1>2, <2>1, <2>2
    <2>4. Times(c)' = Times(c) /\ Times(c) \in Nat
        BY <1>3, <2>1, <2>3 DEF Times, x
    <2> QED
        BY <1>2, <2>1, <2>4 DEF x
<1> QED
    BY <1>4, <1>5

\* Every step keeps the number.
LEMMA TimesStep ==
    ASSUME HooksInv, HooksInv', OnceInv', RunInv, TimesInv, [Next]_vars
    PROVE  TimesInv'
<1> SUFFICES ASSUME NEW c \in Copy
             PROVE  /\ Once(Initialises(c), running') /\ Times(c)' <= 2
                    /\ stage' = "loaded" => Times(c)' <= 1
    BY DEF TimesInv
<1>1. /\ Once(Initialises(c), running) /\ Times(c) <= 2
      /\ stage = "loaded" => Times(c) <= 1
      /\ inits[c] \in Nat /\ Times(c) \in Nat /\ inits[c] <= Times(c)
    BY DEF TimesInv, RunInv, Times
<1>2. CASE ~PastLoading /\ ~PastLoading' /\ UNCHANGED hookVars
    BY <1>1, <1>2 DEF hookVars, PastLoading, Times
<1>3. CASE Begins
    <2>1. /\ running = << >> /\ inits'[c] = inits[c]
          /\ stage \in {"loading", "loaded", "exposed", "bootstraped"}
          /\ stage = "loading" => stage' = "loaded"
                /\ running' = HookCalls(hooks', "lodel2_plugins_loaded")
          /\ stage' = "exposed" => running' = HookCalls(hooks', "lodel2_plugins_loaded")
          /\ stage \in {"exposed", "bootstraped"} \/ (stage = "loaded" /\ site.mode # "multi") =>
                ~Among(Initialises(c), running')
          /\ stage = "loaded" => (stage' = "exposed" <=> site.mode = "multi")
        <3>1. Initialises(c)[1] = "init_datasources"
            BY DEF Initialises
        <3> QED
            BY <1>3, <3>1, CallBegun
    <2>2. Once(Initialises(c), HookCalls(hooks', "lodel2_plugins_loaded"))
        BY DEF OnceInv
    <2>3. Times(c)' = inits[c] + (IF Among(Initialises(c), running') THEN 1 ELSE 0)
        BY <2>1 DEF Times, Initialises
    <2>4. CASE stage = "loading"
        <3>1. inits[c] = 0
            BY <2>4 DEF RunInv
        <3> QED
            BY <2>1, <2>2, <2>3, <2>4, <3>1
    <2>5. CASE stage = "loaded" /\ site.mode = "multi"
        BY <1>1, <2>1, <2>2, <2>3, <2>5
    <2>6. CASE stage \in {"exposed", "bootstraped"} \/ (stage = "loaded" /\ site.mode # "multi")
        <3>1. Once(Initialises(c), running') /\ Times(c)' = inits[c]
            BY <1>1, <2>1, <2>3, <2>6, OnceAbsent
        <3>2. stage' # "loaded"
            BY <1>3, <2>6 DEF Begins, EndLoading, AllTried, ExposeAgain, Bootstraped, ImportLeapi
        <3> QED
            BY <1>1, <3>1, <3>2
    <2> QED
        BY <2>1, <2>4, <2>5, <2>6
<1>4. CASE RunCallback
    <2>1. CASE Aborted
        <3>1. running' = << >> /\ inits'[c] = inits[c] /\ stage' # "loaded"
            BY <2>1 DEF Aborted
        <3>2. ~Among(Initialises(c), running')
            BY <3>1, NoCalls
        <3>3. Times(c)' = inits[c]
            BY <1>1, <3>1, <3>2 DEF Times, Initialises
        <3> QED
            BY <1>1, <3>1, <3>2, <3>3, OnceAbsent
    <2>2. CASE ~Aborted
        <3>1. Once(Initialises(c), running') /\ Times(c)' <= Times(c) /\ stage' = stage
            BY <1>4, <2>2, TimesRun
        <3>2. Times(c)' \in Nat
            <4>1. inits'[c] \in Nat
                BY <1>4, RunStep DEF RunInv
            <4> QED
                BY <4>1 DEF Times
        <3> QED
            BY <1>1, <3>1, <3>2
    <2> QED
        BY <2>1, <2>2
<1>5. CASE UNCHANGED vars
    BY <1>1, <1>5 DEF vars, hookVars, Times
<1> QED
    BY <1>2, <1>3, <1>4, <1>5, KindOfStep
-----------------------------------------------------------------------------
(* The types.                                                              *)

\* The lists name plugins.
LEMMA ListNames ==
    ASSUME FoundInv, NEW t \in PluginTypes
    PROVE  \A x : Has(Listed(t), x) => x \in Name
<1> DEFINE o == ListOption(t)
           given == {f \in Range(site.files) : o \in DOMAIN f}
           g == CHOOSE f \in given : TRUE
<1>1. ListValue(t) = IF given = {} THEN ListDefault(t) ELSE g[o]
    BY DEF ListValue
<1>2. given # {} => g[o] = None \/ g[o] \in Seq(Name)
    <2>1. given # {} => g \in Range(site.files) /\ o \in DOMAIN g
        OBVIOUS
    <2>2. o \in ListOptions
        BY ListTypes
    <2> QED
        BY <2>1, <2>2, SitesAssumption DEF FoundInv
<1>3. ListDefault(t) = None \/ ListDefault(t) \in Seq(Name)
    BY SettingsAssumption DEF ListDefault
<1> HIDE DEF given, g
<1>4. Listed(t) \in Seq(Name)
    BY <1>1, <1>2, <1>3 DEF Listed
<1> QED
    BY <1>4 DEF Has

Stages == {"files", "lists", "register", "settings", "loading", "loaded",
           "exposed", "bootstraped", "ready", "halfloaded", "halfstarted", "failed", "broken"}

TypeInv ==
    /\ stage \in Stages
    /\ registered \subseteq Name /\ plugins \in Seq(Name)
    /\ called \subseteq registered /\ errors \subseteq Error
    /\ started \in BOOLEAN

\* load_all is at plugins that are registered.
LEMMA TypesInLoading ==
    ASSUME LoadInv, TypeInv, LoadStep
    PROVE  stage' \in Stages /\ called' \subseteq registered /\ errors' \subseteq Error
<1>1. stack # << >> => Top.plugin \in registered /\ stack[1].plugin \in registered
    <2>1. stack # << >> => 1 \in 1..Len(stack) /\ \A i \in 1..Len(stack) : stack[i] \in Frames
        BY DEF LoadInv, SeqTypes
    <2> QED
        BY <2>1, BelowFacts DEF LoadInv, Frames
<1>2. stage' \in Stages
    BY DEF LoadStep, LoadNext, LoadDep, AlreadyLoaded, NotActivable, Circular, CheckDeps,
           Import, ImportFails, Raise, Break, Leave, TypeInv, Stages
<1>3. called' \subseteq registered
    <2>1. CASE CheckDeps
        BY <1>1, <2>1 DEF CheckDeps, TypeInv, MarkCalled
    <2>2. CASE ~CheckDeps
        <3>1. UNCHANGED called
            BY <2>2 DEF LoadStep, LoadNext, LoadDep, AlreadyLoaded, NotActivable, Circular,
                        Import, ImportFails, Raise, Break, Leave
        <3> QED
            BY <3>1 DEF TypeInv
    <2> QED
        BY <2>1, <2>2
<1>4. stack # << >> => \A e \in [plugin : {stack[1].plugin}, kind : {"dependencies"}] : e \in Error
    BY <1>1 DEF Error, TypeInv
<1>5. errors' \subseteq Error
    <2>1. CASE CheckDeps
        BY <1>4, <2>1 DEF CheckDeps, TypeInv
    <2>2. ASSUME NEW kind \in {"inactive", "circular", "import"}, stack # << >>, Raise(kind)
          PROVE  errors' \subseteq Error
        <3>1. [plugin |-> stack[1].plugin, kind |-> kind] \in Error
            BY <1>1, <2>2 DEF Error, TypeInv
        <3> QED
            BY <2>2, <3>1 DEF Raise, TypeInv
    <2>3. CASE ~CheckDeps
        <3>1. \/ UNCHANGED errors
              \/ /\ stack # << >>
                 /\ \E kind \in {"inactive", "circular", "import"} : Raise(kind)
            BY <2>3 DEF LoadStep, LoadNext, LoadDep, AlreadyLoaded, NotActivable, Circular,
                        Import, ImportFails, Break, Leave
        <3> QED
            BY <2>2, <3>1 DEF TypeInv
    <2> QED
        BY <2>1, <2>3
<1> QED
    BY <1>2, <1>3, <1>5

\* What is read of the lists, and registered, are names.
LEMMA NamesRead ==
    ASSUME FoundInv, FoundInv', ReadInv, ReadInv', TypeInv, SettingsStep
    PROVE  registered' \subseteq Name /\ plugins' \in Seq(Name)
<1>1. ASSUME NEW t \in PluginTypes, ReadList(t)
      PROVE  UNCHANGED registered /\ plugins' \in Seq(Name)
    <2>1. stage' \in {"lists", "register"} /\ UNCHANGED <<site, registered>>
        BY <1>1 DEF ReadList, plugVars
    <2>2. IsListOf(plugins, ReadTypes)'
        BY <2>1 DEF ReadInv
    <2>3. /\ Proper(plugins')
          /\ \A x : Has(plugins', x) => \E u \in PluginTypes : Has(Listed(u), x)
        BY <2>1, <2>2, ListsStay DEF IsListOf, ReadTypes
    <2>4. PICK S : plugins' \in Seq(S)
        BY <2>3 DEF Proper
    <2>5. \A i \in 1..Len(plugins') : plugins'[i] \in Name
        BY <2>3, ListNames DEF Has
    <2> QED
        BY <2>1, <2>4, <2>5
<1>2. ASSUME RegisterNext PROVE registered' \subseteq Name /\ UNCHANGED plugins
    <2> DEFINE k == Cardinality(registered)
    <2>1. /\ stage = "register" /\ k < Len(plugins) /\ UNCHANGED plugins
          /\ registered' \subseteq registered \cup {plugins[k + 1]}
        BY <1>2 DEF RegisterNext, setVars
    <2>2. k \in Nat
        BY <2>1 DEF ReadInv, FirstRegistered
    <2> HIDE DEF k
    <2>3. plugins[k + 1] \in Name
        BY <2>1, <2>2 DEF TypeInv
    <2> QED
        BY <2>1, <2>3 DEF TypeInv
<1>3. ASSUME ReadFiles \/ Populate PROVE registered' = registered /\ plugins' \in {plugins, << >>}
    BY <1>3 DEF ReadFiles, Populate, plugVars
<1>4. registered \subseteq Name /\ plugins \in Seq(Name) /\ << >> \in Seq(Name)
    BY DEF TypeInv
<1> QED
    BY <1>1, <1>2, <1>3, <1>4 DEF SettingsStep

\* Every step keeps the types.
LEMMA TypesStep ==
    ASSUME FoundInv, FoundInv', LoadInv, NotYet, RunInv, ReadInv, ReadInv', TypeInv, [Next]_vars
    PROVE  TypeInv'
<1>1. CASE SettingsStep
    <2>1. registered' \subseteq Name /\ plugins' \in Seq(Name)
        BY <1>1, NamesRead
    <2>2. /\ UNCHANGED <<called, errors>> /\ registered \subseteq registered'
          /\ stage' \in Stages
        BY <1>1 DEF SettingsStep, ReadFiles, RegisterNext, Populate, ReadList, plugVars, Fail,
                    TypeInv, Stages
    <2>3. started' \in BOOLEAN
        BY <1>1 DEF SettingsStep, ReadFiles, RegisterNext, Populate, ReadList, setVars, TypeInv
    <2> QED
        BY <2>1, <2>2, <2>3 DEF TypeInv
<1>2. CASE LoadStep /\ UNCHANGED <<setVars, hookVars>>
    <2>1. UNCHANGED <<registered, plugins, started>>
        BY <1>2 DEF LoadStep, LoadNext, LoadDep, AlreadyLoaded, NotActivable, Circular, CheckDeps,
                    Import, ImportFails, Raise, Break, Leave, setVars
    <2> QED
        BY <1>2, <2>1, TypesInLoading DEF TypeInv
<1>3. CASE StartHooks
    BY <1>3 DEF StartHooks, setVars, TypeInv, Stages
<1>4. CASE EndLoading \/ ExposeAgain \/ Bootstraped \/ ImportLeapi \/ RunCallback
    BY <1>4 DEF EndLoading, ExposeAgain, Bootstraped, ImportLeapi, RunCallback, Aborts, Fail,
                plugVars, setVars, TypeInv, Stages
<1>5. CASE UNCHANGED vars
    BY <1>5 DEF vars, plugVars, setVars, TypeInv
<1> QED
    BY <1>1, <1>2, <1>3, <1>4, <1>5 DEF Next, Done

\* The state of a boot is what its variables are meant for: in particular the
\* datasources of no copy are initialised more than twice, and the plugins that
\* are loaded are among those that were registered.
THEOREM BootTypes == Spec => []TypeOK
<1>1. Init => OnceInv /\ TimesInv /\ TypeInv
    <2> SUFFICES ASSUME Init PROVE OnceInv /\ TimesInv /\ TypeInv
        OBVIOUS
    <2>1. OnceInv
        BY NoCalls, OnceAbsent DEF Init, OnceInv, HookCalls
    <2>2. TimesInv
        BY NoCalls, OnceAbsent DEF Init, TimesInv, Times
    <2>3. TypeInv
        <3>1. /\ stage = "files" /\ registered = {} /\ plugins = << >> /\ called = {}
              /\ errors = {} /\ started = FALSE
            BY DEF Init
        <3>2. << >> \in Seq(Name)
            OBVIOUS
        <3> QED
            BY <3>1, <3>2 DEF TypeInv, Stages
    <2> QED
        BY <2>1, <2>2, <2>3
<1>2. /\ BootInv /\ BootInv' /\ ReadInv /\ ReadInv' /\ OnceInv /\ TimesInv /\ TypeInv
      /\ [Next]_vars
      => OnceInv' /\ TimesInv' /\ TypeInv'
    <2> SUFFICES ASSUME BootInv, BootInv', ReadInv, ReadInv', OnceInv, TimesInv, TypeInv,
                        [Next]_vars
                 PROVE  OnceInv' /\ TimesInv' /\ TypeInv'
        OBVIOUS
    <2>1. OnceInv'
        BY OnceStep DEF BootInv, AllInv
    <2>2. TimesInv'
        BY <2>1, TimesStep DEF BootInv
    <2>3. TypeInv'
        BY TypesStep DEF BootInv, AllInv
    <2> QED
        BY <2>1, <2>2, <2>3
<1>3. BootInv /\ TimesInv /\ TypeInv => TypeOK
    <2> SUFFICES ASSUME BootInv, TimesInv, TypeInv PROVE TypeOK
        OBVIOUS
    <2>1. copies \subseteq Copy
        BY DEF BootInv, HooksInv, Registry
    <2>2. Loaded \subseteq called
        BY LoadedByIndex DEF BootInv, AllInv, LoadInv, OrderInv, IsLoaded
    <2>3. stack \in Seq(Frame)
        <3>1. Frames \subseteq Frame
            BY DEF Frames, Frame, TypeInv
        <3>2. stack \in Seq(Frames)
            BY DEF BootInv, AllInv, LoadInv, SeqTypes
        <3> QED
            BY <3>1, <3>2
    <2>4. inits \in [Copy -> 0..2]
        <3>1. inits \in [Copy -> Nat]
            BY DEF BootInv, RunInv
        <3>2. \A c \in Copy : inits[c] \in 0..2
            BY <3>1 DEF TimesInv, Times
        <3> QED
            BY <3>1, <3>2
    <2> QED
        BY <2>1, <2>2, <2>3, <2>4 DEF TypeOK, TypeInv, Stages
<1> QED
    BY <1>1, <1>2, <1>3, BootInvariant, ReadInvariant, PTL DEF Spec
=============================================================================
