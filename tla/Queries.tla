------------------------------ MODULE Queries -------------------------------
(***************************************************************************)
(* What a query asks and what the MongoDB datasource answers               *)
(* (leapi/query.py, mongodb_datasource/datasource.py).                     *)
(*                                                                         *)
(* An object has its class (the classname field, cls), its identifier uid, *)
(* the fields n and m, the derived field d, made of both, and the          *)
(* references r, to objects of the same datasource, and x, to objects of   *)
(* another.  A filter compares a field, or the field sub of the objects a  *)
(* reference leads to, with a value.                                       *)
(***************************************************************************)
EXTENDS Integers, FiniteSets, SequencesExt

CONSTANTS
    None,
    Concrete,   \* the concrete classes; all are child classes of Base
    RefFields,  \* the fields, but uid, of the classes that r and x lead to
    Spelled     \* the values that are names of fields or operators, and which

Base == "Base"
Classes == Concrete \cup {Base}
IsAbstract(c) == c = Base
Children(c) == IF IsAbstract(c) THEN Concrete ELSE {c}

\* dict.update.
Updated(dict, by) ==
    [k \in DOMAIN dict \cup DOMAIN by |-> IF k \in DOMAIN by THEN by[k] ELSE dict[k]]

References == {"r", "x"}
\* Only a concrete class has the classname field.
Fieldnames(c) == {"uid", "n", "m", "d"} \cup References
                 \cup (IF IsAbstract(c) THEN {} ELSE {"cls"})
-----------------------------------------------------------------------------
(* LeFilteredQuery: preparing the filters.                                 *)

\* _check_field, _prepare_filters, _prepare_relational_fields: the filters
\* that raise.
WellFormed(c, f) ==
    /\ f.field \in Fieldnames(c)
    /\ f.sub # None => f.field \in References /\ f.sub \in RefFields \cup {"uid"}

\* set_query_filter: a comparison with the identifier of the referenced
\* objects is one with the reference itself, put after the others.
Plain(f) == f.field \notin References
OnUid(f) == f.field \in References /\ f.sub \in {None, "uid"}
Simple(f) == [field |-> f.field, op |-> f.op, val |-> f.val]
AsStd(fs, those) ==
    LET std[i \in 0..Len(fs)] ==
            IF i = 0 THEN << >>
            ELSE IF fs[i] \in those THEN Append(std[i - 1], Simple(fs[i]))
            ELSE std[i - 1]
    IN  std[Len(fs)]

\* The loop that removes duplicates keeps the parts of the filters it has
\* seen, not the filters, and goes through the list it removes from.  A value
\* is a text like any other: it may be a field or an operator of a filter.
ValuePart(f) ==
    CASE f.field = "cls"        -> <<"text", f.val>>
      [] f.field # "cls" /\ f.val \in DOMAIN Spelled -> <<"text", Spelled[f.val]>>
      [] OTHER                  -> <<"value", f.val>>
Parts(f) == {<<"text", f.field>>, <<"text", f.op>>, ValuePart(f)}
DuplicateOfFirst(left, i, seen) == i > 1
Duplicate(left, i, seen) == Parts(left[i]) \subseteq seen
Dedup(fs) ==
    LET after[i \in 0..Len(fs)] ==
            IF i = 0 THEN [left |-> fs, seen |-> {}]
            ELSE LET s == after[i - 1]
                 IN  IF i > Len(s.left) THEN s
                     ELSE [left |-> IF Duplicate(s.left, i, s.seen)
                                    THEN RemoveAt(s.left, i) ELSE s.left,
                           seen |-> s.seen \cup Parts(s.left[i])]
    IN  after[Len(fs)].left

\* The filters a query is left with, those on other fields of referenced
\* objects aside, which either stay (r) or make a subquery (x).
StdFilters(fs) ==
    Dedup(AsStd(fs, {f \in ToSet(fs) : Plain(f)}) \o AsStd(fs, {f \in ToSet(fs) : OnUid(f)}))
Relational(fs) == {fs[i] : i \in {i \in DOMAIN fs : ~Plain(fs[i]) /\ ~OnUid(fs[i])}}

\* A subquery leaves a filter with the operator ' in ', which the datasource
\* has not, spaces included; a relational filter has it call find with the
\* keywords of another version of pymongo than select.
Unanswerable(fs) == Relational(fs) # {}
-----------------------------------------------------------------------------
(* MongoDbDatasource.select.                                               *)

\* __filters2mongo: an equality replaces all other conditions on the field,
\* a second condition with the same operator the first.
Replaced(fs, i) ==
    \E j \in DOMAIN fs : fs[j].field = fs[i].field /\
        \/ fs[j].op = "=" /\ fs[i].op # "="
        \/ fs[j].op = fs[i].op /\ j > i
Conditions(fs) == {fs[i] : i \in {i \in DOMAIN fs : ~Replaced(fs, i)}}

Holds(o, f) ==
    LET v == o[f.field]
    IN  CASE f.op = "="  -> v = f.val
          [] f.op = "!=" -> v # f.val
          [] f.op = "<=" -> v <= f.val
Matches(o, fs) == \A f \in Conditions(fs) : Holds(o, f)

\* Objects in the order of their identifiers, as order=[(uid, 'ASC')] asks.
ByUid(objs) ==
    CHOOSE s \in Injection(1..Cardinality(objs), objs) :
        \A i, j \in DOMAIN s : i < j => s[i].uid <= s[j].uid

Skip(seq, n) == SubSeq(seq, n + 1, Len(seq))
Limited(seq, n) == IF n = None THEN seq ELSE SubSeq(seq, 1, IF n < Len(seq) THEN n ELSE Len(seq))

\* The collection of a concrete class.
Find(objs, c, fs) == {o \in objs : o.cls = c /\ Matches(o, fs)}

\* What a selection without page and order, and a removal, go through.
FindAll(objs, c, fs) == UNION {Find(objs, k, fs) : k \in Children(c)}

LimitFirst(objs, c, fs, limit, offset) ==
    Skip(Limited(ByUid(Find(objs, c, fs)), limit), offset)
SelectConcrete(objs, c, fs, limit, offset) ==
    Limited(Skip(ByUid(Find(objs, c, fs)), offset), limit)

\* The selections of the child classes have the limit, not the offset.  What
\* they return is sorted and cut again; a page that is not full loses one more.
Merged(objs, fs, limit) ==
    ByUid(UNION {ToSet(SelectConcrete(objs, c, fs, limit, 0)) : c \in Concrete})
PageLength(n, limit, offset) ==
    IF limit + offset > n THEN n - offset - 1 ELSE limit
Cut(all, limit, offset) ==
    CASE offset > Len(all) -> << >>
      [] offset <= Len(all) /\ limit = None -> all
      [] OTHER -> LET n == PageLength(Len(all), limit, offset)
                  IN  SubSeq(all, offset + 1, offset + n)

Select(objs, c, fs, limit, offset) ==
    IF IsAbstract(c) THEN Cut(Merged(objs, fs, limit), limit, offset)
    ELSE SelectConcrete(objs, c, fs, limit, offset)

\* new_numeric_id: one more than the first of the descending order.
NewNumericId(objs) ==
    LET uids == {o.uid : o \in objs}
    IN  IF uids = {} THEN 1 ELSE 1 + CHOOSE u \in uids : \A v \in uids : u >= v
-----------------------------------------------------------------------------
(* What a caller of the API expects of a query.                            *)

Asked(objs, c, fs) ==
    {o \in objs : o.cls \in Children(c) /\ \A i \in DOMAIN fs : Holds(o, fs[i])}
FieldsDiffer(fs) == \A i, j \in DOMAIN fs : i # j => fs[i].field # fs[j].field

\* The other filters have among them the field, the operator and the value of
\* one: title = 'author' and author = 'title'.
Masked(fs) ==
    \E f \in ToSet(fs) : Parts(f) \subseteq UNION {Parts(g) : g \in ToSet(fs) \ {f}}
=============================================================================
