--------------------------- MODULE EditorialModel ---------------------------
(***************************************************************************)
(* An editorial model from the calls that build it to the dynamic code     *)
(* (editorial_model/model.py, components.py, translator/xmlfile.py and     *)
(* leapi/lefactory.py).                                                    *)
(*                                                                         *)
(* Classes and groups are objects, each made with a uid, and refer to each *)
(* other as objects.  Nothing refuses a uid that is in use: the test of    *)
(* add_class and of add_group looks for it in a list of objects.  The      *)
(* object made last takes the place of the one that had the uid, and what  *)
(* refers to the old one still does.  The first object of a uid is called  *)
(* by it here.                                                             *)
(*                                                                         *)
(* A model is a value with the objects its dictionaries hold (names, the   *)
(* classes, and groups, each in their order) and what there is to know of  *)
(* every object made: of a class its parents, its flags, its group and its *)
(* own fields; of a group the groups it requires and its components,       *)
(* <<class>> and <<class, field>>.  A field has its data handler, its group, the     *)
(* classes its values may be of, its back reference, of two names, and its *)
(* options, whose values are only told apart by what the XML translator    *)
(* makes of them.  A model is built by a sequence of calls, here records.  *)
(***************************************************************************)
EXTENDS Naturals, FiniteSets, SequencesExt

CONSTANTS
    None,
    Uid(_),       \* the uid an object is made with
    Scripts,      \* the sequences of calls that build the models
    NewClasses,   \* the calls of new_class to choose from
    NewFields,    \* the calls of new_field to choose from
    MaxClasses,   \* bound: classes made by new_class
    MaxFields,    \* bound: fields made by new_field, classname aside
    MaxShuffle    \* bound: classes whose dictionary is taken in every order

VARIABLES
    model,     \* the EditorialModel
    todo,      \* the calls of the script, or the XML elements, that are left
    before,    \* the model that was saved as XML, EmptyModel until then
    stage,     \* where the model is on its way to the dynamic code
    groups,    \* the groups the settings activate
    active,    \* the active classes
    code       \* the classes of the generated module, in its order

vars == <<model, todo, before, stage, groups, active, code>>

Classname == "classname"
EmptyModel == [names |-> << >>, groups |-> << >>,
               classes |-> << >>, require |-> << >>, comps |-> << >>]
-----------------------------------------------------------------------------
(* Components.                                                             *)

BaseType == [uniqid |-> "int", integer |-> "int", datetime |-> "datetime",
             varchar |-> "char", concat |-> "char", text |-> "text", bool |-> "bool",
             password |-> "password", varcharlist |-> "varchar",
             link |-> "ref", list |-> "ref", set |-> "ref", hierarch |-> "ref",
             leobjectsubclassidentifier |-> "varchar"]

Groups(m) == DOMAIN m.require

\* No class or group of the model has been made under a uid that was in use.
Whole(m) == \A x \in DOMAIN m.classes \cup Groups(m) : Uid(x) = x
\* Objects that are no longer, or never were, in the dictionary of classes.
Replaced(m) == DOMAIN m.classes \ Range(m.names)

\* dict.update, and dict.setdefault for each of some keys.
Updated(dict, by) ==
    [k \in DOMAIN dict \cup DOMAIN by |-> IF k \in DOMAIN by THEN by[k] ELSE dict[k]]
Completed(dict, keys, value) ==
    [k \in DOMAIN dict \cup keys |-> IF k \in DOMAIN dict THEN dict[k] ELSE value]
Entry(key, value) == [k \in {key} |-> value]

\* EmGroup.add_components; a component without group is in none.
AddComponent(m, g, x) ==
    IF g = None THEN m ELSE [m EXCEPT !.comps[g] = @ \cup {x}]

\* EmClass.parents_recc; all that is above each node of a graph, and the nodes
\* from which a recursion never ends.
Parents(m) == [c \in DOMAIN m.classes |-> Range(m.classes[c].parents)]
Above(next) ==
    LET all[x \in DOMAIN next] == next[x] \cup UNION {all[y] : y \in next[x]} IN all
Endless(next, x) ==
    LET inner == {y \in DOMAIN next : next[y] # {} /\ \E z \in DOMAIN next : y \in next[z]}
    IN  \E S \in SUBSET (inner \cup {x}) : x \in S /\ \A y \in S : next[y] \cap S # {}
ParentsRecc(m) == Above(Parents(m))

\* EmClass.__all_fields: who defines each field that a class shows, itself or
\* else the last of its parents that shows the field.
AllFields(m) ==
    LET all[c \in DOMAIN m.classes] ==
            LET ps == m.classes[c].parents
                own == DOMAIN m.classes[c].own
            IN  [f \in own \cup UNION {DOMAIN all[p] : p \in Range(ps)} |->
                    IF f \in own THEN c
                    ELSE all[ps[Max({i \in DOMAIN ps : f \in DOMAIN all[ps[i]]})]][f]]
    IN  all

\* EmField, EmClass.add_field: a field twice, or one that overrides a field of
\* a parent with another type of data, is refused.
CanAdd(m, c, f, handler) ==
    LET shown == AllFields(m)[c]
    IN  /\ f \notin DOMAIN m.classes[c].own
        /\ f \in DOMAIN shown =>
                BaseType[handler] = BaseType[m.classes[shown[f]].own[f].handler]

PutFields(m, c, fields) ==
    [m EXCEPT !.classes[c].own = Updated(@, fields),
              !.comps = [g \in DOMAIN @ |->
                @[g] \cup {<<c, f>> : f \in {f \in DOMAIN fields : fields[f].group = g}}]]

IdField(g) == [handler |-> "leobjectsubclassidentifier", group |-> g, refs |-> {},
               back |-> None, opts |-> [internal |-> "True"]]

\* A value is put in a dictionary: in the place of the one of its uid, or last.
Place(names, c) ==
    IF \E i \in DOMAIN names : Uid(names[i]) = Uid(c)
    THEN [i \in DOMAIN names |-> IF Uid(names[i]) = Uid(c) THEN c ELSE names[i]]
    ELSE Append(names, c)

\* EmClass.__init__ and EditorialModel.add_class.
Common(class) == IF class.abstract THEN << >> ELSE Entry(Classname, IdField(class.group))
PutClass(m, c, class) ==
    LET m1 == [m EXCEPT !.names = Place(@, c),
                        !.classes = Updated(@, Entry(c, [class EXCEPT !.own = << >>]))]
    IN  PutFields(AddComponent(m1, class.group, <<c>>), c, Common(class))

\* EmGroup.__init__ and EditorialModel.add_group.
PutGroup(m, g, depends) ==
    [m EXCEPT !.groups = Place(@, g),
              !.require = Updated(@, Entry(g, depends)), !.comps = Updated(@, Entry(g, {}))]

\* EmGroup.add_dependency: one group of each uid, and none that requires a
\* group of the uid g itself.
Added(depends) ==
    {depends[i] : i \in {i \in DOMAIN depends :
                            \A j \in 1..(i - 1) : Uid(depends[j]) # Uid(depends[i])}}
Circular(m, g, d) == \E h \in Above(m.require)[d] : Uid(h) = Uid(g)

\* A call of the script that builds a model: new_group, new_class, new_field.
\* What it names are objects of the model, the ones that were replaced included.
Fresh(objects, x) == x \notin objects /\ Uid(x) \in objects \cup {x}
Accepts(m, o) ==
    CASE o.call = "group" -> /\ Fresh(Groups(m), o.made)
                             /\ Range(o.depends) \subseteq Groups(m)
                             /\ \A d \in Added(o.depends) : ~Circular(m, o.made, d)
      [] o.call = "class" -> /\ Fresh(DOMAIN m.classes, o.made)
                             /\ Range(o.class.parents) \subseteq DOMAIN m.classes
                             /\ o.class.group \in Groups(m) \cup {None}
      [] o.call = "field" -> /\ o.of \in DOMAIN m.classes
                             /\ o.field.refs \subseteq DOMAIN m.classes
                             /\ o.field.group \in Groups(m) \cup {None}
                             /\ CanAdd(m, o.of, o.uid, o.field.handler)
Do(m, o) ==
    CASE o.call = "group" -> PutGroup(m, o.made, Added(o.depends))
      [] o.call = "class" -> PutClass(m, o.made, o.class)
      [] o.call = "field" -> PutFields(m, o.of, Entry(o.uid, o.field))
-----------------------------------------------------------------------------
(* The XML translator.                                                     *)

\* write_emclass_xml and write_emgroup_xml: objects are written as their uids.
UidsOf(objects) == {Uid(x) : x \in objects}
WrittenField(field) == [field EXCEPT !.refs = UidsOf(field.refs), !.group = Uid(field.group)]
WrittenClass(m, c) ==
    LET class == m.classes[c]
    IN  [class EXCEPT !.parents = [i \in DOMAIN class.parents |-> Uid(class.parents[i])],
                      !.group = Uid(class.group),
                      !.own = [f \in DOMAIN class.own |-> WrittenField(class.own[f])]]
WrittenComps(m, g) == {[x EXCEPT ![1] = Uid(x[1])] : x \in m.comps[g]}

\* Classes and groups that are named before they are described.
Placeholder == [parents |-> << >>, abstract |-> FALSE, pure |-> FALSE, group |-> None,
                own |-> Entry(Classname, IdField(None))]
PutMissing(m, uids) ==
    [m EXCEPT !.names = @ \o SetToSeq(uids \ DOMAIN m.classes),
              !.classes = Completed(@, uids, Placeholder)]
PutMissingGroups(m, gs) ==
    [m EXCEPT !.require = Completed(@, gs \ {None}, {}),
              !.comps = Completed(@, gs \ {None}, {}),
              !.groups = @ \o SetToSeq((gs \ {None}) \ Groups(m))]

\* write_datahandler_xml and load_dhdl_options_xml: a list is written as one
\* string, what is neither a string nor a boolean as nothing.
ASSUME NoneAssumption == None \notin {"list", "number"}
Translated(v) == CASE v = "list" -> "joined" [] v = "number" -> None [] OTHER -> v
ReadField(field) ==
    [field EXCEPT !.opts = [o \in DOMAIN field.opts |-> Translated(field.opts[o])]]

\* load_class_xml: a class that was named keeps its fields and the groups it
\* is in.
DescribedOnce(m, c, class) == m
Described(m, c, class) ==
    [m EXCEPT !.classes[c] = [class EXCEPT !.own = m.classes[c].own]]
LoadHead(m, c, class) ==
    LET m1 == PutMissingGroups(PutMissing(m, Range(class.parents)), {class.group})
    IN  IF c \in DOMAIN m1.classes THEN Described(m1, c, class) ELSE PutClass(m1, c, class)

\* load_field_xml for each of the fields, and the test for a field of this name
\* that the class shows.  One that is not kept stays in its group, of no class.
FieldsNamed(m, fields) ==
    PutMissingGroups(PutMissing(m, UNION {fields[f].refs : f \in DOMAIN fields}),
                     {fields[f].group : f \in DOMAIN fields})
LoadFields(m, c, fields) ==
    LET m1 == FieldsNamed(m, fields)
        kept == {f \in DOMAIN fields : f \notin DOMAIN AllFields(m1)[c]}
    IN  PutFields(m1, c, [f \in kept |-> ReadField(fields[f])])
LoadClass(m, c, class) == LoadFields(LoadHead(m, c, class), c, class.own)
\* The fields of the class are listed for each field that is read.
ReadsClass(m, c, class) ==
    DOMAIN class.own # {} => ~Endless(Parents(LoadHead(m, c, class)), c)

\* load_group_xml: its fields are looked up among those the class shows now.
Found(m, x) == IF Len(x) = 1 THEN x ELSE <<AllFields(m)[x[1]][x[2]], x[2]>>
LoadGroup(m, g, depends, comps) ==
    LET m1 == PutMissingGroups(m, depends \cup {g})
    IN  [m1 EXCEPT !.require[g] = @ \cup depends,
                   !.comps[g] = @ \cup {Found(m1, x) : x \in comps}]

\* A field has to be there, and a group is not to require itself.
ReadsGroup(m, g, depends, comps) ==
    LET m1 == PutMissingGroups(m, depends \cup {g})
    IN  /\ \A x \in comps : Len(x) = 2 => /\ ~Endless(Parents(m1), x[1])
                                         /\ x[2] \in DOMAIN AllFields(m1)[x[1]]
        /\ \A d \in depends \ m1.require[g] :
                ~Endless(m1.require, d) /\ ~Circular(m1, g, d)

\* The orders a dictionary of classes may have.
Orders(names) ==
    IF Len(names) <= MaxShuffle THEN SetToSeqs(Range(names)) ELSE {names, Reverse(names)}
-----------------------------------------------------------------------------
(* EditorialModel.__set_actives and the dynamic code.                      *)

\* The classes of some groups, of one uid the one that is found last.
InGroups(m, gs) == {c \in DOMAIN m.classes : \E g \in gs : <<c>> \in m.comps[g]}
ActiveClasses(m, gs) ==
    LET found == InGroups(m, gs)
        others(c) == {d \in found \ {c} : Uid(d) = Uid(c)}
        lost == SUBSET {c \in found : others(c) # {}}
    IN  {found \ S : S \in {S \in lost : \A c \in found :
                                c \in S <=> others(c) \ S # {}}}

\* EmClass._set_active_fields, of the active classes only.
KeepAllFields(m, gs, classes) == m
KeepActiveFields(m, gs, classes) ==
    LET comps == UNION {m.comps[g] : g \in gs}
    IN  [m EXCEPT !.classes = [c \in DOMAIN m.classes |->
            IF c \in classes
            THEN [m.classes[c] EXCEPT !.own =
                    [f \in {f \in DOMAIN @ : <<c, f>> \in comps} |-> @[f]]]
            ELSE m.classes[c]]]

\* get_classes: the classes that are not pure, by the number of their ancestors
\* and otherwise, the sort being stable, in the order of a dictionary.
NotPure(m, classes) == {c \in classes : ~m.classes[c].pure}
UnsortedClasses(m, classes, order) ==
    SelectSeq(order, LAMBDA c : c \in NotPure(m, classes))
Precedes(anc, order, c, d) ==
    LET rank(x) == Cardinality(anc[x])
        at(x) == CHOOSE i \in DOMAIN order : order[i] = x
    IN  rank(c) < rank(d) \/ (rank(c) = rank(d) /\ at(c) < at(d))
GetClasses(m, classes, order) ==
    LET anc == ParentsRecc(m)
        listed == NotPure(m, classes)
        place(c) == 1 + Cardinality({d \in listed : Precedes(anc, order, d, c)})
    IN  [k \in 1..Cardinality(listed) |-> CHOOSE c \in listed : place(c) = k]

\* The names the generated module uses for a class, which are uids: its parents
\* as the class statement is reached, and once all are there the classes its
\* fields refer to and its child classes.
UsedByFields(m, c) ==
    LET shown == AllFields(m)[c]
        field(f) == m.classes[shown[f]].own[f]
    IN  UNION {UidsOf(field(f).refs)
                \cup (IF field(f).back = None THEN {} ELSE {field(f).back[1]})
                : f \in DOMAIN shown}
Childs(m, classes, c) == {d \in classes : c \in ParentsRecc(m)[d]}
Imports(m, classes, seq) ==
    \A i \in DOMAIN seq :
        /\ UidsOf(Range(m.classes[seq[i]].parents)) \subseteq {Uid(seq[j]) : j \in 1..(i - 1)}
        /\ UsedByFields(m, seq[i]) \cup UidsOf(Childs(m, classes, seq[i]))
                \subseteq UidsOf(Range(seq))
-----------------------------------------------------------------------------
\* The scripts are written for these calls.
IsClass(class) ==
    /\ class = [parents |-> class.parents, abstract |-> class.abstract,
                pure |-> class.pure, group |-> class.group, own |-> class.own]
    /\ class.parents \in Seq(Range(class.parents)) /\ class.abstract \in BOOLEAN
IsField(field) ==
    field = [handler |-> field.handler, group |-> field.group, refs |-> field.refs,
             back |-> field.back, opts |-> field.opts]
IsCall(o) ==
    \/ o.call = "group" /\ o.made # None
    \/ o.call = "class" /\ IsClass(o.class)
    \/ o.call = "field" /\ IsField(o.field)
ASSUME CallsAssumption ==
    /\ \A s \in Scripts : /\ s \in Seq(Range(s)) /\ s # << >>
                          /\ \A i \in DOMAIN s : IsCall(s[i])
    /\ \A o \in NewClasses \cup NewFields : IsCall(o)
ASSUME UidAssumption ==
    /\ Uid(None) = None
    /\ \A o \in NewClasses \cup UNION {Range(s) : s \in Scripts} :
            o.call \in {"group", "class"} => Uid(Uid(o.made)) = Uid(o.made)

Init ==
    /\ model = EmptyModel
    /\ todo \in Scripts /\ stage = "script"
    /\ before = EmptyModel
    /\ groups = {} /\ active = {} /\ code = << >>

\* The next call of the script; it goes no further than a call that is refused.
Call ==
    /\ stage = "script" /\ Accepts(model, Head(todo))
    /\ model' = Do(model, Head(todo))
    /\ todo' = Tail(todo)
    /\ stage' = IF todo' = << >> THEN "edit" ELSE stage
    /\ UNCHANGED <<before, groups, active, code>>

\* More calls, each of them on its own.
Made == Cardinality(UNION {{<<c, f>> : f \in DOMAIN model.classes[c].own \ {Classname}}
                            : c \in DOMAIN model.classes})
Edit ==
    /\ stage = "edit" /\ before = EmptyModel
    /\ \/ /\ Len(model.names) < MaxClasses
          /\ \E o \in NewClasses : Accepts(model, o) /\ model' = Do(model, o)
       \/ /\ Made < MaxFields
          /\ \E o \in NewFields : Accepts(model, o) /\ model' = Do(model, o)
    /\ UNCHANGED <<todo, before, stage, groups, active, code>>

\* save('xmlfile'): the classes, then the groups, in the order of their
\* dictionaries.
Save ==
    /\ stage = "edit" /\ before = EmptyModel /\ model.names # << >>
    /\ before' = model /\ model' = EmptyModel /\ stage' = "xml"
    /\ \E order \in Orders(model.names) :
        todo' = [i \in DOMAIN order |-> [elem |-> "class", of |-> order[i]]]
                \o [i \in DOMAIN model.groups |->
                        [elem |-> "group", of |-> model.groups[i]]]
    /\ UNCHANGED <<groups, active, code>>

\* load('xmlfile') in editor mode, one element after the other; what it makes
\* is called by its uid.
LoadOne(reads, loaded) ==
    /\ IF reads THEN /\ model' = loaded /\ todo' = Tail(todo)
                     /\ stage' = IF todo' = << >> THEN "edit" ELSE stage
                ELSE stage' = "unread" /\ UNCHANGED <<model, todo>>
    /\ UNCHANGED <<before, groups, active, code>>
Load ==
    /\ stage = "xml" /\ todo # << >>
    /\ LET x == Head(todo).of
           uid == Uid(x)
           class == WrittenClass(before, x)
           depends == UidsOf(before.require[x])
           comps == WrittenComps(before, x)
       IN  IF Head(todo).elem = "class"
           THEN LoadOne(ReadsClass(model, uid, class), LoadClass(model, uid, class))
           ELSE LoadOne(ReadsGroup(model, uid, depends, comps),
                        LoadGroup(model, uid, depends, comps))

\* The pickled model is loaded to generate the code.  In editor mode all its
\* groups and classes are active, those of no group included.
LoadForEditor ==
    /\ stage = "edit"
    /\ stage' = "loaded"
    /\ groups' = Range(model.groups) /\ active' = Range(model.names)
    /\ UNCHANGED <<model, todo, before, code>>

\* Otherwise those of the settings, which are uids; one that is None is of no
\* group of the model.
LoadForSite(settings) ==
    /\ stage = "edit"
    /\ LET chosen == {g \in Range(model.groups) : Uid(g) \in settings}
       IN  IF settings \subseteq UidsOf(Range(model.groups)) /\ InGroups(model, chosen) # {}
           THEN /\ stage' = "loaded" /\ groups' = chosen
                /\ active' \in ActiveClasses(model, chosen)
                /\ model' = KeepActiveFields(model, chosen, active')
           ELSE stage' = "failed" /\ UNCHANGED <<model, groups, active>>
    /\ UNCHANGED <<todo, before, code>>

\* dyncode_from_em; the parents of a class are listed to compare it with another
\* one, or to list the childs of one that is generated.
Recurses ==
    \E c \in active : /\ Endless(Parents(model), c)
                      /\ ~model.classes[c].pure \/ active # {c}
Generate ==
    /\ stage = "loaded"
    /\ IF Recurses THEN stage' = "failed" /\ UNCHANGED code
       ELSE /\ \E order \in Orders(model.names \o SetToSeq(Replaced(model))) :
                    code' = GetClasses(model, active, order)
            /\ stage' = "generated"
    /\ UNCHANGED <<model, todo, before, groups, active>>

\* The import of the generated module.
Import ==
    /\ stage = "generated"
    /\ stage' = IF Imports(model, active, code) THEN "imported" ELSE "NameError"
    /\ UNCHANGED <<model, todo, before, groups, active, code>>

\* The module is imported or the attempt was given up.
Done == stage \in {"imported", "NameError", "failed", "unread"} /\ UNCHANGED vars

Next ==
    \/ Call \/ Edit \/ Save \/ Load \/ LoadForEditor
    \/ \E settings \in SUBSET (UidsOf(Range(model.groups)) \cup {None}) :
            LoadForSite(settings)
    \/ Generate \/ Import \/ Done

Spec == Init /\ [][Next]_vars
-----------------------------------------------------------------------------
(* Properties.                                                             *)

\* The groups a component is in, and those that come with a group.
GroupsOf(m, x) == {g \in Groups(m) : x \in m.comps[g]}
Required(m) == [g \in Groups(m) |-> {g} \cup Above(m.require)[g]]
Reaches(m, x, c) ==
    \A g \in GroupsOf(m, x) : GroupsOf(m, <<c>>) \cap Required(m)[g] # {}

\* Every class and every field is in groups that require those of the classes
\* it names, and every class a field names is there and in the code.
WellGrouped(m) ==
    \A c \in DOMAIN m.classes :
        /\ \A p \in Range(m.classes[c].parents) :
                Reaches(m, <<c>>, p) /\ m.classes[p].pure = m.classes[c].pure
        /\ \A f \in DOMAIN m.classes[c].own :
                LET field == m.classes[c].own[f]
                    named == field.refs \cup (IF field.back = None THEN {}
                                              ELSE {field.back[1]})
                IN  \A r \in named : /\ r \in DOMAIN m.classes /\ ~m.classes[r].pure
                                     /\ Reaches(m, <<c, f>>, r)

\* The claim of the exception "Duplicated uid" of add_class and add_group: no
\* class and no group takes the place of another.
NoneReplaced ==
    Replaced(model) = {} /\ Groups(model) = Range(model.groups)

\* The generated module of a well grouped model can be imported whenever the
\* settings activate, with each group, the groups it requires; __set_actives
\* does not ask for that.  It holds of models in which no uid was made twice:
\* a class that replaces another may be generated after a child of that one.
ActiveGroupsSuffice ==
    stage = "NameError" /\ Whole(before) /\ Whole(model) =>
        \/ ~WellGrouped(model)
        \/ \E g \in groups : ~(model.require[g] \subseteq groups)

\* No class of a module that was imported shows a field of an inactive group,
\* inherited ones included: the filter on the own fields of the active classes
\* is enough, as the parents of a class that can be imported are active.  That
\* a class of the uid of a parent is active is not enough if uids were made
\* twice: of the two objects only one is filtered.
ActiveFieldsOnly ==
    stage = "imported" /\ active # DOMAIN model.classes /\ Whole(before) /\ Whole(model) =>
        \A c \in Range(code) : \A f \in DOMAIN AllFields(model)[c] :
            GroupsOf(model, <<AllFields(model)[c][f], f>>) \cap groups # {}

\* Parents come first in the generated module, whatever the order of the
\* dictionary of classes: the objects that are the parents, and so the names of
\* the parents when no uid was made twice.
ParentsFirst ==
    stage \in {"generated", "imported"} /\ Whole(before) =>
        \A i, j \in DOMAIN code :
            code[i] \in Range(model.classes[code[j]].parents) => i < j

\* A model in which no class redefines a field that it inherits, and no uid was
\* made twice, comes back from its XML file, in whatever order its classes were
\* written: every element can be read, and then it has the same classes and
\* flags, parents, fields and groups, the options of the fields up to what the
\* file cannot hold.  Only the classname field may move.
Redefines(m) ==
    \E c \in DOMAIN m.classes : \E a \in ParentsRecc(m)[c] :
        (DOMAIN m.classes[c].own \cap DOMAIN m.classes[a].own) \ {Classname} # {}
Apart(m) == [c \in DOMAIN m.classes |-> [m.classes[c] EXCEPT !.own =
                [f \in DOMAIN @ \ {Classname} |-> ReadField(@[f])]]]
Outright(comps) == {x \in comps : Len(x) = 2 => x[2] # Classname}
Restored(m) ==
    /\ Apart(m) = Apart(before)
    /\ m.require = before.require
    /\ \A g \in Groups(before) : Outright(m.comps[g]) = Outright(before.comps[g])
    /\ \A c \in DOMAIN before.classes :
            ~before.classes[c].abstract => Classname \in DOMAIN AllFields(m)[c]
XmlKeepsModel ==
    before # EmptyModel /\ Whole(before) /\ ~Redefines(before) =>
        stage # "unread" /\ (stage = "edit" => Restored(model))
=============================================================================
