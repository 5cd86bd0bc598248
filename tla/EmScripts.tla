----------------------------- MODULE EmScripts ------------------------------
(***************************************************************************)
(* The editorial models that come with the repository, as the sequences of *)
(* calls that build them: editorial_models/em_simple.py, em_test.py and    *)
(* lodelsites_em.py.  Names, help texts and datasources are left out.      *)
(***************************************************************************)
EXTENDS EditorialModel

Group(made, depends) == <<[call |-> "group", made |-> made, depends |-> depends]>>

Class(made, parents, group, abstract, pure) ==
    [call |-> "class", made |-> made,
     class |-> [parents |-> parents, group |-> group, abstract |-> abstract,
                pure |-> pure, own |-> << >>]]
Abstract(uid, parents, group) == <<Class(uid, parents, group, TRUE, FALSE)>>
Concrete(uid, parents, group) == <<Class(uid, parents, group, FALSE, FALSE)>>

Field(of, uid, handler, group, refs, back, opts) ==
    [call |-> "field", of |-> of, uid |-> uid,
     field |-> [handler |-> handler, group |-> group, refs |-> refs, back |-> back,
                opts |-> opts]]

NoOpts == << >>
Internal == [internal |-> "True"]
Nullable == [nullable |-> "True"]
Optional == [nullable |-> "True", default |-> None]
\* Fields of one data handler with the same options.
Fields(of, uids, handler, group, opts) ==
    [i \in DOMAIN uids |-> Field(of, uids[i], handler, group, {}, None, opts)]
\* A reference to the objects of a class, mirrored by a field of that class.
Ref(of, uid, handler, group, to, mirror, opts) ==
    <<Field(of, uid, handler, group, {to}, <<to, mirror>>, opts)>>
OneWay(of, uid, handler, group, to, opts) ==
    <<Field(of, uid, handler, group, {to}, None, opts)>>
-----------------------------------------------------------------------------
(* em_simple.py.                                                           *)

BaseGroup ==
    Group("base_group", << >>)
    \o Abstract("abstract_object", << >>, "base_group")
    \o Abstract("object", <<"abstract_object">>, "base_group")
    \o Fields("object", <<"lodel_id">>, "uniqid", "base_group", Internal)
    \o Fields("object", <<"date_create">>, "datetime", "base_group",
              [now_on_create |-> "True"] @@ Internal)
    \o Fields("object", <<"date_update">>, "datetime", "base_group",
              [now_on_update |-> "True"] @@ Internal)
    \o Abstract("entitie", <<"object">>, "base_group")
    \o Concrete("person", <<"object">>, "base_group")
    \o Fields("person", <<"firstname", "lastname">>, "varchar", "base_group", NoOpts)
    \o Concrete("entry", <<"object">>, "base_group")
    \o Fields("entry", <<"name">>, "varchar", "base_group", NoOpts)
    \o Fields("entry", <<"description">>, "text", "base_group", NoOpts)
    \o Fields("entry", <<"role">>, "varchar", "base_group", NoOpts)

E == "editorial_abstract"

Texts ==
    Group(E, <<"base_group">>)
    \o Abstract("text", <<"entitie">>, E)
    \o Fields("text", <<"title">>, "text", E, Nullable)
    \o Fields("text", <<"subtitle">>, "text", E, Optional)
    \o Fields("text", <<"language">>, "varchar", E, Optional)
    \o Fields("text", <<"text">>, "text", E, Optional)
    \o Fields("text", <<"pub_date">>, "datetime", E, Optional)
    \o Fields("text", <<"footnotes">>, "text", E, Optional)
    \o Ref("text", "linked_entries", "list", E, "entry", "linked_texts", Optional)
    \o Ref("entry", "linked_texts", "list", E, "text", "linked_entries", Optional)
Articles ==
    Concrete("article", <<"text">>, E)
    \o Fields("article", <<"abstract", "appendix", "bibliography", "author_note">>,
              "text", E, NoOpts)
    \o Concrete("review", <<"text">>, E)
    \o Fields("review", <<"reference">>, "text", E, NoOpts)

Containers ==
    Abstract("container", <<"entitie">>, E)
    \o Fields("container", <<"title", "subtitle">>, "text", E, NoOpts)
    \o Fields("container", <<"language">>, "varchar", E, NoOpts)
    \o Ref("container", "linked_directors", "list", E, "person", "linked_containers", Optional)
    \o Ref("person", "linked_containers", "list", E, "container", "linked_directors", Optional)
    \o Fields("container", <<"description", "publisher_note">>, "text", E, NoOpts)
    \o Concrete("collection", <<"container">>, E)
    \o Fields("collection", <<"issn">>, "varchar", E, NoOpts)
    \o Abstract("publication", <<"container">>, E)
    \o Ref("publication", "linked_texts", "list", E, "text", "linked_container", Optional)
    \o Ref("text", "linked_container", "link", E, "publication", "linked_texts", Optional)
Issues ==
    Concrete("issue", <<"publication">>, E)
    \o Fields("issue", <<"isbn", "print_isbn", "number", "cover">>, "varchar", E, NoOpts)
    \o Fields("issue", <<"print_pub_date", "e_pub_date">>, "datetime", E, NoOpts)
    \o Fields("issue", <<"abstract">>, "text", E, NoOpts)
    \o Ref("issue", "collection", "link", E, "collection", "linked_issues", Optional)
    \o Ref("collection", "linked_issues", "hierarch", E, "issue", "collection", Optional)
    \o Concrete("part", <<"publication">>, E)
    \o Ref("part", "publication", "link", E, "publication", "linked_parts", Optional)
    \o Ref("publication", "linked_parts", "hierarch", E, "part", "publication", Optional)

Persons ==
    LET g == "editorial_person"
    IN  Group(g, <<E>>)
        \o Abstract("text_person", <<"entitie">>, g)
        \o OneWay("text_person", "text", "link", g, "text", NoOpts)
        \o OneWay("text_person", "person", "link", g, "person", NoOpts)
        \o Fields("text_person", <<"role">>, "varchar", g, NoOpts)
        \o Ref("person", "linked_texts", "list", g, "text", "linked_persons", Optional)
        \o Ref("text", "linked_persons", "list", g, "person", "linked_texts", Optional)

\* The handler of the name is the only difference between the two models.
Indexes(nameHandler) ==
    LET g == "index_group"
    IN  Group(g, <<E>>)
        \o Abstract("indexAbs", <<"object">>, g)
        \o Fields("indexAbs", <<"name">>, nameHandler, g, NoOpts)
        \o Fields("indexAbs", <<"value">>, "varchar", g, NoOpts)
        \o Ref("text", "indexes", "list", g, "indexAbs", "texts", Optional)
        \o Ref("indexAbs", "texts", "list", g, "text", "indexes", NoOpts)
        \o Concrete("indexTheme", <<"indexAbs">>, g)
        \o Fields("indexAbs", <<"theme">>, "varchar", g, NoOpts)
SimpleIndexes == Indexes("text")

Users ==
    LET Internally(b) == [internal |-> b]
    IN  Group("users", << >>)
        \o Concrete("user", << >>, "users")
        \o Fields("user", <<"id">>, "uniqid", "users", Internally("True"))
        \o Fields("user", <<"firstname", "lastname">>, "varchar", "users",
                  Internally("False"))
        \o Fields("user", <<"login">>, "varchar", "users",
                  [uniq |-> "True"] @@ Internally("False"))
        \o Fields("user", <<"password">>, "password", "users", Internally("False"))

EmSimple ==
    BaseGroup \o Texts \o Articles \o Containers \o Issues \o Persons \o SimpleIndexes \o Users
-----------------------------------------------------------------------------
(* em_test.py.                                                             *)

TestBase ==
    Group("base_group", << >>)
    \o Abstract("abstract_object", << >>, "base_group")
    \o Abstract("object", <<"abstract_object">>, "base_group")
    \o Fields("object", <<"lodel_id">>, "uniqid", "base_group", Internal)
    \o Fields("object", <<"help_text">>, "text", "base_group", Internal)
    \o Fields("object", <<"date_create">>, "datetime", "base_group",
              [now_on_create |-> "True"] @@ Internal)
    \o Fields("object", <<"date_update">>, "datetime", "base_group",
              [now_on_update |-> "True"] @@ Internal)
    \o Abstract("entitie", <<"object">>, "base_group")
    \o Concrete("person", <<"object">>, "base_group")
    \o Fields("person", <<"firstname", "lastname">>, "varchar", "base_group", NoOpts)
    \o Fields("person", <<"fullname">>, "concat", "base_group",
              [field_list |-> "list", immutable |-> "True"])
    \o OneWay("person", "alias", "set", "base_group", "person", Optional)
    \o Abstract("entry", <<"object">>, "base_group")

TestEditorial ==
    Group(E, <<"base_group">>)
    \o Abstract("text", <<"entitie">>, E)
    \o Fields("text", <<"title">>, "varchar", E, Nullable)
    \o Fields("text", <<"subtitle">>, "varchar", E, Optional)
    \o Concrete("collection", <<"entitie">>, E)
    \o Fields("collection", <<"title">>, "varchar", E, NoOpts)
    \o Concrete("publication", <<"entitie">>, E)
    \o Ref("publication", "collection", "link", E, "collection", "publications", Optional)
    \o Ref("collection", "publications", "list", E, "publication", "collection", NoOpts)

TestSections ==
    Concrete("section", <<"text">>, E)
    \o Concrete("subsection", <<"section">>, E)
    \o Ref("section", "childs", "hierarch", E, "subsection", "parent", Optional)
    \o Ref("subsection", "parent", "link", E, "section", "childs", Optional)

TestPersons == Persons
TestIndexes == Indexes("varchar")
TestUsers == Users
EmTest ==
    TestBase \o TestEditorial \o TestSections \o TestPersons \o TestIndexes \o TestUsers
-----------------------------------------------------------------------------
(* lodelsites_em.py.                                                       *)

LodelSites ==
    Group("base_group", << >>)
    \o Concrete("LodelSite", << >>, "base_group")
    \o Fields("LodelSite", <<"name">>, "varchar", "base_group", NoOpts)
    \o Fields("LodelSite", <<"shortname">>, "varchar", "base_group",
              [max_length |-> "number", uniq |-> "True"])
    \o Fields("LodelSite", <<"extensions">>, "varcharlist", "base_group",
              [delimiter |-> "text"])
    \o Fields("LodelSite", <<"em_groups">>, "text", "base_group", NoOpts)
=============================================================================
