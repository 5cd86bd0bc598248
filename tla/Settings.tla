------------------------------ MODULE Settings ------------------------------
(***************************************************************************)
(* Settings.__bootstrap (lodel/settings/settings.py) over a SettingsLoader *)
(* (settings_loader.py), up to the point where the settings are started:   *)
(* the .ini files are merged, the lists of plugins are read, the plugins   *)
(* registered, their specifications merged with lodel's own, and every     *)
(* option fetched.                                                         *)
(*                                                                         *)
(* An option is <<section, key>>, a section the sequence of its dotted     *)
(* parts, "*" last in a variable section.  A specification is a function   *)
(* from options to defaults, a file one from options to values.  A value   *)
(* is a sequence of plugin names, a sequence of parts (identifier, emfield)*)
(* or a string, as the key of its option says; None is no value.           *)
(***************************************************************************)
EXTENDS Plugins

\* The plugin that lodel loads for its datasources if no file says which.
ASSUME SettingsAssumption == "dummy_datasource" \in Name

VARIABLES
    conf,       \* SettingsLoader.__conf: options with values, defaults included
    unread,     \* the keys of SettingsLoader.__conf_sv
    badOptions, \* SettingsLoader.__errors_list, as the options refused
    listsLeft,  \* the plugin types whose list is still to be read
    plugins,    \* plugin_list of __bootstrap, forgotten when it ends
    started     \* Settings.started()

setVars == <<conf, unread, badOptions, listsLeft, plugins, started>>

Lodel == <<"lodel2">>
ListKey == [datasource |-> "datasource_connectors", session_handler |-> "session_handler",
            ui |-> "interface", extension |-> "extensions"]
ListOption(t) == <<Lodel, ListKey[t]>>
ListOptions == {ListOption(t) : t \in PluginTypes}
TypeOf(o) == CHOOSE t \in PluginTypes : o = ListOption(t)
ListDefault(t) == IF t = "datasource" THEN <<"dummy_datasource">> ELSE None

\* LODEL2_CONF_SPECS, and what confspec_append adds for the plugin types.
CoreSpec ==
    LET In(s, keys) == {<<s>> \o <<k>> : k \in keys}
        plain == In(Lodel, {"debug", "sitename", "runtest"})
            \cup In(<<"lodel2", "logging", "*">>,
                    {"level", "context", "filename", "backupcount", "maxbytes"})
            \cup In(<<"lodel2", "editorialmodel">>,
                    {"emfile", "emtranslator", "dyncode", "groups", "editormode"})
            \cup In(<<"lodel2", "datasources", "*">>, {"read_only", "identifier"})
            \cup In(<<"lodel2", "auth">>, {"login_classfield", "pass_classfield"})
        Default(o) ==
            CASE o \in ListOptions -> ListDefault(TypeOf(o))
              [] o[2] = "read_only" -> "false"
              [] o[2] = "identifier" -> None
              [] o[2] = "login_classfield" -> <<"user", "login">>
              [] o[2] = "pass_classfield" -> <<"user", "password">>
              [] OTHER -> "good"
    IN  [o \in plain \cup ListOptions |-> Default(o)]

LoginSection == <<"lodel2", "auth">>
Classfield(o) == o[1] = LoginSection

\* The validators, called by getoption; "bad" stands for what the others
\* refuse.  A session handler must be given, be it as an empty name.
Valid(o, v) ==
    CASE o \in ListOptions -> o # ListOption("session_handler") \/ v # None
      [] o[2] = "identifier" -> v # None
      [] Classfield(o) -> v # None /\ Len(v) = 2
      [] OTHER -> v # None /\ v # "bad"

\* plugin_validator and emfield_val register a check that runs when the
\* dynamic code is there.
PluginChecks(t, v) ==
    IF v = None THEN << >> ELSE [k \in DOMAIN v |-> <<"check_plugin", v[k], t>>]
EmfieldChecks(o, v) == IF Valid(o, v) THEN << <<"check_emfield", v>> >> ELSE << >>

\* In some order of the options, given their values.  (The checks of plugins
\* are registered when their list is read and once more when it is got with the
\* other options: here, once.)
AddLateChecks(registry, options, value) ==
    LET OfList(t) == PluginChecks(t, value[ListOption(t)])
        OfField(o) == IF o \in options THEN EmfieldChecks(o, value[o]) ELSE << >>
    IN  RegisterHooks(registry, "lodel2_dyncode_bootstraped",
            OfList("datasource") \o OfList("session_handler")
                \o OfList("ui") \o OfList("extension")
                \o OfField(<<LoginSection, "login_classfield">>)
                \o OfField(<<LoginSection, "pass_classfield">>),
            LastPriority)
-----------------------------------------------------------------------------
Fail == stage' = "failed"

\* Dictionaries put together, none of whose keys is in two of them.
Merged(dicts) ==
    LET Holder(o) == CHOOSE d \in Range(dicts) : o \in DOMAIN d
    IN  [o \in UNION {DOMAIN d : d \in Range(dicts)} |-> Holder(o)[o]]

\* SettingsLoader.__merge: two files may not declare one option.
Redeclared(files) ==
    \E i, j \in DOMAIN files : i < j /\ DOMAIN files[i] \cap DOMAIN files[j] # {}

ReadFiles ==
    /\ stage = "files"
    /\ IF Redeclared(site.files)
       THEN Fail /\ UNCHANGED <<conf, unread>>
       ELSE /\ stage' = "lists"
            /\ conf' = Merged(site.files)
            /\ unread' = DOMAIN conf'
    /\ UNCHANGED <<site, plugVars, badOptions, listsLeft, plugins, started>>

\* SettingsLoader.getoption of one option.
Got(o, default) == IF o \in DOMAIN conf THEN conf[o] ELSE default

\* ... and of the options of spec: each that has no value gets its default.
AllGot(spec) == [o \in DOMAIN conf \cup DOMAIN spec |-> Got(o, spec[o])]

\* The loop over the plugin types, in any order.
ReadList(t) ==
    /\ stage = "lists" /\ t \in listsLeft
    /\ LET o == ListOption(t)
           v == Got(o, ListDefault(t))
       IN  /\ conf' = AllGot([p \in {o} |-> v])
           /\ unread' = unread \ {o}
           /\ IF Valid(o, v)
              THEN /\ plugins' = plugins \o (IF v = None THEN << >> ELSE v)
                   /\ UNCHANGED badOptions
              ELSE badOptions' = badOptions \cup {o} /\ UNCHANGED plugins
    /\ listsLeft' = listsLeft \ {t}
    /\ stage' = IF listsLeft' = {} THEN "register" ELSE stage
    /\ UNCHANGED <<site, plugVars, started>>

\* Plugin.start and Plugin.register.  The first registration discovers.
RegisterNext ==
    /\ stage = "register" /\ Cardinality(registered) < Len(plugins)
    /\ found' = IF found = << >> THEN Discover(site.dirs) ELSE found
    /\ LET n == plugins[Cardinality(registered) + 1]
       IN  IF Refused(n, found')
           THEN Fail /\ UNCHANGED registered
           ELSE registered' = registered \cup {n} /\ UNCHANGED stage
    /\ UNCHANGED <<site, called, order, stack, tried, errors, hooks, copies, methods,
                   setVars>>

\* __merge_specs, __populate_from_specs and raise_errors.
Specs == <<CoreSpec>> \o [k \in DOMAIN plugins |-> Info(plugins[k]).spec]

DuplicatesCore(specs) ==
    \E j \in 2..Len(specs) : DOMAIN specs[1] \cap DOMAIN specs[j] # {}
Duplicated(specs) ==
    \E i, j \in DOMAIN specs : i < j /\ DOMAIN specs[i] \cap DOMAIN specs[j] # {}

MergedSpec == Merged(Specs)

\* SettingsLoader.getsection: the sections that a variable section stands for.
SectionsOf(vsec, options) ==
    LET prefix == Front(vsec)
        present == {s \in {o[1] : o \in options} : IsPrefix(prefix, s)}
    IN  IF present = {} THEN {Append(prefix, "default")} ELSE present

\* __populate_from_specs: each takes the place of the variable one, and of one
\* of its own name.  (Of variable sections one of which is in the other the
\* order of a dictionary keeps one: here, both.)
Expanded(spec, options) ==
    LET variable == {o \in DOMAIN spec : Len(o[1]) > 1 /\ Last(o[1]) = "*"}
        from == [o \in variable |->
                    {<<s, o[2]>> : s \in SectionsOf(o[1], options)}]
        made == UNION {from[o] : o \in variable}
        sections == {o[1] : o \in made}
        plain == {o \in DOMAIN spec \ variable : o[1] \notin sections}
    IN  [o \in made \cup plain |->
            IF o \in made THEN spec[CHOOSE p \in variable : o \in from[p]] ELSE spec[o]]

\* __confs_to_namedtuple: an option may not be named like a section under it.
NameClash(options) ==
    \E o, p \in options : IsPrefix(Append(o[1], o[2]), p[1])

Populate ==
    /\ stage = "register" /\ Cardinality(registered) = Len(plugins)
    /\ plugins' = << >>
    /\ IF Duplicated(Specs)
       THEN Fail /\ UNCHANGED <<conf, unread, badOptions, hooks, started>>
       ELSE \E merged \in {MergedSpec} : \E spec \in {Expanded(merged, DOMAIN conf)} :
            LET bad == {o \in DOMAIN spec : ~Valid(o, Got(o, spec[o]))}
            IN  /\ conf' = AllGot(spec)
                /\ unread' = unread \ DOMAIN spec
                /\ badOptions' = badOptions \cup bad
                /\ hooks' = AddLateChecks(hooks, DOMAIN spec, conf')
                /\ started' = /\ unread' = {} /\ badOptions' = {}
                              /\ ~NameClash(DOMAIN spec)
                /\ stage' = IF started' THEN "settings" ELSE "failed"
    /\ UNCHANGED <<site, found, registered, called, order, stack, tried, errors,
                   copies, methods, listsLeft>>

SettingsStep ==
    \/ ReadFiles \/ RegisterNext \/ Populate
    \/ \E t \in PluginTypes : ReadList(t)
=============================================================================
