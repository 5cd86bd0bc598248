-------------------------------- MODULE Boot --------------------------------
(***************************************************************************)
(* How an instance starts: settings, plugins, hooks and dynamic code, in   *)
(* the three orders of the repository.                                     *)
(*   console  install_model/loader.py run as a program;                    *)
(*   uwsgi    plugins/webui/run.py in a single site: it imports the loader,*)
(*            then the controllers, which expose the dynamic code, and     *)
(*            calls loader.start();                                        *)
(*   multi    one turn of the loop of plugins/multisite/run.py.            *)
(* A site is a record: mode, dirs (the plugin directories), files (the     *)
(* .ini files) and classes, the dynamic classes as records of name, fields,*)
(* ancestors, methods (what dir shows, inherited ones included) and the    *)
(* datasource names ro and rw.                                             *)
(***************************************************************************)
EXTENDS Settings

CONSTANT Sites      \* the instances to boot

\* The directories, the files and what a loader file registers are in some order,
\* only two modules run the generated file, a list of plugins is one of names, and
\* of the finitely many classes each is named once and inherits what its ancestors
\* inherit.
ASSUME SitesAssumption ==
    \A s \in Sites :
        /\ s.dirs \in Seq(Range(s.dirs)) /\ s.files \in Seq(Range(s.files))
        /\ \A d \in Range(s.dirs) : /\ d.hooks \in Seq(Range(d.hooks))
                                   /\ d.probes \cup d.imports \subseteq Copy
        /\ \A f \in Range(s.files) : \A o \in ListOptions \cap DOMAIN f :
                f[o] = None \/ f[o] \in Seq(Name)
        /\ IsFiniteSet(s.classes)
        /\ \A c, k \in s.classes :
                /\ c.name = k.name => c = k
                /\ k.name \in c.ancestors => k.ancestors \subseteq c.ancestors

VARIABLES
    running,   \* the callbacks left of the running call_hook, nested ones first
    inits,     \* copy -> how often its datasources were initialised
    added,     \* copy -> the custom methods set on its classes
    checked    \* the late checks that passed

vars == <<stage, plugVars, setVars, running, inits, added, checked, site>>
hookVars == <<running, inits, added, checked>>

\* core_hooks.py, imported once the settings are started.
CoreHooks ==
    LET h1 == RegisterHook(hooks, "lodel2_bootstraped", <<"check_datasources">>,
                           LastPriority)
    IN  RegisterHook(h1, "lodel2_dyncode_loaded", <<"custom_methods">>, LastPriority)

Init ==
    /\ site \in Sites
    /\ stage = "files"
    /\ found = << >> /\ registered = {} /\ called = {} /\ order = << >>
    /\ stack = << >> /\ tried = {} /\ errors = {}
    /\ hooks = << >> /\ copies = {} /\ methods = {}
    /\ conf = << >> /\ unread = {} /\ badOptions = {} /\ listsLeft = PluginTypes
    /\ plugins = << >> /\ started = FALSE
    /\ running = << >>
    /\ inits = [c \in Copy |-> 0] /\ added = [c \in Copy |-> {}] /\ checked = {}
-----------------------------------------------------------------------------
(* Datasources: DatasourcePlugin and the hook that checks them.            *)

Datasources == {o[1][3] : o \in {p \in DOMAIN conf :
                    Len(p[1]) = 3 /\ IsPrefix(<<"lodel2", "datasources">>, p[1])}}
DsOption(d, key) == conf[<< <<"lodel2", "datasources", d>>, key>>]
Families == {o[1][3] : o \in {p \in DOMAIN conf :
                    Len(p[1]) >= 3 /\ IsPrefix(<<"lodel2", "datasource">>, p[1])}}
HasInstance(family, i) == \E o \in DOMAIN conf : o[1] = <<"lodel2", "datasource", family, i>>

\* A datasource that the settings say is read only is not opened to write.
AnyMode(d, ro) == TRUE
Writable(d, ro) == DsOption(d, "read_only") = "true" => ro

\* DatasourcePlugin.init_datasource: plugin_name, _get_ds_connection_conf and
\* get_datasource.
DatasourceInit(d, ro) ==
    /\ d \in Datasources
    /\ Writable(d, ro)
    /\ Len(DsOption(d, "identifier")) = 2
    /\ LET family == DsOption(d, "identifier")[1]
       IN  /\ family \in Families
           /\ HasInstance(family, DsOption(d, "identifier")[2])
           /\ family \in registered /\ Info(family).type = "datasource"
           /\ family \in Loaded

\* What goes wrong is a NameError for an identifier that is not in two parts
\* (SettingsError is not imported) and for a plugin of another type
\* (PluginTypeErrror); an exception of another class otherwise.
UndefinedName(d, ro) ==
    /\ d \in Datasources
    /\ Writable(d, ro)
    /\ \/ Len(DsOption(d, "identifier")) # 2
       \/ LET family == DsOption(d, "identifier")[1]
          IN  /\ family \in Families
              /\ HasInstance(family, DsOption(d, "identifier")[2])
              /\ family \in registered /\ Info(family).type # "datasource"

\* LeObject._init_datasources: first the one that is read, then the one that is
\* written; and of every class, in some order.
ClassInit(c) == DatasourceInit(c.ro, TRUE) /\ DatasourceInit(c.rw, FALSE)
ClassUndefinedName(c) ==
    IF DatasourceInit(c.ro, TRUE) THEN UndefinedName(c.rw, FALSE) ELSE UndefinedName(c.ro, TRUE)
ClassesInit == \A c \in site.classes : ClassInit(c)
InitExceptions ==
    {IF ClassUndefinedName(c) THEN "NameError" ELSE "PluginError" :
        c \in {c \in site.classes : ~ClassInit(c)}}

\* datasources_bootstrap_hook splits at the first dot only.
DatasourceFound(d) ==
    LET identifier == DsOption(d, "identifier")
    IN  /\ Len(identifier) >= 2
        /\ identifier[1] \in Families
        /\ Len(identifier) = 2 /\ HasInstance(identifier[1], identifier[2])
CheckExceptions ==
    {IF Len(DsOption(d, "identifier")) >= 2 THEN "NameError" ELSE "ValueError" :
        d \in {d \in Datasources : ~DatasourceFound(d)}}

\* CustomMethod.set_registered: a class that is missing is logged, a method
\* that exists is kept.  Methods exist that were set on the class or on an
\* ancestor: if by this call, when the dictionary had the ancestor first.
Ancestors(name) == UNION {c.ancestors : c \in {c \in site.classes : c.name = name}}
Shown(c, set) == c.methods \cup {m[2] : m \in {m \in set : m[1] \in {c.name} \cup c.ancestors}}
SettableOver(set) ==
    {m \in methods : \E c \in site.classes : c.name = m[1]}
Settable(set) ==
    {m \in methods : \E c \in site.classes : c.name = m[1] /\ m[2] \notin Shown(c, set)}
SetRegistered(set, place) ==
    set \cup {m \in Settable(set) :
        ~\E a \in Settable(set) : /\ a[2] = m[2] /\ a[1] \in Ancestors(m[1])
                                 /\ place[a[1]] < place[m[1]]}
Places == LET named == {c.name : c \in site.classes}
          IN  Bijection(named, 1..Cardinality(named))
-----------------------------------------------------------------------------
(* Hooks.                                                                  *)

Call(name) == running' = HookCalls(hooks, name)

\* The checks that the validators left for the dynamic code.
LateCheckOfName(cb) ==
    IF cb[1] = "check_plugin" THEN cb[2] \in registered
    ELSE \E c \in site.classes : c.name = cb[2][1] /\ cb[2][2] \in c.fields
LateCheck(cb) ==
    IF cb[1] = "check_plugin"
    THEN cb[2] \in registered /\ Info(cb[2]).type = cb[3]
    ELSE \E c \in site.classes : c.name = cb[2][1] /\ cb[2][2] \in c.fields

\* The hook lodel2_dyncode_loaded is called with the classes of a copy.
OnCopy(calls, copy) ==
    LET WithClasses(cb) == IF cb = <<"custom_methods">> THEN <<"custom_methods", copy>> ELSE cb
    IN  [k \in DOMAIN calls |-> [cb |-> WithClasses(calls[k].cb), prio |-> calls[k].prio]]

\* An exception ends the program, unless it is a NameError in uwsgi mode.
Aborts(exceptions) ==
    /\ \E exception \in exceptions :
        stage' = IF exception = "NameError" /\ site.mode = "uwsgi" THEN "halfstarted"
                 ELSE "failed"
    /\ running' = << >>
    /\ UNCHANGED <<inits, added, checked>>

RunCallback ==
    /\ running # << >>
    /\ LET cb == Head(running).cb
       IN  \/ /\ cb[1] = "init_datasources"
              /\ IF ClassesInit
                 THEN /\ inits' = [inits EXCEPT ![cb[2]] = @ + 1]
                      /\ running' = OnCopy(HookCalls(hooks, "lodel2_dyncode_loaded"), cb[2])
                                    \o Tail(running)
                      /\ UNCHANGED <<stage, added, checked>>
                 ELSE Aborts(InitExceptions)
           \/ /\ cb[1] = "custom_methods"
              /\ \E place \in Places :
                    added' = [added EXCEPT ![cb[2]] = SetRegistered(@, place)]
              /\ running' = Tail(running)
              /\ UNCHANGED <<stage, inits, checked>>
           \/ /\ cb[1] = "check_datasources"
              /\ IF \A d \in Datasources : DatasourceFound(d)
                 THEN running' = Tail(running) /\ UNCHANGED <<stage, inits, added, checked>>
                 ELSE Aborts(CheckExceptions)
           \/ /\ cb[1] \in {"check_plugin", "check_emfield"}
              /\ IF LateCheck(cb)
                 THEN /\ running' = Tail(running) /\ checked' = checked \cup {cb}
                      /\ UNCHANGED <<stage, inits, added>>
                 ELSE Aborts({"ValidationError"})
           \/ /\ cb[1] = "plugin"
              /\ running' = Tail(running)
              /\ UNCHANGED <<stage, inits, added, checked>>
    /\ UNCHANGED <<site, plugVars, setVars>>
-----------------------------------------------------------------------------
(* The boot sequences; the stages before "settings" are in Settings.       *)

\* The core hooks are imported; in uwsgi mode the controllers then expose the
\* dynamic code; load_all begins.
StartHooks ==
    /\ stage = "settings"
    /\ LET ctx == IF site.mode = "uwsgi" THEN {"context"} ELSE {}
       IN  /\ hooks' = ImportDyncode(CoreHooks, ctx \ copies)
           /\ copies' = copies \cup ctx
    /\ called' = {} /\ tried' = {} /\ errors' = {} /\ stack' = << >>
    /\ stage' = "loading"
    /\ UNCHANGED <<site, found, registered, order, methods, setVars, hookVars>>

\* load_all after its loop.
EndLoading ==
    /\ AllTried
    /\ IF errors # {}
       THEN Fail /\ UNCHANGED running
       ELSE stage' = "loaded" /\ Call("lodel2_plugins_loaded")
    /\ UNCHANGED <<site, plugVars, setVars, inits, added, checked>>

\* multisite: the dynamic code is exposed and the hook called once more.
ExposeAgain ==
    /\ stage = "loaded" /\ running = << >> /\ site.mode = "multi"
    /\ Expose({"context"})
    /\ running' = HookCalls(hooks', "lodel2_plugins_loaded")
    /\ stage' = "exposed"
    /\ UNCHANGED <<site, found, registered, called, order, stack, tried, errors, methods,
                   setVars, inits, added, checked>>

Bootstraped ==
    /\ running = << >>
    /\ \/ stage = "exposed"
       \/ stage = "loaded" /\ site.mode # "multi"
    /\ Call("lodel2_bootstraped")
    /\ stage' = IF site.mode = "console" THEN "bootstraped" ELSE "ready"
    /\ UNCHANGED <<site, plugVars, setVars, inits, added, checked>>

\* console: the loader imports leapi_dyncode and calls the last two hooks.
ImportLeapi ==
    /\ stage = "bootstraped" /\ running = << >>
    /\ Expose({"leapi"})
    /\ running' = HookCalls(hooks', "lodel2_dyncode_bootstraped")
                    \o HookCalls(hooks', "lodel2_loader_main")
    /\ stage' = "ready"
    /\ UNCHANGED <<site, found, registered, called, order, stack, tried, errors, methods,
                   setVars, inits, added, checked>>

\* An instance that failed or broke has ended; another is in use.
Ended ==
    \/ stage \in {"failed", "broken", "halfloaded", "halfstarted"}
    \/ stage = "ready" /\ running = << >>
Done == Ended /\ UNCHANGED vars

Next ==
    \/ SettingsStep /\ UNCHANGED hookVars
    \/ StartHooks
    \/ LoadStep /\ UNCHANGED <<setVars, hookVars>>
    \/ EndLoading \/ ExposeAgain \/ Bootstraped \/ ImportLeapi
    \/ RunCallback
    \/ Done

Spec == Init /\ [][Next]_vars

\* The boot sequence is one thread that nothing delays.
FairSpec == Spec /\ WF_vars(Next)

Ready == stage = "ready" /\ running = << >>
Serving == (Ready /\ site.mode \in {"uwsgi", "multi"}) \/ stage \in {"halfloaded", "halfstarted"}
-----------------------------------------------------------------------------
(* Properties.                                                             *)

TypeOK ==
    /\ stage \in {"files", "lists", "register", "settings", "loading", "loaded",
                  "exposed", "bootstraped", "ready", "halfloaded", "halfstarted",
                  "failed", "broken"}
    /\ registered \subseteq Name /\ plugins \in Seq(Name)
    /\ called \subseteq registered /\ Loaded \subseteq called
    /\ stack \in Seq(Frame) /\ errors \subseteq Error
    /\ inits \in [Copy -> 0..2]
    /\ started \in BOOLEAN /\ copies \subseteq Copy

\* A plugin is loaded only behind every plugin it depends on that lets itself
\* be activated, and is loaded once, whatever order load_all takes them in and
\* however the dependencies run (plugins.py, _load).
DependenciesFirst ==
    \A i \in DOMAIN order :
        /\ \A m \in Info(order[i]).deps :
                Info(m).activable => \E j \in 1..(i - 1) : order[j] = m
        /\ \A j \in DOMAIN order : order[i] = order[j] => i = j

\* What load_all comes to is decided by the plugins and not by the order it
\* takes them in: it ends without an error exactly when every plugin is
\* activable and has its dependencies among them, without a cycle.
Cyclic ==
    \E set \in (SUBSET registered) \ {{}} :
        \A n \in set : Info(n).deps \cap set # {}
AllLoadable ==
    /\ \A n \in registered : /\ Info(n).activable /\ Info(n).deps \subseteq registered
                             /\ Info(n).loader = "loads" /\ WrongDeps(n) = {}
                             /\ \A m \in registered \ {n} :
                                    Info(n).methods \cap Info(m).methods = {}
    /\ ~Cyclic
PastLoading == stage \in {"loaded", "exposed", "bootstraped", "ready"}
LoadedAll == PastLoading \/ stage = "halfstarted"
BrokenOff == stage \in {"broken", "halfloaded"}
LoadOutcome ==
    /\ LoadedAll => AllLoadable
    /\ (AllTried /\ errors # {}) \/ BrokenOff => ~AllLoadable

\* Once load_all has ended without an error every registered plugin is loaded:
\* one that was passed over as a dependency, and one whose _load was left by
\* the error of another, is not forgotten.
EveryPluginLoaded == LoadedAll => Loaded = registered

\* The settings start exactly for the instances whose files are in order, in
\* whatever order the plugin types are asked for their lists: no option twice,
\* none that nobody specifies, none refused, every plugin of the lists there.
ListValue(t) ==
    LET o == ListOption(t)
        given == {f \in Range(site.files) : o \in DOMAIN f}
    IN  IF given = {} THEN ListDefault(t) ELSE (CHOOSE f \in given : TRUE)[o]
Listed(t) == IF ListValue(t) = None THEN << >> ELSE ListValue(t)
PluginList == Listed("datasource") \o Listed("session_handler")
                \o Listed("ui") \o Listed("extension")
FilesInOrder ==
    /\ ~Redeclared(site.files)
    /\ \A t \in PluginTypes : Valid(ListOption(t), ListValue(t))
PluginsInOrder ==
    \E list \in {PluginList} : \E seen \in {Discover(site.dirs)} :
        /\ \A i, j \in DOMAIN list : list[i] = list[j] => i = j
        /\ \A n \in Range(list) :
                n \in DOMAIN seen /\ seen[n].confspec /\ seen[n].type \in PluginTypes
        /\ \A n, m \in Range(list) :
                seen[n].type = "session_handler" /\ seen[m].type = "session_handler" => n = m
OptionsInOrder ==
    \E given \in {Merged(site.files)} :
    \E list \in {PluginList} : \E seen \in {Discover(site.dirs)} :
        /\ \A n, m \in Range(list) :
                /\ n # m => DOMAIN seen[n].spec \cap DOMAIN seen[m].spec = {}
                /\ DOMAIN seen[n].spec \cap DOMAIN CoreSpec = {}
        /\ \E spec \in {Merged(<<CoreSpec>> \o [k \in DOMAIN list |-> seen[list[k]].spec])} :
           \E full \in {Expanded(spec, DOMAIN given \cup ListOptions)} :
                /\ DOMAIN given \subseteq DOMAIN full \cup ListOptions
                /\ \A o \in DOMAIN full \ ListOptions :
                        Valid(o, IF o \in DOMAIN given THEN given[o] ELSE full[o])
                /\ ~NameClash(DOMAIN full)
SettingsInOrder == FilesInOrder /\ PluginsInOrder /\ OptionsInOrder
SettingsOutcome ==
    /\ started => SettingsInOrder
    /\ stage = "failed" /\ ~started => ~SettingsInOrder

\* An instance that answers requests has its datasources: those of the copy of
\* the dynamic code the controllers use were initialised when the plugins were
\* loaded, and every class writes to one that is not read only.  In uwsgi mode
\* it may answer without if starting it comes upon an undefined name: in the
\* dependencies of a datasource plugin, in a loader file, or in a class whose
\* datasource has no proper identifier or is no datasource's.
NameErrors ==
    \/ \E n \in registered : WrongDeps(n) # {} \/ Info(n).loader = "NameError"
    \/ \E c \in site.classes : UndefinedName(c.ro, TRUE) \/ UndefinedName(c.rw, FALSE)
ServingHasDatasources ==
    Serving =>
        \/ /\ inits["context"] > 0
           /\ \A c \in site.classes : /\ DsOption(c.rw, "read_only") # "true"
                                      /\ DsOption(c.rw, "identifier")[1] \in Loaded
        \/ stage # "ready" /\ site.mode = "uwsgi" /\ NameErrors

\* In the console nothing initialises the classes the prompt works with unless
\* a plugin imported them before the plugins were loaded.
ConsoleDatasources ==
    Ready /\ site.mode = "console" =>
        (inits["leapi"] > 0 <=>
            \E n \in Loaded : "leapi" \in Info(n).probes \cup Info(n).imports)

\* The type of the plugins named in each list is only checked by the console:
\* there it holds of every ready instance.
ConsoleListsTyped ==
    Ready /\ site.mode = "console" =>
        \A t \in PluginTypes : \A n \in Range(Listed(t)) : Info(n).type = t

\* In every copy that has datasources each class for which a loaded plugin has a
\* custom method, after the copy was imported or before, has one of that name: its
\* own, or that of an ancestor, which then keeps its own from being set; and no
\* method that a class has of itself is replaced.
MethodsSet ==
    Ready => \A c \in Copy : inits[c] > 0 =>
        LET wanted == {m \in UNION {Info(n).methods : n \in Loaded} :
                        \E k \in site.classes : k.name = m[1] /\ m[2] \notin k.methods}
        IN  /\ added[c] \subseteq wanted
            /\ \A m \in wanted : \E a \in added[c] :
                    a[2] = m[2] /\ a[1] \in {m[1]} \cup Ancestors(m[1])

\* The boot ends: the recursion of _load does, cycles and failures included.
BootEnds == <>Ended

\* The claim of the error message and of the comment on _load_called: a
\* circular dependency is reported where there is one.
CircularIsReal ==
    \A e \in errors : e.kind = "circular" => Cyclic
=============================================================================
