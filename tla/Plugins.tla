------------------------------- MODULE Plugins -------------------------------
(***************************************************************************)
(* The Plugin class (lodel/plugin/plugins.py): plugins are discovered,     *)
(* registered when the settings name them and loaded, each after the       *)
(* plugins it depends on.  _load is recursive: its activations are frames  *)
(* of a stack, and every test, nested call and import is a step.           *)
(*                                                                         *)
(* A plugin directory is a record of what its __init__.py says:            *)
(*   name, version (as PluginVersion pads it), type, valid (it can be      *)
(*   imported and has the mandatory variables), confspec (a CONFSPEC or a  *)
(*   confspec file is found), deps, activable (what _activate answers),    *)
(*   loader (what importing the loader file does: it loads or raises some  *)
(*   exception before it registers anything), hooks (the callbacks it      *)
(*   registers), methods (its custom methods: <<class, method>>), spec     *)
(*   (the options of its CONFSPEC with their defaults) and, as importing   *)
(*   the dynamic code has effects, which copies of it _activate (probes)   *)
(*   and the loader file (imports) bring in.                               *)
(* The order of the dependencies of a plugin is left open.                 *)
(***************************************************************************)
EXTENDS Hooks, FiniteSets, SequencesExt

CONSTANTS
    Name,          \* plugin names
    None           \* Python's None

PluginTypes == {"datasource", "session_handler", "ui", "extension"}

ASSUME PluginAssumption == None \notin Name

VARIABLES
    site,        \* the instance: its plugin directories and its conf.d
    stage,       \* where the boot sequence is
    found,       \* Plugin._plugin_list
    registered,  \* the keys of Plugin._plugin_instances
    called,      \* Plugin._load_called
    order,       \* the plugins whose loaded is True, in the order of loading
    stack,       \* the running activations of _load, innermost last
    tried,       \* the plugins the loop of load_all has been through
    errors,      \* the errors of load_all
    hooks,       \* LodelHook._hooks
    copies,      \* the copies of the dynamic code that were imported
    methods      \* CustomMethod._custom_methods, as <<class, method>>

plugVars == <<found, registered, called, order, stack, tried, errors,
              hooks, copies, methods>>

\* Two modules run the code of the generated file: leapi_dyncode, which the
\* loader and the dummy plugin import, and <context>.dyncode of expose_dyncode.
Copy == {"leapi", "context"}

Frame == [plugin : Name, todo : SUBSET Name, checked : BOOLEAN]
Error == [plugin : Name, kind : {"inactive", "circular", "dependencies", "import"}]

Loaded == Range(order)
Info(n) == found[n]
-----------------------------------------------------------------------------
(* Versions and discovery.                                                 *)

\* PluginVersion.__gt__, on three numbers.
VersionGt(v, w) ==
    \E i \in 1..3 : v[i] > w[i] /\ \A j \in 1..(i - 1) : v[j] = w[j]

\* Plugin.dir_is_plugin.
DirIsPlugin(d) == d.valid

\* Plugin.discover keeps the first directory of the highest version.
KeepHighest(res, d) ==
    IF ~DirIsPlugin(d) \/ (d.name \in DOMAIN res /\ ~VersionGt(d.version, res[d.name].version))
    THEN res
    ELSE [n \in DOMAIN res \cup {d.name} |-> IF n = d.name THEN d ELSE res[n]]
Discover(dirs) ==
    LET after[k \in 0..Len(dirs)] ==
            IF k = 0 THEN << >> ELSE KeepHighest(after[k - 1], dirs[k])
    IN  after[Len(dirs)]
-----------------------------------------------------------------------------
(* Registration.                                                           *)

\* What Plugin.register and the constructors of the plugin types refuse.  A
\* second session handler is refused; InterfacePlugin means to refuse a
\* second interface but tests a class attribute that it never sets.  seen is
\* what was discovered.
Refused(n, seen) ==
    \/ n \in registered
    \/ n \notin DOMAIN seen
    \/ seen[n].type \notin PluginTypes
    \/ ~seen[n].confspec
    \/ /\ seen[n].type = "session_handler"
       /\ \E m \in registered : seen[m].type = "session_handler"
-----------------------------------------------------------------------------
(* load_all.                                                               *)

Top == stack[Len(stack)]
Below == SubSeq(stack, 1, Len(stack) - 1)
Entered(n) == [plugin |-> n, todo |-> {}, checked |-> FALSE]

\* check_deps: a dependency that is not registered is a PluginError.
MissingDeps(n) == Info(n).deps \ registered

\* DatasourcePlugin.get raises the undefined PluginTypeErrror when the plugin
\* is of another type: a NameError, which load_all does not catch.
WrongDeps(n) ==
    IF Info(n).type = "datasource"
    THEN {m \in Info(n).deps \cap registered : Info(m).type # "datasource"}
    ELSE {}

\* Importing copies of the dynamic code for the first time registers the
\* callback that initialises their datasources (lefactory_common.py).
ImportDyncode(registry, new) ==
    LET One(c) == IF c \in new THEN << <<"init_datasources", c>> >> ELSE << >>
    IN  RegisterHooks(registry, "lodel2_plugins_loaded",
                      One("leapi") \o One("context"), LastPriority)

Expose(set) ==
    /\ hooks' = ImportDyncode(hooks, set \ copies)
    /\ copies' = copies \cup set

\* Every test of activable() runs _activate.
ActivateInContext(n) ==
    Expose(IF Info(n).probes = {} THEN {} ELSE {"context"})
Activate(n) == Expose(Info(n).probes)

\* _load_called.append.
MarkNothing(n) == called
MarkCalled(n) == called \cup {n}

\* The dependencies _load goes through, and those left behind m.
NothingFirst(n) == {}
DepsFirst(n) == Info(n).deps
RetryInactive(m) == IF Info(m).activable THEN Top.todo \ {m} ELSE Top.todo
LeftBehind(m) == Top.todo \ {m}

\* A PluginError leaves every running _load and ends in the errors of
\* load_all under the name of the plugin the loop was at.
RaiseSilently(kind) ==
    /\ tried' = tried \cup {stack[1].plugin}
    /\ stack' = << >>
    /\ UNCHANGED <<site, stage, found, registered, called, order, methods, errors>>
Raise(kind) ==
    /\ errors' = errors \cup {[plugin |-> stack[1].plugin, kind |-> kind]}
    /\ tried' = tried \cup {stack[1].plugin}
    /\ stack' = << >>
    /\ UNCHANGED <<site, stage, found, registered, called, order, methods>>

\* Any other exception leaves load_all and ends the program; but webui/run.py,
\* which calls loader.start() in uwsgi mode, passes over a NameError and goes on
\* to answer requests.
Leave(exception) ==
    stage' = IF exception = "NameError" /\ site.mode = "uwsgi" THEN "halfloaded"
             ELSE "broken"
Break(exception) ==
    /\ Leave(exception)
    /\ stack' = << >>
    /\ UNCHANGED <<site, found, registered, called, order, tried, errors, methods>>

Return ==
    /\ stack' = Below
    /\ tried' = IF Below = << >> THEN tried \cup {Top.plugin} ELSE tried

\* The loop takes a plugin; dictionaries are not ordered for this Python.
LoadNext(n) ==
    /\ stage = "loading" /\ stack = << >>
    /\ n \in registered \ tried
    /\ stack' = <<Entered(n)>>
    /\ UNCHANGED <<site, stage, found, registered, called, order, tried, errors,
                   hooks, copies, methods>>

\* _load up to check_deps.
AlreadyLoaded ==
    /\ stage = "loading" /\ stack # << >>
    /\ ~Top.checked /\ Top.plugin \in Loaded
    /\ Return
    /\ UNCHANGED <<site, stage, found, registered, called, order, errors,
                   hooks, copies, methods>>

NotActivable ==
    /\ stage = "loading" /\ stack # << >>
    /\ ~Top.checked /\ Top.plugin \notin Loaded
    /\ ~Info(Top.plugin).activable
    /\ Activate(Top.plugin)
    /\ Raise("inactive")

Circular ==
    /\ stage = "loading" /\ stack # << >>
    /\ ~Top.checked /\ Top.plugin \notin Loaded
    /\ Info(Top.plugin).activable
    /\ Top.plugin \in called
    /\ Activate(Top.plugin)
    /\ Raise("circular")

CheckDeps ==
    /\ stage = "loading" /\ stack # << >>
    /\ ~Top.checked /\ Top.plugin \notin Loaded
    /\ Info(Top.plugin).activable
    /\ Top.plugin \notin called
    /\ Activate(Top.plugin)
    /\ called' = MarkCalled(Top.plugin)
    /\ \/ /\ WrongDeps(Top.plugin) # {}
          /\ Leave("NameError")
          /\ stack' = << >>
          /\ UNCHANGED <<tried, errors>>
       \/ /\ WrongDeps(Top.plugin) = {} /\ MissingDeps(Top.plugin) # {}
          /\ errors' = errors \cup
                [plugin : {stack[1].plugin}, kind : {"dependencies"}]
          /\ tried' = tried \cup {stack[1].plugin}
          /\ stack' = << >>
          /\ UNCHANGED stage
       \/ /\ WrongDeps(Top.plugin) = {} /\ MissingDeps(Top.plugin) = {}
          /\ stack' = Append(Below, [plugin |-> Top.plugin, checked |-> TRUE,
                                     todo |-> DepsFirst(Top.plugin)])
          /\ UNCHANGED <<stage, tried, errors>>
    /\ UNCHANGED <<site, found, registered, order, methods>>

\* The loop over the dependencies.  For one that is not activable an error
\* message is made and not raised: the dependency is passed over.
LoadDep(m) ==
    /\ stage = "loading" /\ stack # << >>
    /\ Top.checked /\ m \in Top.todo
    /\ LET rest == Append(Below, [plugin |-> Top.plugin, checked |-> TRUE,
                                  todo |-> LeftBehind(m)])
       IN  stack' = IF Info(m).activable
                    THEN Append(rest, Entered(m))
                    ELSE rest
    /\ Activate(m)
    /\ UNCHANGED <<site, stage, found, registered, called, order, tried, errors,
                   methods>>

\* The import of the loader file.  Its decorators register callbacks and
\* custom methods; a method that is registered already is a RuntimeError.
Import ==
    /\ stage = "loading" /\ stack # << >>
    /\ Top.checked /\ Top.todo = {}
    /\ LET p == Info(Top.plugin)
       IN  /\ p.loader = "loads"
           /\ p.methods \cap methods = {}
           /\ methods' = methods \cup p.methods
           /\ hooks' = RegisterEach(ImportDyncode(hooks, p.imports \ copies),
                                   <<"plugin", Top.plugin>>, p.hooks)
           /\ copies' = copies \cup p.imports
    /\ order' = Append(order, Top.plugin)
    /\ Return
    /\ UNCHANGED <<site, stage, found, registered, called, errors>>

ImportFails ==
    /\ stage = "loading" /\ stack # << >>
    /\ Top.checked /\ Top.todo = {}
    /\ LET p == Info(Top.plugin)
       IN  \/ /\ p.loader = "ImportError"
              /\ Expose(p.imports) /\ Raise("import")
           \/ /\ p.loader \notin {"loads", "ImportError"}
              /\ Expose(p.imports) /\ Break(p.loader)
           \/ /\ p.loader = "loads" /\ p.methods \cap methods # {}
              /\ Expose(p.imports) /\ Break("RuntimeError")

LoadStep ==
    \/ \E n \in Name : LoadNext(n) \/ LoadDep(n)
    \/ AlreadyLoaded \/ NotActivable \/ Circular \/ CheckDeps
    \/ Import \/ ImportFails

AllTried == stage = "loading" /\ stack = << >> /\ tried = registered
=============================================================================
