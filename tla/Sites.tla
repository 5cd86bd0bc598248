------------------------------- MODULE Sites --------------------------------
(***************************************************************************)
(* Contexts and the multisite server (context.py, plugins/multisite).      *)
(*                                                                         *)
(* The server gives each directory of an instance a context: a copy of the *)
(* package lodel under the name of the site.  It loads the sites one after *)
(* the other, then answers requests by the site their path begins with.    *)
(* What is imported, read or exposed depends on the current context and on *)
(* the current directory, both of the process.  How a site is loaded is    *)
(* module Boot's; workers are forked with all sites loaded and share no    *)
(* more than that, so there is one.                                        *)
(***************************************************************************)
EXTENDS FiniteSets, Sequences, SequencesExt

CONSTANTS
    None,
    Loader,       \* the context __loader__
    Names,        \* the names of directories
    Short,        \* those of one character
    Dotted,       \* those whose first part names another package
    Broken,       \* the sites whose loading raises
    MaxRequests   \* bound: requests

ASSUME NamesAssumption ==
    /\ Short \cup Dotted \cup Broken \subseteq Names
    /\ Loader # None /\ {Loader, None} \cap Names = {}
    /\ IsFiniteSet(Names)

VARIABLES
    contexts,   \* _contexts: the contexts there are
    current,    \* _current
    previous,   \* context -> __previous_ctx
    cwd,        \* the directory of the process; None where it was started
    todo,       \* the directories left, in the order of listdir
    site,       \* the site that is being loaded, or asked for
    exposed,    \* name in the globals of run.py -> the context it is from
    apps,       \* FAST_APP_EXPOSAL_CACHE: site -> the context its webui is from
    conf,       \* site -> the directory its settings were read in
    dyncode,    \* site -> the directory its dynamic code was read in
    pc,
    requests    \* requests so far

vars == <<contexts, current, previous, cwd, todo, site, exposed, apps, conf, dyncode,
          pc, requests>>
boot == <<contexts, previous, cwd, todo, exposed, apps, conf, dyncode>>
-----------------------------------------------------------------------------
(* LodelContext.                                                           *)

\* An entry of a dictionary.
Put(dict, key, value) ==
    [k \in DOMAIN dict \cup {key} |-> IF k = key THEN value ELSE dict[k]]

\* validate_identifier wants two characters and looks at no others.
ValidIdentifier(id) == id \notin Short

\* set: the context to switch to, unless it raises; None is the loader's.  The
\* directory never changes: the attribute it looks for has another name.
Target(id) == IF id = None THEN Loader ELSE id
SetRaises(id) == Target(id) \notin contexts \/ ~ValidIdentifier(Target(id))
FirstOnly(id) == IF current = Loader THEN Target(id) ELSE current
Switched(id) == Target(id)

\* __enter__ and __exit__: whatever was current on entry, leaving sets None.
EnterRaises(id) == previous[id] # None
Entered(id) == IF current # id THEN [previous EXCEPT ![id] = current] ELSE previous
Left(id, prev) == IF prev[id] # None THEN Target(None) ELSE current
-----------------------------------------------------------------------------
(* Loading the sites.                                                      *)

\* LodelContext.init(MULTISITE), set(None), and the directories.
Init ==
    /\ contexts = {Loader} /\ current = Loader
    /\ previous = [c \in {Loader} |-> None]
    /\ cwd = None
    /\ \E dirs \in SUBSET Names : todo \in SetToSeqs(dirs)
    /\ site = None
    /\ exposed = [n \in {"settings"} |-> Loader]
    /\ apps = << >> /\ conf = << >> /\ dyncode = << >>
    /\ pc = "boot" /\ requests = 0

\* An exception at the top of the module: the server does not start.
Dies == pc' = "dead" /\ UNCHANGED <<boot, current, site, requests>>

\* from_path, new and __init__: a message is logged in the loader's context, the
\* site's package is imported, then the context is registered.
FromPath ==
    /\ pc = "boot" /\ todo # << >>
    /\ LET d == Head(todo)
           prev == Entered(Loader)
       IN  IF ~ValidIdentifier(d) \/ EnterRaises(Loader) \/ d \in contexts \/ d \in Dotted
           THEN Dies
           ELSE /\ contexts' = contexts \cup {d}
                /\ previous' = Put(Put(prev, Loader, None), d, None)
                /\ current' = Left(Loader, prev)
                /\ site' = d
                /\ todo' = Tail(todo)
                /\ pc' = "enter"
                /\ UNCHANGED <<cwd, exposed, apps, conf, dyncode, requests>>

\* The site's context and directory become current.
Stays(d) == cwd
Chdir(d) == d
EnterSite ==
    /\ pc = "enter"
    /\ IF SetRaises(site) THEN Dies
       ELSE /\ current' = Switched(site)
            /\ cwd' = Chdir(site)
            /\ pc' = "load"
            /\ UNCHANGED <<contexts, previous, todo, site, exposed, apps, conf, dyncode, requests>>

\* What the context exposes in the globals replaces what the last one did; the
\* settings class is the site's own, and not started.  Settings are read in
\* ./conf.d; the dynamic code in the path of the context.
Globals == {"settings", "Settings", "LodelHook", "core_hooks", "core_scripts", "logger", "Plugin"}
LoadSite ==
    /\ pc = "load"
    /\ IF site \in Broken THEN Dies
       ELSE /\ exposed' = [n \in Globals \cup {"leapi_dyncode"} |-> current] @@ exposed
            /\ conf' = Put(conf, current, cwd)
            /\ dyncode' = Put(dyncode, current, current)
            /\ pc' = "cache"
            /\ UNCHANGED <<contexts, current, previous, cwd, todo, site, apps, requests>>

\* The application is cached and the names deleted, the dynamic code's aside;
\* then the loader's context becomes current again.
CacheApplication ==
    /\ pc = "cache"
    /\ apps' = Put(apps, site, current)
    /\ exposed' = [n \in DOMAIN exposed \ Globals |-> exposed[n]]
    /\ current' = Switched(None)
    /\ pc' = "boot"
    /\ UNCHANGED <<contexts, previous, cwd, todo, site, conf, dyncode, requests>>

Start ==
    /\ pc = "boot" /\ todo = << >>
    /\ pc' = "idle" /\ site' = None
    /\ UNCHANGED <<boot, current, requests>>
-----------------------------------------------------------------------------
(* Requests: application.                                                  *)

\* site_id_from_url: a path may begin with any name, or none.
Request ==
    /\ pc = "idle" /\ requests < MaxRequests
    /\ requests' = requests + 1
    /\ \E u \in Names \cup {Loader, None} :
        IF u = None
        THEN UNCHANGED <<boot, current, site, pc>>      \* 404
        ELSE site' = u /\ pc' = "set" /\ UNCHANGED <<boot, current>>

\* No such context: the name of the exception is unknown too, so the request
\* fails, and the context the last request has left stays current.
SetSite ==
    /\ pc = "set"
    /\ IF SetRaises(site)
       THEN pc' = "idle" /\ UNCHANGED current
       ELSE /\ current' = Switched(site)
            /\ pc' = IF site \in DOMAIN apps THEN "serve" ELSE "idle"
    /\ UNCHANGED <<boot, site, requests>>

\* The webui of the site answers; nothing resets the context.
Serve ==
    /\ pc = "serve" /\ pc' = "idle"
    /\ UNCHANGED <<boot, current, site, requests>>

Next == FromPath \/ EnterSite \/ LoadSite \/ CacheApplication \/ Start
        \/ Request \/ SetSite \/ Serve

Spec == Init /\ [][Next]_vars
-----------------------------------------------------------------------------
(* Properties.                                                             *)

\* While a site answers, what its functions expose when they are called - the
\* logger, the dynamic code, the settings - is the site's own, whichever sites
\* were asked for, found or not, in the requests before.
AnswersInOwnContext == pc = "serve" => current = site /\ apps[site] = site

\* Once requests are accepted every directory has its site, the application
\* and the dynamic code of its own package and the settings of its own
\* directory, though the sites were loaded by one process that has one current
\* context and one current directory.
SitesAreTheirOwn ==
    pc \in {"idle", "set", "serve"} =>
        \A s \in contexts \ {Loader} :
            s \in DOMAIN apps \cap DOMAIN conf \cap DOMAIN dyncode
            /\ <<apps[s], conf[s], dyncode[s]>> = <<s, s, s>>
=============================================================================
