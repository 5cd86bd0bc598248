----------------------------- MODULE SitesProofs -----------------------------
(***************************************************************************)
(* Every site is loaded from, and answers in, its own context: Sites, for  *)
(* any names of directories and any number of requests.                    *)
(***************************************************************************)
EXTENDS Sites, SequenceTheorems, FiniteSetTheorems, TLAPS

Loading == {"enter", "load", "cache"}
Own(s) ==
    /\ s \in DOMAIN apps /\ apps[s] = s
    /\ s \in DOMAIN conf /\ conf[s] = s
    /\ s \in DOMAIN dyncode /\ dyncode[s] = s

\* Names are names, and a step of loading or answering knows its site.
SiteKnown ==
    /\ todo \in Seq(Names)
    /\ contexts \subseteq Names \cup {Loader}
    /\ pc \in Loading => site \in Names
    /\ pc = "set" => site # None

\* The current context and directory are those of the site that is loaded.
LoadsInOwnContext ==
    /\ pc \in {"load", "cache"} => current = site /\ cwd = site
    /\ pc = "cache" => /\ site \in DOMAIN conf /\ conf[site] = site
                       /\ site \in DOMAIN dyncode /\ dyncode[site] = site

\* What was loaded before stays.
LoadedAreOwn ==
    /\ \A s \in DOMAIN apps : apps[s] = s
    /\ pc # "dead" =>
        \A s \in contexts \ {Loader} : (pc \in Loading /\ s = site) \/ Own(s)
    /\ pc = "serve" => current = site /\ site \in DOMAIN apps

Inv == SiteKnown /\ LoadsInOwnContext /\ LoadedAreOwn

\* The directories of the server are a sequence of names.
LEMMA DirsAreNames ==
    ASSUME NEW dirs \in SUBSET Names, NEW s \in SetToSeqs(dirs)
    PROVE  s \in Seq(Names)
<1>1. Cardinality(dirs) \in Nat
  BY NamesAssumption, FS_Subset, FS_CardinalityType
<1>2. s \in [1..Cardinality(dirs) -> Names]
  BY DEF SetToSeqs
<1> QED
  BY <1>1, <1>2

\* Before the first site is loaded the invariant holds.
LEMMA InitInv == Init => Inv
<1> SUFFICES ASSUME Init PROVE Inv
  OBVIOUS
<1>1. todo \in Seq(Names)
  BY DirsAreNames DEF Init
<1> QED
  BY <1>1 DEF Init, Inv, SiteKnown, LoadsInOwnContext, LoadedAreOwn, Loading

\* An exception while a site is loaded leaves nothing to show.
LEMMA DiesInv == Inv /\ Dies => Inv'
BY DEF Inv, SiteKnown, LoadsInOwnContext, LoadedAreOwn, Loading, Dies, boot

\* A context is made for the next directory, and its site is to be loaded.
LEMMA FromPathInv == Inv /\ FromPath => Inv'
<1> SUFFICES ASSUME Inv, FromPath PROVE Inv'
  OBVIOUS
<1>1. CASE Dies
  BY <1>1, DiesInv
<1>2. CASE ~Dies
  <2>1. /\ pc = "boot" /\ todo # << >>
        /\ contexts' = contexts \cup {Head(todo)}
        /\ site' = Head(todo) /\ todo' = Tail(todo) /\ pc' = "enter"
        /\ UNCHANGED <<apps, conf, dyncode>>
    BY <1>2 DEF FromPath
  <2>2. Head(todo) \in Names /\ Tail(todo) \in Seq(Names)
    BY <2>1, HeadTailProperties DEF Inv, SiteKnown
  <2> QED
    BY <2>1, <2>2 DEF Inv, SiteKnown, LoadsInOwnContext, LoadedAreOwn, Loading, Own
<1> QED
  BY <1>1, <1>2

\* Context and directory are switched to the site.
LEMMA EnterSiteInv == Inv /\ EnterSite => Inv'
<1> SUFFICES ASSUME Inv, EnterSite PROVE Inv'
  OBVIOUS
<1>1. CASE Dies
  BY <1>1, DiesInv
<1>2. CASE ~Dies
  <2>1. site # None
    BY NamesAssumption DEF EnterSite, Inv, SiteKnown, Loading
  <2>2. /\ pc = "enter" /\ pc' = "load" /\ current' = site /\ cwd' = site
        /\ UNCHANGED <<contexts, todo, site, apps, conf, dyncode>>
    BY <1>2, <2>1 DEF EnterSite, Switched, Target, Chdir
  <2> QED
    BY <2>2 DEF Inv, SiteKnown, LoadsInOwnContext, LoadedAreOwn, Loading, Own
<1> QED
  BY <1>1, <1>2

\* Settings and dynamic code are read for the site alone.
LEMMA LoadSiteInv == Inv /\ LoadSite => Inv'
<1> SUFFICES ASSUME Inv, LoadSite PROVE Inv'
  OBVIOUS
<1>1. CASE Dies
  BY <1>1, DiesInv
<1>2. CASE ~Dies
  <2>1. /\ pc = "load" /\ pc' = "cache"
        /\ UNCHANGED <<contexts, current, cwd, todo, site, apps>>
        /\ conf' = Put(conf, current, cwd)
        /\ dyncode' = Put(dyncode, current, current)
    BY <1>2 DEF LoadSite
  <2>2. current = site /\ cwd = site
    BY <2>1 DEF Inv, LoadsInOwnContext
  <2>3. /\ DOMAIN conf' = DOMAIN conf \cup {site} /\ conf'[site] = site
        /\ \A k \in DOMAIN conf : k # site => conf'[k] = conf[k]
        /\ DOMAIN dyncode' = DOMAIN dyncode \cup {site} /\ dyncode'[site] = site
        /\ \A k \in DOMAIN dyncode : k # site => dyncode'[k] = dyncode[k]
    BY <2>1, <2>2 DEF Put
  <2>4. \A s \in contexts \ {Loader} : s # site => Own(s)
    BY <2>1 DEF Inv, LoadedAreOwn
  <2>5. \A s \in contexts \ {Loader} : s # site => Own(s)'
    BY <2>1, <2>3, <2>4 DEF Own
  <2> QED
    BY <2>1, <2>2, <2>3, <2>5 DEF Inv, SiteKnown, LoadsInOwnContext, LoadedAreOwn, Loading
<1> QED
  BY <1>1, <1>2

\* The application of the site is cached, and the site is loaded.
LEMMA CacheApplicationInv == Inv /\ CacheApplication => Inv'
<1> SUFFICES ASSUME Inv, CacheApplication PROVE Inv'
  OBVIOUS
<1>1. /\ pc = "cache" /\ pc' = "boot"
      /\ UNCHANGED <<contexts, todo, site, conf, dyncode>>
      /\ apps' = Put(apps, site, current)
  BY DEF CacheApplication
<1>2. current = site /\ site \in DOMAIN conf /\ conf[site] = site
      /\ site \in DOMAIN dyncode /\ dyncode[site] = site
  BY <1>1 DEF Inv, LoadsInOwnContext
<1>3. /\ DOMAIN apps' = DOMAIN apps \cup {site} /\ apps'[site] = site
      /\ \A k \in DOMAIN apps : k # site => apps'[k] = apps[k]
  BY <1>1, <1>2 DEF Put
<1>4. \A s \in contexts \ {Loader} : s # site => Own(s)
  BY <1>1 DEF Inv, LoadedAreOwn
<1>5. \A s \in contexts \ {Loader} : Own(s)'
  BY <1>1, <1>2, <1>3, <1>4 DEF Own
<1> QED
  BY <1>1, <1>3, <1>5 DEF Inv, SiteKnown, LoadsInOwnContext, LoadedAreOwn, Loading

\* Requests change neither the sites nor what was loaded for them.
LEMMA RequestInv ==
    Inv /\ (Start \/ Request \/ SetSite \/ Serve \/ UNCHANGED vars) => Inv'
<1> SUFFICES ASSUME Inv, Start \/ Request \/ SetSite \/ Serve \/ UNCHANGED vars
             PROVE  Inv'
  OBVIOUS
<1> USE DEF Inv, SiteKnown, LoadsInOwnContext, LoadedAreOwn, Loading, Own, boot
<1>1. CASE Start
  BY <1>1 DEF Start
<1>2. CASE Request
  <2>1. PICK u \in Names \cup {Loader, None} :
            IF u = None THEN UNCHANGED <<boot, current, site, pc>>
            ELSE site' = u /\ pc' = "set" /\ UNCHANGED <<boot, current>>
    BY <1>2 DEF Request
  <2>2. pc = "idle"
    BY <1>2 DEF Request
  <2> QED
    BY <2>1, <2>2
<1>3. CASE SetSite
  <2>1. /\ pc = "set" /\ site # None /\ UNCHANGED <<boot, site>>
        /\ pc' = "idle" \/ (pc' = "serve" /\ site \in DOMAIN apps /\ current' = site)
    BY <1>3 DEF SetSite, Switched, Target
  <2> QED
    BY <2>1
<1>4. CASE Serve
  BY <1>4 DEF Serve
<1>5. CASE UNCHANGED vars
  BY <1>5 DEF vars
<1> QED
  BY <1>1, <1>2, <1>3, <1>4, <1>5

\* The invariant holds in every state.
LEMMA Invariance == Spec => []Inv
<1>1. Inv /\ [Next]_vars => Inv'
  BY FromPathInv, EnterSiteInv, LoadSiteInv, CacheApplicationInv, RequestInv DEF Next
<1> QED
  BY InitInv, <1>1, PTL DEF Spec

\* While a site answers its own context is current, and its application is its
\* own, whatever was requested before (multisite/run.py, context.py).
THEOREM OwnContext == Spec => []AnswersInOwnContext
<1>1. Inv => AnswersInOwnContext
  BY DEF Inv, LoadedAreOwn, AnswersInOwnContext
<1> QED
  BY Invariance, <1>1, PTL

\* When the server accepts requests every site has the application, settings and
\* dynamic code of its own directory.
THEOREM OwnSites == Spec => []SitesAreTheirOwn
<1>1. Inv => SitesAreTheirOwn
  BY DEF Inv, LoadedAreOwn, SitesAreTheirOwn, Own, Loading
<1> QED
  BY Invariance, <1>1, PTL
=============================================================================
