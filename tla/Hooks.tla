-------------------------------- MODULE Hooks --------------------------------
(***************************************************************************)
(* LodelHook (lodel/plugin/hooks.py): a registry of callbacks per hook     *)
(* name.  A registry is a function from hook names to sequences of         *)
(* [cb, prio]; whoever uses it says what the callbacks do.                 *)
(***************************************************************************)
EXTENDS Naturals, Sequences, FiniteSets

LastPriority == 65535

\* The callbacks LodelHook.call_hook goes through.
HookCalls(registry, name) ==
    IF name \in DOMAIN registry THEN registry[name] ELSE << >>

\* LodelHook.__call__ for each callback of cbs: append, then a stable sort by
\* priority.  The list was sorted before, so the new callbacks go behind those
\* of their own priority.
RegisterHooks(registry, name, cbs, prio) ==
    LET old == HookCalls(registry, name)
        before == Cardinality({k \in DOMAIN old : old[k].prio <= prio})
        new == SubSeq(old, 1, before)
                \o [k \in DOMAIN cbs |-> [cb |-> cbs[k], prio |-> prio]]
                \o SubSeq(old, before + 1, Len(old))
    IN  IF cbs = << >> THEN registry
        ELSE [n \in DOMAIN registry \cup {name} |->
                IF n = name THEN new ELSE registry[n]]

RegisterHook(registry, name, cb, prio) == RegisterHooks(registry, name, <<cb>>, prio)

\* The decorators of a file, one after the other; each hs[k] is a hook and a
\* priority.
RegisterEach(registry, cb, hs) ==
    LET after[k \in 0..Len(hs)] ==
            IF k = 0 THEN registry
            ELSE RegisterHook(after[k - 1], hs[k].hook, cb, hs[k].prio)
    IN  after[Len(hs)]
=============================================================================
