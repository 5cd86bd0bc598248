----------------------------- MODULE MCWebSessions -----------------------------
(***************************************************************************)
(* Small instances of WebSessions: which worker, browser or token is which *)
(* makes no difference.                                                    *)
(***************************************************************************)
EXTENDS WebSessionsRefinement, TLC

Interchangeable ==
    Permutations(Workers) \cup Permutations(Browsers) \cup Permutations(Tokens)
=============================================================================
