--------------------------- MODULE MongoStoreClaims ---------------------------
(***************************************************************************)
(* What comments of the repository say of the datasource, as properties of *)
(* MongoStore.  TLC finds each of them violated: see the README.           *)
(***************************************************************************)
EXTENDS MongoStore

(***************************************************************************)
(* "Provides a new uniq numeric ID" (new_numeric_id): no two objects have  *)
(* the same uid.                                                           *)
(***************************************************************************)
UniqIds == UniqueOutside(docs, {})

(***************************************************************************)
(* "The object referenced must exist" (datahandler Link): between two      *)
(* calls, the object a link names is in the database.                      *)
(***************************************************************************)
ReferencedExists ==
    (\A p \in Procs : ~Active(p)) =>
        \A s \in Used(docs), f \in Single : docs[s].refs[f] \subseteq Uids(docs)

(***************************************************************************)
(* "we may do an update in only one __back_ref_upd_one_value() call by     *)
(* giving both old and new value" (__update_backref): that one call is     *)
(* enough, so when an update on its own is about to return, the objects    *)
(* its single references name list it.                                  *)
(***************************************************************************)
OneCallMovesLink ==
    \A p \in Procs :
        /\ call[p].kind = "update" /\ call[p].dirty /\ call[p].alone
        /\ Settled(p) /\ call[p].olds = {}
        => \A s \in Matching(call[p].cls, {call[p].cur}), f \in Single :
              \A y \in (docs[s].refs[f] \cap Uids(docs)) \ {call[p].cur} :
                  Lists(docs, y, Inverse[f], call[p].cur)
=============================================================================
