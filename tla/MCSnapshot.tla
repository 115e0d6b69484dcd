----------------------------- MODULE MCSnapshot -----------------------------
(***************************************************************************)
(* Model-checking instance of Snapshot: upstream ua is configured at boot  *)
(* with credential c1; the store still holds c2 under id ub (an upstream   *)
(* deleted without delete_keys), which add_upstream(ub) picks up.  Admin  *)
(* requests carry one credential or both.  model_routes.json lists ua     *)
(* with m1, which ua serves at boot; GET /v1/models answers m1 for ua and *)
(* m2 for ub.  PUT /model-routes carries ua with m2, or ub with an empty  *)
(* list (unknown until ub is added, and then an entry that stops its      *)
(* refresh).  One slot for spawned refresh tasks.                          *)
(***************************************************************************)
EXTENDS Snapshot

CONSTANTS ua, ub, c1, c2, x1, x2, m1, m2, f1

MCUpIds == {ua, ub}
MCCreds == {c1, c2}
MCInitialIds == {ua}
MCInitialStore == [u \in MCUpIds |-> IF u = ua THEN {c1} ELSE {c2}]
MCKeyBatches == {{c2}}
OneAdmin == {x1}
TwoAdmins == {x1, x2}
MCModels == {m1}
MCProbe == [u \in MCUpIds |-> {m1}]
MCInitialRoutes == [has |-> {ua}, ms |-> [u \in MCUpIds |-> IF u = ua THEN {m1} ELSE {}]]
MCRoutePuts == {[has |-> {ua}, ms |-> [u \in MCUpIds |-> {}]],
                [has |-> {ub}, ms |-> [u \in MCUpIds |-> {}]]}
OneTask == {f1}

\* The rebuilds whose Upstream objects someone still holds: the live
\* snapshot, an admin request in progress, a refresh task between its
\* capture and its store.  The objects of any other rebuild have been
\* dropped (their Arc count is zero) and no step reads them again.
HeldGens == {snap.gen} \cup {adm[a].gen : a \in {b \in Admins : adm[b].pc # "idle"}}
                      \cup {rf[t].gen : t \in {s \in Tasks : rf[s].pc = "mfetch"}}

\* States that differ only in dropped objects are the same state.
HeldView == <<snap, store, cfgfile, gens, adm, intent, routes, rf, overlap, restarts, boot,
              [o \in Objs |-> IF o[2] \in HeldGens THEN <<objkeys[o], objmodels[o]>> ELSE <<>>]>>

=============================================================================
