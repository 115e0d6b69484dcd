------------------------------ MODULE Snapshot ------------------------------
(***************************************************************************)
(* Admin mutation of the router's live state in gptload-rs.  The snapshot  *)
(* (RouterState.snapshot, an ArcSwap) lists the live Upstream objects;     *)
(* each Upstream holds its credential list in another ArcSwap (keys); the  *)
(* key store (sled, one tree per upstream id) is the durable copy of the   *)
(* lists, and upstreams.json the durable copy of the upstream list.        *)
(*                                                                         *)
(* Upstream mutations (add/update/delete_upstream) read the live configs,  *)
(* build a fresh snapshot whose Upstream objects load their keys from the  *)
(* store, swap it in and write upstreams.json, with no lock.  Key          *)
(* mutations (api_add_keys/replace_keys/delete_keys) find the live         *)
(* Upstream object, write the store, then load and store that object's     *)
(* key list.  api_reload_all reloads every live object's list from the     *)
(* store.  Each admin request is an actor with a pc; every ArcSwap load or *)
(* store and every store call is its own step.                             *)
(*                                                                         *)
(* Model routes: each Upstream object also holds its model set (models,  *)
(* an ArcSwap) and model_routes.json is their durable copy.  A rebuild    *)
(* applies the file to the new objects before the swap and cleans it of   *)
(* removed ids after; PUT /model-routes writes the file and applies it to *)
(* the snapshot it loaded; add_upstream, add/replace_keys and reload_all  *)
(* spawn a refresh task that fetches /v1/models of each upstream missing  *)
(* from the file, stores the answer on the Upstream object it captured,   *)
(* and rewrites the file from the live objects.                            *)
(*                                                                         *)
(* Data abstraction: an upstream config is its id (base_url and weight do  *)
(* not change which objects exist); a credential list and a model list    *)
(* are sets; the Upstream objects built by the g-th rebuild are <<id, g>>; *)
(* the routes file is its per-upstream map (the per-model map is derived  *)
(* from it).  Request selection and the breaker are left to Router.       *)
(***************************************************************************)
EXTENDS Naturals, FiniteSets

CONSTANTS
    UpIds,          \* upstream ids
    Creds,          \* credential strings
    Admins,         \* concurrent admin requests
    InitialIds,     \* the configured upstream list at boot
    InitialStore,   \* the key store at boot: id -> credentials
    KeyBatches,     \* the key lists admin requests carry
    MaxBuilds,      \* bound on snapshot rebuilds
    Models,         \* model names
    Probe,          \* what GET /v1/models of each upstream answers when it succeeds
    InitialRoutes,  \* model_routes.json at boot
    RoutePuts,      \* the bodies PUT /model-routes carries
    Tasks,          \* slots for spawned refresh tasks (bound)
    MaxRestarts     \* bound on process restarts

ASSUME InitialIds \subseteq UpIds /\ InitialIds # {}
ASSUME InitialStore \in [UpIds -> SUBSET Creds]
ASSUME KeyBatches \subseteq (SUBSET Creds) \ {{}}
ASSUME MaxBuilds \in Nat /\ MaxRestarts \in Nat

\* model_routes.json: the upstreams it lists and each one's models; an id it
\* does not list maps to {} (its entry is absent).
Routes == [has: SUBSET UpIds, ms: [UpIds -> SUBSET Models]]
NoRoutes == [has |-> {}, ms |-> [u \in UpIds |-> {}]]

ASSUME Probe \in [UpIds -> SUBSET Models]
ASSUME InitialRoutes \in Routes /\ RoutePuts \subseteq Routes

Gens == 0..MaxBuilds
Objs == UpIds \X Gens

VARIABLES
    snap,     \* the live snapshot: its upstream ids and the rebuild that made it
    objkeys,  \* Upstream.keys of every Upstream object
    store,    \* the key store trees
    cfgfile,  \* upstreams.json
    gens,     \* rebuilds so far
    adm,      \* the locals of each admin request
    intent,   \* history: the upstream list the completed mutations ask for
    objmodels,\* Upstream.models of every Upstream object
    routes,   \* model_routes.json
    rf,       \* the locals of each spawned refresh task
    overlap,  \* history: a refresh task and an admin request were once both running
    restarts, \* process restarts so far
    boot      \* main's boot refresh is running: the server does not listen yet

vars == <<snap, objkeys, store, cfgfile, gens, adm, intent, objmodels, routes, rf, overlap,
          restarts, boot>>
routing == <<objmodels, routes, rf>>

Ops == {"none", "add_up", "update_up", "delete_up", "add_keys", "replace_keys",
        "delete_keys", "reload", "save_routes"}
Pcs == {"idle", "build", "routes", "publish", "persist", "cleanup", "cwrite", "clear",
        "kstore", "kinsert", "kload", "kput", "rload", "rput", "sapply"}

Idle == [pc |-> "idle", op |-> "none", id |-> CHOOSE u \in UpIds : TRUE,
         ks |-> {}, dk |-> FALSE, list |-> {}, gen |-> 0, old |-> {},
         ins |-> {}, todo |-> {}, rp |-> NoRoutes]

AdminState == [pc: Pcs, op: Ops, id: UpIds, ks: SUBSET Creds, dk: BOOLEAN,
               list: SUBSET UpIds, gen: Gens, old: SUBSET Creds,
               ins: SUBSET Creds, todo: SUBSET UpIds, rp: Routes]

\* A refresh task: refresh_missing_models_for_upstream(id) when ~all,
\* refresh_missing_models_routes when all; gen is the snapshot whose objects
\* it captured, todo the upstreams left to fetch, got whether a fetch
\* succeeded, out the file it is about to write.
RfIdle == [pc |-> "idle", all |-> FALSE, id |-> CHOOSE u \in UpIds : TRUE,
           gen |-> 0, todo |-> {}, got |-> FALSE, out |-> NoRoutes]

RfState == [pc: {"idle", "mcheck", "mfetch", "mpersist", "mwrite"}, all: BOOLEAN,
            id: UpIds, gen: Gens, todo: SUBSET UpIds, got: BOOLEAN, out: Routes]

TypeOK ==
    /\ gens \in Gens
    /\ snap \in [ids: (SUBSET UpIds) \ {{}}, gen: 0..gens]
    /\ objkeys \in [Objs -> SUBSET Creds]
    /\ store \in [UpIds -> SUBSET Creds]
    /\ cfgfile \in SUBSET UpIds
    /\ adm \in [Admins -> AdminState]
    /\ intent \in SUBSET UpIds
    /\ objmodels \in [Objs -> SUBSET Models]
    /\ routes \in Routes
    /\ rf \in [Tasks -> RfState]
    /\ overlap \in BOOLEAN
    /\ restarts \in 0..MaxRestarts
    /\ boot \in BOOLEAN

\* The live Upstream object of id u.
Live(u) == <<u, snap.gen>>

\* The models an upstream gets from a routes file (apply_routes_to_upstreams:
\* its entry, or the empty set when the file has none).
RouteOf(r, u) == IF u \in r.has THEN r.ms[u] ELSE {}

\* apply_routes_to_upstreams(r) on the objects of rebuild g with ids in ids.
ApplyTo(r, ids, g) ==
    [o \in Objs |-> IF o[2] = g /\ o[1] \in ids THEN RouteOf(r, o[1]) ELSE objmodels[o]]

\* RouterState::new: build_snapshot_from_configs over the boot configs, then
\* load_model_routes and apply_loaded_routes.
Init ==
    /\ store = InitialStore
    /\ snap = [ids |-> InitialIds, gen |-> 0]
    /\ objkeys = [o \in Objs |-> IF o[2] = 0 THEN store[o[1]] ELSE {}]
    /\ cfgfile = InitialIds
    /\ gens = 0
    /\ adm = [a \in Admins |-> Idle]
    /\ intent = InitialIds
    /\ routes = InitialRoutes
    /\ objmodels = [o \in Objs |-> IF o[2] = 0 /\ o[1] \in InitialIds
                                     THEN RouteOf(InitialRoutes, o[1]) ELSE {}]
    /\ rf = [t \in Tasks |-> RfIdle]
    /\ overlap = FALSE
    /\ restarts = 0
    /\ boot = FALSE

Set(a, r) == adm' = [adm EXCEPT ![a] = r]

\* The actor a starts an operation in state r; only adm changes.
Begin(a, r) ==
    /\ adm[a].pc = "idle"
    /\ Set(a, r)
    /\ UNCHANGED <<snap, objkeys, store, cfgfile, gens, intent, routing>>

(***************************************************************************)
(* Upstream mutations: current_upstream_configs() reads the live list,     *)
(* then add pushes the new id (an existing id bails), update keeps the    *)
(* list (an unknown id bails), delete retains the others (an unknown id    *)
(* bails); a list left empty makes build_snapshot_from_configs bail.       *)
(***************************************************************************)
\* Mutant: add_upstream checks the id but never pushes the new config.
AddUpstreamNoPush(a, u) ==
    /\ u \notin snap.ids
    /\ gens < MaxBuilds
    /\ Begin(a, [Idle EXCEPT !.pc = "build", !.op = "add_up", !.id = u,
                            !.list = snap.ids])

AddUpstream(a, u) ==
    /\ u \notin snap.ids
    /\ gens < MaxBuilds
    /\ Begin(a, [Idle EXCEPT !.pc = "build", !.op = "add_up", !.id = u,
                            !.list = snap.ids \cup {u}])

UpdateUpstream(a, u) ==
    /\ u \in snap.ids
    /\ gens < MaxBuilds
    /\ Begin(a, [Idle EXCEPT !.pc = "build", !.op = "update_up", !.id = u,
                            !.list = snap.ids])

DeleteUpstream(a, u, dk) ==
    /\ u \in snap.ids
    /\ snap.ids # {u}
    /\ gens < MaxBuilds
    /\ Begin(a, [Idle EXCEPT !.pc = "build", !.op = "delete_up", !.id = u,
                            !.dk = dk, !.list = snap.ids \ {u}])

\* build_snapshot_from_configs: fresh Upstream objects, each loading its keys
\* from the store (load_all_keys, build_key_states).
Build(a) ==
    LET q == adm[a] IN
    /\ q.pc = "build"
    /\ gens < MaxBuilds
    /\ gens' = gens + 1
    /\ objkeys' = [o \in Objs |-> IF o[2] = gens + 1 /\ o[1] \in q.list
                                    THEN store[o[1]] ELSE objkeys[o]]
    /\ Set(a, [q EXCEPT !.pc = "routes", !.gen = gens + 1])
    /\ UNCHANGED <<snap, store, cfgfile, intent, routing>>

\* Mutant: replace_upstreams swaps in the new objects without applying the
\* routes file to them.
ApplyRoutesSkipped(a) ==
    LET q == adm[a] IN
    /\ q.pc = "routes"
    /\ Set(a, [q EXCEPT !.pc = "publish"])
    /\ UNCHANGED <<snap, objkeys, store, cfgfile, gens, intent, routing>>

\* load_model_routes and apply_routes_to_upstreams on the new objects.
ApplyRoutes(a) ==
    LET q == adm[a] IN
    /\ q.pc = "routes"
    /\ objmodels' = ApplyTo(routes, q.list, q.gen)
    /\ Set(a, [q EXCEPT !.pc = "publish"])
    /\ UNCHANGED <<snap, objkeys, store, cfgfile, gens, intent, routes, rf>>

\* Mutant: the swapped-in snapshot is tagged one rebuild ahead.
PublishNextGen(a) ==
    LET q == adm[a] IN
    /\ q.pc = "publish"
    /\ snap' = [ids |-> q.list, gen |-> q.gen + 1]
    /\ intent' = CASE q.op = "add_up" -> intent \cup {q.id}
                   [] q.op = "delete_up" -> intent \ {q.id}
                   [] OTHER -> intent
    /\ Set(a, [q EXCEPT !.pc = "persist"])
    /\ UNCHANGED <<objkeys, store, cfgfile, gens, routing>>

\* self.snapshot.store(Arc::new(snapshot)).
Publish(a) ==
    LET q == adm[a] IN
    /\ q.pc = "publish"
    /\ snap' = [ids |-> q.list, gen |-> q.gen]
    /\ intent' = CASE q.op = "add_up" -> intent \cup {q.id}
                   [] q.op = "delete_up" -> intent \ {q.id}
                   [] OTHER -> intent
    /\ Set(a, [q EXCEPT !.pc = "persist"])
    /\ UNCHANGED <<objkeys, store, cfgfile, gens, routing>>

\* Mutant: a delete with delete_keys skips writing upstreams.json.
PersistSkippedOnDelete(a) ==
    LET q == adm[a] IN
    /\ q.pc = "persist"
    /\ cfgfile' = IF q.op = "delete_up" /\ q.dk THEN cfgfile ELSE q.list
    /\ Set(a, [q EXCEPT !.pc = "cleanup"])
    /\ UNCHANGED <<snap, objkeys, store, gens, intent, routing>>

\* write_upstreams_override.
Persist(a) ==
    LET q == adm[a] IN
    /\ q.pc = "persist"
    /\ cfgfile' = q.list
    /\ Set(a, [q EXCEPT !.pc = "cleanup"])
    /\ UNCHANGED <<snap, objkeys, store, gens, intent, routing>>

\* A spawned refresh task takes a free slot; with every slot busy the
\* spawning step waits (the bound Tasks).
Spawn(all, u) ==
    \E t \in Tasks :
        /\ rf[t].pc = "idle"
        /\ rf' = [rf EXCEPT ![t] = [RfIdle EXCEPT !.pc = "mcheck", !.all = all, !.id = u]]

\* The end of the handler after cleanup_model_routes: delete with delete_keys
\* goes on to clear the tree, api_add_upstream spawns
\* refresh_missing_models_for_upstream, the others answer.
CleanupDone(a, q) ==
    \/ q.op = "delete_up" /\ q.dk /\ Set(a, [q EXCEPT !.pc = "clear"]) /\ UNCHANGED rf
    \/ q.op = "add_up" /\ Set(a, Idle) /\ Spawn(FALSE, q.id)
    \/ q.op = "update_up" /\ Set(a, Idle) /\ UNCHANGED rf
    \/ q.op = "delete_up" /\ ~q.dk /\ Set(a, Idle) /\ UNCHANGED rf

\* cleanup_model_routes, first part: load the file and the live snapshot and
\* retain the entries of live ids.  Nothing dropped: return, the handler
\* goes on.  Otherwise the retained routes are kept for the write.
CleanupLoad(a) ==
    LET q == adm[a]
        kept == routes.has \cap snap.ids
        new == [has |-> kept, ms |-> [u \in UpIds |-> IF u \in kept THEN routes.ms[u] ELSE {}]]
    IN
    /\ q.pc = "cleanup"
    /\ \/ kept = routes.has /\ CleanupDone(a, q)
       \/ /\ kept # routes.has
          /\ Set(a, [q EXCEPT !.pc = "cwrite", !.rp = new, !.list = snap.ids, !.gen = snap.gen])
          /\ UNCHANGED rf
    /\ UNCHANGED <<snap, objkeys, store, cfgfile, gens, intent, routes, objmodels>>

\* cleanup_model_routes, second part: write_model_routes of the retained
\* routes, then apply_routes_to_upstreams on the snapshot it loaded.
CleanupWrite(a) ==
    LET q == adm[a] IN
    /\ q.pc = "cwrite"
    /\ routes' = q.rp
    /\ objmodels' = ApplyTo(q.rp, q.list, q.gen)
    /\ CleanupDone(a, q)
    /\ UNCHANGED <<snap, objkeys, store, cfgfile, gens, intent>>

\* store.replace_keys(id, []) of delete_upstream: the tree is cleared.
ClearKeys(a) ==
    LET q == adm[a] IN
    /\ q.pc = "clear"
    /\ store' = [store EXCEPT ![q.id] = {}]
    /\ Set(a, Idle)
    /\ UNCHANGED <<snap, objkeys, cfgfile, gens, intent, routing>>

(***************************************************************************)
(* Key mutations: upstream_by_id takes the live Upstream object (an        *)
(* unknown id answers 404).  add_keys and delete_keys write the store      *)
(* (kstore), then load the object's list (kload) and store the merged or  *)
(* filtered list (kput).  replace_keys clears the tree (kstore), inserts   *)
(* the new keys (kinsert) and stores the new list (kput).                  *)
(***************************************************************************)
KeyOp(a, op, u, ks) ==
    /\ u \in snap.ids
    /\ Begin(a, [Idle EXCEPT !.pc = "kstore", !.op = op, !.id = u, !.ks = ks,
                            !.gen = snap.gen])

KeyStore(a) ==
    LET q == adm[a] IN
    /\ q.pc = "kstore"
    /\ store' = [store EXCEPT ![q.id] =
                    CASE q.op = "add_keys" -> @ \cup q.ks
                      [] q.op = "delete_keys" -> @ \ q.ks
                      [] OTHER -> {}]
    /\ Set(a, [q EXCEPT !.pc = IF q.op = "replace_keys" THEN "kinsert" ELSE "kload",
                        !.ins = q.ks \ store[q.id]])
    /\ UNCHANGED <<snap, objkeys, cfgfile, gens, intent, routing>>

KeyInsert(a) ==
    LET q == adm[a] IN
    /\ q.pc = "kinsert"
    /\ store' = [store EXCEPT ![q.id] = q.ks]
    /\ Set(a, [q EXCEPT !.pc = "kput"])
    /\ UNCHANGED <<snap, objkeys, cfgfile, gens, intent, routing>>

\* upstream2.keys.load_full().
KeyLoad(a) ==
    LET q == adm[a] IN
    /\ q.pc = "kload"
    /\ Set(a, [q EXCEPT !.pc = "kput", !.old = objkeys[<<q.id, q.gen>>]])
    /\ UNCHANGED <<snap, objkeys, store, cfgfile, gens, intent, routing>>

\* Mutant: delete_keys writes the store but keeps the in-memory list.
NewListKeepDeleted(q) == CASE q.op = "add_keys" -> q.old \cup q.ins
                           [] q.op = "delete_keys" -> q.old
                           [] OTHER -> q.ks

\* The list the request stores: old plus the inserted keys, old without the
\* deleted ones, or the replacement list.
NewList(q) == CASE q.op = "add_keys" -> q.old \cup q.ins
                [] q.op = "delete_keys" -> q.old \ q.ks
                [] OTHER -> q.ks

\* upstream2.keys.store(...).
KeyPut(a) ==
    LET q == adm[a] IN
    /\ q.pc = "kput"
    /\ objkeys' = [objkeys EXCEPT ![<<q.id, q.gen>>] = NewList(q)]
    /\ Set(a, Idle)
    /\ IF q.op = "delete_keys" THEN UNCHANGED rf ELSE Spawn(FALSE, q.id)
    /\ UNCHANGED <<snap, store, cfgfile, gens, intent, objmodels, routes>>

(***************************************************************************)
(* api_reload_all: one snapshot load, then for each of its upstreams in    *)
(* turn a load_all_keys (rload) and a keys.store on that object (rput).    *)
(***************************************************************************)
ReloadAll(a) ==
    Begin(a, [Idle EXCEPT !.pc = "rload", !.op = "reload", !.gen = snap.gen,
                         !.todo = snap.ids])

ReloadNext(q) == CHOOSE u \in q.todo : TRUE

ReloadLoad(a) ==
    LET q == adm[a] IN
    /\ q.pc = "rload"
    /\ Set(a, [q EXCEPT !.pc = "rput", !.id = ReloadNext(q), !.old = store[ReloadNext(q)]])
    /\ UNCHANGED <<snap, objkeys, store, cfgfile, gens, intent, routing>>

\* Mutant: the reload loop does not move past the upstream it reloaded.
ReloadPutNoAdvance(a) ==
    LET q == adm[a] IN
    /\ q.pc = "rput"
    /\ objkeys' = [objkeys EXCEPT ![<<q.id, q.gen>>] = q.old]
    /\ Set(a, [q EXCEPT !.pc = "rload"])
    /\ UNCHANGED <<snap, store, cfgfile, gens, intent, routing>>

ReloadPut(a) ==
    LET q == adm[a] IN
    /\ q.pc = "rput"
    /\ objkeys' = [objkeys EXCEPT ![<<q.id, q.gen>>] = q.old]
    /\ IF q.todo = {q.id}
       THEN Set(a, Idle) /\ Spawn(TRUE, q.id)
       ELSE Set(a, [q EXCEPT !.pc = "rload", !.todo = @ \ {q.id}]) /\ UNCHANGED rf
    /\ UNCHANGED <<snap, store, cfgfile, gens, intent, objmodels, routes>>

(***************************************************************************)
(* PUT /model-routes (save_model_routes): one snapshot load, every id of  *)
(* the body must be live (else 400), the file is written (sapply), then   *)
(* applied to the objects of the snapshot it loaded.                       *)
(***************************************************************************)
SaveRoutes(a, r) ==
    /\ adm[a].pc = "idle"
    /\ r.has \subseteq snap.ids
    /\ routes' = r
    /\ Set(a, [Idle EXCEPT !.pc = "sapply", !.op = "save_routes", !.gen = snap.gen,
                          !.list = snap.ids, !.rp = r])
    /\ UNCHANGED <<snap, objkeys, store, cfgfile, gens, intent, objmodels, rf>>

SaveApply(a) ==
    LET q == adm[a] IN
    /\ q.pc = "sapply"
    /\ objmodels' = ApplyTo(q.rp, q.list, q.gen)
    /\ Set(a, Idle)
    /\ UNCHANGED <<snap, objkeys, store, cfgfile, gens, intent, routes, rf>>

AdminStep(a) ==
    \/ Build(a) \/ ApplyRoutes(a) \/ Publish(a) \/ Persist(a) \/ CleanupLoad(a)
    \/ CleanupWrite(a)
    \/ ClearKeys(a)
    \/ KeyStore(a) \/ KeyInsert(a) \/ KeyLoad(a) \/ KeyPut(a)
    \/ ReloadLoad(a) \/ ReloadPut(a)
    \/ SaveApply(a)

(***************************************************************************)
(* Refresh tasks.  mcheck: load_model_routes, then the upstreams to fetch: *)
(* the live ones the file lacks (refresh_missing_models_routes, over the  *)
(* snapshot it loads) or the one id when the file lacks it and            *)
(* upstream_by_id finds it.  mfetch: for one captured object, read its    *)
(* keys, GET /v1/models (an answer or an error: no keys, network,         *)
(* timeout, status, body), store the models on that object.  mpersist:   *)
(* when any fetch succeeded, any_models_loaded and build_model_routes on  *)
(* the live snapshot; mwrite: write_model_routes.                          *)
(***************************************************************************)
SetRf(t, f) == rf' = [rf EXCEPT ![t] = f]

Missing(f) ==
    IF f.all THEN snap.ids \ routes.has
    ELSE IF f.id \in routes.has \/ f.id \notin snap.ids THEN {} ELSE {f.id}

RefreshCheck(t) ==
    LET f == rf[t] IN
    /\ f.pc = "mcheck"
    /\ SetRf(t, IF Missing(f) = {} THEN RfIdle
                ELSE [f EXCEPT !.pc = "mfetch", !.todo = Missing(f), !.gen = snap.gen])
    /\ UNCHANGED <<snap, objkeys, store, cfgfile, gens, adm, intent, objmodels, routes>>

\* Mutant: the loop fetches the same upstream again and again.
RefreshFetchNoAdvance(t, ok) ==
    LET f == rf[t]
        u == CHOOSE v \in f.todo : TRUE
        fetched == ok /\ objkeys[<<u, f.gen>>] # {}
    IN
    /\ f.pc = "mfetch"
    /\ objmodels' = IF fetched THEN [objmodels EXCEPT ![<<u, f.gen>>] = Probe[u]] ELSE objmodels
    /\ SetRf(t, [f EXCEPT !.got = f.got \/ fetched])
    /\ UNCHANGED <<snap, objkeys, store, cfgfile, gens, adm, intent, routes>>

\* refresh_models_for_upstream on the captured object <<u, f.gen>>; a failure
\* ends refresh_models_by_id, and is skipped by refresh_missing_models_routes.
RefreshFetch(t, ok) ==
    LET f == rf[t]
        u == CHOOSE v \in f.todo : TRUE
        fetched == ok /\ objkeys[<<u, f.gen>>] # {}
        got == f.got \/ fetched
    IN
    /\ f.pc = "mfetch"
    /\ objmodels' = IF fetched THEN [objmodels EXCEPT ![<<u, f.gen>>] = Probe[u]] ELSE objmodels
    /\ SetRf(t, CASE f.todo # {u} -> [f EXCEPT !.todo = @ \ {u}, !.got = got]
                  [] got -> [f EXCEPT !.pc = "mpersist", !.todo = {}, !.got = TRUE]
                  [] OTHER -> RfIdle)
    /\ UNCHANGED <<snap, objkeys, store, cfgfile, gens, adm, intent, routes>>

\* build_model_routes: every live upstream with a non-empty model set.
LiveRoutes ==
    [has |-> {u \in snap.ids : objmodels[Live(u)] # {}},
     ms |-> [u \in UpIds |-> IF u \in snap.ids THEN objmodels[Live(u)] ELSE {}]]

\* persist_model_routes up to the write; nothing when no model is loaded.
RefreshPersist(t) ==
    LET f == rf[t] IN
    /\ f.pc = "mpersist"
    /\ SetRf(t, IF \A u \in snap.ids : objmodels[Live(u)] = {} THEN RfIdle
                ELSE [f EXCEPT !.pc = "mwrite", !.out = LiveRoutes])
    /\ UNCHANGED <<snap, objkeys, store, cfgfile, gens, adm, intent, objmodels, routes>>

RefreshWrite(t) ==
    LET f == rf[t] IN
    /\ f.pc = "mwrite"
    /\ routes' = f.out
    /\ SetRf(t, RfIdle)
    /\ UNCHANGED <<snap, objkeys, store, cfgfile, gens, adm, intent, objmodels>>

RefreshStep(t) ==
    \/ RefreshCheck(t)
    \/ \E ok \in BOOLEAN : RefreshFetch(t, ok)
    \/ RefreshPersist(t)
    \/ RefreshWrite(t)

\* Some refresh task is running.
Busy == \E t \in Tasks : rf[t].pc # "idle"

\* overlap records whether a refresh task and an admin request ever ran at
\* the same time.
Track == overlap' = (overlap \/ (Busy' /\ \E a \in Admins : adm'[a].pc # "idle"))

\* The admin actor a: it starts a request or takes a step of the one it runs.
AdminAct(a) ==
    \/ \E u \in UpIds :
          \/ AddUpstream(a, u)
          \/ UpdateUpstream(a, u)
          \/ \E dk \in BOOLEAN : DeleteUpstream(a, u, dk)
          \/ \E ks \in KeyBatches :
                \/ KeyOp(a, "add_keys", u, ks)
                \/ KeyOp(a, "replace_keys", u, ks)
                \/ KeyOp(a, "delete_keys", u, ks)
    \/ ReloadAll(a)
    \/ \E r \in RoutePuts : SaveRoutes(a, r)
    \/ AdminStep(a)

\* Admin requests are served only once the server listens, after the boot
\* refresh.
Step ==
    \/ ~boot /\ \E a \in Admins : AdminAct(a)
    \/ \E t \in Tasks : RefreshStep(t)

\* The history variables, and the end of the boot refresh.
Aux == Track /\ boot' = (boot /\ Busy') /\ UNCHANGED restarts

(***************************************************************************)
(* The process stops at any point and starts again.  Memory, the admin    *)
(* requests and the refresh tasks are lost; the key store, upstreams.json *)
(* and model_routes.json stay.  RouterState::new builds a snapshot from   *)
(* upstreams.json, every Upstream loading its keys from the store, and    *)
(* applies model_routes.json; main then awaits                            *)
(* refresh_missing_models_routes before the server listens.  A request    *)
(* cut short was never answered: its upstream change is kept in intent   *)
(* when upstreams.json already has it, and dropped otherwise.             *)
(***************************************************************************)
BootRefresh == [RfIdle EXCEPT !.pc = "mcheck", !.all = TRUE]

\* intent without the changes of requests that swapped but did not answer.
Answered == LET cut == {a \in Admins : adm[a].pc \in {"persist", "cleanup", "cwrite", "clear"}
                                     /\ adm[a].op \in {"add_up", "delete_up"}}
            IN (intent \ {adm[a].id : a \in {b \in cut : adm[b].op = "add_up"}})
                 \cup {adm[a].id : a \in {b \in cut : adm[b].op = "delete_up"}}

\* Mutant: the boot does not apply model_routes.json to the new objects.
RestartNoRoutes ==
    /\ restarts < MaxRestarts
    /\ gens < MaxBuilds
    /\ restarts' = restarts + 1
    /\ gens' = gens + 1
    /\ snap' = [ids |-> cfgfile, gen |-> gens + 1]
    /\ objkeys' = [o \in Objs |-> IF o[2] = gens + 1 /\ o[1] \in cfgfile
                                    THEN store[o[1]] ELSE objkeys[o]]
    /\ UNCHANGED objmodels
    /\ adm' = [a \in Admins |-> Idle]
    /\ \E t \in Tasks : rf' = [s \in Tasks |-> IF s = t THEN BootRefresh ELSE RfIdle]
    /\ intent' = IF cfgfile = intent THEN intent ELSE Answered
    /\ boot' = TRUE
    /\ UNCHANGED <<store, cfgfile, routes, overlap>>

Restart ==
    /\ restarts < MaxRestarts
    /\ gens < MaxBuilds
    /\ restarts' = restarts + 1
    /\ gens' = gens + 1
    /\ snap' = [ids |-> cfgfile, gen |-> gens + 1]
    /\ objkeys' = [o \in Objs |-> IF o[2] = gens + 1 /\ o[1] \in cfgfile
                                    THEN store[o[1]] ELSE objkeys[o]]
    /\ objmodels' = ApplyTo(routes, cfgfile, gens + 1)
    /\ adm' = [a \in Admins |-> Idle]
    /\ \E t \in Tasks : rf' = [s \in Tasks |-> IF s = t THEN BootRefresh ELSE RfIdle]
    /\ intent' = IF cfgfile = intent THEN intent ELSE Answered
    /\ boot' = TRUE
    /\ UNCHANGED <<store, cfgfile, routes, overlap>>

Next == (Step /\ Aux) \/ Restart

\* An admin request in progress runs to its end (spawn_blocking work and
\* ArcSwap operations do not block), and so does a spawned refresh task (its
\* fetch is bounded by request_timeout); new requests need not arrive and
\* the process need not restart.
Spec == Init /\ [][Next]_vars
        /\ \A a \in Admins : WF_vars(AdminStep(a) /\ Aux)
        /\ \A t \in Tasks : WF_vars(RefreshStep(t) /\ Aux)

-----------------------------------------------------------------------------
(***************************************************************************)
(* Properties                                                              *)
(***************************************************************************)

\* No admin request is in progress.
Quiescent == \A a \in Admins : adm[a].pc = "idle"

(* Hot reload (spec 4.1, 4.3): once every admin request has finished, each *)
(* live upstream's in-memory credential list is exactly its tree in the    *)
(* key store, so the selector uses the credentials the store says exist    *)
(* and no deleted credential stays live.                                   *)
KeysMatchStore ==
    Quiescent => \A u \in snap.ids : objkeys[Live(u)] = store[u]

(* Spec 4.3 step 5: once every admin request has finished, upstreams.json  *)
(* lists the live snapshot's upstreams, so a restart serves the same ones. *)
OverrideMatchesSnapshot == Quiescent => cfgfile = snap.ids

(* Every add_upstream and delete_upstream answered {"ok": true} is in     *)
(* effect once all requests have finished: the live upstream list is what *)
(* the acknowledged mutations, in the order they swapped, ask for.        *)
MutationsNotLost == Quiescent => snap.ids = intent

(* Every admin request finishes (liveness).                               *)
AdminTerminates == \A a \in Admins : (adm[a].pc # "idle") ~> (adm[a].pc = "idle")

\* No admin request and no refresh task is running.
Settled == Quiescent /\ ~Busy

(* Spec 4.5: once every admin request and every refresh task has finished, *)
(* each live upstream serves the models model_routes.json gives it (none  *)
(* when it has no entry), so routing after a restart, which loads the     *)
(* file, is the routing before it.  The rebuild (apply before the swap,   *)
(* cleanup after), the PUT and the refresh (store, then rewrite the file  *)
(* from the live objects) must each leave the two equal.                  *)
RoutesMatchLive ==
    Settled => \A u \in snap.ids : objmodels[Live(u)] = RouteOf(routes, u)

(* The same, in every behaviour where no refresh task ran while an admin   *)
(* request did: the routes code is right when its callers do not overlap. *)
SerialRoutesMatchLive == ~overlap => RoutesMatchLive

(* Spec 4.5 and 4.3 step 5, across a restart: a restart of a settled     *)
(* process (in a behaviour without overlap) serves the same upstreams     *)
(* with the same credentials and models, since RouterState::new rebuilds  *)
(* them from upstreams.json, the key store and model_routes.json alone.   *)
RestartKeepsService ==
    [][Restart /\ Settled /\ ~overlap =>
          /\ snap'.ids = snap.ids
          /\ \A u \in snap.ids : /\ objkeys'[<<u, snap'.gen>>] = objkeys[Live(u)]
                                 /\ objmodels'[<<u, snap'.gen>>] = objmodels[Live(u)]]_vars

(* Every spawned refresh task finishes, whether or not its fetches do      *)
(* (liveness).                                                             *)
RefreshTerminates == \A t \in Tasks : (rf[t].pc # "idle") ~> (rf[t].pc = "idle")

=============================================================================
