# TLA+ models of gptload-rs

gptload-rs is a reverse proxy in front of a pool of OpenAI-compatible endpoints.
It routes each request to an upstream and one of its credentials, retries on
rate limiting, bills callers by the tokens they use, and opens circuit breakers
on failures. This directory holds TLA+ models of the parts of the code whose
correctness depends on concurrency and on the order of steps. TLC checks them.

## 1. Inventory of the system

| Part | Code | Shared state | Operations that change it |
|---|---|---|---|
| Selector | `state.rs` `select_for_model` 501-532, `Upstream::select_key` 727-745, schedule in `build_snapshot_from_configs` 1161-1198 | `sched_rr` (global cursor), `key_rr` per upstream | one `fetch_add` of `sched_rr` per scanned slot; one `fetch_add` of `key_rr` per `select_key` |
| Circuit breaker | `state.rs` `on_upstream_status` 611-637, `on_timeout` 640-645, `on_network_error` 648-653, `ban_key` 668-678, `ban_upstream` 680-690 | `cooldown_until_ms` and `fail_streak` per upstream and per credential | reset (two stores), streak `fetch_add`, cooldown `store` |
| Proxy pipeline | `proxy.rs` `handle` 37-182, `forward` 184-413, `proxy_upstream_response` 458-560 | `requests_inflight`, balances (through billing), the breaker | admission, one selection, attempts, 429 retry loop, answer, usage tee, debit |
| Usage extraction | `proxy.rs` injection 297-309 with `ensure_stream_usage` 635-664, the tee task 493-557, `parse_sse_usage` 693-718, `usage_from_json_bytes` 666-669 | per response: the channel to the client, `sse_buf`, `json_buf`, `usage`, `parse_enabled` | send each chunk, parse a copy, then `apply_usage` and `record_request` |
| Billing store | `billing.rs` | `balances` (RwLock map of AtomicI64), persister channel, `pending` map, the sled tree | `create_key`, `adjust_balance` (CAS loop, then `Set` message), `apply_usage`, persister batching and flush |
| Router snapshot and admin | `admin.rs` 401-505, 675-876; `state.rs` rebuild helpers | `snapshot` (ArcSwap), each upstream's `keys` (ArcSwap), key store | add/update/delete upstream, reload_all, add/replace/delete keys |
| Model routes | `state.rs` 539-610, 900-984, 1029-1124, 1126-1158, 1200-1219; `admin.rs` 348-374 and the refresh spawns 433, 702, 764, 813 | each `Upstream`'s `models` (ArcSwap), `model_routes.json` | routes apply and cleanup in `replace_upstreams`, `save_model_routes`, spawned refresh tasks |
| Stats, request ring, metrics | `state.rs` 228-297, 1238-1294; `proxy.rs` `record_request` 433-456 | atomic counters, ring of 5000 entries, minute/hour/day buckets | `RequestsLog::record`, `update_bucket` |
| Request log writer | `state.rs` `start_request_log_writer` 1296-1345 | queue of 2048 entries, `requests.jsonl`, pending count | `try_send`, write line and newline, flush at 256 or each second |
| Config, bootstrap, static UI | `config.rs`, `main.rs`, `admin.rs` UI routes | files only | I/O, not modelled |

The parts interact like this. Each request is a tokio task. `handle` reads
`now_ms()` once (`proxy.rs:146`). `forward` passes that same value to every
selection and every breaker update of the request. The selector and the breaker
share relaxed atomics across all tasks. The response tee debits the billing
store. Billing sends every new balance to a persister thread over a channel.
The admin API replaces snapshots and key lists while requests are using them.

The hard behaviours are these:
- interleaved `fetch_add`s on shared cursors;
- a streak bump and its cooldown store made as separate steps;
- a `now` that is stale when used;
- the reset-before-ban order in `on_upstream_status`;
- channel messages sent outside the CAS that produced them;
- read-modify-write of snapshots with no lock;
- a crash between a balance change and its flush;
- a timestamp read before the lock under which it is recorded;
- a counter decremented after an await, which a dropped future skips.

## 2. Plan

The modules, in build order:
1. **Router** (done). Selector, breaker and the `forward` attempt loop for concurrent request tasks.
2. **Billing** (done). Balances with the CAS loop, the persister channel and flushes, and crashes. It refines an abstract ledger, `BillingLedger`, through `INSTANCE ... WITH` a mapping from the balances to the ledger. Its properties: no lost update, and the durable state converges. The proxy's admission gate and debit are callers of it.
3. **Snapshot** (done). Admin mutations of the upstream list and the key lists that race with each other and with selection. Model routes were added to it: the per-upstream model sets, `model_routes.json`, `PUT /model-routes`, and the refresh tasks that the admin handlers spawn.
4. **Usage** (done). The usage-injection hint, and the tee task that forwards a response while extracting its usage, with client disconnects, body errors, the gzip decoder and repeated usage events, against the spec's rules of section 4.7.
5. **RequestLog** (done). The request ring, the metrics buckets with out-of-order timestamps.
6. A composition of the proxy: Router and Billing together. Admission and debit are already part of Billing.

## 3. Module Router (`Router.tla`, instance `MCRouter.tla`)

The state maps to the code like this:
- `sched_rr` and `key_rr` are the cursors, kept modulo the length the code reduces them by.
- `ucool`, `ustreak`, `kcool` and `kstreak` are the cooldown and fail-streak atomics.
- `clock` is `now_ms()`.
- `req[r]` holds the locals of request task `r` in `forward`:
  - `pc`, `now`, `model`;
  - `phase` (first selection or a 429 retry);
  - the scan position `iter`;
  - the selected `up` and `key`;
  - `retries`;
  - the last `outcome` and the computed ban deadline `until`.
- `visited`, `rl` and `last` are history variables. They are read only by properties:
  - `visited`: the slots one scan examined;
  - `rl`: the key that last answered 429;
  - `last`: the answer given.

Each action is one step of a task, cut where the code does a separate atomic operation:

| Action | Code |
|---|---|
| `Start` | `handle` increments `requests_total` and `requests_inflight` and takes `now_ms()` |
| `ListModels` | `GET /v1/models`: `handle` counts the request and `models_list` answers with no await; `RecordLatency` follows |
| `ReadBody` | `forward` buffers the body and extracts the model. A body over 16 MiB answers 413, a read error 502, no model 400, and a model no upstream serves 404 (`model_exists`). Otherwise selection starts. |
| `SelectFound`, `SelectSkip`, `SelectExhausted` | one iteration of the `select_for_model` loop: the `sched_rr` `fetch_add`, the model and cooldown filters, and `select_key` with its `key_rr` `fetch_add`. The found / continue / `None` outcomes are the 503, the first attempt, or the retry (`retry_count += 1`). |
| `Respond` | the round trip ends with an answer class. `on_upstream_status` does its reset and, for 429/401/403, the key streak `fetch_add`. `on_timeout` and `on_network_error` lead to `ban_upstream`. |
| `BanUpstream` | the `fetch_add` of `ban_upstream` |
| `StoreBan` | the cooldown `store` of `ban_key`/`ban_upstream`. Then the 429 retry with the same `now`, or the answer (forwarded response, 502, 504). |
| `RecordLatency` | `handle` calls `record_latency` with the request's duration (`LatencyOf[r]`). The `fetch_add`s on `latency_ns_total` and `latency_count` are left out because no step reads them. The load of `latency_ns_max` into `cur` is kept. |
| `LatencyCas` | one turn of the `compare_exchange_weak` loop (`state.rs` 697-708): store and leave when `latency_ns_max` still holds `cur`, leave when the latency is not above `cur`, or reload `cur`. A spurious failure reloads the same value, changes nothing, and is left out. Leaving the loop includes `Complete`. |
| `Complete` | the `requests_inflight` `fetch_sub` and the end of the task. It is part of the step that leaves the loop: every other step touches the counter only by `fetch_add`/`fetch_sub`, which commute with it. |
| `Cancel` | the client disconnects while `forward` awaits a body chunk (`proxy.rs:216`) or the upstream (`proxy.rs:364`). hyper drops the `handle` future there, so no breaker update runs and the `fetch_sub` at `proxy.rs:179` is skipped. At most `MaxCancels` times. |
| `Tick` | time passes |

An answer is an abstract class: ok, 429, 401/403, 5xx, timeout or network
error. Bodies, headers and URIs are left out. No property depends on them.

### Properties

- `UnavailableOnlyWhenNoneEligible`: a 503 model_unavailable means no upstream for the model was out of cooldown with a credential out of cooldown.
- `SelectScansWholeSchedule`: a selection that gives up has examined every slot. This is spec 4.4.
- `RetryAvoidsRateLimitedKey`: a 429 retry does not reuse the credential that answered 429. This is spec 9.
- `InflightCountsRequests` (router_inflight_leak only): `requests_inflight` equals the number of requests `handle` is serving. Spec 4.6 step 4 promises a decrement "on every exit".
- `LatencyMaxIsLargest`: whenever no request is inside its exchange loop, `latency_ns_max` is the largest duration ever handed to `record_latency` (the history variable `lat_peak`). No interleaving of two requests' loads and exchanges loses the larger one.
- `RequestsTerminate`: every request is eventually answered, and its latency loop ends. This is liveness.

The reset at `state.rs:615` zeroes the upstream streak before `ban_upstream` runs, so repeated 5xx answers keep the upstream streak at 1 and never escalate the backoff. Spec 5 calls this "reset-before-bump" intended, so no property states otherwise.

### Runs

| Run | Config | Expect | What it shows |
|---|---|---|---|
| router_seq | `MCRouter_seq.cfg` | pass | One request at a time, all six answer classes, the clock moving 0→1, `MAX_RETRIES` = 5. A 503 comes only when nothing was eligible, the 429 retry behaves as specified, and requests terminate. |
| router_conc | `MCRouter_conc.cfg` | pass | Two requests interleave every atomic step, and one client may disconnect during a round trip. Requests terminate. `r1` takes 2 ns and `r2` 1 ns, so the two `record_latency` loops race on `latency_ns_max`, and it ends as the larger. About 950 thousand states in two minutes. |
| router_scan_race | `MCRouter_scanrace.cfg` | violation | A concurrent `fetch_add` on `sched_rr` makes a scan skip slots. `None`/503 comes back without the whole schedule being examined. |
| router_inflight_leak | `MCRouter_inflight.cfg` | violation | One request's client disconnects while `forward` reads its body (TLC's shortest trace; a disconnect during the upstream round trip is the same). The future is dropped before the decrement, so `requests_inflight` stays at 1 with no request in flight, and every later disconnect adds one more. |

`RetryAvoidsRateLimitedKey` holds in `router_seq` only. With two requests
rate-limited on one credential (the constants of `router_conc` with
`Requests <- TwoRequests`, `Answers <- RateLimited`, `MaxTime = 1`), TLC finds it
violated: `ban_key` stores its deadline last-writer-wins (`state.rs:677`) from the
`now_ms` the request read on arrival, so a request with an older `now` shortens a
later ban, and the other request's 429 retry picks the key that just answered 429.
That configuration is not among the kept runs; its hazards in `PROJECT.json` say so.

Each property of a passing run has a mutant in `PROJECT.json`, and TLC finds each mutant violating its property:
- the key cursor not wrapped;
- the scan one slot short;
- key cooldowns ignored;
- a skipped slot not counted;
- the latency exchange replaced by a plain store.

### Bounds

- There are two upstreams. `m2` is served only by `u2`, so both the model filter and the scan bound matter. In `seq`, `m3` is served by none (404), and the three body faults (413, 502, 400) are possible. The concurrent runs leave both out: these paths touch no shared state.
- In `seq`, `u1` has weight 2 and two credentials, and `u2` has an absent weight, clamped to 1. The schedule is `<<u1,u1,u2>>`. The key cursor wraps.
- Ban bases are 1 ms and `max_backoff_pow` is 1. The streak cap is then reached (streak 2 gives 2 ms), and a ban can expire within the clock bound.
- The concurrent runs use weights 1/1 with one credential per upstream and `max_backoff_pow` 0. They use `MaxRetries` = 1. `MAX_RETRIES` is a constant of the model only so that the two-task run stays small. The sequential run uses the code's 5.
- Durations are fixed per request (`LatencyOf`: 2 for `r1` and 1 for `r2`) rather than chosen at each record. A choice per record made router_conc six times larger, and two different durations already give every order of the two loops.
- The race scenarios need two tasks, two slots and one retry. Larger values add no new kind of interleaving.

### Fairness

Every started task has weak fairness on its own steps. `Cancel` is the client's choice and has none. The reasons:
- A tokio task that is ready keeps being polled.
- Each await in `forward` ends: `tokio::time::timeout` bounds the upstream call with `request_timeout`.
- The latency loop only reloads when another request raised `latency_ns_max`, and that value is bounded.

New requests and the clock have no fairness. Clients need not send anything.

## 4. Module Billing (`Billing.tla`, `BillingLedger.tla`, instance `MCBilling.tla`)

`BillingLedger` is the abstract promise of spec 4.2 and 8.4. It is a map from
billing key to balance. `LedgerCreate` inserts an absent key. `LedgerAdjust`
applies a delta once, atomically, with saturating addition.

`Billing` is the code. Its variables:
- `mem`: the balances map of AtomicI64.
- `chan`: the mpsc channel of `Set` messages, in FIFO order.
- `pending`: the persister's staging map.
- `disk`: the sled billing tree.
- `elapsed`: whether a second has passed since `last_flush`.
- `th[t]`: the locals of a calling thread (an admin handler or a proxied request): its pc, `key`, `delta`, the loaded `cur`, and the `new` balance to send.

| Action | Code |
|---|---|
| `CreateKey` | `create_key` 69-78: insert under the write lock |
| `LoadBalance`, `BeginAdjust` | `adjust_balance` 90-94: lookup and load. The admin `adjust` endpoint starts one. |
| `Admit` | `proxy.rs` `handle` 77-140: `get_balance` on the request's key. An unknown key or a negative balance gets a 401 and changes nothing. Otherwise the request is admitted. |
| `ApplyUsage`, `EndUnbilled` | the end of an admitted request: `apply_usage` 110-116 debits the usage found (0 tokens and a failed `try_from` change nothing), or the response carried no usage |
| `CasOk`, `CasFail` | one `compare_exchange` of the loop, 95-106 |
| `Send` | `persist_tx.send(Set{..})` at 79-81 and 99-102 |
| `PersistRecv`, `PersistTimeout` | one iteration of the persister loop, 41-55, with `flush_pending` 129-138 |
| `Tick` | a second of wall-clock time passes |
| `Crash` | the process dies. The restart reloads the tree (`BillingStore::new` 19-34). |

Balances are bounded to `BalMin..BalMax`, which stands in for the i64 range.
Saturation is therefore reached in the runs.

The properties:
- `LedgerRefined`: `Ledger!LedgerSpec`, with `ledger <- mem`. The compare-exchange loop loses no update.
- `StagedEventuallyWritten` (liveness): a staged value does not wait for the 1024-key batch.
- `DurableConverges`: when nothing is in flight, the tree equals memory.

| Run | Config | Expect | What it shows |
|---|---|---|---|
| billing_conc | `MCBilling_conc.cfg` | pass | Two callers, no crash. The map refines the ledger, and staging is flushed (about 377k states, 35 s). |
| billing_crash | `MCBilling_crash.cfg` | pass | One caller at a time, one crash. Coalescing, flushing and reload keep the tree equal to memory at quiescence. |
| billing_reorder | `MCBilling_reorder.cfg` | violation | `create_key` or `adjust_balance` sends its `Set` after updating memory, and another caller's `Set` can overtake it. The persister then writes the older balance and nothing corrects it. A restart brings the stale balance back. This contradicts spec 8.4. |

Bounds and fairness:
- Two keys: one present at boot and one created at run time.
- Batch threshold 2 instead of 1024, so both flush triggers occur with two keys.
- At most 2 messages in flight. The code's channel is unbounded.
- In billing_conc, balances are -1..1 and responses debit 1.

`handle` refuses a request once the balance is below zero (`proxy.rs:122`), but
the debit comes only when the response ends. Every request admitted at a balance of
0 or more may still debit, so concurrent requests overshoot by one debit each. Spec
line 36 speaks of a single request overshooting. In billing_conc the balance
saturates at -1, which hides the second debit. No property states the spec's bound,
which the code breaks, or restates the code's own bound of one debit per request.
- The persister thread and time are weakly fair: `recv_timeout` returns within 500 ms and the thread never exits.
- A caller in the middle of an operation is weakly fair.
- Sled write errors are not modelled.

## 5. Module Snapshot (`Snapshot.tla`, instance `MCSnapshot.tla`)

The admin API changes the live router in two ways:
- It replaces the whole `RouterSnapshot` through the `ArcSwap` (`add_upstream`, `update_upstream`, `delete_upstream`).
- It replaces one upstream's key list, `Upstream::keys`, and the upstream's sled tree (`api_add_keys`, `api_replace_keys`, `api_delete_keys`, `api_reload_all`).

Nothing serialises these requests. Each admin request is an actor `adm[a]` with a pc. Every `ArcSwap` load or store and every sled write is a separate step.

The variables:
- `snap`: the live snapshot, as the set of upstream ids and the generation of its `Upstream` objects.
- `objkeys[<<u, g>>]`: the key list of the `Upstream` object for `u` that generation `g` built. An object that an admin request captured keeps receiving stores after a newer snapshot has replaced it.
- `store[u]`: the sled tree of `u`.
- `cfgfile`: `upstreams.json`.
- `gens`: the number of rebuilds.
- `intent`: a history variable. It holds the upstream list that the successful mutations, applied in answer order, would give.
- `objmodels[<<u, g>>]`: the model set (`Upstream::models`) of each object.
- `routes`: `model_routes.json`, as the set of upstreams it lists and each one's models. The per-model map is derived from these, so it is left out.
- `rf[t]`: the locals of each spawned refresh task. They are its pc, the generation it captured, the upstreams left to fetch, whether a fetch succeeded, and the file it is about to write.
- `overlap`: a history variable. It records whether a refresh task was ever running at the same time as an admin request.
- `restarts`: the process restarts so far.
- `boot`: the boot refresh of `main.rs:50` is running, so the server does not listen yet and no admin request can start.

Refresh tasks are spawned by `api_add_upstream`, `api_add_keys`, `api_replace_keys` and `api_reload_all`. They are `tokio::spawn`ed and detached, so the admin request answers and the operator can send the next request while the task still waits on `/v1/models`.

| Action | Code |
|---|---|
| `AddUpstream`, `UpdateUpstream`, `DeleteUpstream` | `state.rs` 986-1027: `current_upstream_configs()` and the checks that bail |
| `Build` | `build_snapshot_from_configs` 1161-1198: new objects, each loading its tree |
| `ApplyRoutes` | `replace_upstreams` 1072-1074: `load_model_routes`, `apply_routes_to_upstreams` on the new objects, before the swap |
| `Publish`, `Persist` | `replace_upstreams` 1075-1076: the `snapshot.store`, then `write_upstreams_override` |
| `CleanupLoad` | `cleanup_model_routes` 1093-1107: load the file and the live snapshot and retain the entries of live ids. With nothing dropped it returns, and `CleanupDone` ends the handler. |
| `CleanupWrite` | `cleanup_model_routes` 1108-1124: write the retained file and apply it to the objects of the loaded snapshot. Then `CleanupDone`: the request ends, goes on to `ClearKeys`, or (for `add_upstream`) spawns a refresh. |
| `SaveRoutes`, `SaveApply` | `save_model_routes` 939-983: one snapshot load, unknown ids bail, write the file, then apply it to the loaded snapshot's objects |
| `Spawn` | the `tokio::spawn` of a refresh after a successful handler. It needs a free slot in `Tasks`. |
| `RefreshCheck` | `refresh_missing_models_for_upstream` / `refresh_models_by_id`, or the start of `refresh_missing_models_routes`: load the file, then pick the live upstreams it lacks and capture their objects |
| `RefreshFetch` | `fetch_models_for_upstream` and `refresh_models_for_upstream`: a captured object with no keys, or a failed GET, is an error. Otherwise the models are stored on the captured object. |
| `RefreshPersist`, `RefreshWrite` | `persist_model_routes`: `any_models_loaded` and `build_model_routes` over the live snapshot, then `write_model_routes` |
| `ClearKeys` | `delete_upstream` with `delete_keys`: `replace_keys(id, [])` |
| `KeyOp` | `upstream_by_id` at the top of the three key handlers. It captures the live object. |
| `KeyStore`, `KeyInsert` | `storage.rs` `add_keys` / `delete_keys`, and `replace_keys` as clear then insert |
| `KeyLoad`, `NewList`, `KeyPut` | the `spawn_blocking` closures: `keys.load_full`, merge or filter, `keys.store` |
| `ReloadAll`, `ReloadLoad`, `ReloadPut` | `api_reload_all`: one snapshot load, then `load_all_keys` and `keys.store` per upstream |
| `Restart` | the process dies at any point and `RouterState::new` (`state.rs` 351-391) runs again. Memory, admin requests and refresh tasks are lost. A new generation of objects is built from `upstreams.json`, each loading its tree, and `model_routes.json` is applied to it. |
| `BootRefresh`, `Step` | `main.rs` 48-52: `refresh_missing_models_routes().await` runs before `serve_http`. Admin steps are disabled while `boot` holds. |

The properties:
- `KeysMatchStore`: at quiescence every live upstream's key list equals its tree.
- `OverrideMatchesSnapshot`: at quiescence `upstreams.json` lists the live upstreams.
- `MutationsNotLost`: at quiescence the live list is what the answered mutations made it.
- `AdminTerminates` (liveness): every admin request finishes.
- `RoutesMatchLive`: when no request and no refresh is running, every live upstream's model set equals its entry in `model_routes.json` (none when it has no entry). A restart loads the file, so if this fails, routing changes on restart.
- `SerialRoutesMatchLive`: `RoutesMatchLive` in every behaviour where no refresh task has overlapped an admin request. It checks the sequential logic: apply before the swap, cleanup after it, the PUT's write and apply, and the refresh's store and rewrite.
- `RefreshTerminates` (liveness): every spawned refresh task finishes.
- `RestartKeepsService` (action property): a restart of a settled process, in a behaviour without overlap, keeps the live upstream list and gives every live upstream the credentials and models it had. This is the restart claim behind `RoutesMatchLive`, checked against the boot code itself. Its mutant is a boot that skips `apply_loaded_routes`.

A restart that cuts an admin request short leaves it unanswered. `Restart` removes that request's change from `intent` unless `upstreams.json` already has it, so `MutationsNotLost` still checks every answered mutation across a restart.

| Run | Config | Expect | What it shows |
|---|---|---|---|
| snapshot_seq | `MCSnapshot_seq.cfg` | pass | With one admin and one refresh task, every sequence of mutations (up to 2 rebuilds) keeps the key lists, `upstreams.json` and the live list consistent. The model sets agree with `model_routes.json` whenever the refresh tasks did not overlap a request. Every request and every refresh ends. One restart at any point (`MaxRestarts = 1`) loses no answered mutation, and a restart of a settled process changes nothing that is served. |
| snapshot_routes_race | `MCSnapshot_routerace.cfg` | violation | One admin adds `ub`. While the refresh spawned by the add runs, the admin PUTs routes that give `ua` no models. `save_model_routes` writes the file. The refresh's `persist_model_routes` builds the file from the live objects, where `ua` still has `m1`. The save then applies `{}` to `ua`, and the refresh writes `ua: [m1]` back. Live `ua` has no models, but the file says `m1`, and a restart brings it back. |

Bounds and fairness:
- Two upstreams, one live at start.
- Two credentials, with batches `{c1}`, `{c2}` and `{c1,c2}`.
- At most 2 rebuilds (`MaxBuilds`), which bounds the generations of objects.
- One admin for the pass run. Two admins find each race in a few steps.
- One model `m1`. `/v1/models` answers `{m1}` for both upstreams. The file lists `ua: [m1]` at boot. There are two PUT bodies: `ua: []`, and `ub: []`. The second is rejected while `ub` is unknown. Once `ub` is live, its entry stops `ub`'s refresh. `{m1}` against `{}` is enough to tell a lost or stale model set from a right one.
- Batches of credentials: the pass run and the race runs use `{c2}` only, which still covers an add to an upstream that has it, an add to one that lacks it, a delete and a replace. With `{c1}`, `{c2}` and `{c1,c2}`, the pass run takes two minutes.
- One refresh slot (`Tasks`). A handler that would spawn a second refresh waits until the first ends. Two concurrent refreshes are not explored.
- `VIEW HeldView` of `MCSnapshot` identifies states that differ only in `Upstream` objects nobody holds any more. Those are the objects of a generation that is neither live, nor captured by a running request, nor captured by a refresh between its capture and its store. In the program their `Arc` count is zero, and no step reads them again. This keeps snapshot_seq at about 144 thousand states; without the view, two rebuilds give more than 2.5 million.
- Not kept as a run: with `Admins <- TwoAdmins` and `INVARIANT KeysMatchStore`, TLC finds the `reload_all` / `replace_keys` race. `replace_keys` clears the tree. `reload_all` loads the empty tree and stores it after `replace_keys` stored the new list, so the live upstream has no keys while the store has them (`admin.rs:689`). That run was given up for snapshot_routes_race, which one operator can hit alone.
- Not kept as a run either: with `Admins <- TwoAdmins` and `INVARIANT MutationsNotLost`, TLC finds the lost upstream update in a few steps. `add_upstream`, `update_upstream` and `delete_upstream` read `current_upstream_configs()` and later store a snapshot built from it, with no lock or compare-and-swap (`state.rs:987`). Two concurrent calls both answer ok, and the second publish drops the first one's change. That run was given up for router_inflight_leak.
- A refresh task is weakly fair. Its request is bounded by `request_timeout` (`state.rs:1146`), and its other steps do not wait. The body read at `state.rs:1155` is outside that timeout, so `RefreshTerminates` assumes an upstream that sends headers also finishes the body (hazard `state.rs:1155`).
- `Restart` has no fairness: the process need not crash. One restart is enough to reach every window between two writes of a handler. A second restart would only restart from a boot state.
- A started request is weakly fair. Its steps are blocking-pool work and `ArcSwap` operations that never wait on another request. New requests need not arrive.
- Left out: weights and base URLs (no property distinguishes them), and sled and file-write errors. File writes are atomic steps in the model. `std::fs::write` really truncates first, and a crash during a write of `upstreams.json` makes the boot fall back to config.toml's list (hazard `state.rs:896`, not checked). `Init` is the state after the first boot refresh, which ends before the server listens. The model is coarser than the code in two places:
  - `any_models_loaded` and `build_model_routes` are one step;
  - `RefreshCheck` loads the file and runs `upstream_by_id` in one step.

## 6. Module RequestLog (`RequestLog.tla`, instance `MCRequestLog.tla`)

Every request task ends in `proxy.rs` `record_request`. It reads `now_ms()` into an entry and calls `RequestsLog::record` (`state.rs` 244-262). That call makes three separate steps:
1. `try_send` the entry to the writer queue.
2. `push_back` the entry on the ring under the entries mutex, then trim the ring to capacity.
3. Update the three metric windows under the metrics mutex.

Another task may run between any two of these steps.

The writer task (`start_request_log_writer`) does two things:
- It receives an entry, writes the line, then writes the newline and ignores that write's result.
- It flushes every 256 entries, and on a one-second tick when anything is pending.

| Action / operator | Code |
|---|---|
| `Stamp` | `record_request`: the entry and its `ts_ms` |
| `Send`, `RingPush`, `MetricsUpdate` | the three blocks of `RequestsLog::record` and `RequestMetrics::update` |
| `UpdateBucket` = `KeepNewest(Bump(GapFill(...)))` | `update_bucket` 1248-1294: the bucket start, the gap-filling loop, the back bucket's counters, the trim |
| `ClassifyStatus` | `classify_status` |
| `WriterRecv(o)`, `WriterTick` | the two arms of the writer's `select!` |
| `Tick` | wall-clock time passes |

`lines` is `requests.jsonl` as a sequence of lines. A write has one of three outcomes `o`:
- `ok`: the line and its newline are written.
- `fail`: the line write fails and the entry is dropped.
- `nolf`: the line is written but the newline fails, so the next entry continues the same line.

`pushes` and `counted` are history variables: the ids pushed on the ring, and the entries the metrics have taken.

The properties:
- `RingHoldsNewest`: the ring is the newest `RingCap` pushes. This is spec 8.5.
- `BucketsContiguous`: each window is a run of consecutive buckets aligned on the step, within its cap, and each bucket's counters partition its total.
- `WrittenEventuallyFlushed` (liveness): every written entry is eventually flushed.

| Run | Config | Expect | What it shows |
|---|---|---|---|
| reqlog_seq | `MCRequestLog_seq.cfg` | pass | One request task, the clock 0..3 (gaps and eviction in every window), a one-slot writer queue, and all three write outcomes. The four properties hold (about 251k states, 1 min). |

Three claims of the spec are left out of the runs. A passing run would either hold them only because of its bounds, or fail them:
- **One entry per line (spec 6).** reqlog_seq draws the `nolf` outcome. The writer ignores the failed newline and counts the entry (`state.rs:1322`). The next entry is then appended to the same line, so the file stops being line-delimited JSON.
- **Exact bucket counts (spec 3) and reverse-chronological `GET /requests` (spec 5.3).** One recorder stamps in clock order, so both hold trivially with one request task. With two tasks, a task can stamp its entry and then be overtaken by a task that stamps later and records first. The ring then ends up ordered by push, not by time, and `update_bucket` counts the late entry in the newer back bucket (`state.rs:1269`). The two-task request log grew past 3.4 million states without finishing at the smallest bounds that fill a bucket.

Bounds and fairness:
- The windows are scaled down: widths 1, 2 and 4, keeping 2, 2 and 1 buckets.
- The ring holds 2 entries, the writer queue 1, and the flush threshold is 2. At most 3 entries are recorded.
- Every trim, gap, queue-full drop and both flush paths therefore occur.
- A task inside `record` is weakly fair, because it waits only on uncontended mutexes.
- The writer's receive and its tick are weakly fair: the task is always scheduled and the interval fires every second.
- Deadlock is not checked. An idle server with a drained writer legitimately does nothing.
- Left out: the relaxed `Stats` counters, which are independent atomics with no cross-field promise. The `latency_ns_max` compare-exchange loop is modelled in Router.

## 7. Module Usage (`Usage.tla`, instance `MCUsage.tla`)

One proxied request from the point where its body is forwarded. `proxy_request`
decides on the usage-injection hint before the attempt loop: for a streaming
chat completion whose first selected upstream is in `usage_inject_upstreams`, it
calls `ensure_stream_usage` and re-serializes the body when that call reports a
change. The upstream that finally answers may be another one, after 429 retries.
`proxy_upstream_response` then spawns the tee task. The task reads the body chunk
by chunk. It sends each chunk to the client over a 32-slot channel, and parses a
copy: SSE lines go through `parse_sse_usage`, and JSON bytes are accumulated up to
`MAX_PARSE_BYTES` and parsed once at the end. After the loop it debits the usage
(`apply_usage`) and records the request.

The variables:
- `req`, `fwd`, `sel`: the request body, the body forwarded, and the first selection.
- `served`, `reply`: the upstream that answered, and its Content-Type, encoding, token count and body.
- `pc`, `rest`, `sent`: the tee task's position, the unread body, and what it has sent.
- `chan`, `delivered`, `gone`: the channel, what the client has read, and whether it disconnected.
- `enabled`, `buf`, `usage`, `jbuf`, `overflow`: `parse_enabled`, `sse_buf`, `usage`, `json_buf`, `json_overflow`.
- `billed`, `logged`: the debits applied, and the usage of the request log entry.

Bytes are abstracted to symbols. An SSE line is one payload symbol and a newline.
The payloads are a delta without usage, a delta with `"usage": null`, a usage
object, and `[DONE]`. A JSON body is an open symbol, padding, a usage object and a
close symbol, and it parses only when whole. Chunk boundaries fall between any
two symbols, so a line can be split across chunks. A gzip body decodes to the same
symbols would, but it goes through `GzipDecoder` (`DecompressChunk`, 720-759).
That decoder is `Decompress::new(true)`, a zlib decoder. The gzip magic `1f 8b` fails
its header check, so `decompress_chunk` returns `Err` before any output, and
parsing is turned off. The upstream behaves like OpenAI: a stream carries one final
usage event when `include_usage` is true, with null usage in the events before it.
With `pad > 0`, it instead reports usage on every event ("continuous usage
statistics"): first the smallest count, then the total.

| Action / operator | Code |
|---|---|
| `EnsureStreamUsage`, `Forwarded` | `ensure_stream_usage` 635-664, and the injection block 297-309 |
| `Respond` | the attempt loop returns `proxy_upstream_response` (366-389), with `want_sse_usage`/`want_json_usage` (480-491) |
| `TeeChunk` with `ParseChunk`, `DecompressChunk` | one loop iteration: `tx.send`, then the skip, decode, SSE and JSON branches (505-543) |
| `ParseSse`, `ParseSseLines`, `LineUsage`, `ExtractUsage` | `parse_sse_usage` 693-718 (a `RECURSIVE` operator for its `while` loop) and `extract_usage_from_value` |
| `TeeSendFails`, `TeeBodyError`, `TeeBodyEnd` | the three ways the loop ends: the send fails, the body yields `Err`, the body ends |
| `TeeFinish`, `UsageFromJson`, `ApplyUsage` | 549-556: the final JSON parse, `apply_usage` (no debit for 0), `record_request` |
| `ClientRecv`, `ClientGone` | the client reads the `ReceiverStream`, or disconnects and drops it |

The properties:
- `BilledUsageWasForwarded`: when the task has finished, the logged usage is one the client was sent (`ForwardedUsages`), and the key is debited at most once, by that usage (not at all for 0). For SSE, that means a complete usage line of the forwarded part. For JSON, it means the body's usage, if the whole body was forwarded within the cap. It holds for every split, disconnect, body error, gzip answer and repeated usage event. The mutant parses a chunk before sending it: when the send then fails, usage the client never received is billed.
- `TeeTerminates` (liveness): the task always ends, so the request is always debited and recorded.
- `InjectedStreamBilled`: a streaming chat completion through an inject upstream is debited its tokens once the client has received the whole stream. This is spec 4.6 step 9.

| Run | Config | Expect | What it shows |
|---|---|---|---|
| usage_stream | `MCUsage_stream.cfg` | pass | Four request shapes; SSE, JSON and plain answers; identity and gzip; 0 and 3 tokens; streams with one or two usage events; a padded JSON body that overflows the cap. Nothing is billed that the client was not sent, and the task ends (about 8k states). |
| usage_inject | `MCUsage_inject.cfg` | violation | A client streams a chat completion without `stream_options`. `ensure_stream_usage` inserts `include_usage: true`, reads it back as already true, and returns false. The body is not re-serialized, the upstream streams no usage, and nothing is debited. |

Two claims of spec 4.7 are broken by the code, and no run states them:
- **Gzip bodies are decoded and billed** (spec line 148). The decoder fails on every gzip body (`proxy.rs:727`), so a gzip-encoded answer is forwarded but never billed. usage_stream reaches this on every gzip answer.
- **The last usage block wins** (spec line 145). Once a usage is found, no later chunk is parsed (`proxy.rs:513`). The first chunk holding a usage decides, and the last usage line *within* that chunk wins. With continuous usage statistics split across chunks, the first, smallest count is billed. When that count is 0, nothing is billed at all.

`BilledUsageWasForwarded` states what the code does promise about billing: it never overcharges.

Bounds and fairness:
- Chunks of one or two symbols split every line at every point.
- The channel holds 2 chunks, so the task runs ahead of the client and blocks.
- The parse cap is 3 symbols: a plain JSON body fits and a padded one overflows, with chunks still arriving afterwards.
- One upstream, in the inject set. The violation needs no retry. A retry from a non-inject upstream to an inject one would lose the hint too (hazard `proxy.rs:299`).
- The tee task is weakly fair on its own steps, since it is a spawned task that is polled whenever it is ready. The upstream answer is weakly fair, because `request_timeout` bounds it.
- A body error is the upstream's choice, so it has no fairness.
- The client is assumed to keep reading until it disconnects (weak fairness of `ClientRecv`). A client that stops reading holds the task at `tx.send`, which the code allows.
- Deadlock is not checked: the model is one response, and it stops once recorded.

## 8. Not modelled yet, and why

- Config loading, bootstrap, the static UI and the stats stream do pure I/O or parsing, with no interleaving to check.
- `config.rs` normalisation and validation run once, before any actor starts. One behaviour is worth noting: a `proxy_tokens` list whose entries are all blank becomes `None`, and `authorize_proxy` then lets every request through. This is a pure function of the file, so a unit test covers it better than a model.
- `api_refresh_models` (`fetch_models_preview`) only reads an upstream's model list and returns it. It changes no state, so there is no action to model.
- `storage.rs` `export_json`/`import_json` have no callers in the server.
- The `Stats` counters other than `latency_ns_max` are plain `fetch_add`s that commute, so nothing can be lost between them.
- Saturating `u64` arithmetic in the backoff is not modelled. It matters only near `u64::MAX`, far beyond any clock TLC can enumerate.
