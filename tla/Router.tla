------------------------------- MODULE Router -------------------------------
(***************************************************************************)
(* The request router of gptload-rs: the weighted round-robin selector     *)
(* (RouterState::select_for_model, Upstream::select_key), the circuit      *)
(* breaker (on_upstream_status, on_timeout, on_network_error, ban_key,     *)
(* ban_upstream) and the attempt/retry loop of proxy::forward that drives  *)
(* them.  Every request is a task with its own program counter; the        *)
(* shared cursors, cooldowns and streaks are relaxed atomics, so every     *)
(* load/fetch_add/store of them that the code does in a separate statement *)
(* is a separate step where another task can interleave.                   *)
(*                                                                         *)
(* Data abstraction: upstream ids, credentials and model names are model   *)
(* values; an upstream answer is its class (Outcomes); time is a small     *)
(* integer clock in milliseconds.  The atomic cursors are kept modulo the  *)
(* length they are reduced by (rr % sched_len, start % n), which is all    *)
(* the code ever reads of them.  A fail streak is kept up to StreakCap:    *)
(* every streak >= StreakCap gives the same backoff.                       *)
(***************************************************************************)
EXTENDS Integers, SequencesExt

CONSTANTS
    Upstreams,      \* upstream ids of the live snapshot
    UpstreamOrder,  \* the configured upstream list, in config order
    WeightCfg,      \* UpstreamConfig.weight (0 stands for an absent weight)
    KeysOf,         \* credentials loaded from the key store, per upstream
    ModelsOf,       \* model set of each upstream (Upstream.models)
    Models,         \* model names a client can ask for
    Requests,       \* concurrent request tasks
    RateLimitMs, AuthErrorMs, ServerErrorMs, NetworkErrorMs, \* BanConfig
    MaxBackoffPow,  \* BanConfig.max_backoff_pow
    MaxTime,        \* bound on the clock
    MaxRetries,     \* forward: const MaxRetries (5); smaller in race models
    Answers,        \* the answers upstreams give in this model (see Outcomes)
    MaxCancels,     \* bound on client disconnects during an await of forward
    BodyFaults,     \* request bodies forward rejects before selection
    LatencyOf,      \* the duration (ns) each request task takes, handed to record_latency
    NULL

ASSUME UpstreamOrder \in Seq(Upstreams) /\ ToSet(UpstreamOrder) = Upstreams
ASSUME WeightCfg \in [Upstreams -> Nat]
ASSUME \A u \in Upstreams : IsInjective(KeysOf[u])
ASSUME \A u, v \in Upstreams : u # v => ToSet(KeysOf[u]) \cap ToSet(KeysOf[v]) = {}
ASSUME Answers \subseteq {"ok", "429", "auth", "5xx", "timeout", "network"}
ASSUME ModelsOf \in [Upstreams -> SUBSET Models]
ASSUME BodyFaults \subseteq {"too_large", "read_error", "no_model"}
ASSUME Requests \subseteq DOMAIN LatencyOf /\ \A r \in Requests : LatencyOf[r] \in Nat \ {0}
ASSUME {RateLimitMs, AuthErrorMs, ServerErrorMs, NetworkErrorMs, MaxBackoffPow, MaxTime, MaxRetries, MaxCancels} \subseteq Nat

MAX_WEIGHT == 100       \* build_snapshot_from_configs: const MAX_WEIGHT

Creds == UNION {ToSet(KeysOf[u]) : u \in Upstreams}
CredOwner(k) == CHOOSE u \in Upstreams : k \in ToSet(KeysOf[u])

(***************************************************************************)
(* The snapshot's schedule: upstream i appears weight_i times, in config   *)
(* order, weights clamped to 1..MAX_WEIGHT (unwrap_or(1).clamp(1, 100)).   *)
(***************************************************************************)
ClampWeight(w) == IF w < 1 THEN 1 ELSE IF w > MAX_WEIGHT THEN MAX_WEIGHT ELSE w

RECURSIVE BuildSchedule(_)
BuildSchedule(us) ==
    IF us = <<>> THEN <<>>
    ELSE [i \in 1..ClampWeight(WeightCfg[Head(us)]) |-> Head(us)]
            \o BuildSchedule(Tail(us))

Schedule == BuildSchedule(UpstreamOrder)

\* Mutant: the scan stops one slot short of the schedule.
ScanBoundShort == Len(Schedule) - 1

\* select_for_model tries at most sched_len slots.
ScanBound == Len(Schedule)

(***************************************************************************)
(* Backoff: streak s >= 1 gives base * 2^min(s-1, min(max_backoff_pow,30)) *)
(* added to the caller's now.                                              *)
(***************************************************************************)
MaxPow == Min({MaxBackoffPow, 30})
StreakCap == MaxPow + 1
Bump(s) == Min({s + 1, StreakCap})
BanUntil(now, base, streak) == now + base * 2^Min({streak - 1, MaxPow})

Outcomes == {"ok", "429", "auth", "5xx", "timeout", "network"}
HttpOutcomes == {"ok", "429", "auth", "5xx"}
Verdicts == {"none", "served", "unavailable", "failed", "rejected"}

MaxUntil == MaxTime + Max({RateLimitMs, AuthErrorMs, ServerErrorMs, NetworkErrorMs}) * 2^MaxPow

VARIABLES
    clock,      \* util::now_ms()
    sched_rr,   \* RouterState.sched_rr
    key_rr,     \* Upstream.key_rr
    ucool,      \* Upstream.cooldown_until_ms
    ustreak,    \* Upstream.fail_streak
    kcool,      \* KeyState.cooldown_until_ms
    kstreak,    \* KeyState.fail_streak
    req,        \* the locals of each request task in handle/forward
    inflight,   \* Stats.requests_inflight
    cancels,    \* client disconnects so far (bounded by MaxCancels)
    lat_max,    \* Stats.latency_ns_max
    lat_peak    \* history: the largest latency record_latency was called with

latency == <<lat_max, lat_peak>>
vars == <<clock, sched_rr, key_rr, ucool, ustreak, kcool, kstreak, req, inflight, cancels,
          latency>>

LatVals == {0} \cup {LatencyOf[r] : r \in Requests}

ReqState == [pc: {"idle", "body", "select", "send", "banup", "store", "done", "lat"},
             now: 0..MaxTime, model: Models \cup {NULL},
             phase: {"first", "retry"}, iter: 0..ScanBound,
             visited: SUBSET (0..ScanBound - 1),
             up: Upstreams \cup {NULL}, key: Creds \cup {NULL},
             retries: 0..MaxRetries, outcome: Outcomes \cup {NULL},
             until: 0..MaxUntil, rl: Creds \cup {NULL},
             last: Verdicts, lat: LatVals, cur: LatVals]

TypeOK ==
    /\ clock \in 0..MaxTime
    /\ sched_rr \in 0..ScanBound - 1
    /\ key_rr \in [Upstreams -> Nat]
    /\ \A u \in Upstreams : key_rr[u] < Max({Len(KeysOf[u]), 1})
    /\ ucool \in [Upstreams -> 0..MaxUntil]
    /\ ustreak \in [Upstreams -> 0..StreakCap]
    /\ kcool \in [Creds -> 0..MaxUntil]
    /\ kstreak \in [Creds -> 0..StreakCap]
    /\ req \in [Requests -> ReqState]
    /\ inflight \in 0..Cardinality(Requests) + MaxCancels
    /\ cancels \in 0..MaxCancels
    /\ lat_max \in LatVals
    /\ lat_peak \in LatVals

IdleReq ==
    [pc |-> "idle", now |-> 0, model |-> NULL, phase |-> "first",
     iter |-> 0, visited |-> {}, up |-> NULL, key |-> NULL,
     retries |-> 0, outcome |-> NULL, until |-> 0, rl |-> NULL,
     last |-> "none", lat |-> 0, cur |-> 0]

\* forward has produced its answer (verdict); the locals are kept until the
\* task ends.
Finish(q, verdict) == [q EXCEPT !.pc = "done", !.last = verdict]

Init ==
    /\ clock = 0
    /\ sched_rr = 0
    /\ key_rr = [u \in Upstreams |-> 0]
    /\ ucool = [u \in Upstreams |-> 0]
    /\ ustreak = [u \in Upstreams |-> 0]
    /\ kcool = [k \in Creds |-> 0]
    /\ kstreak = [k \in Creds |-> 0]
    /\ req = [r \in Requests |-> IdleReq]
    /\ inflight = 0
    /\ cancels = 0
    /\ lat_max = 0
    /\ lat_peak = 0

\* Wall-clock time passes.
Tick ==
    /\ clock < MaxTime
    /\ clock' = clock + 1
    /\ UNCHANGED <<sched_rr, key_rr, ucool, ustreak, kcool, kstreak, req, inflight, cancels, latency>>

(***************************************************************************)
(* A request reaches forward(): handle() counts it (requests_total and    *)
(* requests_inflight fetch_add) and takes now_ms() once; it is used for   *)
(* every selection and every breaker update of this request.              *)
(***************************************************************************)
Start(r) ==
    /\ req[r].pc = "idle"
    /\ req' = [req EXCEPT ![r] = [IdleReq EXCEPT !.pc = "body", !.now = clock]]
    /\ inflight' = inflight + 1
    /\ UNCHANGED <<clock, sched_rr, key_rr, ucool, ustreak, kcool, kstreak, cancels, latency>>

\* GET /v1/models: handle counts the request like any other, and
\* models_list answers from the routes with no await and no shared state
\* touched; the task goes on to the latency record and the decrement.
ListModels(r) ==
    /\ req[r].pc = "idle"
    /\ req' = [req EXCEPT ![r] = Finish([IdleReq EXCEPT !.now = clock], "served")]
    /\ inflight' = inflight + 1
    /\ UNCHANGED <<clock, sched_rr, key_rr, ucool, ustreak, kcool, kstreak, cancels, latency>>

ModelExists(m) == \E u \in Upstreams : m \in ModelsOf[u]

(***************************************************************************)
(* forward buffers the body (an await per chunk) and extracts the model.  *)
(* A body over 16 MiB answers 413, a read error 502, a body and path with *)
(* no model 400, and a model no upstream serves 404 (model_exists); none  *)
(* of these touches shared state.  Otherwise selection starts.            *)
(***************************************************************************)
ReadBody(r) ==
    /\ req[r].pc = "body"
    /\ \/ \E f \in BodyFaults : req' = [req EXCEPT ![r] = Finish(@, "rejected")]
       \/ \E m \in Models :
            req' = [req EXCEPT ![r] =
                     IF ModelExists(m) THEN [@ EXCEPT !.pc = "select", !.model = m]
                     ELSE Finish([@ EXCEPT !.model = m], "rejected")]
    /\ UNCHANGED <<clock, sched_rr, key_rr, ucool, ustreak, kcool, kstreak, inflight, cancels, latency>>

(***************************************************************************)
(* Upstream::select_key: one fetch_add of key_rr, then the first key from  *)
(* start whose cooldown has elapsed; NULL if none.  An upstream without    *)
(* keys returns before touching key_rr.                                    *)
(***************************************************************************)
KeyAt(u, start, i) == KeysOf[u][((start + i) % Len(KeysOf[u])) + 1]

\* Mutant: select_key takes the key at the cursor whatever its cooldown.
SelectKeyIgnoringCooldown(u, now) ==
    IF Len(KeysOf[u]) = 0 THEN NULL ELSE KeyAt(u, key_rr[u], 0)

SelectKey(u, now) ==
    LET n == Len(KeysOf[u])
        free == {i \in 0..n - 1 : kcool[KeyAt(u, key_rr[u], i)] <= now}
    IN IF n = 0 \/ free = {} THEN NULL ELSE KeyAt(u, key_rr[u], Min(free))

\* Mutant: the key cursor is kept without reducing it modulo n.
NextKeyRRNoWrap(u) ==
    IF Len(KeysOf[u]) = 0 THEN key_rr ELSE [key_rr EXCEPT ![u] = @ + 1]

NextKeyRR(u) ==
    IF Len(KeysOf[u]) = 0 THEN key_rr
    ELSE [key_rr EXCEPT ![u] = (@ + 1) % Len(KeysOf[u])]

(***************************************************************************)
(* One iteration of the loop of select_for_model: fetch_add on sched_rr,   *)
(* skip the slot if the upstream lacks the model or is cooling down, else  *)
(* try select_key.  The three outcomes are the actions below.              *)
(***************************************************************************)
SlotUp == Schedule[sched_rr + 1]

UpstreamEligible(u, q) == q.model \in ModelsOf[u] /\ ucool[u] <= q.now

SlotKey(q) == IF UpstreamEligible(SlotUp, q) THEN SelectKey(SlotUp, q.now) ELSE NULL

SlotKeyRR(q) == IF UpstreamEligible(SlotUp, q) THEN NextKeyRR(SlotUp) ELSE key_rr

AdvanceCursor == sched_rr' = (sched_rr + 1) % Len(Schedule)

\* A key is found: Some(Selected); on a retry, retry_count += 1.
SelectFound(r) ==
    LET q == req[r] IN
    /\ q.pc = "select"
    /\ SlotKey(q) # NULL
    /\ AdvanceCursor
    /\ key_rr' = SlotKeyRR(q)
    /\ req' = [req EXCEPT ![r] =
                [@ EXCEPT !.pc = "send", !.up = SlotUp, !.key = SlotKey(q),
                    !.visited = @ \cup {sched_rr},
                    !.retries = IF q.phase = "retry" THEN @ + 1 ELSE @]]
    /\ UNCHANGED <<clock, ucool, ustreak, kcool, kstreak, inflight, cancels, latency>>

\* Mutant: a skipped slot does not count towards the sched_len bound.
SelectSkipUncounted(r) ==
    LET q == req[r] IN
    /\ q.pc = "select"
    /\ SlotKey(q) = NULL
    /\ q.iter + 1 < ScanBound
    /\ AdvanceCursor
    /\ key_rr' = SlotKeyRR(q)
    /\ req' = [req EXCEPT ![r] = [@ EXCEPT !.visited = @ \cup {sched_rr}]]
    /\ UNCHANGED <<clock, ucool, ustreak, kcool, kstreak, inflight, cancels, latency>>

\* The slot gives nothing and slots remain: `continue`.
SelectSkip(r) ==
    LET q == req[r] IN
    /\ q.pc = "select"
    /\ SlotKey(q) = NULL
    /\ q.iter + 1 < ScanBound
    /\ AdvanceCursor
    /\ key_rr' = SlotKeyRR(q)
    /\ req' = [req EXCEPT ![r] =
                [@ EXCEPT !.iter = @ + 1, !.visited = @ \cup {sched_rr}]]
    /\ UNCHANGED <<clock, ucool, ustreak, kcool, kstreak, inflight, cancels, latency>>

(***************************************************************************)
(* The last slot gives nothing: select_for_model returns None.  On the     *)
(* first selection forward answers 503 model_unavailable; on a retry it    *)
(* forwards the 429 response it already holds.                             *)
(***************************************************************************)
SelectExhausted(r) ==
    LET q == req[r] IN
    /\ q.pc = "select"
    /\ SlotKey(q) = NULL
    /\ q.iter + 1 >= ScanBound
    /\ AdvanceCursor
    /\ key_rr' = SlotKeyRR(q)
    /\ req' = [req EXCEPT ![r] =
                Finish([@ EXCEPT !.visited = @ \cup {sched_rr}],
                        IF q.phase = "first" THEN "unavailable" ELSE "served")]
    /\ UNCHANGED <<clock, ucool, ustreak, kcool, kstreak, inflight, cancels, latency>>

(***************************************************************************)
(* The round trip ends with outcome o.  An HTTP response runs              *)
(* on_upstream_status: the upstream's streak and cooldown are zeroed, then *)
(* 429 and 401/403 bump the key's streak (fetch_add) and compute its ban,  *)
(* 5xx goes on to ban_upstream, anything else zeroes the key's streak and  *)
(* the response is forwarded.  A timeout or transport error goes to        *)
(* ban_upstream without the reset (on_timeout, on_network_error).          *)
(***************************************************************************)
KeyBanBase(o) == IF o = "429" THEN RateLimitMs ELSE AuthErrorMs
UpBanBase(o) == IF o = "5xx" THEN ServerErrorMs ELSE NetworkErrorMs

Respond(r) ==
    LET q == req[r] IN
    /\ q.pc = "send"
    /\ \E o \in Answers :
        /\ IF o \in HttpOutcomes
             THEN /\ ustreak' = [ustreak EXCEPT ![q.up] = 0]
                  /\ ucool' = [ucool EXCEPT ![q.up] = 0]
             ELSE UNCHANGED <<ustreak, ucool>>
        /\ CASE o \in {"429", "auth"} ->
                  /\ kstreak' = [kstreak EXCEPT ![q.key] = Bump(@)]
                  /\ req' = [req EXCEPT ![r] =
                              [@ EXCEPT !.pc = "store", !.outcome = o,
                                  !.until = BanUntil(q.now, KeyBanBase(o), Bump(kstreak[q.key])),
                                  !.rl = IF o = "429" THEN q.key ELSE @]]
             [] o = "ok" ->
                  /\ kstreak' = [kstreak EXCEPT ![q.key] = 0]
                  /\ req' = [req EXCEPT ![r] = Finish(@, "served")]
             [] OTHER ->
                  /\ UNCHANGED kstreak
                  /\ req' = [req EXCEPT ![r] = [@ EXCEPT !.pc = "banup", !.outcome = o]]
    /\ UNCHANGED <<clock, sched_rr, key_rr, kcool, inflight, cancels, latency>>

\* ban_upstream: fetch_add on the upstream's streak, then the ban from it.
BanUpstream(r) ==
    LET q == req[r] IN
    /\ q.pc = "banup"
    /\ ustreak' = [ustreak EXCEPT ![q.up] = Bump(@)]
    /\ req' = [req EXCEPT ![r] =
                [@ EXCEPT !.pc = "store",
                    !.until = BanUntil(q.now, UpBanBase(q.outcome), Bump(ustreak[q.up]))]]
    /\ UNCHANGED <<clock, sched_rr, key_rr, ucool, kcool, kstreak, inflight, cancels, latency>>

(***************************************************************************)
(* The ban's cooldown_until_ms.store.  Then: a 429 with retries left goes  *)
(* back to select_for_model with the same now; a 429 or 401/403 response  *)
(* is otherwise forwarded; 5xx is forwarded; timeout and network error    *)
(* answer 504/502.                                                         *)
(***************************************************************************)
StoreBan(r) ==
    LET q == req[r] IN
    /\ q.pc = "store"
    /\ IF q.outcome \in {"429", "auth"}
         THEN kcool' = [kcool EXCEPT ![q.key] = q.until] /\ UNCHANGED ucool
         ELSE ucool' = [ucool EXCEPT ![q.up] = q.until] /\ UNCHANGED kcool
    /\ req' = [req EXCEPT ![r] =
                IF q.outcome = "429" /\ q.retries < MaxRetries
                  THEN [@ EXCEPT !.pc = "select", !.phase = "retry", !.iter = 0,
                          !.visited = {}, !.up = NULL, !.key = NULL,
                          !.outcome = NULL, !.until = 0]
                  ELSE Finish(@, IF q.outcome \in {"timeout", "network"}
                                    THEN "failed" ELSE "served")]
    /\ UNCHANGED <<clock, sched_rr, key_rr, ustreak, kstreak, inflight, cancels, latency>>

(***************************************************************************)
(* The answer is returned to handle(), which calls record_latency with    *)
(* the elapsed time: fetch_adds on latency_ns_total and latency_count      *)
(* (read by nothing modelled, so left out), then a load of latency_ns_max *)
(* into cur.                                                               *)
(***************************************************************************)
RecordLatency(r) ==
    /\ req[r].pc = "done"
    /\ req' = [req EXCEPT ![r] = [@ EXCEPT !.pc = "lat", !.lat = LatencyOf[r], !.cur = lat_max]]
    /\ lat_peak' = Max({lat_peak, LatencyOf[r]})
    /\ UNCHANGED <<clock, sched_rr, key_rr, ucool, ustreak, kcool, kstreak, inflight, cancels, lat_max>>

(***************************************************************************)
(* handle leaves the request after record_latency returns: the            *)
(* requests_inflight fetch_sub, and the task ends.  The fetch_sub is in  *)
(* the step that leaves the exchange loop: it commutes with every other   *)
(* step, all of which touch the counter only by fetch_add and fetch_sub.  *)
(***************************************************************************)
Complete(r) ==
    /\ req' = [req EXCEPT ![r] = IdleReq]
    /\ inflight' = inflight - 1

(***************************************************************************)
(* One turn of `while latency_ns > cur`: compare_exchange_weak(cur, l)     *)
(* stores l and breaks when latency_ns_max still holds cur, and otherwise *)
(* reloads cur from it.  A spurious failure of the weak exchange reloads  *)
(* the same value, a turn that changes nothing, and is left out.          *)
(***************************************************************************)
\* Mutant: a plain store of l once l > cur, with no compare.
LatencyStoreBlind(r) ==
    LET q == req[r] IN
    /\ q.pc = "lat"
    /\ IF q.lat > q.cur THEN lat_max' = q.lat ELSE UNCHANGED lat_max
    /\ Complete(r)
    /\ UNCHANGED <<clock, sched_rr, key_rr, ucool, ustreak, kcool, kstreak, cancels, lat_peak>>

LatencyCas(r) ==
    LET q == req[r] IN
    /\ q.pc = "lat"
    /\ CASE q.lat <= q.cur -> UNCHANGED lat_max /\ Complete(r)
          [] lat_max = q.cur -> lat_max' = q.lat /\ Complete(r)
          [] OTHER -> /\ UNCHANGED <<lat_max, inflight>>
                      /\ req' = [req EXCEPT ![r] = [@ EXCEPT !.cur = lat_max]]
    /\ UNCHANGED <<clock, sched_rr, key_rr, ucool, ustreak, kcool, kstreak, cancels, lat_peak>>

(***************************************************************************)
(* The client closes the connection while forward awaits a body chunk or  *)
(* the upstream (client.request under tokio::time::timeout).  hyper drops *)
(* the handle future at that await: no breaker update, no latency, and    *)
(* the requests_inflight fetch_sub after forward(...).await never runs.   *)
(***************************************************************************)
Cancel(r) ==
    /\ req[r].pc \in {"body", "send"}
    /\ cancels < MaxCancels
    /\ cancels' = cancels + 1
    /\ req' = [req EXCEPT ![r] = IdleReq]
    /\ UNCHANGED <<clock, sched_rr, key_rr, ucool, ustreak, kcool, kstreak, inflight, latency>>

RequestStep(r) ==
    \/ ReadBody(r)
    \/ SelectFound(r)
    \/ SelectSkip(r)
    \/ SelectExhausted(r)
    \/ Respond(r)
    \/ BanUpstream(r)
    \/ StoreBan(r)
    \/ RecordLatency(r)
    \/ LatencyCas(r)

Next ==
    \/ Tick
    \/ \E r \in Requests : Start(r) \/ ListModels(r) \/ RequestStep(r) \/ Cancel(r)

(***************************************************************************)
(* Fairness: a started request is a tokio task that keeps being polled,    *)
(* and its round trip ends (the response, an error, or the deadline of    *)
(* request_timeout).  Clients need not send requests or disconnect, and  *)
(* time need not reach MaxTime, so Start, ListModels, Cancel and Tick     *)
(* carry no fairness.                                                     *)
(***************************************************************************)
Spec == Init /\ [][Next]_vars /\ \A r \in Requests : WF_vars(RequestStep(r))

-----------------------------------------------------------------------------
(***************************************************************************)
(* Properties                                                              *)
(***************************************************************************)

(* A request answered 503 model_unavailable had, at its now, no upstream  *)
(* serving its model that was out of cooldown and held a key out of       *)
(* cooldown: the selector only gives up when nothing was eligible.        *)
NoEligiblePair(m, now) ==
    ~\E u \in Upstreams :
        /\ m \in ModelsOf[u]
        /\ ucool[u] <= now
        /\ \E k \in ToSet(KeysOf[u]) : kcool[k] <= now

\* The request has just been answered 503 model_unavailable.
Unavailable(q) == q.pc = "done" /\ q.last = "unavailable"

UnavailableOnlyWhenNoneEligible ==
    \A r \in Requests :
        Unavailable(req[r]) => NoEligiblePair(req[r].model, req[r].now)

(* Spec 4.4: None is returned only once the full schedule is exhausted:   *)
(* a selection that gives up has examined every slot of the schedule.      *)
SelectScansWholeSchedule ==
    \A r \in Requests :
        Unavailable(req[r]) => req[r].visited = 0..ScanBound - 1

(* Spec 9, retry-on-429: each retry passes the selector respecting the    *)
(* cooldown the prior attempt just installed, so the retry never goes     *)
(* back to the credential that answered 429.                               *)
RetryAvoidsRateLimitedKey ==
    \A r \in Requests :
        (req[r].phase = "retry" /\ req[r].pc = "send") => req[r].key # req[r].rl

(* Spec 4.6 step 4: requests_inflight is decremented "on every exit" of   *)
(* handle, so the gauge admin stats reports equals the number of requests *)
(* handle is serving, whatever path forward took or where it stopped.    *)
Active == {r \in Requests : req[r].pc # "idle"}

InflightCountsRequests == inflight = Cardinality(Active)

(* record_latency keeps latency_ns_max the largest latency ever recorded: *)
(* whenever no request is inside its compare_exchange loop, the maximum   *)
(* is the largest duration handed to record_latency, whatever order the   *)
(* concurrent loads and exchanges of two requests took.                    *)
InCasLoop == \E r \in Requests : req[r].pc = "lat"

LatencyMaxIsLargest == ~InCasLoop => lat_max = lat_peak

(* Liveness: every request forward takes on eventually answers; the 429   *)
(* retry loop, the selector loop and the latency CAS loop are bounded.   *)
RequestsTerminate ==
    \A r \in Requests : (req[r].pc # "idle") ~> (req[r].pc = "idle")

=============================================================================
