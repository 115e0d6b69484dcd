----------------------------- MODULE RequestLog -----------------------------
(***************************************************************************)
(* The request log of state.rs: RequestsLog::record, called by every      *)
(* request task through proxy.rs record_request, and the requests.jsonl   *)
(* writer task (start_request_log_writer).                                  *)
(*                                                                          *)
(* record_request reads now_ms() into the entry, then RequestsLog::record  *)
(* try_sends the entry to the writer queue, pushes it on the ring under    *)
(* the entries mutex, and updates the minute/hour/day buckets under the    *)
(* metrics mutex.  Each of these is a step of its own: another task may    *)
(* run between any two.  The writer task receives entries, writes a line  *)
(* and a newline (the newline's error is ignored), and flushes every       *)
(* FlushAt entries or on its one-second tick.                              *)
(***************************************************************************)
EXTENDS Integers, Sequences, SequencesExt, FiniteSets

CONSTANTS
    Reqs,          \* request tasks that record entries
    Statuses,      \* HTTP statuses a request may end with
    Windows,       \* the metrics windows
    Step,          \* Step[w]: bucket width of window w (60_000, 3_600_000, 86_400_000)
    Cap,           \* Cap[w]: buckets kept in window w (60, 48, 30)
    RingCap,       \* ring capacity (5000)
    LogCap,        \* writer queue capacity (2048)
    FlushAt,       \* writer flush threshold (256)
    Outcomes,      \* what a write of one line can do: "ok", "fail", "nolf"
    MaxTime,       \* bound of the model clock
    MaxRecords     \* bound of the number of entries recorded

ASSUME /\ \A w \in Windows : Step[w] \in Nat \ {0} /\ Cap[w] \in Nat \ {0}
       /\ RingCap \in Nat \ {0} /\ LogCap \in Nat \ {0} /\ FlushAt \in Nat \ {0}
       /\ Outcomes \subseteq {"ok", "fail", "nolf"}

VARIABLES
    clock,     \* now_ms()
    n,         \* entries stamped so far (gives each entry its id)
    req,       \* req[r]: pc and the entry being recorded
    entries,   \* the ring (VecDeque) behind the entries mutex
    pushes,    \* history: ids in the order they were pushed on the ring
    buckets,   \* buckets[w]: the VecDeque of window w
    counted,   \* history: entries whose metrics update has run
    logq,      \* the mpsc queue to the writer (ids)
    lines,     \* requests.jsonl as a sequence of lines, each a sequence of ids
    lineOpen,  \* the last line has no newline yet
    pending,   \* the writer's unflushed line count
    flushed    \* entries written up to the last flush

vars == <<clock, n, req, entries, pushes, buckets, counted, logq, lines,
          lineOpen, pending, flushed>>

Ids == 1..MaxRecords
Entry == [id: Ids, ts: 0..MaxTime, st: Statuses]
NoEntry == [id |-> 1, ts |-> 0, st |-> CHOOSE s \in Statuses : TRUE]
Bucket == [ts: 0..MaxTime, total: 0..MaxRecords, success: 0..MaxRecords,
           failure: 0..MaxRecords, ignored: 0..MaxRecords]

\* Entries (ids) written to the file so far.
Written == FlattenSeq(lines)

TypeOK ==
    /\ clock \in 0..MaxTime
    /\ n \in 0..MaxRecords
    /\ req \in [Reqs -> [pc: {"idle", "send", "ring", "metrics"}, e: Entry]]
    /\ entries \in Seq(Entry) /\ Len(entries) <= RingCap
    /\ pushes \in Seq(Ids)
    /\ buckets \in [Windows -> Seq(Bucket)]
    /\ \A w \in Windows : Len(buckets[w]) <= Cap[w]
    /\ counted \subseteq Entry
    /\ logq \in Seq(Ids) /\ Len(logq) <= LogCap
    /\ lines \in Seq(Seq(Ids))
    /\ lineOpen \in BOOLEAN
    /\ pending \in 0..FlushAt
    /\ flushed \in 0..Len(Written)

Init ==
    /\ clock = 0
    /\ n = 0
    /\ req = [r \in Reqs |-> [pc |-> "idle", e |-> NoEntry]]
    /\ entries = <<>>
    /\ pushes = <<>>
    /\ buckets = [w \in Windows |-> <<>>]
    /\ counted = {}
    /\ logq = <<>>
    /\ lines = <<>>
    /\ lineOpen = FALSE
    /\ pending = 0
    /\ flushed = 0

-----------------------------------------------------------------------------
(***************************************************************************)
(* Buckets: classify_status and update_bucket.                             *)
(***************************************************************************)
\* (success, failure, ignored) of a status.
ClassifyStatus(s) == IF s \in 200..299 THEN <<1, 0, 0>>
                     ELSE IF s = 404 THEN <<0, 0, 1>>
                     ELSE <<0, 1, 0>>

BucketStart(ts, w) == ts - (ts % Step[w])

ZeroBucket(s) == [ts |-> s, total |-> 0, success |-> 0, failure |-> 0, ignored |-> 0]

\* Mutant: only the entry's own bucket is pushed, the gap before it is not filled.
GapFillNone(bs, start, w) ==
    IF bs = <<>> \/ start > Last(bs).ts THEN Append(bs, ZeroBucket(start)) ELSE bs

\* A first bucket when empty; otherwise zero buckets from last_start + step
\* up to bucket_start.  An older bucket_start adds nothing.
GapFill(bs, start, w) ==
    IF bs = <<>> THEN <<ZeroBucket(start)>>
    ELSE IF start > Last(bs).ts
         THEN bs \o [k \in 1..((start - Last(bs).ts) \div Step[w]) |->
                        ZeroBucket(Last(bs).ts + k * Step[w])]
         ELSE bs

\* The counters of the back bucket take the entry.
Bump(bs, c) ==
    IF bs = <<>> THEN bs
    ELSE [bs EXCEPT ![Len(bs)] = [@ EXCEPT !.total = @ + 1, !.success = @ + c[1],
                                           !.failure = @ + c[2], !.ignored = @ + c[3]]]

\* Mutant: the ring keeps one entry fewer than its capacity.
KeepNewestShort(s, cap) ==
    IF Len(s) >= cap THEN SubSeq(s, Len(s) - cap + 2, Len(s)) ELSE s

\* while len > cap { pop_front() }.
KeepNewest(s, cap) ==
    IF Len(s) > cap THEN SubSeq(s, Len(s) - cap + 1, Len(s)) ELSE s

UpdateBucket(bs, ts, w, st) ==
    KeepNewest(Bump(GapFill(bs, BucketStart(ts, w), w), ClassifyStatus(st)), Cap[w])

-----------------------------------------------------------------------------
(***************************************************************************)
(* A request task recording one entry.                                     *)
(***************************************************************************)
SetReq(r, pc, e) == req' = [req EXCEPT ![r] = [pc |-> pc, e |-> e]]

\* record_request: the entry is built with ts_ms = now_ms() and the status.
Stamp(r, st) ==
    /\ req[r].pc = "idle"
    /\ n < MaxRecords
    /\ n' = n + 1
    /\ SetReq(r, "send", [id |-> n + 1, ts |-> clock, st |-> st])
    /\ UNCHANGED <<clock, entries, pushes, buckets, counted, logq, lines,
                   lineOpen, pending, flushed>>

\* Mutant: a blocking send instead of try_send, as if the queue had no bound.
SendUnbounded(r) ==
    /\ req[r].pc = "send"
    /\ logq' = Append(logq, req[r].e.id)
    /\ SetReq(r, "ring", req[r].e)
    /\ UNCHANGED <<clock, n, entries, pushes, buckets, counted, lines,
                   lineOpen, pending, flushed>>

\* tx.try_send(entry): a full queue drops the entry.
Send(r) ==
    /\ req[r].pc = "send"
    /\ logq' = IF Len(logq) < LogCap THEN Append(logq, req[r].e.id) ELSE logq
    /\ SetReq(r, "ring", req[r].e)
    /\ UNCHANGED <<clock, n, entries, pushes, buckets, counted, lines,
                   lineOpen, pending, flushed>>

\* Under the entries mutex: push_back, then pop_front while over capacity.
RingPush(r) ==
    /\ req[r].pc = "ring"
    /\ entries' = KeepNewest(Append(entries, req[r].e), RingCap)
    /\ pushes' = Append(pushes, req[r].e.id)
    /\ SetReq(r, "metrics", req[r].e)
    /\ UNCHANGED <<clock, n, buckets, counted, logq, lines, lineOpen, pending, flushed>>

\* Under the metrics mutex: RequestMetrics::update on the three windows.
MetricsUpdate(r) ==
    LET e == req[r].e IN
    /\ req[r].pc = "metrics"
    /\ buckets' = [w \in Windows |-> UpdateBucket(buckets[w], e.ts, w, e.st)]
    /\ counted' = counted \cup {e}
    /\ SetReq(r, "idle", e)
    /\ UNCHANGED <<clock, n, entries, pushes, logq, lines, lineOpen, pending, flushed>>

RecordStep(r) == Send(r) \/ RingPush(r) \/ MetricsUpdate(r)

\* Wall-clock time passes.
Tick ==
    /\ clock < MaxTime
    /\ clock' = clock + 1
    /\ UNCHANGED <<n, req, entries, pushes, buckets, counted, logq, lines,
                   lineOpen, pending, flushed>>

-----------------------------------------------------------------------------
(***************************************************************************)
(* The writer task: one arm of its select! loop per action.                *)
(***************************************************************************)
\* A written line goes on the open line if the last newline was lost.
AddLine(ls, open, id) ==
    IF open THEN [ls EXCEPT ![Len(ls)] = Append(@, id)] ELSE Append(ls, <<id>>)

\* rx.recv(): write_all(line); on success write_all("\n") with its result
\* ignored and pending += 1; a failed line write drops the entry.  Then
\* flush once pending reaches FlushAt.
WriterRecv(o) ==
    LET id == Head(logq)
        wrote == o # "fail"
        ls == IF wrote THEN AddLine(lines, lineOpen, id) ELSE lines
        p == IF wrote THEN pending + 1 ELSE pending
    IN /\ logq # <<>>
       /\ logq' = Tail(logq)
       /\ lines' = ls
       /\ lineOpen' = IF wrote THEN o = "nolf" ELSE lineOpen
       /\ pending' = IF p >= FlushAt THEN 0 ELSE p
       /\ flushed' = IF p >= FlushAt THEN Len(FlattenSeq(ls)) ELSE flushed
       /\ UNCHANGED <<clock, n, req, entries, pushes, buckets, counted>>

\* Mutant: the tick flushes only a full batch.
WriterTickAtThreshold ==
    /\ pending >= FlushAt
    /\ flushed' = Len(Written)
    /\ pending' = 0
    /\ UNCHANGED <<clock, n, req, entries, pushes, buckets, counted, logq, lines, lineOpen>>

\* tick.tick(): flush when anything is pending.
WriterTick ==
    /\ pending > 0
    /\ flushed' = Len(Written)
    /\ pending' = 0
    /\ UNCHANGED <<clock, n, req, entries, pushes, buckets, counted, logq, lines, lineOpen>>

WriterStep == (\E o \in Outcomes : WriterRecv(o)) \/ WriterTick

Next ==
    \/ \E r \in Reqs : \/ \E st \in Statuses : Stamp(r, st)
                       \/ RecordStep(r)
    \/ Tick
    \/ WriterStep

\* A task inside record() runs on (it only waits on uncontended mutexes);
\* the writer task is scheduled whenever its queue is non-empty, and its
\* interval fires every second.  Requests need not arrive.
Spec == Init /\ [][Next]_vars
        /\ \A r \in Reqs : WF_vars(RecordStep(r))
        /\ WF_vars(\E o \in Outcomes : WriterRecv(o))
        /\ WF_vars(WriterTick)

-----------------------------------------------------------------------------
(***************************************************************************)
(* Properties                                                              *)
(***************************************************************************)
\* Spec 8.5: the ring holds at most RingCap entries and evicts the oldest
\* first, so it is exactly the newest RingCap entries pushed (push_back then
\* pop_front in RequestsLog::record).
RingHoldsNewest ==
    LET ids == [i \in 1..Len(entries) |-> entries[i].id] IN
    /\ Len(ids) = IF Len(pushes) < RingCap THEN Len(pushes) ELSE RingCap
    /\ IsSuffix(ids, pushes)

\* update_bucket keeps each window a run of consecutive buckets, one per
\* step and aligned on it, at most Cap[w] long, whose counters partition
\* the total (the gap-filling loop and classify_status).
BucketsContiguous ==
    \A w \in Windows :
        LET bs == buckets[w] IN
        /\ \A i \in 1..Len(bs) :
              /\ bs[i].ts % Step[w] = 0
              /\ bs[i].total = bs[i].success + bs[i].failure + bs[i].ignored
        /\ \A i \in 1..(Len(bs) - 1) : bs[i + 1].ts = bs[i].ts + Step[w]

\* Spec 6: every entry written to requests.jsonl is flushed (within the
\* writer's one-second tick), not only when 256 entries have accumulated.
WrittenEventuallyFlushed ==
    \A i \in Ids : (Len(Written) >= i) ~> (flushed >= i)

====
