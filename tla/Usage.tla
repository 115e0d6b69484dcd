------------------------------- MODULE Usage -------------------------------
(***************************************************************************)
(* Usage extraction and the debit of one proxied request (proxy.rs).       *)
(*                                                                          *)
(* Before the attempt loop, proxy_request injects the streaming-usage hint *)
(* (ensure_stream_usage) into the body it forwards, deciding on the first  *)
(* selection.  When an upstream answers, proxy_upstream_response spawns a  *)
(* tee task that reads the body chunk by chunk, sends each chunk to the    *)
(* client through a bounded channel (32), and parses a local copy: SSE     *)
(* lines through parse_sse_usage, or JSON bytes accumulated up to          *)
(* MAX_PARSE_BYTES and parsed once at the end.  When the body ends, errors *)
(* or the client has gone, the task debits the usage found (apply_usage)   *)
(* and records the request.                                                *)
(*                                                                          *)
(* Data is abstracted to symbols: an SSE line is one payload symbol and a  *)
(* newline; a JSON body is an open symbol, padding, a usage object and a   *)
(* close symbol.  Chunk boundaries fall anywhere between symbols.  A gzip  *)
(* body goes through GzipDecoder, which fails on it (DecompressChunk).     *)
(* The client is a second actor that reads the channel or leaves.          *)
(***************************************************************************)
EXTENDS Integers, Sequences, SequencesExt, FiniteSets

CONSTANTS
    Upstreams,        \* upstream ids
    InjectUpstreams,  \* usage_inject_upstreams
    Requests,         \* request bodies that may arrive (records, see Request)
    Ctypes,           \* Content-Type of the answer: "sse", "json", "text"
    Gzip,             \* Content-Encoding gzip or not (BOOLEAN values)
    Tokens,           \* total_tokens an upstream may report
    Pads,             \* extra JSON symbols before usage (response size)
    ChanCap,          \* capacity of the tee channel (32)
    MaxChunk,         \* largest chunk, in symbols
    ParseCap          \* MAX_PARSE_BYTES, in symbols

ASSUME /\ InjectUpstreams \subseteq Upstreams
       /\ Ctypes \subseteq {"sse", "json", "text"} /\ Gzip \subseteq BOOLEAN
       /\ Tokens \subseteq Nat /\ Pads \subseteq Nat
       /\ ChanCap \in Nat \ {0} /\ MaxChunk \in Nat \ {0} /\ ParseCap \in Nat

\* stream_options as ensure_stream_usage sees it.
OptShapes == {"absent", "empty", "usage_true", "usage_false", "usage_other", "nonobj"}
\* The parts of the request JSON that matter: "stream" as a bool (a missing,
\* non-bool or non-object body reads as false), the chat path, stream_options.
Request == [stream: BOOLEAN, chat: BOOLEAN, opts: OptShapes]

NONE == -1

Sym(k, n) == [k |-> k, n |-> n]
NL == Sym("nl", 0)
Symbols == {Sym(k, 0) : k \in {"nl", "delta", "nullusage", "done", "jopen",
                               "jclose", "text"}}
           \cup {Sym("usage", t) : t \in Tokens}

VARIABLES
    req,       \* the request body as received
    fwd,       \* the body forwarded upstream
    sel,       \* the first selection's upstream (decides injection)
    served,    \* the upstream whose answer is streamed back
    reply,     \* [ctype, gzip, body] of that answer
    pc,        \* the tee task: "upstream", "run", "final", "done"
    rest,      \* body symbols not yet read by the tee
    sent,      \* symbols the tee has sent into the channel
    chan,      \* the mpsc channel: chunks not yet taken by the client
    delivered, \* symbols the client has read
    gone,      \* the client has disconnected (rx dropped)
    enabled,   \* parse_enabled
    buf,       \* sse_buf: the unterminated line
    usage,     \* usage found so far (a total, or NONE)
    jbuf,      \* json_buf
    overflow,  \* json_overflow
    billed,    \* debits applied to the billing key, in order
    logged     \* total_tokens of the request log entry (NONE before record)

vars == <<req, fwd, sel, served, reply, pc, rest, sent, chan, delivered, gone,
          enabled, buf, usage, jbuf, overflow, billed, logged>>

TypeOK ==
    /\ req \in Requests /\ fwd \in Request /\ sel \in Upstreams
    /\ served \in Upstreams \cup {NONE}
    /\ pc \in {"upstream", "run", "final", "done"}
    /\ rest \in Seq(Symbols) /\ sent \in Seq(Symbols) /\ delivered \in Seq(Symbols)
    /\ chan \in Seq(Seq(Symbols)) /\ Len(chan) <= ChanCap
    /\ gone \in BOOLEAN /\ enabled \in BOOLEAN /\ overflow \in BOOLEAN
    /\ buf \in Seq(Symbols) /\ jbuf \in Seq(Symbols) /\ Len(jbuf) <= ParseCap
    /\ usage \in Tokens \cup {NONE} /\ logged \in Tokens \cup {NONE}
    /\ billed \in Seq(Tokens)

-----------------------------------------------------------------------------
(* Request side *)

\* ensure_stream_usage: the mutated JSON and whether it reports a change.
\* An absent stream_options or include_usage is inserted as true, and the
\* inserted true then reads back as "already true".
EnsureStreamUsage(j) ==
    IF ~j.stream \/ j.opts = "nonobj"
    THEN [changed |-> FALSE, json |-> j]
    ELSE [changed |-> j.opts \in {"usage_false", "usage_other"},
          json |-> [j EXCEPT !.opts = "usage_true"]]

\* The body forwarded: re-serialized only when ensure_stream_usage reports a
\* change, for a streaming chat completion to an upstream of the inject set.
Forwarded(r, u) ==
    IF r.stream /\ r.chat /\ u \in InjectUpstreams /\ EnsureStreamUsage(r).changed
    THEN EnsureStreamUsage(r).json
    ELSE r

\* An OpenAI-style upstream: a stream carries a final usage event only when
\* stream_options.include_usage is true, and then every earlier event has
\* "usage": null; a JSON completion carries usage.  With pad > 0 the
\* upstream reports usage on every event (continuous usage statistics): an
\* earlier event carries the smallest count, the final one the total.
SseBody(f, t, pad) ==
    CASE ~(f.stream /\ f.opts = "usage_true") ->
             <<Sym("delta", 0), NL, Sym("done", 0), NL>>
      [] pad = 0 ->
             <<Sym("nullusage", 0), NL, Sym("usage", t), NL, Sym("done", 0), NL>>
      [] OTHER ->
             <<Sym("usage", Min(Tokens)), NL, Sym("usage", t), NL, Sym("done", 0), NL>>
JsonBody(t, pad) ==
    <<Sym("jopen", 0)>> \o [i \in 1..pad |-> Sym("delta", 0)]
                        \o <<Sym("usage", t), Sym("jclose", 0)>>
Body(f, ct, t, pad) ==
    CASE ct = "sse"  -> SseBody(f, t, pad)
      [] ct = "json" -> JsonBody(t, pad)
      [] OTHER       -> <<Sym("text", 0)>>

-----------------------------------------------------------------------------
(* Parsing *)

\* want_sse_usage, want_json_usage and want_usage for a Content-Type ct.
WantSseFor(ct) == req.stream /\ ct = "sse"
WantJsonFor(ct) == ~req.stream \/ (ct = "json" /\ ~WantSseFor(ct))
WantUsageFor(ct) == WantSseFor(ct) \/ WantJsonFor(ct)
WantSse == WantSseFor(reply.ctype)
WantJson == WantJsonFor(reply.ctype)

\* extract_usage_from_value on one data payload: "usage": null yields None.
ExtractUsage(s) == IF s.k = "usage" THEN s.n ELSE NONE

\* One complete line of parse_sse_usage: a data line whose payload holds a
\* usage object; "[DONE]", lines without "usage" and bad JSON yield None.
LineUsage(line) == IF Len(line) = 1 THEN ExtractUsage(line[1]) ELSE NONE

\* The while loop of parse_sse_usage: drain every complete line of b, the
\* last usage line found wins; what follows the last newline stays.
RECURSIVE ParseSseLines(_, _)
ParseSseLines(b, found) ==
    LET pos == SelectInSeq(b, LAMBDA s : s = NL)
    IN IF pos = 0 THEN [buf |-> b, found |-> found]
       ELSE LET u == LineUsage(SubSeq(b, 1, pos - 1))
            IN ParseSseLines(SubSeq(b, pos + 1, Len(b)),
                             IF u = NONE THEN found ELSE u)

ParseSse(b, chunk) == ParseSseLines(b \o chunk, NONE)

\* usage_from_json_bytes: only a whole JSON document parses.
UsageFromJson(b) ==
    IF Len(b) >= 2 /\ b[1].k = "jopen" /\ Last(b).k = "jclose"
    THEN ExtractUsage(b[Len(b) - 1])
    ELSE NONE

\* billing.apply_usage: a zero total is not debited.
ApplyUsage(b, t) == IF t = 0 THEN b ELSE Append(b, t)

-----------------------------------------------------------------------------
(* Actions *)

Init ==
    /\ req \in Requests
    /\ sel \in Upstreams
    /\ fwd = Forwarded(req, sel)
    /\ served = NONE /\ reply = [ctype |-> "text", gzip |-> FALSE, tokens |-> 0, body |-> <<>>]
    /\ pc = "upstream"
    /\ rest = <<>> /\ sent = <<>> /\ chan = <<>> /\ delivered = <<>>
    /\ gone = FALSE /\ enabled = FALSE /\ buf = <<>> /\ usage = NONE
    /\ jbuf = <<>> /\ overflow = FALSE /\ billed = <<>> /\ logged = NONE

\* Variables that one step leaves alone, in groups.
exchange == <<req, fwd, sel, served, reply>>
parsing == <<enabled, buf, usage, jbuf, overflow>>
outcome == <<billed, logged>>

\* The attempt loop ends with upstream u answering: after 429 retries u may
\* differ from the first selection, and the body forwarded is the same.
Respond(u, ct, gz, t, pad) ==
    /\ pc = "upstream"
    /\ served' = u
    /\ reply' = [ctype |-> ct, gzip |-> gz, tokens |-> t, body |-> Body(fwd, ct, t, pad)]
    /\ rest' = Body(fwd, ct, t, pad)
    /\ enabled' = WantUsageFor(ct)
    /\ pc' = "run"
    /\ UNCHANGED <<req, fwd, sel, sent, chan, delivered, gone, buf, usage,
                   jbuf, overflow, outcome>>

\* GzipDecoder::decompress_chunk on a chunk of a gzip body.  The decoder is
\* Decompress::new(true), which expects a zlib header; the gzip magic 1f 8b
\* fails that header check, so the call returns Err before any output (a
\* first chunk too short to hold the header returns Ok(empty), and the next
\* chunk fails: nothing is ever decoded either way).
DecompressChunk(chunk) == [ok |-> FALSE, out |-> <<>>]

\* (mutant) json_buf extended without the MAX_PARSE_BYTES check
ParseChunkNoCap(chunk) ==
    IF ~enabled \/ usage # NONE \/ WantSse \/ ~WantJson
    THEN UNCHANGED parsing
    ELSE /\ jbuf' = jbuf \o chunk
         /\ UNCHANGED <<enabled, buf, usage, overflow>>

\* The parse step after a successful send: skipped once usage is found or
\* parsing is off; a failed decompress_chunk turns parsing off, and empty
\* decoder output is skipped.
ParseChunk(chunk) ==
    IF ~enabled \/ usage # NONE
    THEN UNCHANGED parsing
    ELSE IF reply.gzip /\ ~DecompressChunk(chunk).ok
    THEN /\ enabled' = FALSE
         /\ UNCHANGED <<buf, usage, jbuf, overflow>>
    ELSE IF WantSse
    THEN LET p == ParseSse(buf, chunk)
         IN /\ buf' = p.buf
            /\ usage' = IF p.found # NONE THEN p.found ELSE usage
            /\ UNCHANGED <<enabled, jbuf, overflow>>
    ELSE IF WantJson /\ ~overflow
    THEN IF Len(jbuf) + Len(chunk) > ParseCap
         THEN /\ overflow' = TRUE
              /\ UNCHANGED <<enabled, buf, usage, jbuf>>
         ELSE /\ jbuf' = jbuf \o chunk
              /\ UNCHANGED <<enabled, buf, usage, overflow>>
    ELSE UNCHANGED parsing

\* One iteration of the tee loop: body.data() yields a chunk of k symbols,
\* tx.send(chunk) succeeds (it waits while the channel is full), then the
\* local copy is parsed.
TeeChunk(k) ==
    /\ pc = "run" /\ ~gone
    /\ k \in 1..Len(rest)
    /\ Len(chan) < ChanCap
    /\ chan' = Append(chan, SubSeq(rest, 1, k))
    /\ sent' = sent \o SubSeq(rest, 1, k)
    /\ rest' = SubSeq(rest, k + 1, Len(rest))
    /\ ParseChunk(SubSeq(rest, 1, k))
    /\ UNCHANGED <<exchange, pc, delivered, gone, outcome>>

\* The loop breaks: nothing but the task's position changes.
LoopExit ==
    /\ pc' = "final"
    /\ UNCHANGED <<exchange, rest, sent, chan, delivered, gone, parsing, outcome>>

\* (mutant) the chunk parsed before tx.send instead of after it: the chunk
\* the client never gets is still parsed when the send fails
TeeSendFailsParsed ==
    /\ pc = "run" /\ gone /\ rest # <<>>
    /\ \E k \in 1..Len(rest) : ParseChunk(SubSeq(rest, 1, k))
    /\ pc' = "final"
    /\ UNCHANGED <<exchange, rest, sent, chan, delivered, gone, outcome>>

\* (mutant) a failed send retried instead of breaking the loop
TeeSendFailsRetry ==
    /\ pc = "run" /\ gone /\ rest # <<>>
    /\ UNCHANGED vars

\* tx.send fails once the receiver is dropped: the chunk is neither sent nor
\* parsed and the loop breaks.
TeeSendFails == pc = "run" /\ gone /\ rest # <<>> /\ LoopExit

\* body.data() yields Err: the loop breaks.
TeeBodyError == pc = "run" /\ rest # <<>> /\ LoopExit

\* body.data() yields None: the body has ended.
TeeBodyEnd == pc = "run" /\ rest = <<>> /\ LoopExit

\* After the loop: the JSON parse, the debit and record_request.
TeeFinish ==
    /\ pc = "final"
    /\ LET u == IF usage = NONE /\ WantJson /\ ~overflow
                THEN UsageFromJson(jbuf) ELSE usage
       IN /\ usage' = u
          /\ billed' = IF u = NONE THEN billed ELSE ApplyUsage(billed, u)
          /\ logged' = u
    /\ pc' = "done"
    /\ UNCHANGED <<exchange, rest, sent, chan, delivered, gone, enabled, buf,
                   jbuf, overflow>>

\* The client (hyper writing the ReceiverStream) takes the next chunk.
ClientRecv ==
    /\ chan # <<>> /\ ~gone
    /\ delivered' = delivered \o Head(chan)
    /\ chan' = Tail(chan)
    /\ UNCHANGED <<exchange, pc, rest, sent, gone, parsing, outcome>>

\* The client disconnects: hyper drops the body and with it rx and the
\* chunks still queued.
ClientGone ==
    /\ pc \in {"run", "final"} /\ ~gone
    /\ gone' = TRUE /\ chan' = <<>>
    /\ UNCHANGED <<exchange, pc, rest, sent, delivered, parsing, outcome>>

\* The task's own steps; a body error is the upstream's, not the task's.
TeeStep ==
    \/ \E k \in 1..MaxChunk : TeeChunk(k)
    \/ TeeSendFails \/ TeeBodyEnd \/ TeeFinish

Next ==
    \/ \E u \in Upstreams, ct \in Ctypes, gz \in Gzip, t \in Tokens, pad \in Pads :
            Respond(u, ct, gz, t, pad)
    \/ TeeStep
    \/ TeeBodyError
    \/ ClientRecv
    \/ ClientGone

\* The tee task is spawned and steps whenever it can; the upstream answers
\* within request_timeout; a body error may or may not happen; the client
\* is assumed to keep reading until it disconnects (a client that never
\* reads holds the task at tx.send).
Spec ==
    /\ Init /\ [][Next]_vars
    /\ WF_vars(\E u \in Upstreams, ct \in Ctypes, gz \in Gzip, t \in Tokens, pad \in Pads :
                Respond(u, ct, gz, t, pad))
    /\ WF_vars(TeeStep)
    /\ WF_vars(ClientRecv)

-----------------------------------------------------------------------------
(* Properties *)

\* The usages reported by complete data lines of an SSE text s.
SseUsages(s) ==
    {s[i].n : i \in {i \in 1..Len(s) - 1 : /\ s[i].k = "usage" /\ s[i + 1] = NL
                                         /\ (i = 1 \/ s[i - 1] = NL)}}

\* The usages the client was sent: those of the complete usage lines of a
\* forwarded SSE stream, or the usage of a JSON answer forwarded whole and
\* within MAX_PARSE_BYTES.
ForwardedUsages ==
    CASE WantSse -> SseUsages(sent)
      [] WantJson /\ reply.ctype = "json" /\ sent = reply.body /\ Len(sent) <= ParseCap ->
             {reply.tokens}
      [] OTHER -> {}

(* Spec 4.7 makes usage extraction a best-effort observer of the bytes    *)
(* forwarded: the tee task never debits or logs a usage the client was     *)
(* not sent.  Whatever the split of chunks, a client leaving or the body   *)
(* breaking midway, a gzip decode failure, or several usage events in one  *)
(* stream, the logged usage is one the forwarded part reported, the        *)
(* billing key is debited at most once, and by that usage (none for 0).    *)
BilledUsageWasForwarded ==
    pc = "done" =>
        /\ logged \in ForwardedUsages \cup {NONE}
        /\ billed = IF logged = NONE THEN <<>> ELSE ApplyUsage(<<>>, logged)

\* Spec 4.6 step 9: a streaming chat completion sent to an upstream of the
\* usage-inject set asks for usage, so once the client has received the
\* whole stream, the billing key has been debited the stream's tokens.
InjectedStreamBilled ==
    pc = "done" /\ req.stream /\ req.chat /\ served \in InjectUpstreams
    /\ reply.ctype = "sse" /\ delivered = reply.body
    => billed = ApplyUsage(<<>>, reply.tokens)

\* The tee task always ends, debiting and recording the request, whether the
\* body ends, breaks or the client disconnects.
TeeTerminates == <>(pc = "done")

====
