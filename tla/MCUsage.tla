------------------------------ MODULE MCUsage ------------------------------
(***************************************************************************)
(* Model values and bounds for Usage.  Chunks of one or two symbols split  *)
(* every SSE line at each possible point, a channel of two lets the tee    *)
(* run ahead of the client and block, and a parse cap of three symbols     *)
(* lets a padded JSON body overflow while a plain one fits.               *)
(***************************************************************************)
EXTENDS Usage

CONSTANTS u1, u2

OneUpstream == {u1}

\* Requests whose hint is present, asked off, absent, or not a stream.
MixedRequests ==
    {[stream |-> TRUE, chat |-> TRUE, opts |-> "usage_true"],
     [stream |-> TRUE, chat |-> TRUE, opts |-> "usage_false"],
     [stream |-> TRUE, chat |-> TRUE, opts |-> "absent"],
     [stream |-> FALSE, chat |-> TRUE, opts |-> "absent"]}

\* A streaming chat completion of a client that sets no stream_options.
PlainStreamRequest == {[stream |-> TRUE, chat |-> TRUE, opts |-> "absent"]}

AllCtypes == {"sse", "json", "text"}
SseOnly == {"sse"}
EitherEncoding == {FALSE, TRUE}
Identity == {FALSE}
====
