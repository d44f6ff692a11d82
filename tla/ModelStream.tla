---------------------------- MODULE ModelStream ----------------------------
(***************************************************************************)
(* One model request of a turn: the route it takes, the opening of its     *)
(* stream with fallback and retries, the guarded stream, and what the turn *)
(* makes of the fragments that arrive.                                     *)
(*                                                                         *)
(* A fragment is known by the place it has on the wire.                    *)
(***************************************************************************)
EXTENDS Naturals, Sequences, SequencesExt, FiniteSets

CONSTANTS
    MaxRetries,     \* stream_max_retries
    MaxStreamBytes, \* stream_max_bytes: a fragment is one byte
    MaxFragments,   \* bound: events a provider puts on one stream
    CallIndex,      \* the indices of the tool calls of a reply
    MaxWire,        \* bound: bytes of a response
    LimitBytes      \* stream_max_bytes, what the decoder may hold back

ASSUME StreamAssumption == {MaxRetries, MaxStreamBytes, MaxFragments, MaxWire, LimitBytes} \subseteq Nat /\ CallIndex \subseteq Nat

VARIABLES
    route,      \* TurnRoute
    gs,         \* GuardedStream and the loops that open it
    reply,      \* the buffers and the accumulator of the turn loop
    sent,       \* the requests that reached the provider
    wire,       \* the events the provider put on its streams
    body,       \* of the decoder: the bytes of a response
    read,       \* how many of them have arrived
    sse         \* SseDecoder, and the events it has yielded

streamVars == <<route, gs, reply, sent, wire>>

-----------------------------------------------------------------------------
(* The route *)

clamp_effort_to_model(model, effort) ==
    IF model = "flash" /\ effort = "max" THEN "high" ELSE effort

classify_model(ctx) ==
    IF \/ ctx.escalated \/ ctx.pressure \/ ctx.weight \in {"deep", "heavy"}
       \/ ctx.weight = "borderline" /\ ~ctx.saving
    THEN "pro" ELSE "flash"

MutResolveTurnRoute(fixed, effort, images, ctx) ==
    LET model == IF fixed = "auto" THEN classify_model(ctx) ELSE fixed
    IN  [auto |-> fixed = "auto", model |-> model, fell |-> FALSE, images |-> images,
         effort |-> clamp_effort_to_model(model, effort)]

(* A configured model is used as it is; in auto mode images force flash,    *)
(* the only model that takes them.                                          *)
resolve_turn_route(fixed, effort, images, ctx) ==
    LET model == CASE fixed # "auto" -> fixed
                   [] fixed = "auto" /\ images -> "flash"
                   [] OTHER -> classify_model(ctx)
    IN  [auto |-> fixed = "auto", model |-> model, fell |-> FALSE, images |-> images,
         effort |-> clamp_effort_to_model(model, effort)]

RouteContext == [escalated : BOOLEAN, pressure : BOOLEAN, saving : BOOLEAN,
                 weight : {"deep", "heavy", "borderline", "light"}]

api_fallback_model(r) == ~r.fell /\ r.auto /\ r.model = "pro"

StreamOn(r) ==
    /\ route = r
    /\ gs = [pc |-> "opening", left |-> MaxRetries, used |-> 0, any_content |-> FALSE,
             saw_done |-> FALSE, bytes |-> 0, late |-> FALSE, request |-> <<>>]
    /\ reply = [text |-> <<>>, calls |-> [i \in {} |-> <<>>], outcome |-> "none"]
    /\ sent = <<>> /\ wire = <<>>

StreamInit ==
    \E r \in {resolve_turn_route(fixed, effort, images, ctx) :
                fixed \in {"auto", "pro", "flash"}, effort \in {"max", "high"}, images \in BOOLEAN,
                ctx \in RouteContext} : StreamOn(r)

-----------------------------------------------------------------------------
(* Opening *)

Answer == {"ok", "api", "transport", "fatal"}   \* a stream; 429 or 5xx; no answer; anything else

api_error_retriable(a) == a = "api"

open_error_retriable(a) == a \in {"api", "transport"}

(* The model of the route, and an effort that this model takes. *)
RequestNow == <<route.model, clamp_effort_to_model(route.model, route.effort)>>

stream_chat(r) == sent' = Append(sent, r)

End(outcome) == reply' = [reply EXCEPT !.outcome = outcome] /\ gs' = [gs EXCEPT !.pc = "over"]

Opened == gs' = [gs EXCEPT !.pc = "streaming", !.request = RequestNow]

(* A failed opening is tried again after a pause, or ends the turn. *)
RetryOpen(a) ==
    IF gs.left > 0 /\ open_error_retriable(a)
    THEN gs' = [gs EXCEPT !.pc = "opening", !.left = @ - 1, !.used = @ + 1] /\ UNCHANGED reply
    ELSE End("error")

(* The first try of stream_with_fallback. *)
open_turn_stream ==
    /\ gs.pc = "opening"
    /\ stream_chat(RequestNow)
    /\ \E a \in Answer :
         \/ a = "ok" /\ Opened /\ UNCHANGED <<route, reply>>
         \/ /\ api_error_retriable(a) /\ api_fallback_model(route)
            /\ route' = [route EXCEPT !.model = "flash", !.fell = TRUE,
                                      !.effort = clamp_effort_to_model("flash", @)]
            /\ gs' = [gs EXCEPT !.pc = "fallback"] /\ UNCHANGED reply
         \/ /\ a # "ok" /\ ~(api_error_retriable(a) /\ api_fallback_model(route))
            /\ RetryOpen(a) /\ UNCHANGED route
    /\ UNCHANGED wire

stream_with_fallback ==
    /\ gs.pc = "fallback"
    /\ stream_chat(<<route.model, route.effort>>)
    /\ \E a \in Answer :
         \/ a = "ok" /\ Opened /\ UNCHANGED reply
         \/ a # "ok" /\ RetryOpen(a)
    /\ UNCHANGED <<route, wire>>

-----------------------------------------------------------------------------
(* The guarded stream *)

Spoken(kind, index) == [kind |-> kind, index |-> index, attempt |-> Len(sent), n |-> Len(wire) + 1]

OnWire(f) == wire' = Append(wire, f)

Yields == /\ gs.pc = "streaming" /\ ~gs.late
          /\ Cardinality({i \in 1..Len(wire) : wire[i].attempt = Len(sent)}) < MaxFragments

(* push_delta: the fragments of a call are joined under its index. *)
push_delta(calls, i, n) ==
    [j \in DOMAIN calls \cup {i} |->
        IF j # i THEN calls[j] ELSE IF i \in DOMAIN calls THEN Append(calls[i], n) ELSE <<n>>]

(* An event with content: counted, and passed on unless it is too much. *)
Fragment ==
    /\ Yields
    /\ \E kind \in {"text", "call"}, i \in CallIndex :
         /\ OnWire(Spoken(kind, i))
         /\ IF gs.bytes + 1 > MaxStreamBytes
            THEN /\ gs' = [gs EXCEPT !.pc = "over", !.any_content = TRUE]
                 /\ reply' = [reply EXCEPT !.outcome = "partial"]
            ELSE /\ gs' = [gs EXCEPT !.any_content = TRUE, !.bytes = @ + 1]
                 /\ reply' = IF kind = "text" THEN [reply EXCEPT !.text = Append(@, Len(wire) + 1)]
                             ELSE [reply EXCEPT !.calls = push_delta(@, i, Len(wire) + 1)]
    /\ UNCHANGED <<route, sent>>

Done ==
    /\ Yields
    /\ OnWire(Spoken("done", 0))
    /\ gs' = [gs EXCEPT !.any_content = TRUE, !.saw_done = TRUE]
    /\ UNCHANGED <<route, reply, sent>>

MutMayReopen == TRUE

(* Once anything has arrived, a new attempt would repeat it. *)
MayReopen == ~gs.any_content

StreamFails ==
    /\ gs.pc = "streaming"
    /\ IF MayReopen THEN gs' = [gs EXCEPT !.pc = "reopening"] /\ UNCHANGED reply
       ELSE End("partial")
    /\ UNCHANGED <<route, sent, wire>>

reopen ==
    /\ gs.pc = "reopening"
    /\ IF gs.left = 0 THEN End("partial") /\ UNCHANGED sent
       ELSE /\ stream_chat(gs.request) /\ UNCHANGED reply
            /\ \E pc \in {"streaming", "reopening"} :
                 gs' = [gs EXCEPT !.pc = pc, !.left = @ - 1, !.used = @ + 1]
    /\ UNCHANGED <<route, wire>>

MutIsComplete == TRUE

(* A stream that ends without the model's last word is not a reply. *)
IsComplete == gs.saw_done

StreamEnds ==
    /\ gs.pc = "streaming"
    /\ IF ~IsComplete THEN End("partial")
       ELSE \/ End("reply")
            \/ End("partial")       \* cancelled, or another turn's by now
            \/ reply.calls # <<>> /\ End("error")   \* finish: a call that cannot be parsed
    /\ UNCHANGED <<route, sent, wire>>

(* The deadline passes while the stream is read. *)
DeadlinePasses ==
    /\ gs.pc = "streaming" /\ ~gs.late
    /\ gs' = [gs EXCEPT !.late = TRUE]
    /\ UNCHANGED <<route, reply, sent, wire>>

MutStreamTimesOut ==
    /\ gs.pc = "streaming" /\ ~gs.any_content
    /\ End("partial")
    /\ UNCHANGED <<route, sent, wire>>

(* Nothing came for chunk_timeout, or the deadline is over. *)
StreamTimesOut ==
    /\ gs.pc = "streaming"
    /\ End("partial")
    /\ UNCHANGED <<route, sent, wire>>

(* The turn's select drops the stream wherever it is. *)
CancelStream ==
    /\ gs.pc # "over"
    /\ End(IF gs.pc \in {"opening", "fallback"} THEN "cancelled" ELSE "partial")
    /\ UNCHANGED <<route, sent, wire>>

StreamNext ==
    \/ open_turn_stream \/ stream_with_fallback \/ Fragment \/ Done \/ StreamFails \/ reopen
    \/ StreamEnds \/ DeadlinePasses \/ StreamTimesOut \/ CancelStream

-----------------------------------------------------------------------------
(* Properties *)

(* What a turn keeps as a reply is all that one attempt said, in its order, *)
(* and the attempt finished; however often the stream was opened, no two    *)
(* attempts were ever heard (MayReopen, GuardedStream::next, push_delta).   *)
ReplyIsWhole ==
    /\ \A i, j \in 1..Len(wire) : wire[i].attempt = wire[j].attempt
    /\ reply.outcome = "reply" =>
         LET is(kind, i) == {n \in 1..Len(wire) : wire[n].kind = kind /\ wire[n].index = i}
             text == {n \in 1..Len(wire) : wire[n].kind = "text"}
         IN  /\ \E n \in 1..Len(wire) : wire[n].kind = "done"
             /\ {reply.text[k] : k \in 1..Len(reply.text)} = text
             /\ \A i \in CallIndex :
                  is("call", i) = IF i \in DOMAIN reply.calls
                                  THEN {reply.calls[i][k] : k \in 1..Len(reply.calls[i])} ELSE {}
             /\ \A i \in DOMAIN reply.calls : \A k \in 1..(Len(reply.calls[i]) - 1) :
                  reply.calls[i][k] < reply.calls[i][k + 1]

(* No request asks a model for what it refuses (the most effort, or in auto *)
(* mode an image), the fallback is taken at most once and for good, and     *)
(* both loops together stay within the retries (open_turn_stream, reopen).  *)
RequestsAreFit ==
    /\ \A i \in 1..Len(sent) : /\ sent[i] # <<"flash", "max">>
                               /\ route.auto /\ route.images => sent[i][1] = "flash"
                               /\ i > 1 /\ sent[i - 1][1] = "flash" => sent[i][1] = "flash"
    /\ Len(sent) <= MaxRetries + 2
    /\ gs.left + gs.used = MaxRetries

(* A stream that was opened comes to an end, whatever the provider does     *)
(* (chunk_timeout and deadline in GuardedStream::next).                     *)
ReplyEnds == gs.pc = "streaming" ~> gs.pc = "over"
-----------------------------------------------------------------------------
(* The decoder of a response: bytes arrive in chunks cut anywhere, and lines *)
(* are put together before they are read. A byte is a newline, the field     *)
(* name "data:", the colon of a comment, or a letter.                        *)
Byte == {"nl", "data", "colon", "x"}

sseVars == <<body, read, sse>>

Empty == [buffer |-> <<>>, data |-> <<>>, events |-> <<>>, failed |-> FALSE]

SseOn(bytes) == body = bytes /\ read = 0 /\ sse = Empty

SseInit == \E n \in 0..MaxWire : \E bytes \in [1..n -> Byte] : SseOn(bytes)

buffered(d) == Len(d.buffer) + Len(d.data)

check_limit(d) == IF buffered(d) > LimitBytes THEN [d EXCEPT !.failed = TRUE] ELSE d

dispatch(d) ==
    IF d.data = <<>> THEN d ELSE [d EXCEPT !.data = <<>>, !.events = Append(@, d.data)]

(* A blank line ends an event; data lines are joined by newlines. *)
handle_line(d, line) ==
    CASE line = <<>> -> dispatch(d)
      [] line # <<>> /\ Head(line) = "data" ->
           check_limit([d EXCEPT !.data = (IF @ = <<>> THEN <<>> ELSE Append(@, "nl")) \o Tail(line)])
      [] OTHER -> d

Breaks(bytes) == {i \in 1..Len(bytes) : bytes[i] = "nl"}

MutPush(d, bytes) ==
    LET all   == d.buffer \o bytes
        line(i) == LET from == {j \in Breaks(all) : j < i}
                   IN  SubSeq(all, IF from = {} THEN 1 ELSE Max(from) + 1,
                              IF i \in Breaks(all) THEN i - 1 ELSE i)
        Ends  == Breaks(all) \cup {Len(all)}
        run[i \in 0..Len(all)] ==
            IF i = 0 THEN [d EXCEPT !.buffer = <<>>]
            ELSE IF i \in Ends THEN handle_line(run[i - 1], line(i)) ELSE run[i - 1]
    IN  run[Len(all)]

(* Every line that is now complete is handled; the rest stays in the buffer. *)
push(d, bytes) ==
    LET all     == d.buffer \o bytes
        d0      == check_limit([d EXCEPT !.buffer = all])
        line(i) == LET from == {j \in Breaks(all) : j < i}
                   IN  SubSeq(all, IF from = {} THEN 1 ELSE Max(from) + 1, i - 1)
        step(e, i) ==
            IF e.failed THEN e ELSE handle_line([e EXCEPT !.buffer = SubSeq(all, i + 1, Len(all))], line(i))
        run[i \in 0..Len(all)] ==
            IF i = 0 THEN d0 ELSE IF i \in Breaks(all) THEN step(run[i - 1], i) ELSE run[i - 1]
    IN  run[Len(all)]

finish(d) ==
    IF d.failed THEN d
    ELSE LET rest == IF d.buffer = <<>> THEN d ELSE handle_line([d EXCEPT !.buffer = <<>>], d.buffer)
         IN  IF rest.failed THEN rest ELSE dispatch(rest)

Chunk ==
    /\ read < Len(body) /\ ~sse.failed
    /\ \E n \in (read + 1)..Len(body) :
         read' = n /\ sse' = push(sse, SubSeq(body, read + 1, n))
    /\ UNCHANGED body

SseNext == Chunk

(* However the network cuts a response, its events are the ones that        *)
(* reading it in one piece gives, unless the decoder was made to hold more  *)
(* than its limit (SseDecoder::push, handle_line, finish).                  *)
ChunksDoNotShow ==
    /\ read = Len(body) /\ ~sse.failed /\ Len(body) <= LimitBytes
         => finish(sse).events = finish(push(Empty, body)).events
    /\ ~sse.failed => buffered(sse) <= LimitBytes
=============================================================================
