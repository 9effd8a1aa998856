--------------------------- MODULE StreamPipeline ---------------------------
(***************************************************************************)
(* One streamed completion, from the provider's socket to the client and    *)
(* to the receipt store.  The layers, innermost first:                      *)
(*                                                                         *)
(*   upstream body -> MiddlewareProviderResponseDraftingStream             *)
(*     -> SseTransformStream (a route of the other wire format)            *)
(*     -> KeepAliveStream -> MiddlewareResponseFinalizingStream            *)
(*        (with an E2eeSseTransformer when the request is encrypted)       *)
(*     -> the response body                                                *)
(*                                                                         *)
(* or, without the router middleware, upstream body ->                     *)
(* ReceiptFinalizingStream -> the response body.                           *)
(*                                                                         *)
(* Bytes are abstracted to tokens.  A provider event is three tokens: part  *)
(* 1 is the event up to the middle of its data line, part 2 the rest of     *)
(* that line with its newline, part 3 the blank line that dispatches it.    *)
(* A chunk is any run of tokens, so it may end inside a line.  A frame the  *)
(* gateway writes itself is one token: part 0 in the clear, part 4 with an  *)
(* encrypted payload, and Comment for the `: PROCESSING` heartbeat.  A hash *)
(* is the sequence of tokens it covers.                                     *)
(***************************************************************************)
EXTENDS Integers, Sequences, SequencesExt

CONSTANTS
    Modes,        \* the stream set-ups explored, records of ModeType
    None,
    MaxTokens,    \* bound: tokens the provider sends
    MaxChunk,     \* bound: tokens in one chunk
    MaxComments   \* bound: heartbeats

ModeType == [middleware : BOOLEAN, transform : {"none", "chat", "messages"},
             e2ee : BOOLEAN, keepalive : BOOLEAN]

ASSUME PipelineAssumption ==
    /\ Modes \subseteq {m \in ModeType :
           ~m.middleware => m.transform = "none" /\ ~m.keepalive}
    /\ MaxTokens \in Nat /\ MaxChunk \in Nat /\ MaxComments \in Nat

VARIABLES
    mode,      \* which layers this stream has
    upstream,  \* the provider's body: "open", "ended" cleanly, "failed"
    sent,      \* what the drafting layer has read and hashed
    rejected,  \* SseTransformStream.inner_done after an unparseable event
    journal,   \* MiddlewareReceiptJournal.draft
    clear,     \* what the finalizer has read and hashed before encryption
    wire,      \* what the client has been sent
    phase,     \* the finalizer: "flowing", "flushed", "done", "aborted"
    client,    \* "reading", or "gone" (the body was dropped)
    receipt,   \* the receipt put in the store
    comments   \* heartbeats so far

vars == <<mode, upstream, sent, rejected, journal, clear, wire, phase, client,
          receipt, comments>>

Kinds == {"delta", "silent", "bad", "stop", "error"}

\* An OpenAI-format provider has no in-band error event and no pings.
KindsOf(m) == IF m.transform = "chat" THEN Kinds ELSE Kinds \ {"silent", "error"}

Token(kind, part) == [kind |-> kind, part |-> part]
Comment == Token("comment", 0)

-----------------------------------------------------------------------------
(***************************************************************************)
(* Framing.  Frames(s) is what an SSE reader makes of the tokens s: the     *)
(* frames dispatched, and the tokens of the event still being read.  A      *)
(* heartbeat ends with a blank line; at a line boundary it is a comment,    *)
(* inside a line its text becomes part of that line.                        *)
(***************************************************************************)

\* What an event made of these tokens says: a data line cut short or with a
\* heartbeat in it is no longer JSON, an event without a data line is skipped.
Says(event) ==
    IF event = <<Token(event[1].kind, 1), Token(event[1].kind, 2)>> THEN event[1].kind
    ELSE IF event[1].part = 1 THEN "bad" ELSE "silent"

Dispatch(r, event) ==
    [out |-> IF event = <<>> THEN r.out ELSE Append(r.out, Says(event)),
     cur |-> <<>>]

InLine(r) == r.cur # <<>> /\ Last(r.cur).part = 1

Read(r, t) ==
    IF t = Comment
    THEN IF InLine(r) THEN Dispatch(r, Append(r.cur, t))
         ELSE LET d == Dispatch(r, r.cur) IN [d EXCEPT !.out = Append(@, "comment")]
    ELSE IF t.part \in {0, 4} THEN [r EXCEPT !.out = Append(@, t.kind)]
    ELSE IF t.part = 3 THEN Dispatch(r, r.cur)
    ELSE [r EXCEPT !.cur = Append(@, t)]

Frames(s) == FoldLeft(Read, [out |-> <<>>, cur |-> <<>>], s)

\* The frames that reading chunk after s completes.
NewFrames(s, chunk) ==
    LET old == Frames(s).out
        new == Frames(s \o chunk).out
    IN  SubSeq(new, Len(old) + 1, Len(new))

Has(frames, kinds) == \E i \in DOMAIN frames : frames[i] \in kinds

\* SseChatIdParser over a whole stream whose JSON events carry the top-level
\* id `id`: it stops at the first one, and all of them carry the same.
ChatId(s, id) == IF Has(Frames(s).out, {"delta", "error"}) THEN id ELSE None

\* Top-level ids: the provider's in OpenAI chunks, the gateway's fallback id in
\* converted chunks; Anthropic events nest theirs, so the parser sees none.
ProviderId(m) == IF m.transform = "chat" THEN None ELSE "provider"
VisibleId(m) == [none |-> "provider", chat |-> "gateway", messages |-> None][m.transform]

-----------------------------------------------------------------------------
(***************************************************************************)
(* SseTransformStream: complete events in, whole frames out.                *)
(***************************************************************************)

\* StreamTransform::apply on a parsed event, the same outline in both
\* directions; messages skips what it cannot parse, chat rejects it.
Apply(kind) ==
    CASE kind \in {"delta", "stop"} -> <<Token(kind, 0)>>
      [] kind = "error" -> <<Token("error", 0), Token("stop", 0)>>
      [] OTHER -> <<>>

Rejects(m, kind) == m.transform = "chat" /\ kind = "bad"

\* drain_buffer over the events a chunk completes: it stops at a rejected one
\* and drops the rest of the buffer.
Drain(m, events) ==
    LET bad == {i \in DOMAIN events : Rejects(m, events[i])}
        upto == IF bad = {} THEN Len(events)
                ELSE (CHOOSE i \in bad : \A j \in bad : i <= j) - 1
    IN  [out |-> FlattenSeq([i \in 1..upto |-> Apply(events[i])]),
         rejected |-> bad # {}]

\* What apply makes of the residual event of a clean end.  The chat direction
\* recognises a terminal or a ping by its first line alone.
Residual(m, s) ==
    LET cur == Frames(s).cur
    IN  IF cur = <<>> THEN <<>>
        ELSE IF m.transform = "chat" /\ cur[1].kind \in {"stop", "silent"}
        THEN Apply(cur[1].kind)
        ELSE Apply(Says(cur))

-----------------------------------------------------------------------------
(***************************************************************************)
(* The finalizer: poll_finalizing_stream.                                   *)
(***************************************************************************)

\* dispatch_event of the E2EE transformer: comments and [DONE] unchanged, a
\* payload encrypted.
Encrypt(frame) == Token(frame, IF frame \in {"stop", "comment", "silent"} THEN 0 ELSE 4)

\* A chunk reaches the finalizer.  Under E2EE only completed events produce
\* wire bytes, and one that does not parse aborts the stream.
Feed(chunk) ==
    LET frames == NewFrames(clear, chunk)
        fails  == mode.e2ee /\ Has(frames, {"bad"})
    IN  /\ clear' = clear \o chunk
        /\ wire' = IF ~mode.e2ee THEN wire \o chunk
                   ELSE IF fails THEN wire
                   ELSE wire \o [i \in DOMAIN frames |-> Encrypt(frames[i])]
        /\ phase' = IF fails THEN "aborted" ELSE phase

-----------------------------------------------------------------------------
Init ==
    /\ mode \in Modes
    /\ upstream = "open"
    /\ sent = <<>> /\ clear = <<>> /\ wire = <<>>
    /\ rejected = FALSE
    /\ journal = None
    /\ phase = "flowing"
    /\ client = "reading"
    /\ receipt = None
    /\ comments = 0

\* The source is polled: the client reads on, nothing has ended the stream.
Polling == client = "reading" /\ phase = "flowing" /\ upstream = "open" /\ ~rejected

\* The provider sends whole events in order.
NextTokens(s) ==
    IF s = <<>> \/ Last(s).part = 3 THEN {Token(k, 1) : k \in KindsOf(mode)}
    ELSE {Token(Last(s).kind, Last(s).part + 1)}

\* What it may send next, cut into chunks anywhere.
Chunks ==
    LET upto[n \in 0..MaxChunk] ==
            IF n = 0 THEN {<<>>}
            ELSE UNION {{Append(c, t) : t \in NextTokens(sent \o c)} : c \in upto[n - 1]}
    IN  {c \in UNION {upto[n] : n \in 1..MaxChunk} : Len(sent) + Len(c) <= MaxTokens}

\* A chunk arrives and runs through every layer.  Before a transform's output
\* is empty nothing reaches the finalizer; without one the chunk itself does.
Deliver ==
    /\ Polling
    /\ \E chunk \in Chunks :
          LET drained == Drain(mode, NewFrames(sent, chunk))
          IN  /\ sent' = sent \o chunk
              /\ IF mode.transform = "none"
                 THEN Feed(chunk) /\ UNCHANGED rejected
                 ELSE Feed(drained.out) /\ rejected' = drained.rejected
    /\ UNCHANGED <<mode, upstream, journal, client, receipt, comments>>

\* The heartbeat: the inner stream is pending and the idle timer has fired.
KeepAlive ==
    /\ Polling
    /\ mode.keepalive
    /\ comments < MaxComments
    /\ comments' = comments + 1
    /\ Feed(<<Comment>>)
    /\ UNCHANGED <<mode, upstream, sent, rejected, journal, client, receipt>>

\* publish_draft, at the provider's clean end.
Draft == [received |-> sent, chat |-> ChatId(sent, ProviderId(mode))]

\* Bug: no draft for a stream in which no chat id was found.
UpstreamEndsWithId ==
    /\ Polling
    /\ upstream' = "ended"
    /\ journal' = IF mode.middleware /\ Draft.chat # None THEN Draft ELSE None
    /\ Feed(IF mode.transform = "none" THEN <<>> ELSE Residual(mode, sent))
    /\ UNCHANGED <<mode, sent, rejected, client, receipt, comments>>

\* The provider's body ends: the draft goes into the journal and a residual
\* event is flushed through the transform once.
UpstreamEnds ==
    /\ Polling
    /\ upstream' = "ended"
    /\ journal' = IF mode.middleware THEN Draft ELSE None
    /\ Feed(IF mode.transform = "none" THEN <<>> ELSE Residual(mode, sent))
    /\ UNCHANGED <<mode, sent, rejected, client, receipt, comments>>

\* Bug: the transform flushes the truncated residual after a read error too.
FailsFlushing ==
    /\ Polling
    /\ upstream' = "failed"
    /\ IF mode.transform = "none" THEN phase' = "aborted" /\ UNCHANGED <<clear, wire>>
       ELSE Feed(Residual(mode, sent))
    /\ UNCHANGED <<mode, sent, rejected, journal, client, receipt, comments>>

\* Bug: the drafting stream publishes its draft on a read error as well.
FailsDrafting ==
    /\ Polling
    /\ upstream' = "failed"
    /\ phase' = IF mode.transform = "none" THEN "aborted" ELSE phase
    /\ journal' = IF mode.middleware THEN Draft ELSE None
    /\ UNCHANGED <<mode, sent, rejected, clear, wire, client, receipt, comments>>

\* Reading the provider's body fails: nothing is drafted.  The error ends the
\* body, except that a transform swallows it, drops its residual and ends.
UpstreamFails ==
    /\ Polling
    /\ upstream' = "failed"
    /\ phase' = IF mode.transform = "none" THEN "aborted" ELSE phase
    /\ UNCHANGED <<mode, sent, rejected, journal, clear, wire, client, receipt, comments>>

\* The finalizer has seen the end of its source.
SourceEnded == client = "reading" /\ (upstream # "open" \/ rejected)

\* E2eeSseTransformer::finish: an event cut off by the end is dispatched.
CutOff == LET cur == Frames(clear).cur
        IN  IF mode.e2ee /\ cur # <<>> THEN <<Says(cur)>> ELSE <<>>

\* The E2EE tail is sent on its own, or aborts the stream; with none to send
\* the finalizer goes straight to the receipt.
Flush ==
    /\ SourceEnded
    /\ phase = "flowing"
    /\ wire' = IF Has(CutOff, {"bad"}) THEN wire
               ELSE wire \o [i \in DOMAIN CutOff |-> Encrypt(CutOff[i])]
    /\ phase' = IF Has(CutOff, {"bad"}) THEN "aborted" ELSE "flushed"
    /\ UNCHANGED <<mode, upstream, sent, rejected, journal, clear, client, receipt, comments>>

Seen == ChatId(clear, VisibleId(mode))

\* Bug: only the id found in the provider's stream reaches the receipt.
MiddlewareReceiptDraftId ==
    [received |-> journal.received, clear |-> clear, wire |-> wire,
     chat |-> journal.chat,
     modified |-> journal.received # clear \/ mode.e2ee]

\* finalize_receipt behind the middleware, from the draft taken out of the
\* journal.
MiddlewareReceipt ==
    [received |-> journal.received, clear |-> clear, wire |-> wire,
     chat |-> IF Seen # None THEN Seen ELSE journal.chat,
     modified |-> journal.received # clear \/ mode.e2ee]

\* finalize_receipt of the direct path: what it read is what the provider sent.
DirectReceipt ==
    [received |-> clear, clear |-> clear, wire |-> wire, chat |-> Seen,
     modified |-> mode.e2ee]

\* The end of the body: the journal's draft, if there is one, becomes a signed
\* receipt in the store.
Finalize ==
    /\ SourceEnded
    /\ phase = "flushed"
    /\ phase' = "done"
    /\ journal' = None
    /\ receipt' = IF ~mode.middleware THEN DirectReceipt
                  ELSE IF journal # None THEN MiddlewareReceipt ELSE None
    /\ UNCHANGED <<mode, upstream, sent, rejected, clear, wire, client, comments>>

\* The client goes away: the body and every layer under it are dropped.
ClientGone ==
    /\ client = "reading"
    /\ phase \in {"flowing", "flushed"}
    /\ client' = "gone"
    /\ UNCHANGED <<mode, upstream, sent, rejected, journal, clear, wire, phase, receipt, comments>>

Next ==
    \/ Deliver
    \/ KeepAlive
    \/ UpstreamEnds
    \/ UpstreamFails
    \/ Flush
    \/ Finalize
    \/ ClientGone

Spec == Init /\ [][Next]_vars

\* hyper polls the body while the connection is up, so the finalizer's own
\* steps are taken.  Nothing is assumed of the provider or of the timer.
FairSpec == Spec /\ WF_vars(Flush) /\ WF_vars(Finalize)

-----------------------------------------------------------------------------
\* The layers' state is well formed.
PipelineTypeOK ==
    /\ mode \in Modes
    /\ upstream \in {"open", "ended", "failed"}
    /\ rejected \in BOOLEAN
    /\ sent \in Seq([kind : Kinds, part : 1..3])
    /\ clear \in Seq([kind : Kinds \cup {"comment"}, part : 0..3])
    /\ wire \in Seq([kind : Kinds \cup {"comment"}, part : 0..4])
    /\ phase \in {"flowing", "flushed", "done", "aborted"}
    /\ client \in {"reading", "gone"}
    /\ comments \in 0..MaxComments
    /\ receipt # None => phase = "done"

\* A stored receipt commits to the whole exchange: to every byte the provider
\* sent, whose stream ended cleanly, and to exactly the bytes the client was
\* sent (add_response_received_hash, add_response_returned_hashes).  It has a
\* ResponseModified event when these differ, be it by a heartbeat, and without
\* encryption only then.
ReceiptCoversExchange ==
    /\ PipelineTypeOK
    /\ receipt # None =>
        /\ upstream = "ended"
        /\ receipt.received = sent
        /\ receipt.wire = wire
        /\ wire # sent => receipt.modified
        /\ receipt.modified /\ ~mode.e2ee => wire # sent

\* A chat id the client can read in its stream is the one its receipt is filed
\* under, whatever id the provider used (SseChatIdParser in both layers).  The
\* stream must not break off inside an event: the E2EE transformer sends such an
\* event at the end, the parser never sees its blank line.
VisibleIdResolves ==
    receipt # None /\ Frames(clear).cur = <<>> /\ ChatId(wire, VisibleId(mode)) # None =>
        receipt.chat = ChatId(wire, VisibleId(mode))

\* The provider's events as far as a transform may act on them: the complete
\* ones, and at a clean end the residual one.
Provided ==
    Frames(sent).out \o
        IF upstream = "ended" /\ Frames(sent).cur # <<>>
        THEN <<Frames(sent).cur[1].kind>> ELSE <<>>

\* A converted stream shows the client a terminal marker only when the provider
\* sent a terminal or an error event, in full unless its body ended cleanly,
\* and in the chat direction only if no unparseable event came before it
\* (emit, drain_buffer, the error arm of SseTransformStream::poll_next).
TerminalIsEarned ==
    mode.transform # "none" /\ Has(Frames(wire).out, {"stop"}) =>
        \E i \in DOMAIN Provided :
            /\ Provided[i] \in {"stop", "error"}
            /\ mode.transform = "chat" => ~Has(SubSeq(Provided, 1, i - 1), {"bad"})

\* A provider stream that was read to its clean end gets its receipt, unless
\* the client leaves or an event cannot be encrypted.
CompleteStreamIsReceipted ==
    (upstream = "ended") ~>
        \/ receipt # None
        \/ client = "gone"
        \/ mode.e2ee /\ phase = "aborted"

-----------------------------------------------------------------------------
=============================================================================
