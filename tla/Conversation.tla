----------------------------- MODULE Conversation -----------------------------
(***************************************************************************)
(* A conversation through the gateway.  A request is shaped for each of    *)
(* its failover candidates (ProviderRequest), one of them serves it in its *)
(* own format, and the answer is converted back, buffered                  *)
(* (ResponseTransform) or event by event (StreamTransform).  The next      *)
(* request may be served by an upstream of the other format, which then    *)
(* reads answers that never were in its format.                            *)
(*                                                                         *)
(* The client starts a tool call at each fragment that carries an id, for  *)
(* the chat stream of an Anthropic upstream gives all calls the index 0.   *)
(***************************************************************************)
EXTENDS Dialogue

NoReply == [format |-> None]

\* The client's reading of an answer; broken records an event out of order.
EmptyClient ==
    [text |-> <<>>, calls |-> <<>>, blocks |-> <<>>, open |-> {}, seen |-> {}, reason |-> None,
     usage |-> [prompt |-> 0, completion |-> 0], phase |-> "none", broken |-> FALSE]

\* A fragment without an id belongs to the last call with its index.
AddToCall(calls, f) ==
    IF f.id # 0
    THEN Append(calls, [index |-> f.index, id |-> f.id, arguments |-> f.arguments])
    ELSE LET k == Max({k \in DOMAIN calls : calls[k].index = f.index})
         IN  [calls EXCEPT ![k].arguments = @ \o f.arguments]

ReadChunk(c, e) ==
    IF e.type = "[DONE]"
    THEN [c EXCEPT !.phase = IF c.reason = "api_error" THEN "error" ELSE "complete"]
    ELSE [c EXCEPT !.text = @ \o e.content,
                   !.calls = FoldLeft(AddToCall, @, e.tool_calls),
                   !.reason = IF e.finish_reason # None THEN e.finish_reason ELSE @,
                   !.usage = IF e.usage.prompt + e.usage.completion # 0 THEN e.usage ELSE @]

TextOpen(c) ==
    \E k \in DOMAIN c.blocks : c.blocks[k].index \in c.open /\ c.blocks[k].block.type = "text"

ReadEvent(c, e) ==
    CASE e.type = "message_start" ->
            [c EXCEPT !.phase = "message", !.usage = e.usage, !.broken = @ \/ c.phase # "none"]
      [] e.type = "content_block_start" ->
            [c EXCEPT !.open = @ \cup {e.index}, !.seen = @ \cup {e.index},
                      !.blocks = Append(@, [index |-> e.index, block |-> e.block, json |-> <<>>]),
                      !.broken = @ \/ c.phase # "message" \/ e.index \in c.seen
                                 \/ TextOpen(c)]
      [] e.type = "content_block_delta" ->
            LET k == Max({0} \cup {k \in DOMAIN c.blocks : c.blocks[k].index = e.index})
            IN  IF k = 0 THEN [c EXCEPT !.broken = TRUE]
                ELSE IF e.piece.type = "text"
                THEN [c EXCEPT !.blocks[k].block.text = @ \o e.piece.text,
                               !.broken = @ \/ e.index \notin c.open]
                ELSE [c EXCEPT !.blocks[k].json = @ \o e.piece.text,
                               !.broken = @ \/ e.index \notin c.open]
      [] e.type = "content_block_stop" ->
            [c EXCEPT !.open = @ \ {e.index}, !.broken = @ \/ e.index \notin c.open]
      [] e.type = "message_delta" ->
            [c EXCEPT !.reason = e.stop_reason,
                      !.usage = [@ EXCEPT !.input = e.usage.input, !.output = e.usage.output]]
      [] e.type = "message_stop" ->
            [c EXCEPT !.phase = "complete",
                      !.broken = @ \/ c.phase # "message" \/ c.open # {}]
      [] e.type = "error" ->
            [c EXCEPT !.phase = "error"]
      [] OTHER -> c

\* The blocks a Messages client holds at the end.
BlocksRead(c) ==
    Map(LAMBDA b : IF b.block.type = "text" THEN b.block
                   ELSE UseBlock(b.block.id, IF from_str(b.json) = {} THEN <<>>
                                             ELSE CHOOSE i \in from_str(b.json) : TRUE),
        c.blocks)

\* The answer as the client would have read it from a buffered body.
AnswerRead(c) ==
    IF endpoint = "messages"
    THEN [content |-> BlocksRead(c), stop_reason |-> c.reason, usage |-> c.usage]
    ELSE [content |-> c.text, finish_reason |-> c.reason, usage |-> c.usage,
          tool_calls |-> Map(LAMBDA x : [id |-> x.id, arguments |-> x.arguments], c.calls)]

\* The message the client keeps of an answer.
KeptMessage(answer) ==
    IF endpoint = "messages"
    THEN [role |-> "assistant", content |-> answer.content]
    ELSE ChatMessage("assistant", 0, TextParts(answer.content), answer.tool_calls)

\* The turn an upstream meant by an answer in its format.
MeantBy(format, answer) ==
    IF format = "openai"
    THEN ChatTurn(ChatMessage("assistant", 0, TextParts(answer.content), answer.tool_calls))
    ELSE MessagesTurn([role |-> "assistant", content |-> answer.content])

-----------------------------------------------------------------------------
ConversationInit ==
    /\ endpoint \in Endpoints
    /\ said = <<>>
    /\ history = <<>>
    /\ request = <<>>
    /\ reply = NoReply
    /\ state = StreamState
    /\ client = EmptyClient
    /\ phase = "user"

LastCalls == IF said = <<>> THEN <<>> ELSE said[Len(said)].calls

\* The user speaks, with a file at first perhaps, or answers tool calls with
\* their results, and perhaps speaks as well.
UserSpeaks ==
    /\ phase = "user"
    /\ Len(said) < 2 * MaxRequests
    /\ \E text \in {<<>>, <<"q">>}, parts \in {<<>>} \cup {<<p>> : p \in Attachments} :
          LET results == Map(LAMBDA c : [id |-> c.id, text |-> <<"r">>], LastCalls)
          IN  /\ text = <<>> => results # <<>>
              /\ parts # <<>> => said = <<>> /\ endpoint \in Conversing
              /\ said' = Append(said, Turn("user", text, Files(parts), <<>>, results))
              /\ history' = history \o UserMessages(text, parts, results)
    /\ phase' = "ask"
    /\ UNCHANGED <<endpoint, request, reply, state, client>>

\* The request is shaped for every candidate, or refused for all.
Ask ==
    /\ phase = "ask"
    /\ \E addition \in Additions, streamed, withSystem \in BOOLEAN, candidates \in Candidates :
          LET params == Params(addition, streamed, withSystem)
              bodies == build_candidates(candidates, endpoint, params)
          IN  /\ addition # <<>> => Len(said) = 1
              /\ request' = [params |-> params, candidates |-> candidates, bodies |-> bodies,
                             system |-> IF withSystem THEN SystemPrompt ELSE <<>>]
              /\ phase' = IF bodies = <<>> THEN "refused" ELSE "asked"
    /\ UNCHANGED <<endpoint, said, history, reply, state, client>>

\* One candidate answers; a buffered answer is converted and kept.
Answer ==
    /\ phase = "asked" /\ endpoint \in Conversing \cup {"complete"}
    /\ ~request.params["stream"]
    /\ \E k \in DOMAIN request.candidates :
          LET format == request.candidates[k].format
          IN  \E answer \in IF format = "openai" THEN OpenaiAnswers ELSE AnthropicAnswers :
                 LET got == transform_response(format, endpoint, answer)
                 IN  /\ history' = Append(history, KeptMessage(got))
                     /\ said' = Append(said, MeantBy(format, answer))
    /\ phase' = "user"
    /\ request' = <<>>
    /\ UNCHANGED <<endpoint, reply, state, client>>

\* One candidate begins to stream its answer.
BeginStream ==
    /\ phase = "asked" /\ endpoint \in Conversing \cup {"complete"}
    /\ request.params["stream"]
    /\ \E k \in DOMAIN request.candidates :
          LET format == request.candidates[k].format
          IN  \E answer \in IF format = "openai" THEN OpenaiAnswers ELSE AnthropicAnswers,
                 namesFirst \in BOOLEAN :
                 reply' = [format |-> format, answer |-> answer,
                           rest |-> StreamOf(format, answer, namesFirst, request.bodies[k])]
    /\ phase' = "streaming"
    /\ request' = <<>>
    /\ UNCHANGED <<endpoint, said, history, state, client>>

\* Chunks that follow each other may come as one.
Merged(a, b) ==
    [a EXCEPT !.content = @ \o b.content, !.tool_calls = @ \o b.tool_calls,
              !.finish_reason = IF b.finish_reason # None THEN b.finish_reason ELSE @]

MayMerge(events) ==
    \A k \in DOMAIN events : events[k].type = "chunk" /\ events[k].choice

Read(c, e) == IF endpoint = "messages" THEN ReadEvent(c, e) ELSE ReadChunk(c, e)

\* An event of the upstream goes through the transform to the client.
Deliver(event) ==
    LET step == apply(reply.format, endpoint, state, event)
    IN  /\ state' = step.state
        /\ client' = FoldLeft(Read, client, step.events)

StreamStep ==
    /\ phase = "streaming"
    /\ reply.rest # <<>>
    /\ \E n \in 1..Len(reply.rest) :
          /\ n > 1 => n <= MaxMerged /\ MayMerge(SubSeq(reply.rest, 1, n))
          /\ Deliver(IF n = 1 THEN Head(reply.rest)
                     ELSE FoldLeft(Merged, Head(reply.rest), SubSeq(reply.rest, 2, n)))
          /\ reply' = [reply EXCEPT !.rest = SubSeq(@, n + 1, Len(@))]
    /\ UNCHANGED <<endpoint, said, history, request, phase>>

\* The upstream reports an error in the middle of the stream.
StreamError ==
    /\ phase = "streaming"
    /\ Len(reply.rest) > 1
    /\ reply.format = "anthropic" => endpoint # "complete"
    /\ reply' = [reply EXCEPT !.rest =
                    IF reply.format = "openai" THEN <<DoneChunk>> ELSE <<>>]
    /\ Deliver(IF reply.format = "openai" THEN [Chunk EXCEPT !.finish_reason = "api_error"]
               ELSE ErrorEvent)
    /\ UNCHANGED <<endpoint, said, history, request, phase>>

\* The stream of the upstream ends early, or an Anthropic upstream sends an
\* event that does not parse, which ends it too.
StreamBreaks ==
    /\ phase = "streaming"
    /\ Len(reply.rest) > 1
    /\ reply' = [reply EXCEPT !.rest = <<>>]
    /\ UNCHANGED <<endpoint, said, history, request, state, client, phase>>

\* A complete answer is kept; one that failed is asked for again.
EndStream ==
    /\ phase = "streaming"
    /\ reply.rest = <<>>
    /\ IF client.phase = "complete"
       THEN /\ history' = Append(history, KeptMessage(AnswerRead(client)))
            /\ said' = Append(said, MeantBy(reply.format, reply.answer))
            /\ phase' = "user"
       ELSE phase' = "ask" /\ UNCHANGED <<said, history>>
    /\ reply' = NoReply
    /\ state' = StreamState
    /\ client' = EmptyClient
    /\ UNCHANGED <<endpoint, request>>

ConversationNext ==
    \/ UserSpeaks \/ Ask \/ Answer
    \/ BeginStream \/ StreamStep \/ StreamError \/ StreamBreaks \/ EndStream

ConversationSpec == ConversationInit /\ [][ConversationNext]_conversationVars

-----------------------------------------------------------------------------
\* The client never sees an event out of order: a message starts once and
\* before its blocks, no block is started twice or while a text is open,
\* every piece of content goes to an open block, and all blocks are stopped
\* before the message is.  The blocks it sees open are those the transform
\* believes open.
BlocksInOrder ==
    /\ ~client.broken
    /\ (reply.format = "openai" /\ endpoint = "messages" /\ client.phase = "message") =>
          client.open = state.tool_calls_started \cup
              (IF state.content_block_started THEN {current_content_index} ELSE {})

\* A turn as it reaches an upstream.  On the Messages endpoint a call whose
\* arguments were cut short comes back with an empty input.
SameTurn(seen, meant) ==
    /\ seen.who = meant.who /\ seen.text = meant.text
    /\ seen.files = meant.files /\ seen.results = meant.results
    /\ Len(seen.calls) = Len(meant.calls)
    /\ \A k \in DOMAIN meant.calls :
          /\ seen.calls[k].id = meant.calls[k].id
          /\ \/ seen.calls[k].input = meant.calls[k].input
             \/ endpoint = "messages" /\ meant.calls[k].input = CutShort
                                      /\ seen.calls[k].input = <<>>

\* Every candidate, whatever its format, is sent the conversation as it was
\* meant: the system prompt, every question with its files, every answer
\* with its text and its tool calls in order, by whichever upstream and over
\* whichever transport it was given, and every tool result, once and in the
\* turn after its call.  No call is sent with another input than it was made
\* with; a request that could only be sent so is refused for all candidates.
ProviderSeesConversation ==
    phase = "asked" =>
        \A k \in DOMAIN request.bodies :
            LET format == request.candidates[k].format
                body == request.bodies[k]
            IN  CASE endpoint \in Conversing ->
                        LET seen == Turns(format, body["messages"])
                            meant == Joined(said)
                        IN  /\ Len(seen) = Len(meant)
                            /\ \A n \in DOMAIN meant : SameTurn(seen[n], meant[n])
                            /\ SystemWords(format, body) = request.system
                  [] endpoint = "complete" ->
                        body["prompt"] = IF format = "openai" THEN said[1].text
                                         ELSE anthropic_complete_prompt(request.params)
                  [] OTHER -> body["input"] = said[1].text

\* An answer read from a stream is the answer a buffered response would have
\* been: the same text, calls, finish reason and usage.  Arguments cut short
\* are the exception, and an answer that failed is never taken for one.
StreamAgreesWithBuffered ==
    (phase = "streaming" /\ client.phase = "complete") =>
        LET read == AnswerRead(client)
            buffered == transform_response(reply.format, endpoint, reply.answer)
            format == IF endpoint = "messages" THEN "anthropic" ELSE "openai"
        IN  /\ MeantBy(format, read) = MeantBy(format, buffered)
            /\ read.usage = buffered.usage
            /\ IF endpoint = "messages" THEN read.stop_reason = buffered.stop_reason
               ELSE read.finish_reason = buffered.finish_reason

Given(body, keys) == {body[key] : key \in keys \cap DOMAIN body}

LimitOf(body) ==
    IF "max_completion_tokens" \in DOMAIN body THEN {body["max_completion_tokens"]}
    ELSE Given(body, {"max_tokens", "max_tokens_to_sample"})

ToolNames(format, body) ==
    UNION {{IF format = "openai" /\ tools[k].type # "function" THEN tools[k].type
            ELSE tools[k].name : k \in DOMAIN tools} : tools \in Given(body, {"tools"})}

ChoiceOf(body) ==
    {CASE c.type \in {"any", "required"} -> <<"any">>
       [] c.type \in {"tool", "function"} -> <<"tool", c.name>>
       [] OTHER -> <<c.type>> : c \in Given(body, {"tool_choice"})}

AllowedRange(format) == 0..(IF format = "openai" THEN 2 ELSE 1)

\* The candidates of a request are asked for the same thing, so that it does
\* not matter which of them serves it: the same model, transport, token
\* limit, stop sequences, user and tools, and the same choice of tools unless
\* it was none; a temperature inside the range of the format, and the one
\* asked for when that is inside; and the usage of a stream, without which
\* it could not be metered.
CandidatesAskAlike ==
    phase = "asked" =>
        \A k \in DOMAIN request.bodies :
            LET asked == request.params
                body == request.bodies[k]
                format == request.candidates[k].format
                surface == IF endpoint = "messages" THEN "anthropic" ELSE "openai"
                native == format = surface
                temperatures == Given(body, {"temperature"})
                stop == {"stop", "stop_sequences"}
                user == {"user", "metadata", "metadata.user_id"}
            IN  /\ Given(body, {"model"}) = Given(asked, {"model"})
                /\ endpoint # "embed" => Given(body, {"stream"}) = Given(asked, {"stream"})
                /\ endpoint \in Conversing \cup {"complete"} =>
                      /\ LimitOf(body) = LimitOf(asked)
                      /\ Given(body, stop) = Given(asked, stop) \ {<<>>} \/ native
                      /\ Given(body, user) = Given(asked, user)
                      /\ (asked["stream"] /\ format = "openai") =>
                            body["stream_options"].include_usage
                      /\ \/ native /\ endpoint = "messages"
                         \/ temperatures \subseteq AllowedRange(format)
                      /\ \A t \in Given(asked, {"temperature"}) \ {GatewayDefault} :
                            t \in AllowedRange(format) => temperatures = {t}
                /\ endpoint \in Conversing =>
                      /\ ToolNames(format, body) = ToolNames(surface, asked)
                      /\ ChoiceOf(asked) # {<<"none">>} => ChoiceOf(body) = ChoiceOf(asked)

=============================================================================
