--------------------------- MODULE StreamTransform ---------------------------
(***************************************************************************)
(* Stream transforms (src/src/middleware/stream_transform.rs): the events  *)
(* an upstream streams become events of the format the client speaks, one  *)
(* at a time, with a state kept between them.                              *)
(*                                                                         *)
(* A chat stream is made of chunks, each with a piece of text, fragments   *)
(* of tool calls, a finish reason and usage, and ends with [DONE].  A      *)
(* Messages stream is made of events about numbered blocks.  A transform   *)
(* returns the new state and the events for the client.                    *)
(***************************************************************************)
EXTENDS ResponseTransform

CONSTANT None   \* no finish reason, no tool index

Chunk == [type |-> "chunk", choice |-> TRUE, content |-> <<>>, tool_calls |-> <<>>,
          finish_reason |-> None, usage |-> [prompt |-> 0, completion |-> 0]]
DoneChunk == [type |-> "[DONE]"]

Start(index, block) == [type |-> "content_block_start", index |-> index, block |-> block]
Delta(index, piece) == [type |-> "content_block_delta", index |-> index, piece |-> piece]
Stop(index) == [type |-> "content_block_stop", index |-> index]
MessageStart(usage) == [type |-> "message_start", usage |-> usage]
MessageDelta(reason, usage) == [type |-> "message_delta", stop_reason |-> reason, usage |-> usage]
MessageStop == [type |-> "message_stop"]
ErrorEvent == [type |-> "error"]

StreamState ==
    [tool_index |-> None, prompt_tokens |-> 0,
     input_tokens |-> 0, output_tokens |-> 0, has_started |-> FALSE,
     content_block_started |-> FALSE, tool_calls_started |-> {}, finish_reason |-> None]

Same(state) == [state |-> state, events |-> <<>>]
Emit(state, events) == [state |-> state, events |-> events]

-----------------------------------------------------------------------------
(* Messages events to chat chunks.                                         *)

\* A tool's index is 0 at first and stays 0.
next_tool_index(state) ==
    IF state.tool_index \notin {None, 0} THEN state.tool_index + 1 ELSE 0

anthropic_chat_chunk(state, event) ==
    CASE event.type = "error" ->
            Emit(state, <<[Chunk EXCEPT !.finish_reason = "api_error"], DoneChunk>>)
      [] event.type = "message_start" ->
            Emit([state EXCEPT !.prompt_tokens = prompt_tokens(event.usage)], <<Chunk>>)
      [] event.type = "message_delta" ->
            Emit(state, <<[Chunk EXCEPT
                !.finish_reason = transform_finish_reason(event.stop_reason),
                !.usage = [prompt |-> state.prompt_tokens, completion |-> event.usage.output]]>>)
      [] event.type = "content_block_start" /\ event.block.type = "tool_use" ->
            Emit([state EXCEPT !.tool_index = next_tool_index(state)],
                 <<[Chunk EXCEPT !.tool_calls = <<[index |-> next_tool_index(state),
                        id |-> event.block.id, arguments |-> <<>>]>>]>>)
      [] event.type = "content_block_delta" /\ event.piece.type = "input_json" ->
            Emit(state, <<[Chunk EXCEPT !.tool_calls = <<[index |-> state.tool_index,
                        id |-> 0, arguments |-> event.piece.text]>>]>>)
      [] event.type = "content_block_delta" ->
            Emit(state, <<[Chunk EXCEPT !.content = event.piece.text]>>)
      [] OTHER -> Emit(state, <<Chunk>>)

anthropic_chat_stream(state, event) ==
    CASE event.type \in {"ping", "content_block_stop"} -> Same(state)
      [] event.type = "message_stop" -> Emit(state, <<DoneChunk>>)
      [] OTHER -> anthropic_chat_chunk(state, event)

\* The legacy completion stream carries text and the stop reason as it is.
anthropic_complete_stream(state, event) ==
    CASE event.type = "ping" -> Same(state)
      [] event.type = "[DONE]" -> Emit(state, <<DoneChunk>>)
      [] OTHER -> Emit(state, <<[Chunk EXCEPT !.content = event.content,
                                              !.finish_reason = event.finish_reason]>>)

-----------------------------------------------------------------------------
(* Chat chunks to Messages events.                                         *)

current_content_index == 0

\* The usage of a chunk is kept unless it is zero.
TakeUsage(state, chunk) ==
    [state EXCEPT
        !.input_tokens = IF chunk.usage.prompt # 0 THEN chunk.usage.prompt ELSE @,
        !.output_tokens = IF chunk.usage.completion # 0 THEN chunk.usage.completion ELSE @]

\* Bug: the text block stays open when a call begins.
OpenCallInText(state, fragment) ==
    LET i == current_content_index + 1 + fragment.index
    IN  Emit([state EXCEPT !.tool_calls_started = @ \cup {i}],
             <<Start(i, UseBlock(fragment.id, <<>>))>>)

\* A fragment with an id starts the block of its call and stops the text.
OpenCall(state, fragment) ==
    LET i == current_content_index + 1 + fragment.index
        stops == state.content_block_started /\ i \notin state.tool_calls_started
    IN  Emit([state EXCEPT !.tool_calls_started = @ \cup {i},
                           !.content_block_started = @ /\ ~stops],
             (IF stops THEN <<Stop(current_content_index)>> ELSE <<>>)
             \o <<Start(i, UseBlock(fragment.id, <<>>))>>)

\* The fragments of a chunk in order; acc is a state with the events so far.
AddFragment(acc, fragment) ==
    LET opened == IF fragment.id # 0 THEN OpenCall(acc.state, fragment) ELSE Same(acc.state)
        delta == IF fragment.arguments = <<>> THEN <<>>
                 ELSE <<Delta(current_content_index + 1 + fragment.index,
                              [type |-> "input_json", text |-> fragment.arguments])>>
    IN  Emit(opened.state, acc.events \o opened.events \o delta)

\* Non-empty text opens the text block if need be.
AddText(acc, text) ==
    IF text = <<>> THEN acc
    ELSE Emit([acc.state EXCEPT !.content_block_started = TRUE],
              acc.events
              \o (IF acc.state.content_block_started THEN <<>>
                  ELSE <<Start(current_content_index, TextPart(<<>>))>>)
              \o <<Delta(current_content_index, [type |-> "text", text |-> text])>>)

\* A chunk that is not [DONE].
TransformChunk(state, chunk) ==
    LET counted == TakeUsage(state, chunk)
        begun == Emit([counted EXCEPT !.has_started = TRUE],
                      IF state.has_started THEN <<>>
                      ELSE <<MessageStart([input |-> counted.input_tokens, cache |-> 0,
                                           output |-> 0])>>)
        called == FoldLeft(AddFragment, AddText(begun, chunk.content), chunk.tool_calls)
    IN  IF ~chunk.choice THEN begun
        ELSE [called EXCEPT !.state.finish_reason =
                 IF chunk.finish_reason # None THEN chunk.finish_reason ELSE @]

\* The blocks still open at [DONE] are stopped, the text block first.
StopBlocks(state) ==
    (IF state.content_block_started THEN <<Stop(current_content_index)>> ELSE <<>>)
    \o Map(LAMBDA i : Stop(i), SetToSortSeq(state.tool_calls_started, LAMBDA a, b : a < b))

\* Bug: a failed completion ends like any other.
EndAlways(state) ==
    <<MessageDelta(map_finish_reason(state.finish_reason),
                   [input |-> state.input_tokens, cache |-> 0, output |-> state.output_tokens]),
      MessageStop>>

\* The end of the message, or an error event for an error finish.
EndOfMessage(state) ==
    IF state.finish_reason \in {"error", "api_error"}
    THEN <<ErrorEvent>>
    ELSE <<MessageDelta(map_finish_reason(state.finish_reason),
                        [input |-> state.input_tokens, cache |-> 0,
                         output |-> state.output_tokens]),
           MessageStop>>

openai_to_anthropic_messages_stream(state, event) ==
    IF event.type = "[DONE]"
    THEN Emit(state, StopBlocks(state) \o EndOfMessage(state))
    ELSE TransformChunk(state, event)

\* The transform of a committed route; a route of the client's own format
\* passes its events on.
apply(format, endpoint, state, event) ==
    CASE format = "anthropic" /\ endpoint = "chatComplete" -> anthropic_chat_stream(state, event)
      [] format = "anthropic" /\ endpoint = "complete" -> anthropic_complete_stream(state, event)
      [] format = "openai" /\ endpoint = "messages" ->
            openai_to_anthropic_messages_stream(state, event)
      [] OTHER -> Emit(state, <<event>>)

=============================================================================
