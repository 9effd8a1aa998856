-------------------------- MODULE ResponseTransform --------------------------
(***************************************************************************)
(* Buffered response transforms (src/src/middleware/response_transform.rs):*)
(* the answer of an upstream, in its own format, becomes an answer in the  *)
(* format the client speaks.                                               *)
(*                                                                         *)
(* A chat answer has a text, tool calls and a finish reason; a Messages    *)
(* answer has blocks and a stop reason; both report tokens.  Ids, models   *)
(* and times of answers are left out.                                      *)
(***************************************************************************)
EXTENDS ProviderRequest

\* Anthropic stop reasons as finish reasons, and back.
transform_finish_reason(stop_reason) ==
    CASE stop_reason = "tool_use"   -> "tool_calls"
      [] stop_reason = "max_tokens" -> "length"
      [] OTHER                      -> "stop"

map_finish_reason(finish_reason) ==
    CASE finish_reason = "length" -> "max_tokens"
      [] finish_reason \in {"tool_calls", "function_call"} -> "tool_use"
      [] OTHER -> "end_turn"

OfType(blocks, type) == SelectSeq(blocks, LAMBDA b : b.type = type)

\* Cached input counts as prompt.
prompt_tokens(usage) == usage.input + usage.cache

anthropic_chat_to_openai(body) ==
    [content |-> FlattenSeq(Map(LAMBDA b : b.text, OfType(body.content, "text"))),
     tool_calls |-> Map(LAMBDA b : [id |-> b.id, arguments |-> to_string(b.input)],
                        OfType(body.content, "tool_use")),
     finish_reason |-> transform_finish_reason(body.stop_reason),
     usage |-> [prompt |-> prompt_tokens(body.usage), completion |-> body.usage.output]]

\* The legacy completion keeps the stop reason as it is and reports no usage.
anthropic_complete_to_openai(body) ==
    [content |-> FlattenSeq(Map(LAMBDA b : b.text, body.content)), tool_calls |-> <<>>,
     finish_reason |-> body.stop_reason, usage |-> [prompt |-> 0, completion |-> 0]]

\* Arguments that do not parse become an empty input, and an answer with no
\* content an empty text.
openai_to_anthropic_messages(body) ==
    LET ToUse(call) ==
            UseBlock(call.id, IF from_str(call.arguments) = {} THEN <<>>
                              ELSE CHOOSE input \in from_str(call.arguments) : TRUE)
        content == (IF body.content = <<>> THEN <<>> ELSE <<TextPart(body.content)>>)
                   \o Map(ToUse, body.tool_calls)
    IN  [content |-> IF content = <<>> THEN <<TextPart(<<>>)>> ELSE content,
         stop_reason |-> map_finish_reason(body.finish_reason),
         usage |-> [input |-> body.usage.prompt, cache |-> 0,
                    output |-> body.usage.completion]]

transform_response(format, endpoint, body) ==
    CASE format = "anthropic" /\ endpoint = "chatComplete" -> anthropic_chat_to_openai(body)
      [] format = "anthropic" /\ endpoint = "complete" -> anthropic_complete_to_openai(body)
      [] format = "openai" /\ endpoint = "messages" -> openai_to_anthropic_messages(body)
      [] OTHER -> body

=============================================================================
