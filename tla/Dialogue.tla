------------------------------- MODULE Dialogue -------------------------------
(***************************************************************************)
(* The parties to a conversation through the gateway: what messages mean   *)
(* in either format, what clients send, and how upstreams answer and       *)
(* stream.  These are the environment of the transforms in                 *)
(* src/src/middleware; module Conversation puts the two together.          *)
(*                                                                         *)
(* The client keeps the messages in the format it speaks and sends all of  *)
(* them with every request.                                                *)
(***************************************************************************)
EXTENDS StreamTransform, FiniteSets

CONSTANTS
    MaxRequests,   \* bound on the requests of a conversation
    MaxTexts,      \* bound on the words of an answer
    MaxMerged      \* bound on the pieces of an answer sent as one chunk

ASSUME ConversationAssumption == {MaxRequests, MaxTexts, MaxMerged} \subseteq Nat

VARIABLES
    endpoint,   \* the endpoint the client uses
    said,       \* the turns of the conversation, as they were meant
    history,    \* the messages the client keeps, in the format it speaks
    request,    \* the request in flight: its parameters, candidates, bodies
    reply,      \* the answer of the committed upstream, in its format
    state,      \* StreamState of the transform
    client,     \* what the client has read of the answer
    phase       \* where the exchange is

conversationVars == <<endpoint, said, history, request, reply, state, client, phase>>

-----------------------------------------------------------------------------
(* What messages mean, in either format.                                   *)

CutShort == <<"cut short">>

\* A missing argument string is an empty object.
InputOf(arguments) ==
    IF arguments = <<>> THEN <<>>
    ELSE IF from_str(arguments) = {} THEN CutShort
    ELSE CHOOSE input \in from_str(arguments) : TRUE

Words(parts) ==
    SelectSeq(FlattenSeq(Map(LAMBDA p : p.text, OfType(parts, "text"))), LAMBDA w : w # "\n")

FileTypes == {"image", "document", "image_url", "file"}

Files(parts) ==
    {[kind |-> IF p.type \in {"file", "document"} \/ p.mime = "pdf" THEN "document" ELSE "image",
      inline |-> p.by # "url", mime |-> p.mime] :
         p \in {parts[k] : k \in {k \in DOMAIN parts : parts[k].type \in FileTypes}}}

Turn(who, text, files, calls, results) ==
    [who |-> who, text |-> text, files |-> files, calls |-> calls, results |-> results]

ChatTurn(m) ==
    IF m.role = "tool"
    THEN Turn("user", <<>>, {}, <<>>, <<[id |-> m.tool_call_id, text |-> Words(m.content)]>>)
    ELSE Turn(m.role, Words(m.content), Files(m.content),
              Map(LAMBDA c : [id |-> c.id, input |-> InputOf(c.arguments)], m.tool_calls), <<>>)

MessagesTurn(m) ==
    Turn(m.role, Words(m.content), Files(m.content),
         Map(LAMBDA b : [id |-> b.id, input |-> b.input], OfType(m.content, "tool_use")),
         Map(LAMBDA b : [id |-> b.id, text |-> b.text], OfType(m.content, "tool_result")))

\* Messages of one side in a row are one turn.
AddTurn(turns, t) ==
    IF turns = <<>> \/ turns[Len(turns)].who # t.who THEN Append(turns, t)
    ELSE [turns EXCEPT ![Len(turns)] =
             Turn(t.who, @.text \o t.text, @.files \cup t.files, @.calls \o t.calls,
                  @.results \o t.results)]

\* A turn with nothing in it says nothing.
Joined(turns) ==
    FoldLeft(AddTurn, <<>>, SelectSeq(turns, LAMBDA t : t # Turn(t.who, <<>>, {}, <<>>, <<>>)))

Turns(format, messages) ==
    Joined(IF format = "openai"
           THEN Map(ChatTurn, SelectSeq(messages, LAMBDA m : ~is_system_role(m.role)))
           ELSE Map(MessagesTurn, messages))

SystemWords(format, body) ==
    IF format = "openai"
    THEN Words(FlattenSeq(Map(LAMBDA m : m.content,
                   SelectSeq(body["messages"], LAMBDA m : is_system_role(m.role)))))
    ELSE IF "system" \in DOMAIN body THEN Words(body["system"]) ELSE <<>>

-----------------------------------------------------------------------------
(* The client.                                                             *)

Conversing == {"chatComplete", "messages"}

ChatMessage(role, id, parts, calls) ==
    [role |-> role, tool_call_id |-> id, content |-> parts, tool_calls |-> calls]

TextParts(text) == IF text = <<>> THEN <<>> ELSE <<TextPart(text)>>

\* The messages of a user turn in the format of the endpoint.
UserMessages(text, parts, results) ==
    IF endpoint = "messages"
    THEN <<[role |-> "user",
            content |-> Map(LAMBDA r : ResultBlock(r.id, r.text), results)
                        \o TextParts(text) \o parts]>>
    ELSE Map(LAMBDA r : ChatMessage("tool", r.id, TextParts(r.text), <<>>), results)
         \o (IF text = <<>> THEN <<>>
             ELSE <<ChatMessage("user", 0, TextParts(text) \o parts, <<>>)>>)

\* Files as clients of each endpoint attach them.
Attachments ==
    IF endpoint = "messages"
    THEN {FilePart("image", "url", ""), FilePart("image", "base64", "png"),
          FilePart("document", "url", ""), FilePart("document", "base64", "pdf"),
          FilePart("document", "text", "txt")}
    ELSE {FilePart("image_url", "url", ""), FilePart("image_url", "data", "png"),
          FilePart("image_url", "data", "pdf"), FilePart("file", "url", ""),
          FilePart("file", "data", "pdf"), FilePart("file", "data", "txt")}

SystemPrompt == <<"be", "brief">>

Tools ==
    IF endpoint = "messages"
    THEN <<[type |-> "custom", name |-> "f", schema |-> TRUE],
           [type |-> "search_v1", name |-> "search", schema |-> FALSE]>>
    ELSE <<[type |-> "function", name |-> "f", schema |-> TRUE],
           [type |-> "search", name |-> "search_v1", schema |-> FALSE]>>

ToolChoices ==
    IF endpoint = "messages" THEN {"auto", "any", "tool", "none"}
    ELSE {"auto", "required", "function", "none"}

\* Single additions to a plain request.
Additions ==
    LET With(key, values) == {key :> v : v \in values}
        asked == {("tools" :> Tools) @@ ("tool_choice" :> [type |-> c, name |-> "f"]) :
                     c \in ToolChoices}
        openai == With("temperature", {-1, 1, 3, GatewayDefault}) \cup With("user", {"u1"})
                  \cup With("stop", {<<"END">>})
                  \cup With("stream_options", {[include_usage |-> FALSE]})
    IN  {<<>>} \cup
        (CASE endpoint = "messages" ->
                 With("temperature", {-1, 1, 3}) \cup With("metadata", {"u1"})
                 \cup With("stop_sequences", {<<>>, <<"END">>}) \cup asked
           [] endpoint = "chatComplete" ->
                 openai \cup With("max_completion_tokens", {7})
                 \cup With("reasoning_effort", {"minimal"}) \cup asked
           [] endpoint = "complete" -> openai
           [] OTHER -> {})

\* The parameters of a request with everything said so far.
Params(addition, streamed, withSystem) ==
    addition @@ ("model" :> "m") @@ ("max_tokens" :> 5) @@ ("stream" :> streamed) @@
    (CASE endpoint = "complete" -> "prompt" :> said[1].text
       [] endpoint = "messages" ->
            ("messages" :> history)
            @@ (IF withSystem
                THEN "system" :> Map(LAMBDA w : TextPart(<<w>>), SystemPrompt) ELSE <<>>)
       [] endpoint = "chatComplete" ->
            "messages" :>
                ((IF withSystem
                  THEN <<ChatMessage("system", 0, <<TextPart(<<"be">>)>>, <<>>),
                         ChatMessage("developer", 0, <<TextPart(<<"brief">>)>>, <<>>)>>
                  ELSE <<>>) \o history)
       [] OTHER -> "input" :> said[1].text)

-----------------------------------------------------------------------------
(* The upstreams.                                                          *)

Candidates ==
    LET openai == [format |-> "openai", engine |-> "none"]
        sglang == [format |-> "openai", engine |-> "sglang"]
        anthropic == [format |-> "anthropic", engine |-> "none"]
    IN  {<<openai>>, <<anthropic>>, <<sglang, anthropic>>}

\* Ids of the calls of a new answer follow those of the calls made so far.
NextId == 1 + Len(FlattenSeq(Map(LAMBDA t : t.calls, said)))

Texts == {SubSeq(<<"a", "b">>, 1, n) : n \in 0..MaxTexts}

\* Arguments as chat upstreams write them: none, an empty object, an object
\* with spaces, and one cut short by the token limit.
ArgumentStrings == {<<>>, <<"{", "}">>, <<"{", " ", "x", "}">>, <<"{", "x">>}

OpenaiAnswers ==
    LET Call(id, arguments) == [id |-> id, arguments |-> arguments]
        calls == IF endpoint = "complete" THEN {<<>>}
                 ELSE {<<>>} \cup {<<Call(NextId, a)>> : a \in ArgumentStrings}
                             \cup {<<Call(NextId, <<"{", "y", "}">>), Call(NextId + 1, a)>> :
                                       a \in ArgumentStrings}
        Finish(cs) == IF cs = <<>> THEN {"stop", "length"}
                      ELSE IF InputOf(cs[Len(cs)].arguments) = CutShort THEN {"length"}
                      ELSE {"tool_calls"}
    IN  UNION {{[content |-> text, tool_calls |-> cs, finish_reason |-> reason,
                 usage |-> [prompt |-> 4, completion |-> 2]] : reason \in Finish(cs)} :
                   text \in Texts, cs \in calls}

AnthropicAnswers ==
    LET uses == {UseBlock(NextId, <<>>), UseBlock(NextId, <<"x">>)}
        calls == IF endpoint = "complete" THEN {<<>>}
                 ELSE {<<>>} \cup {<<u>> : u \in uses}
                      \cup {<<u, UseBlock(NextId + 1, <<"y">>)>> : u \in uses}
                      \cup {<<u, TextPart(<<"c">>)>> : u \in uses}
    IN  {[content |-> TextParts(text) \o cs,
          stop_reason |-> IF cs # <<>> THEN "tool_use"
                          ELSE IF text = <<>> THEN "max_tokens" ELSE "end_turn",
          usage |-> [input |-> 1, cache |-> 3, output |-> 2]] :
             text \in Texts, cs \in calls}

\* The pieces a chat answer is streamed in: its words, then its calls one
\* after the other or all named before their arguments come, then the end.
ChunksOf(answer, namesFirst) ==
    LET calls == answer.tool_calls
        Piece(k, id, text) ==
            [Chunk EXCEPT !.tool_calls = <<[index |-> k - 1, id |-> id, arguments |-> text]>>]
        named == [k \in DOMAIN calls |-> <<Piece(k, calls[k].id, <<>>)>>]
        filled == [k \in DOMAIN calls |-> Map(LAMBDA c : Piece(k, 0, <<c>>), calls[k].arguments)]
    IN  Map(LAMBDA w : [Chunk EXCEPT !.content = <<w>>], answer.content)
        \o (IF namesFirst THEN FlattenSeq(named) \o FlattenSeq(Reverse(filled))
            ELSE FlattenSeq([k \in DOMAIN calls |-> named[k] \o filled[k]]))
        \o <<[Chunk EXCEPT !.finish_reason = answer.finish_reason]>>

\* Usage comes last, without a choice, when the request asked for it.
UsageChunk(answer, body) ==
    IF "stream_options" \in DOMAIN body /\ body["stream_options"].include_usage
    THEN <<[Chunk EXCEPT !.choice = FALSE, !.usage = answer.usage]>> ELSE <<>>

EventsOf(answer) ==
    LET Pieces(b) == IF b.type = "text"
                     THEN Map(LAMBDA w : [type |-> "text", text |-> <<w>>], b.text)
                     ELSE IF b.input = <<>> THEN <<>>
                     ELSE Map(LAMBDA c : [type |-> "input_json", text |-> <<c>>],
                              to_string(b.input))
        Empty(b) == IF b.type = "text" THEN TextPart(<<>>) ELSE UseBlock(b.id, <<>>)
        BlockEvents(k) == <<Start(k - 1, Empty(answer.content[k]))>>
                          \o Map(LAMBDA p : Delta(k - 1, p), Pieces(answer.content[k]))
                          \o <<Stop(k - 1)>>
    IN  <<MessageStart([answer.usage EXCEPT !.output = 0]), [type |-> "ping"]>>
        \o FlattenSeq([k \in DOMAIN answer.content |-> BlockEvents(k)])
        \o <<MessageDelta(answer.stop_reason, answer.usage), MessageStop>>

CompletionsOf(answer) ==
    Map(LAMBDA w : [Chunk EXCEPT !.content = <<w>>], Words(answer.content))
    \o <<[Chunk EXCEPT !.finish_reason = answer.stop_reason], DoneChunk>>

StreamOf(format, answer, namesFirst, body) ==
    IF format = "openai"
    THEN ChunksOf(answer, namesFirst) \o UsageChunk(answer, body) \o <<DoneChunk>>
    ELSE IF endpoint = "complete" THEN CompletionsOf(answer)
    ELSE EventsOf(answer)

=============================================================================
