-------------------------- MODULE RequestTransform --------------------------
(***************************************************************************)
(* Request shaping (src/src/middleware/request_transform.rs): the body a   *)
(* client sends is rewritten into the request format of every candidate    *)
(* upstream by a table of parameters, and messages, tools and tool choices *)
(* are converted between the chat completions and the Messages formats.    *)
(*                                                                         *)
(* A request is a function from the parameters it has to their values.  A  *)
(* text is a sequence of words.  Message content is a sequence of parts    *)
(* (chat) or blocks (Messages); a plain string is the sequence with its    *)
(* one text, the empty string the empty sequence.  The id of a tool call   *)
(* stands for its id and its name.  The result of a transform that may     *)
(* leave a parameter out is the set of its values, with at most one        *)
(* member.  Cache hints and tool descriptions are left out.                *)
(***************************************************************************)
EXTENDS Integers, SequencesExt

Formats == {"openai", "anthropic"}
Endpoints == {"chatComplete", "complete", "embed", "messages", "createModelResponse"}

\* A tool call's arguments are a string; its input is the object in it.  An
\* object is the sequence of its words, a string that sequence in braces,
\* with spaces a serialiser may add and a parser skips.
to_string(input) == <<"{">> \o input \o <<"}">>

from_str(arguments) ==
    LET read == SelectSeq(arguments, LAMBDA c : c # " ")
    IN  IF Len(read) >= 2 /\ Head(read) = "{" /\ Last(read) = "}"
        THEN {SubSeq(read, 2, Len(read) - 1)} ELSE {}

TextPart(text) == [type |-> "text", text |-> text]
UseBlock(id, input) == [type |-> "tool_use", id |-> id, input |-> input]
ResultBlock(id, text) == [type |-> "tool_result", id |-> id, text |-> text]
FilePart(type, by, mime) == [type |-> type, by |-> by, mime |-> mime]

Map(Op(_), s) == [k \in DOMAIN s |-> Op(s[k])]

-----------------------------------------------------------------------------
(* Chat completions to Messages.                                           *)

\* Bug: a call whose arguments do not parse is forwarded with no input.
ParsesAnyway(message) == TRUE

\* Non-empty arguments must parse, or the request is rejected.
CallsParse(message) ==
    \A k \in DOMAIN message.tool_calls :
        LET arguments == message.tool_calls[k].arguments
        IN  arguments = <<>> \/ from_str(arguments) # {}

transform_assistant_message(message) ==
    LET ToUse(call) ==
            UseBlock(call.id, IF from_str(call.arguments) = {} THEN <<>>
                              ELSE CHOOSE input \in from_str(call.arguments) : TRUE)
    IN  [role |-> "assistant", content |-> message.content \o Map(ToUse, message.tool_calls)]

transform_tool_message(message) ==
    [role |-> "user",
     content |-> <<ResultBlock(message.tool_call_id, FlattenSeq(Map(LAMBDA p : p.text,
                                                                    message.content)))>>]

\* A data: URL with the PDF type is a document.
append_image_content_item(part) ==
    IF part.by = "url" THEN <<FilePart("image", "url", part.mime)>>
    ELSE <<FilePart(IF part.mime = "pdf" THEN "document" ELSE "image", "base64", part.mime)>>

append_file_content_item(part) ==
    <<FilePart("document", IF part.by = "url" THEN "url"
                           ELSE IF part.mime = "txt" THEN "text" ELSE "base64", part.mime)>>

is_system_role(role) == role \in {"system", "developer"}

anthropic_messages(params) ==
    LET ToBlocks(part) ==
            CASE part.type = "text"      -> <<part>>
              [] part.type = "image_url" -> append_image_content_item(part)
              [] part.type = "file"      -> append_file_content_item(part)
              [] OTHER                   -> <<>>
        ToMessage(message) ==
            CASE message.role = "assistant" -> transform_assistant_message(message)
              [] message.role = "tool"      -> transform_tool_message(message)
              [] OTHER -> [role |-> message.role,
                           content |-> FlattenSeq(Map(ToBlocks, message.content))]
    IN  Map(ToMessage, SelectSeq(params["messages"], LAMBDA m : ~is_system_role(m.role)))

anthropic_system(params) ==
    FlattenSeq(Map(LAMBDA m : m.content,
                   SelectSeq(params["messages"], LAMBDA m : is_system_role(m.role))))

\* A tool without a function is a built-in one, named by its type.
anthropic_tools(params) ==
    LET ToTool(tool) ==
            IF tool.type = "function"
            THEN [type |-> "custom", name |-> tool.name, schema |-> tool.schema]
            ELSE [type |-> tool.name, name |-> tool.type, schema |-> FALSE]
    IN  Map(ToTool, params["tools"])

\* "none" has no counterpart: the parameter becomes null.
anthropic_tool_choice(params) ==
    LET choice == params["tool_choice"]
    IN  CASE choice.type = "required" -> [type |-> "any", name |-> ""]
          [] choice.type = "auto"     -> [type |-> "auto", name |-> ""]
          [] choice.type = "function" -> [type |-> "tool", name |-> choice.name]
          [] OTHER                    -> [type |-> "null", name |-> ""]

\* The prompt of the legacy completion endpoint becomes a dialogue.
anthropic_complete_prompt(params) ==
    <<"Human:">> \o params["prompt"] \o <<"Assistant:">>

anthropic_complete_stop(params) == {params["stop"]}

-----------------------------------------------------------------------------
(* Messages to chat completions.                                           *)

\* The text, files and calls of a message make one chat message; each of its
\* tool results makes a message of its own, after that one.
oai_transform_message(message) ==
    LET OfType(types) == SelectSeq(message.content, LAMBDA b : b.type \in types)
        ToPart(block) ==
            CASE block.type = "image" ->
                    FilePart("image_url", IF block.by = "base64" THEN "data" ELSE "url", block.mime)
              [] block.type = "document" ->
                    FilePart("file", IF block.by = "url" THEN "url" ELSE "data", block.mime)
              [] OTHER -> block
        content == Map(ToPart, OfType({"text", "image", "document"}))
        tool_calls == Map(LAMBDA b : [id |-> b.id, arguments |-> to_string(b.input)],
                          OfType({"tool_use"}))
        results == Map(LAMBDA b : [role |-> "tool", tool_call_id |-> b.id,
                                   content |-> <<TextPart(b.text)>>, tool_calls |-> <<>>],
                       OfType({"tool_result"}))
    IN  (IF content # <<>> \/ tool_calls # <<>>
         THEN <<[role |-> message.role, tool_call_id |-> 0, content |-> content,
                 tool_calls |-> tool_calls]>>
         ELSE <<>>) \o results

\* The system blocks are joined by newlines into a first message.
oai_transform_messages(params) ==
    LET system == IF "system" \in DOMAIN params
                  THEN FlattenSeq([k \in DOMAIN params["system"] |->
                           (IF k = 1 THEN <<>> ELSE <<"\n">>) \o params["system"][k].text])
                  ELSE <<>>
    IN  (IF system = <<>> THEN <<>>
         ELSE <<[role |-> "system", tool_call_id |-> 0, content |-> <<TextPart(system)>>,
                 tool_calls |-> <<>>]>>)
        \o FlattenSeq(Map(oai_transform_message, params["messages"]))

\* A typed tool without a schema becomes a function of its name.
oai_transform_tools(params) ==
    IF params["tools"] = <<>> THEN {}
    ELSE {Map(LAMBDA t : [type |-> "function", name |-> t.name, schema |-> t.schema],
              params["tools"])}

oai_transform_tool_choice(params) ==
    LET choice == params["tool_choice"]
    IN  CASE choice.type = "auto" -> {[type |-> "auto", name |-> ""]}
          [] choice.type = "any"  -> {[type |-> "required", name |-> ""]}
          [] choice.type = "tool" -> {[type |-> "function", name |-> choice.name]}
          [] OTHER                -> {}

oai_transform_stop_sequences(params) ==
    IF params["stop_sequences"] = <<>> THEN {} ELSE {params["stop_sequences"]}

oai_user_from_metadata(params) == {params["metadata"]}

map_sglang_reasoning_effort(params) ==
    LET effort == params["reasoning_effort"]
    IN  CASE effort = "minimal" -> {"low"}
          [] effort = "xhigh"   -> {"max"}
          [] OTHER              -> {effort}

=============================================================================
