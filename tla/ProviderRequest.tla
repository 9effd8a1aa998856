--------------------------- MODULE ProviderRequest ---------------------------
(***************************************************************************)
(* The parameter tables of request shaping                                 *)
(* (src/src/middleware/request_transform.rs): which parameters of a        *)
(* request reach an upstream of a given format, under which name, with     *)
(* which default and limits, and through which transform; and the bodies   *)
(* built for a list of failover candidates.                                *)
(*                                                                         *)
(* A row of a table carries its default, minimum and maximum as sets with  *)
(* at most one member, and its transform by name.  A dotted name such as   *)
(* metadata.user_id is one parameter of the body.                          *)
(***************************************************************************)
EXTENDS RequestTransform

CONSTANT GatewayDefault   \* the value "gateway-default", which asks for the default

\* A row of a provider's table.
pc(key, param) ==
    [key |-> key, param |-> param, default |-> {}, min |-> {}, max |-> {},
     required |-> FALSE, transform |-> ""]

Required(row) == [row EXCEPT !.required = TRUE]
Default(row, value) == [row EXCEPT !.default = {value}]
Within(row, min, max) == [row EXCEPT !.min = min, !.max = max]
Through(row, transform) == [row EXCEPT !.transform = transform]
Plain(keys) == Map(LAMBDA key : pc(key, key), keys)

penalties == <<Within(pc("presence_penalty", "presence_penalty"), {-2}, {2}),
               Within(pc("frequency_penalty", "frequency_penalty"), {-2}, {2})>>

sampling ==
    <<Within(Default(pc("max_tokens", "max_tokens"), 100), {0}, {}),
      Within(Default(pc("temperature", "temperature"), 1), {0}, {2}),
      Within(Default(pc("top_p", "top_p"), 1), {0}, {1}),
      Default(pc("n", "n"), 1), Default(pc("stream", "stream"), FALSE)>>

model_row(default) == Required(Default(pc("model", "model"), default))

openai_chat_complete_config(engine) ==
    <<model_row("gpt-3.5-turbo"), Default(pc("messages", "messages"), <<>>),
      Default(pc("logprobs", "logprobs"), FALSE)>>
    \o sampling \o penalties
    \o Plain(<<"functions", "function_call", "stop", "logit_bias", "user", "seed", "tools",
               "tool_choice", "response_format", "top_logprobs", "stream_options",
               "service_tier", "parallel_tool_calls", "max_completion_tokens", "store",
               "metadata", "modalities", "audio", "prediction", "web_search_options",
               "prompt_cache_key", "safety_identifier", "verbosity">>)
    \o <<IF engine = "sglang"
         THEN Through(pc("reasoning_effort", "reasoning_effort"), "map_sglang_reasoning_effort")
         ELSE pc("reasoning_effort", "reasoning_effort")>>
    \o (IF engine = "none" THEN <<>>
        ELSE Plain(<<"top_k", "min_p", "repetition_penalty", "chat_template_kwargs">>))

openai_complete_config ==
    <<model_row("text-davinci-003"), Default(pc("prompt", "prompt"), <<>>),
      Default(pc("echo", "echo"), FALSE), Within(pc("logprobs", "logprobs"), {}, {5})>>
    \o sampling \o penalties
    \o Plain(<<"stream_options", "stop", "best_of", "logit_bias", "user", "seed", "suffix">>)

openai_embed_config ==
    <<model_row("text-embedding-ada-002"), Required(pc("input", "input"))>>
    \o Plain(<<"encoding_format", "dimensions", "user">>)

openai_create_model_response_config ==
    <<Required(pc("input", "input")), Required(pc("model", "model"))>>
    \o Plain(<<"background", "include", "instructions", "max_output_tokens", "metadata",
               "modalities", "parallel_tool_calls", "previous_response_id", "prompt",
               "prompt_cache_key", "reasoning", "store", "stream", "temperature", "text",
               "tool_choice", "tools", "top_p", "truncation", "user", "verbosity">>)

openai_to_anthropic_messages_config ==
    <<Required(pc("model", "model")), Required(pc("max_tokens", "max_tokens")),
      Through(Required(pc("messages", "messages")), "oai_transform_messages"),
      Within(pc("temperature", "temperature"), {0}, {2}),
      Within(pc("top_p", "top_p"), {0}, {1}),
      Default(pc("stream", "stream"), FALSE),
      Through(pc("stop_sequences", "stop"), "oai_transform_stop_sequences"),
      Through(pc("tools", "tools"), "oai_transform_tools"),
      Through(pc("tool_choice", "tool_choice"), "oai_transform_tool_choice"),
      Through(pc("metadata", "user"), "oai_user_from_metadata")>>
    \o Plain(<<"top_k", "stream_options">>)

anthropic_sampling ==
    <<Within(Default(pc("temperature", "temperature"), 1), {0}, {1}),
      Within(Default(pc("top_p", "top_p"), -1), {-1}, {}),
      Default(pc("top_k", "top_k"), -1), Default(pc("stream", "stream"), FALSE),
      pc("user", "metadata.user_id")>>

\* max_completion_tokens comes later in the table and wins over max_tokens.
anthropic_chat_complete_config ==
    <<model_row("claude-2.1"),
      Through(Required(pc("messages", "messages")), "anthropic_messages"),
      Through(pc("messages", "system"), "anthropic_system"),
      Through(pc("tools", "tools"), "anthropic_tools"),
      Through(pc("tool_choice", "tool_choice"), "anthropic_tool_choice"),
      Required(pc("max_tokens", "max_tokens")),
      pc("max_completion_tokens", "max_tokens")>>
    \o anthropic_sampling
    \o <<pc("stop", "stop_sequences"), pc("thinking", "thinking")>>

anthropic_complete_config ==
    <<model_row("claude-instant-1"),
      Through(Required(pc("prompt", "prompt")), "anthropic_complete_prompt"),
      Required(pc("max_tokens", "max_tokens_to_sample")),
      Through(pc("stop", "stop_sequences"), "anthropic_complete_stop")>>
    \o anthropic_sampling

anthropic_messages_config ==
    Plain(<<"container", "mcp_servers", "metadata", "service_tier", "stop_sequences", "stream",
            "system", "temperature", "thinking", "tool_choice", "tools", "top_k", "top_p">>)
    \o <<Required(pc("model", "model")), Required(pc("messages", "messages")),
         Required(pc("max_tokens", "max_tokens"))>>

\* The tables that exist; the other pairs are unsupported.
Unsupported == {<<"anthropic", "embed">>, <<"anthropic", "createModelResponse">>}

select_config(format, endpoint, engine) ==
    CASE format = "openai" /\ endpoint = "chatComplete" -> openai_chat_complete_config(engine)
      [] format = "openai" /\ endpoint = "complete"     -> openai_complete_config
      [] format = "openai" /\ endpoint = "embed"        -> openai_embed_config
      [] format = "openai" /\ endpoint = "messages"     -> openai_to_anthropic_messages_config
      [] format = "openai" /\ endpoint = "createModelResponse" ->
            openai_create_model_response_config
      [] format = "anthropic" /\ endpoint = "complete"     -> anthropic_complete_config
      [] format = "anthropic" /\ endpoint = "chatComplete" -> anthropic_chat_complete_config
      [] format = "anthropic" /\ endpoint = "messages"     -> anthropic_messages_config

-----------------------------------------------------------------------------
\* The transform of a row, by name.
Transformed(transform, params) ==
    CASE transform = "anthropic_messages"        -> {anthropic_messages(params)}
      [] transform = "anthropic_system"          -> {anthropic_system(params)}
      [] transform = "anthropic_tools"           -> {anthropic_tools(params)}
      [] transform = "anthropic_tool_choice"     -> {anthropic_tool_choice(params)}
      [] transform = "anthropic_complete_prompt" -> {anthropic_complete_prompt(params)}
      [] transform = "anthropic_complete_stop"   -> anthropic_complete_stop(params)
      [] transform = "oai_transform_messages"    -> {oai_transform_messages(params)}
      [] transform = "oai_transform_tools"       -> oai_transform_tools(params)
      [] transform = "oai_transform_tool_choice" -> oai_transform_tool_choice(params)
      [] transform = "oai_transform_stop_sequences" -> oai_transform_stop_sequences(params)
      [] transform = "oai_user_from_metadata"       -> oai_user_from_metadata(params)
      [] transform = "map_sglang_reasoning_effort"  -> map_sglang_reasoning_effort(params)

\* Bug: the limits of a row are ignored.
NoClamp(row, params) ==
    LET value == IF row.transform = "" THEN {params[row.key]}
                 ELSE Transformed(row.transform, params)
    IN  IF value = {GatewayDefault} /\ row.default # {} THEN row.default ELSE value

\* The transform, then the default for the sentinel, then the limits.
get_value(row, params) ==
    LET value == IF row.transform = "" THEN {params[row.key]}
                 ELSE Transformed(row.transform, params)
        chosen == IF value = {GatewayDefault} /\ row.default # {} THEN row.default ELSE value
        Beyond(limit, Exceeds(_, _)) ==
            \E v \in chosen, l \in limit : v # GatewayDefault /\ Exceeds(v, l)
    IN  IF Beyond(row.min, LAMBDA v, l : v < l) THEN row.min
        ELSE IF Beyond(row.max, LAMBDA v, l : v > l) THEN row.max
        ELSE chosen

\* Every row whose parameter is present, or required with a default, writes
\* its value; a later row wins.
transform_using_provider_config(config, params) ==
    LET written(k) == IF config[k].key \in DOMAIN params THEN get_value(config[k], params)
                      ELSE IF config[k].required THEN config[k].default ELSE {}
        writers == {k \in DOMAIN config : written(k) # {}}
        latest(param) == Max({k \in writers : config[k].param = param})
    IN  [param \in {config[k].param : k \in writers} |->
            CHOOSE value \in written(latest(param)) : TRUE]

\* Streaming asks for the usage, whatever else the options say.
inject_stream_options(params) ==
    IF "stream" \in DOMAIN params /\ params["stream"]
    THEN [param \in DOMAIN params \cup {"stream_options"} |->
             IF param = "stream_options" THEN [include_usage |-> TRUE] ELSE params[param]]
    ELSE params

transform_to_provider_request(format, endpoint, engine, params) ==
    transform_using_provider_config(select_config(format, endpoint, engine),
                                    inject_stream_options(params))

\* A body that no request in this format can express is refused.
Refused(format, endpoint, params) ==
    \/ <<format, endpoint>> \in Unsupported
    \/ /\ format = "anthropic" /\ endpoint = "chatComplete"
       /\ \E k \in DOMAIN params["messages"] :
             params["messages"][k].role = "assistant" /\ ~CallsParse(params["messages"][k])

\* One candidate that cannot be served fails the whole list.
build_candidates(candidates, endpoint, params) ==
    IF \E k \in DOMAIN candidates : Refused(candidates[k].format, endpoint, params)
    THEN <<>>
    ELSE Map(LAMBDA c : transform_to_provider_request(c.format, endpoint, c.engine, params),
             candidates)

=============================================================================
