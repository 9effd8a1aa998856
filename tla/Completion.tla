----------------------------- MODULE Completion ------------------------------
(***************************************************************************)
(* What the client of an inference request gets: the checks of             *)
(* openai_completion_endpoint, then for each outcome of the forwarding     *)
(* path the response of the middleware (completion::run) or of the direct  *)
(* path (forward_to_backend).  An encrypted request goes through the       *)
(* admission of module E2eeAdmission; the forwarding path is abstracted to *)
(* what came of it (module Forwarding), a streamed body to whether it      *)
(* ended well (module StreamPipeline).                                     *)
(***************************************************************************)
EXTENDS E2eeAdmission

VARIABLES
    middleware, \* whether a middleware is configured
    call,       \* the progress of each request and its response
    receipts    \* the receipts stored, each named by its request

responseVars == <<middleware, call, receipts>>

completionVars == <<admissionVars, responseVars>>

\* chat also stands for completions and messages, which are handled alike.
Endpoints == {"chat", "embeddings", "responses"}

\* What a provider sends back: its status class, whether the body is JSON (or,
\* streamed, server-sent events).
Answers == [success : BOOLEAN, wellFormed : BOOLEAN]

\* A response: does it name a receipt, is it marked encrypted, did a provider
\* answer the request, is the provider's output in it ("clear" or "encrypted"),
\* was it sent to the end.
Response == [receipt : BOOLEAN, e2ee : BOOLEAN, provider : BOOLEAN,
             output : {"none", "clear", "encrypted"}, complete : BOOLEAN]

NoResponse == [receipt |-> FALSE, e2ee |-> FALSE, provider |-> FALSE, output |-> "none",
               complete |-> FALSE]

\* An error of the gateway, in clear.
Refusal == [NoResponse EXCEPT !.complete = TRUE]

NewCall == [pc |-> "new", sealed |-> FALSE, stream |-> FALSE, response |-> NoResponse]

Answer(r, response) ==
    call' = [call EXCEPT ![r].pc = "answered", ![r].response = response]

CompletionInit ==
    /\ AdmissionInit
    /\ middleware \in BOOLEAN
    /\ call = [r \in Requests |-> NewCall]
    /\ receipts = {}

-----------------------------------------------------------------------------
\* The next request of a slot; the receipt of the last one stays in the store
\* (module ReceiptStore), where nothing here can reach it.
NextRequest(r) ==
    /\ call[r].pc = "answered"
    /\ call' = [call EXCEPT ![r] = NewCall]
    /\ req' = [req EXCEPT ![r] = NewRequest]
    /\ receipts' = receipts \ {r}
    /\ UNCHANGED <<now, timestamp, e2ee_replay, claimed, middleware>>

\* embeddings is always buffered.
Streams(endpoint, asked) == asked /\ endpoint # "embeddings"

\* The handler up to the E2EE admission: an unknown key, a revoked keyset, and
\* E2EE headers on the responses endpoint are refused.
Enter(r) ==
    /\ call[r].pc = "new"
    /\ \E endpoint \in Endpoints, sealed \in BOOLEAN, stream \in BOOLEAN :
          \/ Answer(r, Refusal)
          \/ /\ sealed => endpoint # "responses"
             /\ call' = [call EXCEPT ![r] = [NewCall EXCEPT !.pc = "admit",
                    !.sealed = sealed, !.stream = Streams(endpoint, stream)]]
    /\ UNCHANGED <<admissionVars, middleware, receipts>>

\* The steps of the admission of an encrypted request.
Admission(r) ==
    /\ call[r].pc = "admit" /\ call[r].sealed
    /\ \/ \E m \in Messages : prepare_e2ee_v2_request(r, m)
       \/ BadRequest(r)
       \/ prepare_legacy_e2ee_request(r)
       \/ claim_e2ee_replay(r)
       \/ decrypt_request_payload(r)
    /\ UNCHANGED responseVars

\* A request that is not admitted, or whose clear body or headers are not
\* accepted, is refused in clear.
Admit(r) ==
    /\ call[r].pc = "admit"
    /\ call[r].sealed => req[r].pc \in {"admitted", "refused", "repeated"}
    /\ \/ Answer(r, Refusal)
       \/ /\ call[r].sealed => req[r].pc = "admitted"
          /\ call' = [call EXCEPT ![r].pc = "serve"]
    /\ UNCHANGED <<admissionVars, middleware, receipts>>

-----------------------------------------------------------------------------
\* A response the gateway makes up after admission: the middleware finalizes
\* it for an E2EE client (finalize_generated), the direct path has it in clear.
Generated(r, provider) ==
    [Refusal EXCEPT !.e2ee = middleware /\ call[r].sealed, !.provider = provider]

\* No route, no verified upstream, or no candidate that could be reached.
NothingServed(r) ==
    /\ call[r].pc = "serve"
    /\ Answer(r, Generated(r, FALSE))
    /\ UNCHANGED <<admissionVars, middleware, receipts>>

\* A streaming request whose provider refused it: the error is returned,
\* normalised by the middleware, without a receipt.
StreamRefused(r) ==
    /\ call[r].pc = "serve"
    /\ call[r].stream
    /\ Answer(r, Generated(r, TRUE))
    /\ UNCHANGED <<admissionVars, middleware, receipts>>

\* What becomes of the provider's output: the transformer encrypts the events
\* of an event stream, the buffered path the fields of a JSON body.
Output(r, answer) ==
    IF call[r].sealed /\ answer.wellFormed THEN "encrypted" ELSE "clear"

\* The headers go out with the receipt id reserved for the stream.
StreamBegins(r, answer) ==
    /\ call[r].pc = "serve" /\ call[r].stream /\ answer.success
    /\ call' = [call EXCEPT ![r].pc = "streaming",
            ![r].response = [receipt |-> TRUE, e2ee |-> call[r].sealed, provider |-> TRUE,
                             output |-> Output(r, answer), complete |-> FALSE]]
    /\ UNCHANGED <<admissionVars, middleware, receipts>>

\* The direct path streams whatever the provider sends.
forward_chat_completion_stream_request(r) ==
    /\ ~middleware
    /\ \E answer \in Answers : StreamBegins(r, answer)

\* Bug: the middleware does not look at the content type of the stream.
UnencryptableNever(r, answer) == FALSE

\* Only an event stream can be encrypted.
Unencryptable(r, answer) == call[r].sealed /\ ~answer.wellFormed

\* Behind the middleware a stream that cannot be encrypted becomes an error in
\* clear.
finalize_middleware_response_stream(r) ==
    /\ middleware
    /\ \E answer \in Answers :
          \/ ~Unencryptable(r, answer) /\ StreamBegins(r, answer)
          \/ /\ Unencryptable(r, answer)
             /\ call[r].pc = "serve" /\ call[r].stream /\ answer.success
             /\ Answer(r, [Refusal EXCEPT !.provider = TRUE])
             /\ UNCHANGED <<admissionVars, middleware, receipts>>

\* The receipt is stored when the last byte has passed.
StreamEnds(r) ==
    /\ call[r].pc = "streaming"
    /\ call' = [call EXCEPT ![r].pc = "answered", ![r].response.complete = TRUE]
    /\ receipts' = receipts \cup {r}
    /\ UNCHANGED <<admissionVars, middleware>>

\* The stream breaks, or the client leaves: the body ends without a receipt.
StreamBreaks(r) ==
    /\ call[r].pc = "streaming"
    /\ call' = [call EXCEPT ![r].pc = "answered"]
    /\ UNCHANGED <<admissionVars, middleware, receipts>>

\* The whole of a provider's answer, with a receipt.
Receipted(r, answer) ==
    [receipt |-> TRUE, e2ee |-> call[r].sealed, provider |-> TRUE,
     output |-> IF answer.success THEN Output(r, answer) ELSE "none", complete |-> TRUE]

\* Bug: the receipt is stored before the body is encrypted.
BufferedStoresFirst(r, answer, unusable) ==
    /\ call[r].pc = "serve" /\ ~call[r].stream
    /\ Answer(r, IF unusable THEN Generated(r, TRUE) ELSE Receipted(r, answer))
    /\ receipts' = receipts \cup {r}
    /\ UNCHANGED <<admissionVars, middleware>>

\* A buffered response: the receipt is stored when the wire body is known.
Buffered(r, answer, unusable) ==
    /\ call[r].pc = "serve" /\ ~call[r].stream
    /\ \/ /\ unusable
          /\ Answer(r, Generated(r, TRUE))
          /\ UNCHANGED receipts
       \/ /\ ~unusable
          /\ Answer(r, Receipted(r, answer))
          /\ receipts' = receipts \cup {r}
    /\ UNCHANGED <<admissionVars, middleware>>

\* The direct path returns any body, but can encrypt only JSON.
forward_chat_completion_request(r) ==
    /\ ~middleware
    /\ \E answer \in Answers : Buffered(r, answer, call[r].sealed /\ ~answer.wellFormed)

\* The middleware answers 502 to a success that is not JSON.
run_buffered(r) ==
    /\ middleware
    /\ \E answer \in Answers : Buffered(r, answer, answer.success /\ ~answer.wellFormed)

Serve(r) ==
    \/ NothingServed(r) \/ StreamRefused(r)
    \/ forward_chat_completion_stream_request(r) \/ finalize_middleware_response_stream(r)
    \/ forward_chat_completion_request(r) \/ run_buffered(r)

CompletionNext ==
    \/ (Tick \/ \E m \in Messages : Send(m)) /\ UNCHANGED responseVars
    \/ \E r \in Requests :
          \/ NextRequest(r) \/ Enter(r) \/ Admission(r) \/ Admit(r)
          \/ Serve(r) \/ StreamEnds(r) \/ StreamBreaks(r)

CompletionSpec == CompletionInit /\ [][CompletionNext]_completionVars

-----------------------------------------------------------------------------
\* Types, and only a request that asked for it is streamed.
CompletionTypeOK ==
    /\ middleware \in BOOLEAN
    /\ call \in [Requests -> [pc : {"new", "admit", "serve", "streaming", "answered"},
                             sealed : BOOLEAN, stream : BOOLEAN, response : Response]]
    /\ \A r \in Requests : call[r].pc = "streaming" => call[r].stream
    /\ receipts \subseteq Requests

\* A response sent to the end names a receipt exactly when that receipt is
\* stored: no id is handed out for a receipt that does not exist, and none is
\* stored for a response that failed after it, on either path, buffered or
\* streamed (completion::run, forward_to_backend).
NamedReceiptIsStored ==
    /\ AdmissionTypeOK
    /\ CompletionTypeOK
    /\ \A r \in Requests : call[r].pc = "answered" =>
        (r \in receipts <=> call[r].response.receipt /\ call[r].response.complete)

\* With a middleware, or buffered, what a provider generated reaches an E2EE
\* client only encrypted and marked so, whatever form the provider's body had
\* (encrypt_e2ee_response_body, finalize_middleware_response_stream).
OutputEncrypted ==
    \A r \in Requests :
        /\ call[r].sealed
        /\ middleware \/ ~call[r].stream
        /\ call[r].response.output # "none"
        => call[r].response.output = "encrypted" /\ call[r].response.e2ee

=============================================================================
