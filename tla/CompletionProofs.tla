-------------------------- MODULE CompletionProofs --------------------------
(***************************************************************************)
(* What the client of an inference request gets, and the replay window of   *)
(* encrypted requests, for any number of requests, messages and timestamps *)
(* and a window of any length.                                             *)
(*                                                                         *)
(* An entry of the replay cache expires a window after the clock reading   *)
(* of the request that made it, and other requests purge it with readings  *)
(* of their own.  The invariant ties both to the time of the acceptance:   *)
(* readings lag the clock by at most one second, so does an entry, and a   *)
(* tuple without an entry was accepted a window ago.  The responses follow *)
(* from what a call has sent and stored at each of its steps (Fits).       *)
(***************************************************************************)
EXTENDS Completion, TLAPS

\* A request about to claim works with a reading at most a second old.
Reads ==
    \A r \in Requests : req[r].pc = "claim" =>
        req[r].message \in Messages /\ req[r].read <= now /\ now <= req[r].read + 1

\* The cache against the acceptances.
Entries ==
    \A m \in Messages :
        IF m \in DOMAIN e2ee_replay
        THEN /\ claimed[m] \in Nat
             /\ e2ee_replay[m] <= claimed[m] + Window
             /\ claimed[m] + Window <= e2ee_replay[m] + 1
        ELSE claimed[m] # None => claimed[m] + Window <= now + 1

ReplayInv == AdmissionTypeOK /\ Reads /\ Entries

\* A request: its step and, up to the claim, its message and reading.
RequestRecord ==
    [pc : {"new", "claim", "decrypt", "admitted", "refused", "repeated"},
     message : Messages \cup {None}, read : Nat]

\* A step that leaves clock, cache and acceptances alone and starts no claim
\* keeps the invariant.
LEMMA OtherSteps ==
    ASSUME ReplayInv, UNCHANGED <<now, e2ee_replay, claimed>>,
           timestamp' \in [Messages -> Nat \cup {None}],
           req' \in [Requests -> RequestRecord],
           \A r \in Requests : req'[r].pc = "claim" => req'[r] = req[r]
    PROVE  ReplayInv'
<1>1. AdmissionTypeOK'
  BY DEF ReplayInv, AdmissionTypeOK, RequestRecord
<1>2. Reads'
  BY DEF ReplayInv, Reads
<1>3. Entries'
  BY DEF ReplayInv, Entries
<1> QED
  BY <1>1, <1>2, <1>3 DEF ReplayInv

\* Leaving the steps up to the claim keeps requests well typed.
LEMMA GotoTyped ==
    ASSUME ReplayInv, NEW r \in Requests,
           NEW pc \in {"new", "decrypt", "admitted", "refused", "repeated"}, Goto(r, pc)
    PROVE  /\ req' \in [Requests -> RequestRecord]
           /\ \A q \in Requests : req'[q].pc = "claim" => req'[q] = req[q]
<1>1. [NewRequest EXCEPT !.pc = pc] = [pc |-> pc, message |-> None, read |-> 0]
  BY DEF NewRequest
<1>2. req' = [req EXCEPT ![r] = [pc |-> pc, message |-> None, read |-> 0]]
  BY ZenonT(30), <1>1 DEF Goto
<1> QED
  BY <1>2 DEF ReplayInv, AdmissionTypeOK, RequestRecord

\* The clock moves only when every reading is current.
LEMMA TickKeeps == ASSUME ReplayInv, Tick PROVE ReplayInv'
<1>1. now \in Nat /\ now' = now + 1 /\ now' \in 0..MaxTime
  BY AdmissionAssumption DEF Tick, ReplayInv, AdmissionTypeOK
<1>2. AdmissionTypeOK'
  BY <1>1 DEF Tick, ReplayInv, AdmissionTypeOK
<1>3. Reads'
  BY <1>1 DEF Tick, ReplayInv, Reads, AdmissionTypeOK
<1>4. Entries'
  <2> SUFFICES ASSUME NEW m \in Messages, m \notin DOMAIN e2ee_replay, claimed[m] # None
               PROVE  claimed[m] + Window <= now' + 1
    BY DEF Tick, ReplayInv, Entries
  <2>1. claimed[m] \in Nat /\ claimed[m] + Window <= now + 1
    BY DEF ReplayInv, Entries, AdmissionTypeOK
  <2> QED
    BY <1>1, <2>1, AdmissionAssumption
<1> QED
  BY <1>2, <1>3, <1>4 DEF ReplayInv

\* What the cache says of the tuple a request is about to claim: an entry that
\* counts at its reading is of an acceptance less than a window ago, give or
\* take a second, and without one the last acceptance is a window back.
LEMMA ClaimJudged ==
    ASSUME ReplayInv, NEW r \in Requests, req[r].pc = "claim"
    PROVE  LET m == req[r].message IN
           /\ m \in Retained(req[r].read) => claimed[m] \in Nat /\ now <= claimed[m] + Window
           /\ m \notin Retained(req[r].read) /\ claimed[m] # None => now + 1 >= claimed[m] + Window
<1> DEFINE m == req[r].message
<1>1. m \in Messages /\ req[r].read <= now /\ now <= req[r].read + 1
  BY DEF ReplayInv, Reads
<1>2. now \in Nat /\ req[r].read \in Nat /\ Window \in Nat /\ claimed[m] \in Nat \cup {None}
  BY <1>1, AdmissionAssumption DEF ReplayInv, AdmissionTypeOK
<1>3. ASSUME m \in DOMAIN e2ee_replay
      PROVE  /\ e2ee_replay[m] \in Nat /\ claimed[m] \in Nat
             /\ e2ee_replay[m] <= claimed[m] + Window
             /\ claimed[m] + Window <= e2ee_replay[m] + 1
  BY <1>1, <1>3 DEF ReplayInv, AdmissionTypeOK, Entries
<1>4. ASSUME m \notin DOMAIN e2ee_replay, claimed[m] # None
      PROVE  claimed[m] + Window <= now + 1
  BY <1>1, <1>4 DEF ReplayInv, Entries
<1> HIDE DEF m
<1>5. m \in Retained(req[r].read) => claimed[m] \in Nat /\ now <= claimed[m] + Window
  BY <1>1, <1>2, <1>3 DEF Retained
<1>6. m \notin Retained(req[r].read) /\ claimed[m] # None => now + 1 >= claimed[m] + Window
  <2>1. CASE m \in DOMAIN e2ee_replay
    BY <1>1, <1>2, <1>3, <2>1 DEF Retained
  <2>2. CASE m \notin DOMAIN e2ee_replay
    BY <1>2, <1>4, <2>2
  <2> QED
    BY <2>1, <2>2
<1> QED
  BY <1>5, <1>6 DEF m

\* The claim: purging with the reading drops only entries that are due, and a
\* new entry expires a window after the acceptance or a second sooner.
LEMMA ClaimKeeps ==
    ASSUME ReplayInv, NEW r \in Requests, claim_e2ee_replay(r)
    PROVE  ReplayInv'
<1> DEFINE kept == Retained(req[r].read)
           m0   == req[r].message
           read == req[r].read
<1>1. m0 \in Messages /\ read <= now /\ now <= read + 1
  BY DEF ReplayInv, Reads, claim_e2ee_replay
<1>2. now \in Nat /\ read \in Nat /\ Window \in Nat
  BY AdmissionAssumption DEF ReplayInv, AdmissionTypeOK
<1>3. kept \subseteq DOMAIN e2ee_replay /\ DOMAIN e2ee_replay \subseteq Messages
  BY DEF Retained, ReplayInv, AdmissionTypeOK
<1>4. \A m \in DOMAIN e2ee_replay :
        /\ e2ee_replay[m] \in Nat /\ claimed[m] \in Nat
        /\ e2ee_replay[m] <= claimed[m] + Window
        /\ claimed[m] + Window <= e2ee_replay[m] + 1
  BY DEF ReplayInv, AdmissionTypeOK, Entries
<1>5. \A m \in Messages \ kept : claimed[m] # None => claimed[m] + Window <= now + 1
  <2> SUFFICES ASSUME NEW m \in Messages \ kept, claimed[m] # None
               PROVE  claimed[m] + Window <= now + 1
    OBVIOUS
  <2>1. CASE m \in DOMAIN e2ee_replay
    <3>1. e2ee_replay[m] <= read
      BY <1>2, <1>4, <2>1 DEF Retained
    <3> QED
      BY <1>1, <1>2, <1>4, <2>1, <3>1
  <2>2. CASE m \notin DOMAIN e2ee_replay
    BY <2>2 DEF ReplayInv, Entries
  <2> QED
    BY <2>1, <2>2
<1>6. now' = now /\ timestamp' = timestamp
  BY DEF claim_e2ee_replay
<1>7. /\ req' \in [Requests -> RequestRecord]
      /\ \A q \in Requests : req'[q].pc = "claim" => req'[q] = req[q]
  BY GotoTyped DEF claim_e2ee_replay
<1>8. Reads'
  BY <1>6, <1>7 DEF ReplayInv, Reads
<1>9. CASE m0 \in kept
  <2>1. e2ee_replay' = [m \in kept |-> e2ee_replay[m]] /\ claimed' = claimed
    BY <1>9 DEF claim_e2ee_replay
  <2> HIDE DEF kept, m0, read
  <2>2. AdmissionTypeOK'
    BY <1>3, <1>4, <1>6, <1>7, <2>1 DEF ReplayInv, AdmissionTypeOK, RequestRecord
  <2>3. Entries'
    BY <1>3, <1>4, <1>5, <1>6, <2>1 DEF Entries
  <2> QED
    BY <1>8, <2>2, <2>3 DEF ReplayInv
<1>10. CASE m0 \notin kept
  <2>1. /\ e2ee_replay' = [m \in kept \cup {m0} |->
                             IF m = m0 THEN read + Window ELSE e2ee_replay[m]]
        /\ claimed' = [claimed EXCEPT ![m0] = now]
    BY <1>10 DEF claim_e2ee_replay
  <2>2. claimed \in [Messages -> Nat \cup {None}]
    BY DEF ReplayInv, AdmissionTypeOK
  <2> HIDE DEF kept, m0, read
  <2>3. /\ DOMAIN e2ee_replay' = kept \cup {m0}
        /\ e2ee_replay'[m0] = read + Window /\ claimed'[m0] = now
        /\ \A m \in kept \ {m0} : e2ee_replay'[m] = e2ee_replay[m]
        /\ \A m \in Messages \ {m0} : claimed'[m] = claimed[m]
    BY <1>1, <2>1, <2>2
  <2>4. AdmissionTypeOK'
    <3>1. claimed' \in [Messages -> Nat \cup {None}]
      BY <1>1, <1>2, <2>1, <2>2
    <3>2. \A m \in DOMAIN e2ee_replay' : e2ee_replay'[m] \in Nat
      BY <1>2, <1>3, <1>4, <2>3
    <3>3. DOMAIN e2ee_replay' \subseteq Messages
      BY <1>1, <1>3, <2>3
    <3> QED
      BY <1>6, <1>7, <3>1, <3>2, <3>3 DEF ReplayInv, AdmissionTypeOK, RequestRecord
  <2>5. Entries'
    <3> SUFFICES ASSUME NEW m \in Messages
                 PROVE  IF m \in DOMAIN e2ee_replay'
                        THEN /\ claimed'[m] \in Nat
                             /\ e2ee_replay'[m] <= claimed'[m] + Window
                             /\ claimed'[m] + Window <= e2ee_replay'[m] + 1
                        ELSE claimed'[m] # None => claimed'[m] + Window <= now' + 1
      BY DEF Entries
    <3>1. CASE m = m0
      BY <1>1, <1>2, <2>3, <3>1
    <3>2. CASE m # m0 /\ m \in kept
      BY <1>3, <1>4, <2>3, <3>2
    <3>3. CASE m # m0 /\ m \notin kept
      BY <1>5, <1>6, <2>3, <3>3
    <3> QED
      BY <3>1, <3>2, <3>3
  <2> QED
    BY <1>8, <2>4, <2>5 DEF ReplayInv
<1> QED
  BY <1>9, <1>10

\* The first checks of an encrypted request take a current reading.
LEMMA PrepareKeeps ==
    ASSUME ReplayInv, NEW r \in Requests, NEW m \in Messages, prepare_e2ee_v2_request(r, m)
    PROVE  ReplayInv'
<1>1. CASE Goto(r, "refused")
  <2>1. UNCHANGED <<now, timestamp, e2ee_replay, claimed>>
    BY DEF prepare_e2ee_v2_request
  <2>2. timestamp' \in [Messages -> Nat \cup {None}]
    BY <2>1 DEF ReplayInv, AdmissionTypeOK
  <2> QED
    BY <1>1, <2>1, <2>2, GotoTyped, OtherSteps
<1>2. CASE req' = [req EXCEPT ![r] = [pc |-> "claim", message |-> m, read |-> now]]
  <2>1. UNCHANGED <<now, timestamp, e2ee_replay, claimed>>
    BY DEF prepare_e2ee_v2_request
  <2>2. now \in Nat
    BY DEF ReplayInv, AdmissionTypeOK
  <2>3. AdmissionTypeOK'
    BY <1>2, <2>1, <2>2 DEF ReplayInv, AdmissionTypeOK
  <2>4. Reads'
    BY <1>2, <2>1, <2>2 DEF ReplayInv, Reads, AdmissionTypeOK
  <2>5. Entries'
    BY <2>1 DEF ReplayInv, Entries
  <2> QED
    BY <2>3, <2>4, <2>5 DEF ReplayInv
<1> QED
  BY <1>1, <1>2 DEF prepare_e2ee_v2_request

\* Every step of the admission of a request.
LEMMA AdmissionKeeps ==
    ASSUME ReplayInv, NEW r \in Requests, Admission(r)
    PROVE  ReplayInv'
<1>1. ASSUME NEW m \in Messages, prepare_e2ee_v2_request(r, m) PROVE ReplayInv'
  BY <1>1, PrepareKeeps
<1>2. CASE claim_e2ee_replay(r)
  BY <1>2, ClaimKeeps
<1>3. CASE BadRequest(r) \/ prepare_legacy_e2ee_request(r) \/ decrypt_request_payload(r)
  <2>1. UNCHANGED <<now, timestamp, e2ee_replay, claimed>>
    BY <1>3 DEF BadRequest, prepare_legacy_e2ee_request, decrypt_request_payload
  <2>2. timestamp' \in [Messages -> Nat \cup {None}]
    BY <2>1 DEF ReplayInv, AdmissionTypeOK
  <2>3. PICK pc \in {"new", "decrypt", "admitted", "refused", "repeated"} : Goto(r, pc)
    BY <1>3 DEF BadRequest, prepare_legacy_e2ee_request, decrypt_request_payload
  <2> QED
    BY <2>1, <2>2, <2>3, GotoTyped, OtherSteps
<1> QED
  BY <1>1, <1>2, <1>3 DEF Admission

\* What a step does to the admission: a tick, a first sending, a step of the
\* admission of a request, a slot used again, or nothing.
LEMMA StepAdmits ==
    ASSUME [CompletionNext]_completionVars
    PROVE  \/ Tick
           \/ \E m \in Messages : Send(m)
           \/ \E r \in Requests : NextRequest(r) \/ Admission(r)
           \/ UNCHANGED admissionVars
<1>1. ASSUME NEW r \in Requests,
             Enter(r) \/ Admit(r) \/ Serve(r) \/ StreamEnds(r) \/ StreamBreaks(r)
      PROVE  UNCHANGED admissionVars
  <2>1. CASE Enter(r) \/ Admit(r) \/ StreamEnds(r) \/ StreamBreaks(r)
    BY ZenonT(30), <2>1 DEF Enter, Admit, StreamEnds, StreamBreaks
  <2>2. CASE Serve(r)
    BY ZenonT(30), <2>2 DEF Serve, NothingServed, StreamRefused, forward_chat_completion_stream_request,
       finalize_middleware_response_stream, StreamBegins, forward_chat_completion_request,
       run_buffered, Buffered
  <2> QED
    BY <1>1, <2>1, <2>2
<1>2. CASE UNCHANGED completionVars
  BY <1>2 DEF completionVars
<1> QED
  BY <1>1, <1>2 DEF CompletionNext

LEMMA ReplayInit ==
    ASSUME CompletionInit
    PROVE  ReplayInv
<1>1. AdmissionTypeOK
  BY AdmissionAssumption DEF CompletionInit, AdmissionInit, AdmissionTypeOK, NewRequest
<1>2. Reads
  BY DEF CompletionInit, AdmissionInit, NewRequest, Reads
<1>3. Entries
  BY DEF CompletionInit, AdmissionInit, Entries
<1> QED
  BY <1>1, <1>2, <1>3 DEF ReplayInv

\* Every step keeps the invariant.
LEMMA ReplayStep ==
    ASSUME ReplayInv, [CompletionNext]_completionVars
    PROVE  ReplayInv'
<1>1. CASE Tick
  BY <1>1, TickKeeps
<1>2. ASSUME NEW m \in Messages, Send(m) PROVE ReplayInv'
  <2>1. timestamp' \in [Messages -> Nat \cup {None}]
    BY <1>2, AdmissionAssumption DEF Send, ReplayInv, AdmissionTypeOK
  <2>2. req' \in [Requests -> RequestRecord]
    BY <1>2 DEF Send, ReplayInv, AdmissionTypeOK, RequestRecord
  <2> QED
    BY <1>2, <2>1, <2>2, OtherSteps DEF Send
<1>3. ASSUME NEW r \in Requests, NextRequest(r) PROVE ReplayInv'
  <2>1. UNCHANGED <<now, timestamp, e2ee_replay, claimed>>
    BY <1>3 DEF NextRequest
  <2>2. timestamp' \in [Messages -> Nat \cup {None}]
    BY <2>1 DEF ReplayInv, AdmissionTypeOK
  <2>3. Goto(r, "new")
    BY ZenonT(30), <1>3 DEF NextRequest, Goto, NewRequest
  <2> QED
    BY <2>1, <2>2, <2>3, GotoTyped, OtherSteps
<1>4. ASSUME NEW r \in Requests, Admission(r) PROVE ReplayInv'
  BY <1>4, AdmissionKeeps
<1>5. CASE UNCHANGED admissionVars
  BY <1>5 DEF admissionVars, ReplayInv, AdmissionTypeOK, Reads, Entries
<1> QED
  BY <1>1, <1>2, <1>3, <1>4, <1>5, StepAdmits

\* Only the claim takes a request from the claim to the decryption or to the
\* refusal of a repetition.
LEMMA ClaimsByClaiming ==
    ASSUME ReplayInv, [CompletionNext]_completionVars, NEW r \in Requests,
           Claims(r, "decrypt") \/ Claims(r, "repeated")
    PROVE  claim_e2ee_replay(r)
<1> USE DEF Claims
<1>0. req \in [Requests -> RequestRecord]
  BY DEF ReplayInv, AdmissionTypeOK, RequestRecord
<1>1. ~ Tick /\ ~ UNCHANGED admissionVars /\ \A m \in Messages : ~ Send(m)
  BY DEF Tick, Send, admissionVars
<1>2. PICK q \in Requests : NextRequest(q) \/ Admission(q)
  BY <1>1, StepAdmits
<1>3. CASE NextRequest(q)
  BY <1>0, <1>3 DEF NextRequest, NewRequest
<1>4. CASE Admission(q)
  <2>1. q = r
    BY <1>0, <1>4 DEF Admission, prepare_e2ee_v2_request, BadRequest,
       prepare_legacy_e2ee_request, claim_e2ee_replay, decrypt_request_payload, Goto
  <2> QED
    BY SMTT(30), <1>4, <2>1 DEF Admission, prepare_e2ee_v2_request, BadRequest,
       prepare_legacy_e2ee_request, decrypt_request_payload
<1> QED
  BY <1>2, <1>3, <1>4

\* Two acceptances of one tuple are a window apart, and a refusal as a
\* repetition names an acceptance less than a window ago, each up to the second
\* between reading the clock and the claim: for any requests, messages,
\* timestamps and length of the window (claim_e2ee_replay).
THEOREM ReplayWindowHolds == CompletionSpec => AcceptancesApart
<1>1. ReplayInv /\ [CompletionNext]_completionVars =>
        [\A r \in Requests :
           LET last == claimed[req[r].message] IN
           /\ Claims(r, "decrypt") /\ last # None => now + 1 >= last + Window
           /\ Claims(r, "repeated") => last # None /\ now <= last + Window]_admissionVars
  <2> SUFFICES ASSUME ReplayInv, [CompletionNext]_completionVars, NEW r \in Requests
               PROVE  LET last == claimed[req[r].message] IN
                      /\ Claims(r, "decrypt") /\ last # None => now + 1 >= last + Window
                      /\ Claims(r, "repeated") => last # None /\ now <= last + Window
    OBVIOUS
  <2>1. ASSUME Claims(r, "decrypt"), claimed[req[r].message] # None
        PROVE  now + 1 >= claimed[req[r].message] + Window
    <3>1. claim_e2ee_replay(r)
      BY <2>1, ClaimsByClaiming
    <3>2. req \in [Requests -> RequestRecord]
      BY DEF ReplayInv, AdmissionTypeOK, RequestRecord
    <3>3. req[r].message \notin Retained(req[r].read)
      BY <2>1, <3>1, <3>2 DEF claim_e2ee_replay, Goto, NewRequest, Claims
    <3> QED
      BY <2>1, <3>3, ClaimJudged DEF Claims
  <2>2. ASSUME Claims(r, "repeated")
        PROVE  claimed[req[r].message] # None /\ now <= claimed[req[r].message] + Window
    <3>1. claim_e2ee_replay(r)
      BY <2>2, ClaimsByClaiming
    <3>2. req \in [Requests -> RequestRecord]
      BY DEF ReplayInv, AdmissionTypeOK, RequestRecord
    <3>3. req[r].message \in Retained(req[r].read)
      BY <2>2, <3>1, <3>2 DEF claim_e2ee_replay, Goto, NewRequest, Claims
    <3> QED
      BY <2>2, <3>3, ClaimJudged, AdmissionAssumption DEF Claims
  <2> QED
    BY <2>1, <2>2
<1> QED
  BY <1>1, ReplayInit, ReplayStep, PTL DEF CompletionSpec, AcceptancesApart

-----------------------------------------------------------------------------
(* The responses.                                                          *)

CallType ==
    [pc : {"new", "admit", "serve", "streaming", "answered"},
     sealed : BOOLEAN, stream : BOOLEAN, response : Response]

\* What a call c has sent, against whether its receipt is stored.
Fits(c, stored) ==
    /\ c.pc \in {"new", "admit", "serve"} => c.response = NoResponse /\ ~stored
    /\ c.pc = "streaming" =>
          c.stream /\ c.response.receipt /\ ~c.response.complete /\ ~stored
    /\ c.pc = "answered" => (stored <=> c.response.receipt /\ c.response.complete)
    /\ c.sealed /\ (middleware \/ ~c.stream) /\ c.response.output # "none" =>
          c.response.output = "encrypted" /\ c.response.e2ee

CallsInv ==
    /\ middleware \in BOOLEAN
    /\ receipts \subseteq Requests
    /\ call \in [Requests -> CallType]
    /\ \A r \in Requests : Fits(call[r], r \in receipts)

\* A step of one call.
LEMMA CallStep ==
    ASSUME CallsInv, NEW r \in Requests, NEW c \in CallType, call' = [call EXCEPT ![r] = c],
           UNCHANGED middleware, receipts' \ {r} = receipts \ {r},
           Fits(c, r \in receipts')
    PROVE  CallsInv'
<1>1. call' \in [Requests -> CallType] /\ receipts' \subseteq Requests
  BY DEF CallsInv
<1>2. ASSUME NEW q \in Requests PROVE Fits(call[q], q \in receipts)'
  <2>1. CASE q = r
    <3>1. call'[q] = c
      BY <2>1 DEF CallsInv
    <3> QED
      BY <2>1, <3>1 DEF Fits
  <2>2. CASE q # r
    <3>1. call'[q] = call[q] /\ (q \in receipts' <=> q \in receipts)
      BY <2>2 DEF CallsInv
    <3>2. Fits(call[q], q \in receipts)
      BY DEF CallsInv
    <3> QED
      BY <3>1, <3>2 DEF Fits
  <2> QED
    BY <2>1, <2>2
<1> QED
  BY <1>1, <1>2 DEF CallsInv

\* What the gateway makes up itself.
Bare(response) ==
    response \in Response /\ ~response.receipt /\ response.output = "none"

\* An answer that stores nothing and names no receipt fits: it carries no output
\* of a provider.
LEMMA AnswerKeeps ==
    ASSUME CallsInv, NEW r \in Requests, call[r].pc \in {"new", "admit", "serve"},
           NEW response, Bare(response), Answer(r, response), UNCHANGED <<middleware, receipts>>
    PROVE  CallsInv'
<1> DEFINE c == [call[r] EXCEPT !.pc = "answered", !.response = response]
<1>1. call[r] \in CallType /\ call \in [Requests -> CallType]
  BY DEF CallsInv
<1>2. call' = [call EXCEPT ![r] = c]
  BY ZenonT(30), <1>1 DEF Answer
<1>3. /\ c \in CallType
      /\ c.pc = "answered" /\ c.response = response
  BY ZenonT(30), <1>1 DEF CallType, Bare
<1>4. r \notin receipts
  BY DEF CallsInv, Fits
<1> HIDE DEF c
<1>5. Fits(c, r \in receipts')
  BY <1>3, <1>4 DEF Fits, Bare
<1> QED
  BY ZenonT(30), <1>2, <1>3, <1>5, CallStep

LEMMA GatewayAnswers ==
    ASSUME NEW r \in Requests, NEW provider \in BOOLEAN
    PROVE  Bare(Refusal) /\ Bare([Refusal EXCEPT !.provider = TRUE]) /\ Bare(Generated(r, provider))
<1>1. NoResponse \in Response /\ NoResponse.receipt = FALSE /\ NoResponse.output = "none"
  BY DEF NoResponse, Response
<1>2. Refusal \in Response /\ Refusal.receipt = FALSE /\ Refusal.output = "none"
  BY ZenonT(30), <1>1 DEF Refusal, Response
<1>3. Bare(Refusal) /\ Bare([Refusal EXCEPT !.provider = TRUE])
  BY ZenonT(30), <1>2 DEF Bare, Response
<1>4. Bare(Generated(r, provider))
  <2> DEFINE marked == middleware /\ call[r].sealed
  <2>1. marked \in BOOLEAN
    OBVIOUS
  <2>2. Generated(r, provider) = [Refusal EXCEPT !.e2ee = marked, !.provider = provider]
    BY DEF Generated
  <2> HIDE DEF marked
  <2> QED
    BY ZenonT(30), <1>2, <2>1, <2>2 DEF Bare, Response
<1> QED
  BY <1>3, <1>4

\* Before a call is served.
LEMMA EntryKeeps ==
    ASSUME CallsInv, NEW r \in Requests, NextRequest(r) \/ Enter(r) \/ Admit(r)
    PROVE  CallsInv'
<1>1. call[r] \in CallType /\ call \in [Requests -> CallType] /\ Fits(call[r], r \in receipts)
  BY DEF CallsInv
<1>2. NewCall \in CallType /\ NewCall.pc = "new" /\ NewCall.response = NoResponse
  BY DEF NewCall, CallType, Response, NoResponse
<1>3. NoResponse.output = "none"
  BY DEF NoResponse
<1>4. CASE NextRequest(r)
  <2>1. /\ call' = [call EXCEPT ![r] = NewCall] /\ r \notin receipts'
        /\ receipts' \ {r} = receipts \ {r} /\ UNCHANGED middleware
    BY <1>4 DEF NextRequest
  <2>2. Fits(NewCall, r \in receipts')
    BY <1>2, <1>3, <2>1 DEF Fits
  <2> QED
    BY ZenonT(30), <1>2, <2>1, <2>2, CallStep
<1>5. CASE Enter(r)
  <2>1. UNCHANGED <<middleware, receipts>> /\ call[r].pc = "new"
    BY ZenonT(30), <1>5 DEF Enter
  <2>2. r \notin receipts
    BY <1>1, <2>1 DEF Fits
  <2>3. CASE Answer(r, Refusal)
    BY ZenonT(30), <2>1, <2>3, GatewayAnswers, AnswerKeeps
  <2>4. ASSUME NEW sealed \in BOOLEAN, NEW stream \in BOOLEAN,
               call' = [call EXCEPT ![r] = [NewCall EXCEPT !.pc = "admit", !.sealed = sealed,
                                                           !.stream = stream]]
        PROVE  CallsInv'
    <3> DEFINE c == [NewCall EXCEPT !.pc = "admit", !.sealed = sealed, !.stream = stream]
    <3>1. c \in CallType /\ c.pc = "admit" /\ c.response = NoResponse
      BY ZenonT(30), <1>2 DEF CallType
    <3>2. call' = [call EXCEPT ![r] = c]
      BY <2>4
    <3> HIDE DEF c
    <3>3. Fits(c, r \in receipts')
      BY <1>3, <2>1, <2>2, <3>1 DEF Fits
    <3> QED
      BY ZenonT(30), <2>1, <3>1, <3>2, <3>3, CallStep
  <2>5. \A endpoint \in Endpoints, stream \in BOOLEAN : Streams(endpoint, stream) \in BOOLEAN
    BY DEF Streams
  <2> QED
    BY ZenonT(30), <1>5, <2>3, <2>4, <2>5 DEF Enter
<1>6. CASE Admit(r)
  <2>1. UNCHANGED <<middleware, receipts>> /\ call[r].pc = "admit"
    BY <1>6 DEF Admit
  <2>2. r \notin receipts /\ call[r].response = NoResponse
    BY <1>1, <2>1 DEF Fits
  <2>3. CASE Answer(r, Refusal)
    BY ZenonT(30), <2>1, <2>3, GatewayAnswers, AnswerKeeps
  <2>4. CASE call' = [call EXCEPT ![r].pc = "serve"]
    <3> DEFINE c == [call[r] EXCEPT !.pc = "serve"]
    <3>1. c \in CallType /\ c.pc = "serve" /\ c.response = NoResponse
      BY <1>1, <2>2 DEF CallType
    <3>2. call' = [call EXCEPT ![r] = c]
      BY <2>4
    <3> HIDE DEF c
    <3>3. Fits(c, r \in receipts')
      BY <1>3, <2>1, <2>2, <3>1 DEF Fits
    <3> QED
      BY ZenonT(30), <2>1, <3>1, <3>2, <3>3, CallStep
  <2> QED
    BY <1>6, <2>3, <2>4 DEF Admit
<1> QED
  BY <1>4, <1>5, <1>6

\* The headers of a stream: what cannot be encrypted is let through only by the
\* direct path.
LEMMA StreamBeginsKeeps ==
    ASSUME CallsInv, NEW r \in Requests, NEW answer \in Answers, StreamBegins(r, answer),
           ~middleware \/ ~Unencryptable(r, answer)
    PROVE  CallsInv'
<1> DEFINE output == Output(r, answer)
           response == [receipt |-> TRUE, e2ee |-> call[r].sealed, provider |-> TRUE,
                        output |-> output, complete |-> FALSE]
           c == [call[r] EXCEPT !.pc = "streaming", !.response = response]
<1>1. /\ call[r] \in CallType /\ call \in [Requests -> CallType]
      /\ Fits(call[r], r \in receipts)
  BY DEF CallsInv
<1>2. call[r].pc = "serve" /\ call[r].stream /\ UNCHANGED <<middleware, receipts>>
  BY DEF StreamBegins
<1>3. call' = [call EXCEPT ![r] = c]
  BY ZenonT(30), <1>1 DEF StreamBegins
<1>4. /\ output \in {"clear", "encrypted"}
      /\ call[r].sealed /\ middleware => output = "encrypted"
  BY DEF Output, Unencryptable
<1> HIDE DEF output
<1>5. /\ response \in Response /\ response.receipt = TRUE /\ response.complete = FALSE
      /\ response.output = output /\ response.e2ee = call[r].sealed
  BY <1>1, <1>4 DEF Response, CallType
<1> HIDE DEF response
<1>6. /\ c \in CallType /\ c.pc = "streaming" /\ c.response = response
      /\ c.sealed = call[r].sealed /\ c.stream = call[r].stream
  BY ZenonT(30), <1>1, <1>5 DEF CallType
<1> HIDE DEF c
<1>7. r \notin receipts'
  BY <1>1, <1>2 DEF Fits
<1>8. Fits(c, r \in receipts')
  BY <1>2, <1>4, <1>5, <1>6, <1>7 DEF Fits
<1> QED
  BY ZenonT(30), <1>2, <1>3, <1>6, <1>8, CallStep

\* A buffered answer: a body that cannot be encrypted for its client is not
\* usable.
LEMMA BufferedKeeps ==
    ASSUME CallsInv, NEW r \in Requests, NEW answer \in Answers, NEW unusable \in BOOLEAN,
           Buffered(r, answer, unusable),
           call[r].sealed /\ answer.success /\ ~unusable => answer.wellFormed
    PROVE  CallsInv'
<1>1. /\ call[r] \in CallType /\ call \in [Requests -> CallType]
      /\ Fits(call[r], r \in receipts)
  BY DEF CallsInv
<1>2. call[r].pc = "serve" /\ ~call[r].stream /\ UNCHANGED middleware
  BY DEF Buffered
<1>3. CASE unusable
  <2>1. Answer(r, Generated(r, TRUE)) /\ UNCHANGED receipts
    BY ZenonT(30), <1>3 DEF Buffered
  <2> QED
    BY ZenonT(30), <1>2, <2>1, GatewayAnswers, AnswerKeeps
<1>4. CASE ~unusable
  <2> DEFINE response == Receipted(r, answer)
             c == [call[r] EXCEPT !.pc = "answered", !.response = response]
  <2>1. call' = [call EXCEPT ![r] = c] /\ receipts' = receipts \cup {r}
    BY ZenonT(30), <1>1, <1>4 DEF Buffered, Answer
  <2>2. /\ response.output \in {"none", "clear", "encrypted"}
        /\ call[r].sealed /\ response.output # "none" => response.output = "encrypted"
    BY <1>4 DEF Receipted, Output
  <2>3. /\ response \in Response /\ response.receipt = TRUE /\ response.complete = TRUE
        /\ response.e2ee = call[r].sealed
    BY <1>1, <2>2 DEF Receipted, Response, CallType
  <2> HIDE DEF response
  <2>4. /\ c \in CallType /\ c.pc = "answered" /\ c.response = response
        /\ c.sealed = call[r].sealed /\ c.stream = call[r].stream
    BY ZenonT(30), <1>1, <2>3 DEF CallType
  <2> HIDE DEF c
  <2>5. r \in receipts' /\ receipts' \ {r} = receipts \ {r}
    BY <2>1
  <2>6. Fits(c, r \in receipts')
    BY <2>2, <2>3, <2>4, <2>5 DEF Fits
  <2> QED
    BY ZenonT(30), <1>2, <2>1, <2>4, <2>5, <2>6, CallStep
<1> QED
  BY <1>3, <1>4

LEMMA ServeKeeps ==
    ASSUME CallsInv, NEW r \in Requests, Serve(r)
    PROVE  CallsInv'
<1>1. CASE NothingServed(r) \/ StreamRefused(r)
  <2>1. PICK provider \in BOOLEAN : Answer(r, Generated(r, provider))
    BY ZenonT(30), <1>1 DEF NothingServed, StreamRefused
  <2>2. call[r].pc = "serve" /\ UNCHANGED <<middleware, receipts>>
    BY ZenonT(30), <1>1 DEF NothingServed, StreamRefused
  <2> QED
    BY <2>1, <2>2, GatewayAnswers, AnswerKeeps
<1>2. CASE forward_chat_completion_stream_request(r)
  BY <1>2, StreamBeginsKeeps DEF forward_chat_completion_stream_request
<1>3. CASE finalize_middleware_response_stream(r)
  <2>1. PICK answer \in Answers :
            \/ ~Unencryptable(r, answer) /\ StreamBegins(r, answer)
            \/ /\ call[r].pc = "serve"
               /\ Answer(r, [Refusal EXCEPT !.provider = TRUE])
               /\ UNCHANGED <<middleware, receipts>>
    BY ZenonT(30), <1>3 DEF finalize_middleware_response_stream
  <2> QED
    BY ZenonT(30), <2>1, StreamBeginsKeeps, GatewayAnswers, AnswerKeeps
<1>4. CASE forward_chat_completion_request(r)
  <2>1. PICK answer \in Answers : Buffered(r, answer, call[r].sealed /\ ~answer.wellFormed)
    BY <1>4 DEF forward_chat_completion_request
  <2>2. (call[r].sealed /\ ~answer.wellFormed) \in BOOLEAN
    OBVIOUS
  <2> QED
    BY ZenonT(30), <2>1, <2>2, BufferedKeeps
<1>5. CASE run_buffered(r)
  <2>1. PICK answer \in Answers : Buffered(r, answer, answer.success /\ ~answer.wellFormed)
    BY <1>5 DEF run_buffered
  <2>2. (answer.success /\ ~answer.wellFormed) \in BOOLEAN
    OBVIOUS
  <2> QED
    BY ZenonT(30), <2>1, <2>2, BufferedKeeps
<1> QED
  BY <1>1, <1>2, <1>3, <1>4, <1>5 DEF Serve

\* The end of a stream, good or bad.
LEMMA StreamKeeps ==
    ASSUME CallsInv, NEW r \in Requests, StreamEnds(r) \/ StreamBreaks(r)
    PROVE  CallsInv'
<1> DEFINE old == call[r].response
<1>1. /\ call[r] \in CallType /\ call \in [Requests -> CallType]
      /\ Fits(call[r], r \in receipts)
  BY DEF CallsInv
<1>2. call[r].pc = "streaming" /\ UNCHANGED middleware
  BY DEF StreamEnds, StreamBreaks
<1>3. old \in Response /\ old.receipt = TRUE /\ old.complete = FALSE /\ r \notin receipts
  BY <1>1, <1>2 DEF Fits, CallType, Response
<1>4. /\ call[r].sealed /\ (middleware \/ ~call[r].stream) /\ old.output # "none" =>
            old.output = "encrypted" /\ old.e2ee
  BY <1>1 DEF Fits
<1>5. CASE StreamEnds(r)
  <2> DEFINE response == [old EXCEPT !.complete = TRUE]
             c == [call[r] EXCEPT !.pc = "answered", !.response = response]
  <2>1. call' = [call EXCEPT ![r] = c] /\ receipts' = receipts \cup {r}
    BY ZenonT(30), <1>1, <1>5 DEF StreamEnds, CallType
  <2>2. /\ response \in Response /\ response.receipt = TRUE /\ response.complete = TRUE
        /\ response.output = old.output /\ response.e2ee = old.e2ee
    BY ZenonT(30), <1>3 DEF Response
  <2> HIDE DEF response, old
  <2>3. /\ c \in CallType /\ c.pc = "answered" /\ c.response = response
        /\ c.sealed = call[r].sealed /\ c.stream = call[r].stream
    BY ZenonT(30), <1>1, <2>2 DEF CallType
  <2> HIDE DEF c
  <2>4. r \in receipts' /\ receipts' \ {r} = receipts \ {r}
    BY <2>1
  <2>5. Fits(c, r \in receipts')
    BY <1>2, <1>4, <2>2, <2>3, <2>4 DEF Fits
  <2> QED
    BY ZenonT(30), <1>2, <2>1, <2>3, <2>4, <2>5, CallStep
<1>6. CASE StreamBreaks(r)
  <2> DEFINE c == [call[r] EXCEPT !.pc = "answered"]
  <2>1. call' = [call EXCEPT ![r] = c] /\ receipts' = receipts
    BY <1>6 DEF StreamBreaks
  <2>2. /\ c \in CallType /\ c.pc = "answered" /\ c.response = old
        /\ c.sealed = call[r].sealed /\ c.stream = call[r].stream
    BY <1>1 DEF CallType
  <2> HIDE DEF c, old
  <2>3. Fits(c, r \in receipts')
    BY <1>2, <1>3, <1>4, <2>1, <2>2 DEF Fits
  <2> QED
    BY ZenonT(30), <1>2, <2>1, <2>2, <2>3, CallStep
<1> QED
  BY <1>5, <1>6

LEMMA CallsStep ==
    ASSUME CallsInv, [CompletionNext]_completionVars
    PROVE  CallsInv'
<1>1. ASSUME UNCHANGED responseVars PROVE CallsInv'
  BY <1>1, Zenon DEF CallsInv, responseVars, Fits
<1>2. ASSUME NEW r \in Requests, Admission(r) PROVE CallsInv'
  BY <1>1, <1>2 DEF Admission
<1>3. CASE UNCHANGED completionVars
  BY <1>1, <1>3 DEF completionVars
<1> QED
  BY <1>1, <1>2, <1>3, EntryKeeps, ServeKeeps, StreamKeeps DEF CompletionNext

LEMMA CallsInit ==
    ASSUME CompletionInit
    PROVE  CallsInv
<1>1. /\ NewCall \in CallType /\ NewCall.pc = "new" /\ NewCall.response = NoResponse
      /\ NoResponse.output = "none"
  BY DEF NewCall, CallType, Response, NoResponse
<1>2. middleware \in BOOLEAN /\ receipts = {} /\ call = [r \in Requests |-> NewCall]
  BY DEF CompletionInit
<1>3. ASSUME NEW r \in Requests PROVE Fits(call[r], r \in receipts)
  <2>1. call[r] = NewCall /\ r \notin receipts
    BY <1>2
  <2> QED
    BY <1>1, <2>1 DEF Fits
<1> QED
  BY <1>1, <1>2, <1>3 DEF CallsInv

\* Every reachable state satisfies both inductive invariants.
THEOREM CompletionInvariant == CompletionSpec => [](ReplayInv /\ CallsInv)
  BY ReplayInit, ReplayStep, CallsInit, CallsStep, PTL DEF CompletionSpec

\* A response sent to the end names a receipt exactly when that receipt is
\* stored, on either path, buffered or streamed (completion::run,
\* forward_to_backend).
THEOREM ReceiptsKeepTheirPromise == CompletionSpec => []NamedReceiptIsStored
<1>1. ReplayInv /\ CallsInv => NamedReceiptIsStored
  <2> SUFFICES ASSUME ReplayInv, CallsInv PROVE NamedReceiptIsStored
    OBVIOUS
  <2>1. \A r \in Requests : call[r].pc = "streaming" => call[r].stream
    BY DEF CallsInv, Fits
  <2>2. CompletionTypeOK
    BY <2>1 DEF CallsInv, CallType, CompletionTypeOK
  <2>3. \A r \in Requests : call[r].pc = "answered" =>
          (r \in receipts <=> call[r].response.receipt /\ call[r].response.complete)
    BY DEF CallsInv, Fits
  <2> QED
    BY <2>2, <2>3 DEF ReplayInv, NamedReceiptIsStored
<1> QED
  BY <1>1, CompletionInvariant, PTL

\* With a middleware, or buffered, a provider's output reaches an E2EE client
\* only encrypted and marked so (encrypt_e2ee_response_body,
\* finalize_middleware_response_stream).
THEOREM OutputStaysEncrypted == CompletionSpec => []OutputEncrypted
<1>1. CallsInv => OutputEncrypted
  BY DEF CallsInv, Fits, OutputEncrypted
<1> QED
  BY <1>1, CompletionInvariant, PTL

=============================================================================
