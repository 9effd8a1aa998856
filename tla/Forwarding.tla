----------------------------- MODULE Forwarding -----------------------------
(***************************************************************************)
(* Forwarding a completion over an ordered list of candidate routes        *)
(* (forward_chat_completion_for_middleware in                              *)
(* src/src/aggregator/service/middleware.rs, and the single-route paths of *)
(* forward.rs, which behave like a list of one), composed with the         *)
(* verifier cache that requests and background refreshes share.            *)
(*                                                                         *)
(* Per candidate a request is prepared, its upstream verified, the         *)
(* fail-closed gate passed, and the body sent over a connection pinned to  *)
(* the verified channel binding.  A binding mismatch refreshes the         *)
(* verification and retries; any other failure moves on to the next        *)
(* candidate.  Responses are abstracted to how the code tells them apart.  *)
(***************************************************************************)
EXTENDS VerifierCache, Sequences

CONSTANTS
    Requests,       \* the callers that are client requests; the others refresh
    Tee,            \* routes whose upstream is a TEE (is_tee # Some(false))
    MaxReverify,    \* CHANNEL_BINDING_REVERIFY_ATTEMPTS
    MaxCandidates,  \* bound on the length of a candidate list
    MaxEffort       \* bound on the candidates and the rotations taken together

ASSUME ForwardingAssumption ==
    /\ Requests \subseteq Callers
    /\ Tee \subseteq Keys
    /\ MaxReverify \in Nat
    /\ MaxCandidates \in Nat
    /\ MaxEffort \in Nat

VARIABLES
    req,            \* the progress of each request
    failed,         \* failed_attempts, with the index and cause of each failure
    sent            \* history: the bodies each request delivered to an upstream

requestVars == <<req, failed, sent>>
forwardingVars == <<channel, cache, verify_lock, call, req, failed, sent>>

\* Candidate lists: the routes of a request are distinct.
Routes ==
    UNION {{q \in [1..n -> Keys] : \A i, j \in 1..n : q[i] = q[j] => i = j}
              : n \in 1..MaxCandidates}

NewRequest ==
    [phase |-> "idle", route |-> <<>>, index |-> 0, required |-> FALSE,
     event |-> FailedEvent, reverify |-> 0, since |-> 0, err |-> [prio |-> 0, at |-> 0],
     outcome |-> "none"]

Candidate(r) == req[r].route[req[r].index]

IsLast(r) == req[r].index = Len(req[r].route)

\* Explicitly non-TEE routes never fail closed.
candidate_required(r) == req[r].required /\ Candidate(r) \in Tee

-----------------------------------------------------------------------------
ForwardingInit ==
    /\ VerifierInit
    /\ req = [r \in Requests |-> NewRequest]
    /\ failed = [r \in Requests |-> {}]
    /\ sent = [r \in Requests |-> {}]

Admit(r, route, required) ==
    /\ req[r].phase = "idle"
    /\ req' = [req EXCEPT ![r] = [NewRequest EXCEPT
                !.phase = "prepare", !.route = route, !.index = 1,
                !.required = required]]
    /\ UNCHANGED <<channel, cache, verify_lock, call, failed, sent>>

\* Bug: the first error is kept whatever its priority.
keep_first_err(err, prio, at) == IF err.prio = 0 THEN [prio |-> prio, at |-> at] ELSE err

\* Errors of equal priority: the later one is kept.
upgrade_err(err, prio, at) == IF prio >= err.prio THEN [prio |-> prio, at |-> at] ELSE err

\* The request record at its end: what only its steps needed goes.
Ended(r, outcome, event) ==
    [req[r] EXCEPT !.phase = "done", !.outcome = outcome, !.event = event,
                   !.reverify = 0, !.since = 0]

\* Bug: a failed candidate is tried again.
SameCandidate(r, err) ==
    IF IsLast(r)
    THEN [Ended(r, "all_failed", FailedEvent) EXCEPT !.err = err]
    ELSE [req[r] EXCEPT !.phase = "prepare", !.err = err,
                        !.event = FailedEvent, !.reverify = 0]

\* The request record after candidate `index` was given up with error `err`.
NextCandidate(r, err) ==
    IF IsLast(r)
    THEN [Ended(r, "all_failed", FailedEvent) EXCEPT !.err = err]
    ELSE [req[r] EXCEPT !.phase = "prepare", !.index = @ + 1, !.err = err,
                        !.event = FailedEvent, !.reverify = 0, !.since = 0]

Failure(r, cause, prio) ==
    [at |-> req[r].index, cause |-> cause, prio |-> prio,
     rotated |-> cause = "mismatch" /\ channel[Candidate(r)] > req[r].since]

\* A candidate fails with an error of priority `prio`: 1 routing, 2 transport,
\* 3 verification.
FailCandidate(r, cause, prio) ==
    /\ failed' = [failed EXCEPT ![r] = @ \cup {Failure(r, cause, prio)}]
    /\ req' = [req EXCEPT ![r] = NextCandidate(r, upgrade_err(req[r].err, prio, req[r].index))]

\* prepare succeeds; a route without a verifier gets a synthesized failed
\* event and, not being required, goes straight on.
Prepare(r) ==
    LET k == Candidate(r) IN
    /\ req[r].phase = "prepare"
    /\ IF k \in Tee
       THEN /\ call' = [call EXCEPT ![r] = NewCall(k, "verify")]
            /\ req' = [req EXCEPT ![r].phase = "verify", ![r].since = channel[k]]
       ELSE /\ req' = [req EXCEPT ![r].phase = "send", ![r].since = channel[k]]
            /\ UNCHANGED call
    /\ UNCHANGED <<channel, cache, verify_lock, failed, sent>>

\* prepare fails: the route is gone from the configuration, or another error.
PrepareFails(r, prio) ==
    /\ req[r].phase = "prepare"
    /\ FailCandidate(r, "prepare", prio)
    /\ UNCHANGED <<channel, cache, verify_lock, call, sent>>

\* Bug: the gate lets a failed verification through.
GateOpen(r) ==
    /\ req[r].phase = "verify"
    /\ call[r].pc = "return"
    /\ call' = [call EXCEPT ![r] = Idle]
    /\ req' = [req EXCEPT ![r].phase = "send", ![r].event = call[r].event]
    /\ UNCHANGED <<channel, cache, verify_lock, failed, sent>>

\* recorded_upstream_event once the verifier has answered: the fail-closed
\* gate, before any upstream IO.
Gate(r) ==
    /\ req[r].phase = "verify"
    /\ call[r].pc = "return"
    /\ call' = [call EXCEPT ![r] = Idle]
    /\ IF candidate_required(r) /\ call[r].event.result # "verified"
       THEN FailCandidate(r, "verification", 3)
       ELSE /\ req' = [req EXCEPT ![r].phase = "send", ![r].event = call[r].event]
            /\ UNCHANGED failed
    /\ UNCHANGED <<channel, cache, verify_lock, sent>>

\* The pinned client refuses the connection: the upstream serves another key
\* than the one the event binds.
Mismatch(r) == req[r].event.binding \notin {None, channel[Candidate(r)]}

\* Bug: one retry fewer.
OneRetryFewer(r) == req[r].reverify + 1 < MaxReverify

RetriesLeft(r) == req[r].reverify < MaxReverify

\* A mismatch with retries left: the cached event is invalidated and the
\* upstream verified again.
Reverify(r) ==
    /\ req[r].phase = "send"
    /\ Mismatch(r)
    /\ RetriesLeft(r)
    /\ req' = [req EXCEPT ![r].phase = "verify", ![r].reverify = @ + 1]
    /\ cache' = Without(cache, Candidate(r))
    /\ call' = [call EXCEPT ![r] = NewCall(Candidate(r), "verify")]
    /\ UNCHANGED <<channel, verify_lock, failed, sent>>

\* A mismatch with no retry left: the cache is flushed for the next request
\* and the candidate fails.
MismatchFails(r) ==
    /\ req[r].phase = "send"
    /\ Mismatch(r)
    /\ ~RetriesLeft(r)
    /\ cache' = Without(cache, Candidate(r))
    /\ FailCandidate(r, "mismatch", 2)
    /\ UNCHANGED <<channel, verify_lock, call, sent>>

Delivery(r, answer) ==
    [at |-> req[r].index, key |-> Candidate(r), on |-> channel[Candidate(r)],
     event |-> req[r].event, required |-> req[r].required, answer |-> answer]

\* The connection fails before the body is out, or after (`reached`).
TransportFails(r, reached) ==
    /\ req[r].phase = "send"
    /\ reached => ~Mismatch(r)
    /\ sent' = IF reached THEN [sent EXCEPT ![r] = @ \cup {Delivery(r, "lost")}] ELSE sent
    /\ FailCandidate(r, "transport", 2)
    /\ UNCHANGED <<channel, cache, verify_lock, call>>

\* should_fail_over: a provider-specific or transient status, and a next
\* candidate to turn to.
FailsOver(r, answer) == answer = "retryable" /\ ~IsLast(r)

\* The upstream answers: "ok" (status 200), a "retryable" status or any other
\* ("terminal").
Answers == {"ok", "retryable", "terminal"}

Answered(r, answer) ==
    /\ req[r].phase = "send"
    /\ ~Mismatch(r)
    /\ sent' = [sent EXCEPT ![r] = @ \cup {Delivery(r, answer)}]
    /\ UNCHANGED <<channel, cache, verify_lock, call>>

\* The answer is given up for the next candidate; its status is no error.
FailOver(r, answer) ==
    /\ Answered(r, answer)
    /\ FailsOver(r, answer)
    /\ failed' = [failed EXCEPT ![r] = @ \cup {Failure(r, "status", 0)}]
    /\ req' = [req EXCEPT ![r] = NextCandidate(r, req[r].err)]

\* A streaming request's answer other than 200 is returned as it is, without a
\* receipt.  Streaming and buffered requests differ only here, so that the flag
\* is chosen where it first matters: this is the end of a streaming one.
StreamError(r, answer) ==
    /\ Answered(r, answer)
    /\ ~FailsOver(r, answer)
    /\ answer # "ok"
    /\ req' = [req EXCEPT ![r] = Ended(r, "upstream_error", req[r].event)]
    /\ UNCHANGED failed

\* Bug: the receipt draft takes the event cached at commit time.
recorded_from_cache(r) ==
    IF Candidate(r) \in DOMAIN cache
    THEN [result |-> "verified", binding |-> cache[Candidate(r)].binding]
    ELSE req[r].event

\* What the receipt draft records: the event the body was forwarded with.
recorded_event(r) == req[r].event

\* The candidate is committed: its session is sealed, which fails only for a
\* verified event (nothing is stored otherwise), and the receipt drafted.  A
\* buffered request is committed to any answer, a streaming one to "ok".
Commit(r, answer, sealed) ==
    /\ Answered(r, answer)
    /\ ~FailsOver(r, answer)
    /\ sealed \/ req[r].event.result = "verified"
    /\ req' = [req EXCEPT ![r] =
                 Ended(r, IF sealed THEN "committed" ELSE "error", recorded_event(r))]
    /\ UNCHANGED failed

\* The client goes away and the request's task is dropped.
Abandon(r) ==
    /\ req[r].phase \in {"prepare", "verify", "send"}
    /\ req' = [req EXCEPT ![r] = Ended(r, "abandoned", FailedEvent)]
    /\ call' = [call EXCEPT ![r] = Idle]
    /\ Unlock(r)
    /\ UNCHANGED <<channel, cache, failed, sent>>

\* What moves a request on, apart from the verifier's own steps.
RequestStep(r) ==
    \/ Prepare(r)
    \/ \E prio \in {1, 2} : PrepareFails(r, prio)
    \/ Gate(r)
    \/ Reverify(r)
    \/ MismatchFails(r)
    \/ \E reached \in BOOLEAN : TransportFails(r, reached)
    \/ \E answer \in Answers :
        \/ FailOver(r, answer)
        \/ StreamError(r, answer)
        \/ \E sealed \in BOOLEAN : Commit(r, answer, sealed)

ForwardingNext ==
    \/ \E r \in Requests :
        \/ \E route \in Routes, required \in BOOLEAN :
            /\ \A k \in Tee : channel[k] + Len(route) <= MaxEffort
            /\ Admit(r, route, required)
        \/ RequestStep(r)
        \/ Abandon(r)
        \/ VerifierStep(r) /\ UNCHANGED requestVars
    \/ \E c \in Callers \ Requests :
        /\ \/ \E k \in Tee, kind \in Kinds : Call(c, k, kind)
           \/ VerifierStep(c)
           \/ Return(c)
           \/ Cancel(c)
        /\ UNCHANGED requestVars
    \/ \E k \in Tee :
        /\ \/ Rotate(k) /\ \A r \in Requests : channel[k] + Len(req[r].route) < MaxEffort
           \/ Lapse(k)
        /\ UNCHANGED requestVars

ForwardingSpec == ForwardingInit /\ [][ForwardingNext]_forwardingVars

\* The verifier's steps that wait for nobody.
LocalStep(c) == Lookup(c) \/ DropLapsed(c) \/ Collect(c) \/ Store(c)

\* Every live task is scheduled, whatever step it is at; its upstream calls are
\* bounded by connect and read timeouts.  The mutex serves its waiters in order,
\* so a request cannot be passed over for ever.  Other callers need no more than
\* to go on once they hold the lock.
ForwardingFairness ==
    /\ \A r \in Requests :
        /\ WF_forwardingVars(RequestStep(r) \/ (LocalStep(r) /\ UNCHANGED requestVars))
        /\ SF_forwardingVars(Acquire(r) /\ UNCHANGED requestVars)
    /\ \A c \in Callers \ Requests : WF_forwardingVars(LocalStep(c) /\ UNCHANGED requestVars)

FairForwardingSpec == ForwardingSpec /\ ForwardingFairness

-----------------------------------------------------------------------------
Phases == {"idle", "prepare", "verify", "send", "done"}

Outcomes == {"none", "committed", "upstream_error", "all_failed", "error", "abandoned"}

RequestRecord ==
    [phase : Phases, route : Routes \cup {<<>>}, index : Nat, required : BOOLEAN,
     event : Event, reverify : Nat, since : Nat,
     err : [prio : 0..3, at : Nat], outcome : Outcomes]

FailureRecord ==
    [at : Nat, cause : {"prepare", "verification", "mismatch", "transport", "status"},
     prio : 0..3, rotated : BOOLEAN]

DeliveryRecord ==
    [at : Nat, key : Keys, on : Nat, event : Event, required : BOOLEAN,
     answer : Answers \cup {"lost"}]

OnCandidate(r) ==
    req[r].phase # "idle" => req[r].route \in Routes /\ req[r].index \in DOMAIN req[r].route

\* The variables of the composition hold values of their types; a request past
\* admission works on a candidate of its list.
ForwardingTypeOK ==
    /\ VerifierTypeOK
    /\ req \in [Requests -> RequestRecord]
    /\ failed \in [Requests -> SUBSET FailureRecord]
    /\ sent \in [Requests -> SUBSET DeliveryRecord]
    /\ \A r \in Requests : OnCandidate(r)

\* Fail closed: the body of a request that requires verification reaches a TEE
\* upstream only over the very channel a successful verification bound, however
\* rotations, refreshes, invalidations and lapsing cache entries interleave
\* with it.  Without that requirement a bound event still pins the channel.
FailClosed ==
    \A r \in Requests : \A d \in sent[r] :
        /\ d.required /\ d.key \in Tee => d.event = [result |-> "verified", binding |-> d.on]
        /\ d.event.binding \in {None, d.on}

\* The drafted receipt records the route and the event the answering upstream
\* was reached with, after any number of reverifications and failovers.
ReceiptNamesServingChannel ==
    \A r \in Requests :
        req[r].outcome = "committed" =>
            \E d \in sent[r] : /\ d.at = req[r].index
                               /\ d.key = Candidate(r)
                               /\ d.event = req[r].event
                               /\ d.answer # "lost"

\* A request is answered by one upstream: a candidate receives the body at most
\* once, and every candidate but the last to receive it either answered with a
\* status worth failing over or broke the connection.
ServedOnce ==
    \A r \in Requests : \A d, e \in sent[r] :
        /\ d.at = e.at => d = e
        /\ d.at < e.at => d.answer \in {"retryable", "lost"}
        /\ d.answer \in {"ok", "terminal"} => d.at = req[r].index

\* Every candidate tried before the current one is reported once among the
\* failed attempts, and a request whose candidates are exhausted returns the
\* last of its most informative errors: the fallback for "no error recorded"
\* is never used.
FailuresReported ==
    \A r \in Requests :
        /\ \A f, g \in failed[r] : f.at = g.at => f = g
        /\ req[r].outcome = "all_failed" =>
            /\ {f.at : f \in failed[r]} = DOMAIN req[r].route
            /\ \E f \in failed[r] :
                /\ f.prio > 0
                /\ req[r].err = [prio |-> f.prio, at |-> f.at]
                /\ \A g \in failed[r] : g.prio < f.prio \/ (g.prio = f.prio /\ g.at <= f.at)
        /\ req[r].outcome \in {"committed", "upstream_error"} =>
            {f.at : f \in failed[r]} = 1..(req[r].index - 1)

\* The reverification budget is enough: a candidate is given up over a binding
\* mismatch only if its upstream rotated its key while the request was working
\* on it.  A rotation before that costs at most the cached event and the one
\* stale event a verification in flight can put back.
RotationTolerated ==
    \A r \in Requests : \A f \in failed[r] : f.cause = "mismatch" => f.rotated

\* Every admitted request comes to an end.
RequestsFinish == \A r \in Requests : req[r].phase # "idle" ~> req[r].phase = "done"

=============================================================================
