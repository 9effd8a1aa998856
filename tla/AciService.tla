----------------------------- MODULE AciService -----------------------------
(***************************************************************************)
(* The verifier of an upstream ACI service (AciServiceUpstreamVerifier,    *)
(* src/src/aci/verifier/aci_service.rs).                                   *)
(*                                                                         *)
(* It keeps one slot: the accepted report's binding until its lease ends.  *)
(* There is no lock around a verification and no invalidation (the trait's *)
(* default in wire.rs does nothing, so its refresh is a verify), and the   *)
(* requests and background refreshes that call it race for the slot while  *)
(* the service rotates its TLS key.                                        *)
(***************************************************************************)
EXTENDS AciEvidence

CONSTANTS
    Callers,        \* tasks that call verify or refresh
    Ttl             \* cache_ttl_seconds

ASSUME AciAssumption ==
    /\ Ttl \in Nat \ {0}
    /\ Timeout \in Nat
    /\ MaxRotations \in Nat
    /\ MaxClock \in Nat
    /\ Lifetimes \subseteq Nat \ {0}

VARIABLES
    clock,          \* now_secs
    channel,        \* the generation of the TLS key the service serves
    slot,           \* cache: the cached verification, if any
    call,           \* the progress of each caller's verify
    ended           \* history: when each earlier generation ended

aciVars == <<clock, channel, slot, call, ended>>

\* The binding of a failed event, and of a call not yet answered.
None == MaxRotations + 2

Idle ==
    [pc |-> "idle", started |-> 0, produced |-> {}, verified_at |-> 0, binding |-> None]

AciInit ==
    /\ clock = 0
    /\ channel = 0
    /\ slot = {}
    /\ call = [c \in Callers |-> Idle]
    /\ ended = <<>>

-----------------------------------------------------------------------------
\* verify, and refresh: its invalidate does nothing.
Call(c) ==
    /\ call[c].pc = "idle"
    /\ call' = [call EXCEPT ![c].pc = "lookup"]
    /\ UNCHANGED <<clock, channel, slot, ended>>

Answer(c, binding) ==
    call' = [call EXCEPT ![c] = [Idle EXCEPT !.pc = "return", !.binding = binding]]

\* A live slot answers; otherwise an attempt begins.
ReadSlot(c) ==
    LET live == {s \in slot : clock < s.expires_at} IN
    /\ call[c].pc = "lookup"
    /\ \/ \E s \in live : Answer(c, s.binding)
       \/ /\ live = {}
          /\ call' = [call EXCEPT ![c].pc = "fetch", ![c].started = clock]
    /\ UNCHANGED <<clock, channel, slot, ended>>

\* External: the service produces its report for the caller's nonce.
Produce(c) ==
    /\ call[c].pc = "fetch"
    /\ call[c].produced = {}
    /\ call' = [call EXCEPT ![c].produced = {[gen |-> channel, at |-> clock]}]
    /\ UNCHANGED <<clock, channel, slot, ended>>

BoundAndAccepted(report, now) ==
    validate_aci_report_binding(report, "this", now) /\ accepts(Policy, report)

Times == 0..MaxClock

\* The reports that pass when they arrive at `now`.
Passing ==
    [gen \in 0..MaxRotations, at \in Times, now \in Times |->
        {report \in Reports(gen, at) : BoundAndAccepted(report, now)}]

\* A report arrives; its identity binding is checked against the caller's own
\* nonce and the time of arrival, then the policy.  Which of the passing reports
\* it is matters, and is chosen, only when its quote is verified.
Receive(c) ==
    /\ call[c].pc = "fetch"
    /\ \E p \in call[c].produced : Passing[p.gen, p.at, clock] # {}
    /\ call' = [call EXCEPT ![c].pc = "quote", ![c].verified_at = clock]
    /\ UNCHANGED <<clock, channel, slot, ended>>

\* Bug: the lease lasts as long as the report is fresh.
UntilStale(verified_at, report) == report.stale_after

LeaseEnd(verified_at, report) ==
    IF verified_at + Ttl <= report.stale_after THEN verified_at + Ttl ELSE report.stale_after

\* What the passing reports verify to once their quote's collateral is there.
Verified ==
    [gen \in 0..MaxRotations, at \in Times, now \in Times |->
        UNION {{[expires_at |-> LeaseEnd(now, report), binding |-> binding, report |-> report]
                    : binding \in aci_report_tls_channel_bindings(report, Origin)}
                  : report \in {report \in Passing[gen, at, now] :
                                    verify_dcap_quote(report, Policy)}}]

\* The quote is verified and the result goes into the slot, whatever is there
\* by now.
VerifyQuote(c) ==
    /\ call[c].pc = "quote"
    /\ \E p \in call[c].produced : \E verified \in Verified[p.gen, p.at, call[c].verified_at] :
        /\ slot' = {verified}
        /\ Answer(c, verified.binding)
    /\ UNCHANGED <<clock, channel, ended>>

Running(c) == call[c].pc \in {"fetch", "quote"}

\* The attempt fails, or its timeout passes: no or another report arrives, one
\* that does not pass, no collateral.  The slot is left as it is.
Fails(c) ==
    /\ Running(c)
    /\ Answer(c, None)
    /\ UNCHANGED <<clock, channel, slot, ended>>

\* The answer is used, or the caller's task dropped.
Leave(c) ==
    /\ call[c].pc # "idle"
    /\ call' = [call EXCEPT ![c] = Idle]
    /\ UNCHANGED <<clock, channel, slot, ended>>

\* External: the service serves a new key.
Rotate ==
    /\ channel < MaxRotations
    /\ channel' = channel + 1
    /\ ended' = Append(ended, clock)
    /\ UNCHANGED <<clock, slot, call>>

\* Time passes; the timeout answers an attempt before it is over.
Tick ==
    /\ clock < MaxClock
    /\ \A c \in Callers : Running(c) => clock < call[c].started + Timeout
    /\ clock' = clock + 1
    /\ UNCHANGED <<channel, slot, call, ended>>

AciNext ==
    \/ \E c \in Callers :
        \/ Call(c)
        \/ ReadSlot(c)
        \/ Produce(c)
        \/ Receive(c)
        \/ VerifyQuote(c)
        \/ Fails(c)
        \/ Leave(c)
    \/ Rotate
    \/ Tick

AciSpec == AciInit /\ [][AciNext]_aciVars

-----------------------------------------------------------------------------
\* Without a lock, an invalidation or a refresh of its own, the verifier still
\* never answers with a key that was replaced longer ago than one lease and one
\* timeout: neither a slow attempt that overwrites a newer slot nor a report for
\* another request makes an answer older than that.
AciAnswersRecent ==
    [][\A c \in Callers :
        LET b == call'[c].binding IN
        /\ call[c].pc # "return"
        /\ call'[c].pc = "return"
        /\ b # None
        => \/ b = channel
           \/ b < channel /\ clock < ended[b + 1] + Ttl + Timeout]_aciVars

\* What a live slot answers with is the key of a report that the service itself
\* made for the verifier's own request, and that is still fresh by its own word:
\* of the reports that deviate in one thing none is ever cached.
SlotHoldsHonestReport ==
    \A s \in slot :
        clock < s.expires_at =>
            /\ s.report.fetched_at <= clock /\ clock < s.report.stale_after
            /\ s.binding \in 0..channel
            /\ s.report \in HonestReports(s.binding, s.report.fetched_at)

=============================================================================
