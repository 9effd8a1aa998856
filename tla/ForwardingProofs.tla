-------------------------- MODULE ForwardingProofs --------------------------
(***************************************************************************)
(* Proofs about the verification cache and about forwarding over it, for   *)
(* any number of callers, keys, rotations, requests, candidates and        *)
(* reverifications.                                                        *)
(*                                                                         *)
(* The cache rests on one fact the code does not state: from the moment    *)
(* the verifier process has attested a channel until the event is stored,  *)
(* the cache holds nothing newer for that key (Ordered).  It is preserved  *)
(* because only the holder of verify_lock stores, and because everybody    *)
(* else only removes entries.                                              *)
(*                                                                         *)
(* A request past the gate carries a verified event whenever the route     *)
(* requires one, through every reverification (Gated); the pinned client   *)
(* compares the event's binding with the channel at the moment of sending. *)
(* Both are needed for FailClosed, and Gated needs to know that the event  *)
(* the gate looks at is the answer for the candidate at hand (InStep).     *)
(***************************************************************************)
EXTENDS Forwarding, TLAPS

-----------------------------------------------------------------------------
(* The verification cache.                                                 *)

\* What each call knows, compared with the cache and the upstream's channel.
CallOrdered(c) ==
    /\ call[c].pc # "idle" => call[c].asked <= channel[call[c].key]
    /\ call[c].pc = "ran" /\ call[c].event.result = "verified" =>
        /\ call[c].event.binding \in Nat
        /\ call[c].asked <= call[c].event.binding
        /\ call[c].event.binding <= channel[call[c].key]
        /\ call[c].key \in DOMAIN cache =>
                cache[call[c].key].binding <= call[c].event.binding
    /\ call[c].pc = "return" /\ call[c].event.result = "verified" =>
        /\ call[c].event.binding \in Nat
        /\ call[c].kind = "refresh" => call[c].asked <= call[c].event.binding
    /\ call[c].kind = "refresh" => call[c].pc \in {"lock", "run", "ran", "return"}

CacheOrdered == \A k \in DOMAIN cache : cache[k].binding <= channel[k]

Ordered == CacheOrdered /\ \A c \in Callers : CallOrdered(c)

\* The inductive invariant.
VerifierInv == VerifierTypeOK /\ OneVerification /\ Ordered

USE VerifierAssumption

-----------------------------------------------------------------------------
\* The inductive invariant holds of an empty cache.
LEMMA InitHolds == VerifierInit => VerifierInv
  BY DEF VerifierInit, VerifierInv, VerifierTypeOK, OneVerification, Ordered, CacheOrdered,
         CallOrdered, Idle, FailedEvent, Event, Holding, CallPcs, Kinds

\* A call that moves on with an event stays well typed.
LEMMA CallTyped ==
    ASSUME NEW f \in [Callers -> [pc : CallPcs, key : Keys \cup {None}, kind : Kinds,
                                 asked : Nat, event : Event]],
           NEW c \in Callers, NEW pc \in CallPcs, NEW event \in Event
    PROVE  [f EXCEPT ![c].pc = pc, ![c].event = event] \in
               [Callers -> [pc : CallPcs, key : Keys \cup {None}, kind : Kinds,
                            asked : Nat, event : Event]]
  BY ZenonT(60)

\* A call that begins.
LEMMA CallKeeps ==
    ASSUME VerifierInv, NEW c \in Callers, NEW k \in Keys, NEW kind \in Kinds, Call(c, k, kind)
    PROVE  VerifierInv'
<1> USE DEF VerifierInv, Call, NewCall
<1>1. VerifierTypeOK'
  BY DEF VerifierTypeOK, CallPcs, Kinds, Event, FailedEvent, Idle
<1>2. OneVerification'
  BY DEF VerifierTypeOK, OneVerification, Holding, Idle
<1>3. CacheOrdered'
  BY DEF VerifierTypeOK, Ordered, CacheOrdered, CallOrdered
<1>4. ASSUME NEW d \in Callers PROVE CallOrdered(d)'
  BY <1>1 DEF VerifierTypeOK, OneVerification, Holding, Ordered, CacheOrdered, CallOrdered, Idle,
              FailedEvent
<1> QED BY <1>1, <1>2, <1>3, <1>4 DEF Ordered


\* A cache lookup, before or under the lock.
LEMMA LookupKeeps ==
    ASSUME VerifierInv, NEW c \in Callers, Lookup(c)
    PROVE  VerifierInv'
<1> USE DEF VerifierInv, Lookup, Answer, Goto, Unlock
<1>1. VerifierTypeOK'
  <2>1. call[c].key \in DOMAIN cache =>
            [result |-> "verified", binding |-> cache[call[c].key].binding] \in Event
    BY DEF VerifierTypeOK, Event
  <2>2. call' \in [Callers -> [pc : CallPcs, key : Keys \cup {None}, kind : Kinds,
                              asked : Nat, event : Event]]
    BY <2>1 DEF VerifierTypeOK, CallPcs
  <2>3. \A d \in Callers : call'[d].pc # "idle" => call'[d].key \in Keys
    BY SMTT(30) DEF VerifierTypeOK
  <2> QED BY <2>2, <2>3 DEF VerifierTypeOK
<1>2. OneVerification'
  BY DEF VerifierTypeOK, OneVerification, Holding, Idle
<1>3. CacheOrdered'
  BY ZenonT(30) DEF VerifierTypeOK, Ordered, CacheOrdered, CallOrdered
<1>4. ASSUME NEW d \in Callers PROVE CallOrdered(d)'
  BY SMTT(30), <1>1 DEF VerifierTypeOK, OneVerification, Holding, Ordered, CacheOrdered, CallOrdered, Idle,
              FailedEvent
<1> QED BY <1>1, <1>2, <1>3, <1>4 DEF Ordered


\* The removal of a lapsed entry.
LEMMA DropLapsedKeeps ==
    ASSUME VerifierInv, NEW c \in Callers, DropLapsed(c)
    PROVE  VerifierInv'
<1> USE DEF VerifierInv, DropLapsed, Goto, Without
<1>1. VerifierTypeOK'
  <2>1. /\ DOMAIN cache' \subseteq Keys
        /\ cache' \in [DOMAIN cache' -> [binding : Nat, fresh : BOOLEAN]]
    BY DEF VerifierTypeOK
  <2>2. /\ call' \in [Callers -> [pc : CallPcs, key : Keys \cup {None}, kind : Kinds,
                                  asked : Nat, event : Event]]
        /\ \A d \in Callers : call'[d].pc # "idle" => call'[d].key \in Keys
    BY DEF VerifierTypeOK, CallPcs
  <2> QED BY <2>1, <2>2 DEF VerifierTypeOK
<1>2. OneVerification'
  BY DEF VerifierTypeOK, OneVerification, Holding, Idle
<1>3. CacheOrdered'
  BY DEF VerifierTypeOK, Ordered, CacheOrdered, CallOrdered
<1>4. ASSUME NEW d \in Callers PROVE CallOrdered(d)'
  BY SMTT(30), <1>1 DEF VerifierTypeOK, OneVerification, Holding, Ordered, CacheOrdered, CallOrdered, Idle,
              FailedEvent
<1> QED BY <1>1, <1>2, <1>3, <1>4 DEF Ordered


\* The acquisition of verify_lock.
LEMMA AcquireKeeps ==
    ASSUME VerifierInv, NEW c \in Callers, Acquire(c)
    PROVE  VerifierInv'
<1> USE DEF VerifierInv, Acquire, Goto
<1>1. VerifierTypeOK'
  BY DEF VerifierTypeOK, CallPcs, Kinds, Event, FailedEvent, Idle
<1>2. OneVerification'
  BY DEF VerifierTypeOK, OneVerification, Holding, Idle
<1>3. CacheOrdered'
  BY DEF VerifierTypeOK, Ordered, CacheOrdered, CallOrdered
<1>4. ASSUME NEW d \in Callers PROVE CallOrdered(d)'
  BY <1>1 DEF VerifierTypeOK, OneVerification, Holding, Ordered, CacheOrdered, CallOrdered, Idle,
              FailedEvent
<1> QED BY <1>1, <1>2, <1>3, <1>4 DEF Ordered


\* The verifier process: what it attests is the newest there is.
LEMMA CollectKeeps ==
    ASSUME VerifierInv, NEW c \in Callers, Collect(c)
    PROVE  VerifierInv'
<1> USE DEF VerifierInv, Collect, Verdicts
<1>1. VerifierTypeOK'
  <2>1. PICK event \in Verdicts(call[c].key) :
            call' = [call EXCEPT ![c].pc = "ran", ![c].event = event]
    BY ZenonT(30)
  <2>2. event \in Event
    BY DEF VerifierTypeOK, Event, FailedEvent
  <2>3. call' \in [Callers -> [pc : CallPcs, key : Keys \cup {None}, kind : Kinds,
                              asked : Nat, event : Event]]
    <3>1. "ran" \in CallPcs
      BY DEF CallPcs
    <3> HIDE DEF Collect, Verdicts, VerifierInv
    <3> QED BY ZenonT(30), <2>1, <2>2, <3>1, CallTyped DEF VerifierInv, VerifierTypeOK
  <2>4. \A d \in Callers : call'[d].pc # "idle" => call'[d].key \in Keys
    BY <2>1 DEF VerifierTypeOK
  <2> QED BY <2>3, <2>4 DEF VerifierTypeOK
<1>2. OneVerification'
  BY DEF VerifierTypeOK, OneVerification, Holding, Idle
<1>3. CacheOrdered'
  BY DEF VerifierTypeOK, Ordered, CacheOrdered, CallOrdered
<1>4. ASSUME NEW d \in Callers PROVE CallOrdered(d)'
  BY SMTT(30), <1>1 DEF VerifierTypeOK, OneVerification, Holding, Ordered, CacheOrdered, CallOrdered, Idle,
              FailedEvent
<1> QED BY <1>1, <1>2, <1>3, <1>4 DEF Ordered


\* The event is cached and the lock released.
LEMMA StoreKeeps ==
    ASSUME VerifierInv, NEW c \in Callers, Store(c)
    PROVE  VerifierInv'
<1> USE DEF VerifierInv, Store, With, Answer, Unlock
<1>1. VerifierTypeOK'
  <2>1. DOMAIN cache' \subseteq Keys /\ cache' \in [DOMAIN cache' -> [binding : Nat, fresh : BOOLEAN]]
    <3>1. CASE call[c].event.result = "verified"
      <4>1. [binding |-> call[c].event.binding, fresh |-> TRUE] \in [binding : Nat, fresh : BOOLEAN]
        BY <3>1 DEF Ordered, CallOrdered
      <4> QED BY <3>1, <4>1 DEF VerifierTypeOK
    <3>2. CASE call[c].event.result # "verified"
      BY <3>2 DEF VerifierTypeOK
    <3> QED BY ZenonT(30), <3>1, <3>2
  <2>2. call' \in [Callers -> [pc : CallPcs, key : Keys \cup {None}, kind : Kinds,
                              asked : Nat, event : Event]]
    <3>1. call[c].event \in Event
      BY DEF VerifierTypeOK
    <3>2. call' = [call EXCEPT ![c].pc = "return", ![c].event = call[c].event]
      OBVIOUS
    <3>3. "return" \in CallPcs
      BY DEF CallPcs
    <3> HIDE DEF Store, VerifierInv
    <3> QED BY ZenonT(30), <3>1, <3>2, <3>3, CallTyped DEF VerifierInv, VerifierTypeOK
  <2>3. \A d \in Callers : call'[d].pc # "idle" => call'[d].key \in Keys
    BY DEF VerifierTypeOK
  <2> QED BY ZenonT(30), <2>1, <2>2, <2>3 DEF VerifierTypeOK
<1>2. OneVerification'
  BY DEF VerifierTypeOK, OneVerification, Holding, Idle
<1>3. CacheOrdered'
  BY DEF VerifierTypeOK, Ordered, CacheOrdered, CallOrdered
<1>4. ASSUME NEW d \in Callers PROVE CallOrdered(d)'
  <2>1. CASE d = c
    BY SMTT(30), <1>1, <2>1 DEF VerifierTypeOK, Ordered, CallOrdered
  <2>2. CASE d # c
    <3>1. call'[d] = call[d] /\ call[d].pc # "ran"
      BY <2>2 DEF VerifierTypeOK, OneVerification, Holding
    <3>2. channel' = channel /\ CallOrdered(d)
      BY DEF Ordered
    <3> HIDE DEF VerifierInv, Store
    <3> QED BY <3>1, <3>2 DEF CallOrdered
  <2> QED BY <2>1, <2>2
<1> QED BY <1>1, <1>2, <1>3, <1>4 DEF Ordered


\* A return.
LEMMA ReturnKeeps ==
    ASSUME VerifierInv, NEW c \in Callers, Return(c)
    PROVE  VerifierInv'
<1> USE DEF VerifierInv, Return
<1>1. VerifierTypeOK'
  BY DEF VerifierTypeOK, CallPcs, Kinds, Event, FailedEvent, Idle
<1>2. OneVerification'
  BY DEF VerifierTypeOK, OneVerification, Holding, Idle
<1>3. CacheOrdered'
  BY DEF VerifierTypeOK, Ordered, CacheOrdered, CallOrdered
<1>4. ASSUME NEW d \in Callers PROVE CallOrdered(d)'
  BY ZenonT(30), <1>1 DEF VerifierTypeOK, OneVerification, Holding, Ordered, CacheOrdered, CallOrdered, Idle,
              FailedEvent
<1> QED BY <1>1, <1>2, <1>3, <1>4 DEF Ordered


\* A dropped task.
LEMMA CancelKeeps ==
    ASSUME VerifierInv, NEW c \in Callers, Cancel(c)
    PROVE  VerifierInv'
<1> USE DEF VerifierInv, Cancel, Unlock
<1>1. VerifierTypeOK'
  BY DEF VerifierTypeOK, CallPcs, Kinds, Event, FailedEvent, Idle
<1>2. OneVerification'
  BY DEF VerifierTypeOK, OneVerification, Holding, Idle
<1>3. CacheOrdered'
  BY DEF VerifierTypeOK, Ordered, CacheOrdered, CallOrdered
<1>4. ASSUME NEW d \in Callers PROVE CallOrdered(d)'
  BY ZenonT(30), <1>1 DEF VerifierTypeOK, OneVerification, Holding, Ordered, CacheOrdered, CallOrdered, Idle,
              FailedEvent
<1> QED BY <1>1, <1>2, <1>3, <1>4 DEF Ordered


\* What happens to a cache entry or a channel behind the callers' backs.
LEMMA EntryKeeps ==
    ASSUME VerifierInv, NEW k \in Keys, Invalidate(k) \/ Rotate(k) \/ Lapse(k)
    PROVE  VerifierInv'
<1> USE DEF VerifierInv, Invalidate, Rotate, Lapse, Without
<1>1. VerifierTypeOK'
  <2>1. CASE Invalidate(k)
    BY <2>1 DEF VerifierTypeOK
  <2>2. CASE Rotate(k)
    BY <2>2 DEF VerifierTypeOK
  <2>3. CASE Lapse(k)
    BY ZenonT(30), <2>3 DEF VerifierTypeOK
  <2> QED BY <2>1, <2>2, <2>3
<1>2. OneVerification'
  BY DEF VerifierTypeOK, OneVerification, Holding, Idle
<1>3. CacheOrdered'
  BY DEF VerifierTypeOK, Ordered, CacheOrdered, CallOrdered
<1>4. ASSUME NEW d \in Callers PROVE CallOrdered(d)'
  BY SMTT(30), <1>1 DEF VerifierTypeOK, OneVerification, Holding, Ordered, CacheOrdered, CallOrdered, Idle,
              FailedEvent
<1> QED BY <1>1, <1>2, <1>3, <1>4 DEF Ordered


-----------------------------------------------------------------------------
\* Every step of the verifier keeps the inductive invariant.
LEMMA NextKeeps == VerifierInv /\ [VerifierNext]_verifierVars => VerifierInv'
<1> SUFFICES ASSUME VerifierInv, [VerifierNext]_verifierVars PROVE VerifierInv'
  OBVIOUS
<1>1. CASE VerifierNext
  BY <1>1, CallKeeps, LookupKeeps, DropLapsedKeeps, AcquireKeeps, CollectKeeps, StoreKeeps,
     ReturnKeeps, CancelKeeps, EntryKeeps DEF VerifierNext, VerifierStep
<1>2. CASE UNCHANGED verifierVars
  BY <1>2 DEF verifierVars, VerifierInv, VerifierTypeOK, OneVerification, Ordered, CacheOrdered,
              CallOrdered
<1> QED BY <1>1, <1>2

\* The verifier's inductive invariant holds of every behaviour.
THEOREM VerifierInvariant == VerifierSpec => []VerifierInv
<1>1. VerifierInit => VerifierInv
  BY InitHolds
<1>2. VerifierInv /\ [VerifierNext]_verifierVars => VerifierInv'
  BY NextKeeps
<1> QED BY <1>1, <1>2, PTL DEF VerifierSpec

\* The verifier's variables always hold values of their types.
THEOREM VerifierTypeCorrect == VerifierSpec => []VerifierTypeOK
<1>1. VerifierInv => VerifierTypeOK
  BY DEF VerifierInv
<1> QED BY <1>1, VerifierInvariant, PTL

\* verify_lock is held by exactly the caller that is between acquiring it and
\* returning: at most one verifier process runs, and no path leaks the lock.
THEOREM OneVerificationAtATime == VerifierSpec => []OneVerification
<1>1. VerifierInv => OneVerification
  BY DEF VerifierInv
<1> QED BY <1>1, VerifierInvariant, PTL

\* A verified answer of refresh is never older than the call.
THEOREM RefreshAnswersFresh == VerifierSpec => []RefreshIsFresh
<1>1. VerifierInv => RefreshIsFresh
  BY DEF VerifierInv, VerifierTypeOK, Ordered, CallOrdered, RefreshIsFresh
<1> QED BY <1>1, VerifierInvariant, PTL

\* A cached binding is only ever replaced by one at least as new.
LEMMA BindingAdvances ==
    VerifierInv /\ [VerifierNext]_verifierVars =>
        [\A k \in DOMAIN cache \cap DOMAIN cache' :
            cache'[k].binding >= cache[k].binding]_verifierVars
<1> SUFFICES ASSUME VerifierInv, VerifierNext, NEW k \in DOMAIN cache \cap DOMAIN cache'
             PROVE  cache'[k].binding >= cache[k].binding
  OBVIOUS
<1>0. cache[k].binding \in Nat
  BY DEF VerifierInv, VerifierTypeOK
<1>1. CASE cache' = cache
  BY <1>0, <1>1
<1>2. ASSUME NEW x \in Keys, cache' = Without(cache, x) PROVE cache'[k].binding >= cache[k].binding
  BY <1>0, <1>2 DEF Without
<1>3. ASSUME NEW c \in Callers, Store(c) PROVE cache'[k].binding >= cache[k].binding
  BY <1>0, <1>3 DEF Store, With, VerifierInv, VerifierTypeOK, Ordered, CallOrdered
<1>4. ASSUME NEW x \in Keys, Lapse(x) PROVE cache'[k].binding >= cache[k].binding
  BY <1>0, <1>4 DEF Lapse, VerifierInv, VerifierTypeOK
<1>5. ASSUME NEW c \in Callers, DropLapsed(c) PROVE cache'[k].binding >= cache[k].binding
  BY <1>2, <1>5 DEF DropLapsed, VerifierInv, VerifierTypeOK
<1> QED
  BY ZenonT(30), <1>1, <1>2, <1>3, <1>4, <1>5 DEF VerifierNext, VerifierStep, Call, Lookup, Acquire, Collect,
     Return, Cancel, Invalidate, Rotate

\* The same of every behaviour: evidence collected earlier never overwrites the
\* binding a later verification cached.
THEOREM CachedBindingsAdvance == VerifierSpec => CachedBindingAdvances
<1>1. VerifierInv /\ [VerifierNext]_verifierVars =>
        [\A k \in DOMAIN cache \cap DOMAIN cache' :
            cache'[k].binding >= cache[k].binding]_verifierVars
  BY BindingAdvances
<1> QED BY <1>1, VerifierInvariant, PTL DEF VerifierSpec, CachedBindingAdvances

HIDE VerifierAssumption

-----------------------------------------------------------------------------
(* Forwarding.                                                             *)

\* A request has a verification under way exactly while it waits for one, and
\* it is the verification of its current candidate.
InStep(r) ==
    IF req[r].phase = "verify"
    THEN call[r].pc # "idle" /\ call[r].key = Candidate(r)
    ELSE call[r].pc = "idle"

Gated(r) ==
    /\ req[r].event.result = "verified" => req[r].event.binding \in Nat
    /\ req[r].phase = "send" /\ candidate_required(r) => req[r].event.result = "verified"

Closed(d) ==
    /\ d.required /\ d.key \in Tee => d.event = [result |-> "verified", binding |-> d.on]
    /\ d.event.binding \in {None, d.on}

\* What the invariant says of one request.
RequestInv(r) ==
    /\ req[r] \in RequestRecord
    /\ failed[r] \subseteq FailureRecord
    /\ sent[r] \subseteq DeliveryRecord
    /\ OnCandidate(r)
    /\ InStep(r)
    /\ Gated(r)
    /\ \A d \in sent[r] : Closed(d)

\* The inductive invariant.
ForwardingInv ==
    /\ VerifierInv
    /\ req = [r \in Requests |-> req[r]]
    /\ failed = [r \in Requests |-> failed[r]]
    /\ sent = [r \in Requests |-> sent[r]]
    /\ \A r \in Requests : RequestInv(r)

USE ForwardingAssumption

-----------------------------------------------------------------------------
(* Routes and candidates.                                                  *)

\* What the assumption on the constants says of the routes.
LEMMA RouteFacts ==
    ASSUME NEW q \in Routes
    PROVE  q \in Seq(Keys) /\ Len(q) \in Nat /\ DOMAIN q = 1..Len(q)
<1>1. PICK n \in 1..MaxCandidates : q \in [1..n -> Keys]
  BY DEF Routes
<1> QED BY <1>1

\* The candidate a request works on is a route, and a key of the cache if it is a TEE one.
LEMMA CandidateIsKey ==
    ASSUME NEW r \in Requests, RequestInv(r), req[r].phase # "idle"
    PROVE  Candidate(r) \in Keys
  BY RouteFacts DEF RequestInv, OnCandidate, Candidate

\* The fields of the record a request ends with.
LEMMA EndedFields ==
    ASSUME NEW r, req[r] \in RequestRecord, NEW outcome \in Outcomes, NEW event \in Event
    PROVE  /\ Ended(r, outcome, event) \in RequestRecord
           /\ Ended(r, outcome, event).phase = "done"
           /\ Ended(r, outcome, event).outcome = outcome
           /\ Ended(r, outcome, event).event = event
           /\ Ended(r, outcome, event).route = req[r].route
           /\ Ended(r, outcome, event).index = req[r].index
           /\ Ended(r, outcome, event).err = req[r].err
<1>1. "done" \in Phases /\ 0 \in Nat
  BY DEF Phases
<1> QED BY ZenonT(30), <1>1 DEF Ended, RequestRecord

\* Giving a candidate up leaves a well-formed request, either at an end or at
\* the beginning of its next candidate.
LEMMA NextCandidateTyped ==
    ASSUME NEW r \in Requests, RequestInv(r), req[r].phase # "idle",
           NEW err \in [prio : 0..3, at : Nat]
    PROVE  LET q == NextCandidate(r, err) IN
           /\ q \in RequestRecord
           /\ q.phase \in {"prepare", "done"}
           /\ q.route = req[r].route
           /\ q.index \in DOMAIN q.route
           /\ q.event.result = "verified" => q.event.binding \in Nat
<1>1. /\ req[r].route \in Routes
      /\ Len(req[r].route) \in Nat
      /\ DOMAIN req[r].route = 1..Len(req[r].route)
      /\ req[r].index \in DOMAIN req[r].route
  BY RouteFacts DEF RequestInv, OnCandidate
<1>2. FailedEvent \in Event
  BY DEF FailedEvent, Event
<1>3. CASE IsLast(r)
  <2> DEFINE e == Ended(r, "all_failed", FailedEvent)
  <2>1. /\ e \in RequestRecord /\ e.phase = "done" /\ e.event = FailedEvent
        /\ e.route = req[r].route /\ e.index = req[r].index
    BY <1>2, EndedFields DEF RequestInv, Outcomes
  <2>2. NextCandidate(r, err) = [e EXCEPT !.err = err]
    BY <1>3 DEF NextCandidate
  <2>3. FailedEvent.result # "verified"
    BY DEF FailedEvent
  <2> HIDE DEF e
  <2> QED BY ZenonT(30), <1>1, <2>1, <2>2, <2>3 DEF RequestRecord
<1>4. CASE ~IsLast(r)
  <2>1. req[r].index + 1 \in 1..Len(req[r].route)
    BY <1>1, <1>4 DEF IsLast
  <2>2. FailedEvent.result # "verified"
    BY DEF FailedEvent
  <2>3. NextCandidate(r, err) =
            [req[r] EXCEPT !.phase = "prepare", !.index = req[r].index + 1, !.err = err,
                           !.event = FailedEvent, !.reverify = 0, !.since = 0]
    BY <1>4 DEF NextCandidate
  <2>4. req[r] \in RequestRecord /\ req[r].index + 1 \in Nat
    BY <1>1 DEF RequestInv
  <2>5. NextCandidate(r, err) \in RequestRecord
    <3>1. "prepare" \in Phases /\ 0 \in Nat
      BY DEF Phases
    <3> QED BY <1>2, <2>3, <2>4, <3>1, ZenonT(60) DEF RequestRecord
  <2> QED BY <1>1, <2>1, <2>2, <2>3, <2>4, <2>5, ZenonT(60) DEF RequestRecord
<1> QED BY <1>3, <1>4

-----------------------------------------------------------------------------
(* Frames.                                                                 *)

\* A request keeps its invariant while its own state does not change and its
\* verification, if any, is neither begun nor ended.
LEMMA Frame ==
    ASSUME NEW r \in Requests, RequestInv(r),
           req'[r] = req[r], failed'[r] = failed[r], sent'[r] = sent[r],
           call'[r].pc = "idle" <=> call[r].pc = "idle", call'[r].key = call[r].key
    PROVE  RequestInv(r)'
  BY DEF RequestInv, OnCandidate, InStep, Gated, Candidate, candidate_required

\* The verifier's own steps neither begin nor end a call.
LEMMA VerifierStepFrame ==
    ASSUME VerifierInv, NEW c \in Callers, VerifierStep(c), NEW d \in Callers
    PROVE  (call'[d].pc = "idle" <=> call[d].pc = "idle") /\ call'[d].key = call[d].key
<1> USE DEF VerifierInv, VerifierTypeOK
<1>1. CASE Lookup(c)
  BY <1>1 DEF Lookup, Goto, Answer
<1>2. CASE DropLapsed(c) \/ Acquire(c)
  BY <1>2 DEF DropLapsed, Acquire, Goto
<1>3. CASE Collect(c)
  BY <1>3 DEF Collect
<1>4. CASE Store(c)
  BY <1>4 DEF Store, Answer
<1> QED BY ZenonT(30), <1>1, <1>2, <1>3, <1>4 DEF VerifierStep

\* The verifier's invariant under its own steps.
LEMMA VerifierStepKeeps ==
    ASSUME VerifierInv, NEW c \in Callers, VerifierStep(c)
    PROVE  VerifierInv'
  BY LookupKeeps, DropLapsedKeeps, AcquireKeeps, CollectKeeps, StoreKeeps DEF VerifierStep

\* The verifier's invariant when the verifier does nothing.
LEMMA VerifierUnchanged ==
    ASSUME VerifierInv, UNCHANGED verifierVars
    PROVE  VerifierInv'
  BY ZenonT(30) DEF verifierVars, VerifierInv, VerifierTypeOK, OneVerification, Ordered, CacheOrdered,
         CallOrdered

\* A step of request r leaves every other request alone.
LEMMA OtherRequests ==
    ASSUME ForwardingInv, NEW r \in Requests,
           NEW q, NEW f, NEW d,
           req' = [req EXCEPT ![r] = q], failed' = [failed EXCEPT ![r] = f],
           sent' = [sent EXCEPT ![r] = d],
           \A c \in Callers \ {r} : call'[c] = call[c],
           RequestInv(r)', VerifierInv'
    PROVE  ForwardingInv'
<1>1. ASSUME NEW s \in Requests, s # r PROVE RequestInv(s)'
  <2>1. RequestInv(s) /\ s \in Callers
    BY DEF ForwardingInv
  <2>2. req'[s] = req[s] /\ failed'[s] = failed[s] /\ sent'[s] = sent[s]
    BY ZenonT(30), <1>1 DEF ForwardingInv
  <2>3. call'[s] = call[s]
    BY <1>1, <2>1
  <2> QED BY <2>1, <2>2, <2>3, Frame
<1>2. /\ req' = [s \in Requests |-> req'[s]]
      /\ failed' = [s \in Requests |-> failed'[s]]
      /\ sent' = [s \in Requests |-> sent'[s]]
  BY ZenonT(30) DEF ForwardingInv
<1> QED BY <1>1, <1>2 DEF ForwardingInv

-----------------------------------------------------------------------------
(* Failures and deliveries.                                                *)

\* What is recorded of a failed candidate is well typed.
LEMMA FailureTyped ==
    ASSUME ForwardingInv, NEW r \in Requests, req[r].phase # "idle",
           NEW cause \in {"prepare", "verification", "mismatch", "transport", "status"},
           NEW prio \in 0..3
    PROVE  /\ Failure(r, cause, prio) \in FailureRecord
           /\ upgrade_err(req[r].err, prio, req[r].index) \in [prio : 0..3, at : Nat]
           /\ req[r].err \in [prio : 0..3, at : Nat]
<1>1. req[r] \in RequestRecord
  BY DEF ForwardingInv, RequestInv
<1> QED BY <1>1 DEF RequestRecord, Failure, FailureRecord, upgrade_err

\* The priorities the candidate loop gives its errors.
LEMMA Priorities == 0 \in 0..3 /\ 2 \in 0..3 /\ 3 \in 0..3 /\ {1, 2} \subseteq 0..3
  OBVIOUS

\* A body that is sent past the pinned client's check is sent fail-closed.
LEMMA DeliveryClosed ==
    ASSUME ForwardingInv, NEW r \in Requests, req[r].phase = "send", ~Mismatch(r),
           NEW answer \in Answers \cup {"lost"}
    PROVE  Delivery(r, answer) \in DeliveryRecord /\ Closed(Delivery(r, answer))
<1>1. /\ RequestInv(r)
      /\ req[r] \in RequestRecord
      /\ Candidate(r) \in Keys
  BY CandidateIsKey DEF ForwardingInv, RequestInv
<1>2. channel[Candidate(r)] \in Nat
  BY <1>1 DEF ForwardingInv, VerifierInv, VerifierTypeOK
<1>3. Delivery(r, answer) \in DeliveryRecord
  BY ZenonT(30), <1>1, <1>2 DEF Delivery, DeliveryRecord, RequestRecord
<1>4. req[r].event = [result |-> req[r].event.result, binding |-> req[r].event.binding]
  BY <1>1 DEF RequestRecord, Event
<1>5. req[r].event.binding \in {None, channel[Candidate(r)]}
  BY DEF Mismatch
<1>6. req[r].required /\ Candidate(r) \in Tee =>
          req[r].event.result = "verified" /\ req[r].event.binding = channel[Candidate(r)]
  BY <1>1, <1>5, VerifierAssumption DEF RequestInv, Gated, candidate_required
<1>7. Closed(Delivery(r, answer))
  BY ZenonT(30), <1>4, <1>5, <1>6 DEF Closed, Delivery
<1> QED BY <1>3, <1>7

\* A candidate is given up: the common end of every failing step.
LEMMA GiveUp ==
    ASSUME ForwardingInv, NEW r \in Requests, req[r].phase # "idle",
           NEW err \in [prio : 0..3, at : Nat], NEW f \in FailureRecord,
           NEW D \in SUBSET DeliveryRecord, \A d \in D : Closed(d),
           req' = [req EXCEPT ![r] = NextCandidate(r, err)],
           failed' = [failed EXCEPT ![r] = failed[r] \cup {f}],
           sent' = [sent EXCEPT ![r] = D],
           call'[r].pc = "idle", \A c \in Callers \ {r} : call'[c] = call[c],
           VerifierInv'
    PROVE  ForwardingInv'
<1> DEFINE q == NextCandidate(r, err)
<1>1. RequestInv(r)
  BY DEF ForwardingInv
<1>2. /\ q \in RequestRecord
      /\ q.phase \in {"prepare", "done"}
      /\ q.route = req[r].route /\ req[r].route \in Routes
      /\ q.index \in DOMAIN q.route
      /\ q.event.result = "verified" => q.event.binding \in Nat
  BY ZenonT(30), <1>1, NextCandidateTyped DEF RequestInv, OnCandidate
<1>3. req'[r] = q /\ failed'[r] = failed[r] \cup {f} /\ sent'[r] = D
  BY DEF ForwardingInv
<1> HIDE DEF q
<1>4. RequestInv(r)'
  BY ZenonT(30), <1>1, <1>2, <1>3 DEF RequestInv, OnCandidate, InStep, Gated
<1> QED BY ZenonT(30), <1>4, OtherRequests DEF q

-----------------------------------------------------------------------------
(* The steps of a request.                                                 *)

\* The admission of a request keeps the invariant.
LEMMA AdmitKeeps ==
    ASSUME ForwardingInv, NEW r \in Requests, NEW route \in Routes,
           NEW required \in BOOLEAN, Admit(r, route, required)
    PROVE  ForwardingInv'
<1> DEFINE q == [NewRequest EXCEPT !.phase = "prepare", !.route = route, !.index = 1,
                                   !.required = required]
<1>1. VerifierInv'
  BY VerifierUnchanged DEF ForwardingInv, Admit, verifierVars
<1>2. 1 \in DOMAIN route
  <2>1. PICK n \in 1..MaxCandidates : route \in [1..n -> Keys]
    BY DEF Routes
  <2> QED BY <2>1
<1>3. q \in RequestRecord /\ q.phase = "prepare" /\ q.route = route /\ q.index = 1
      /\ q.event = FailedEvent
  <2>1. "prepare" \in Phases /\ "none" \in Outcomes /\ FailedEvent \in Event
    BY DEF Phases, Outcomes, FailedEvent, Event
  <2>2. "idle" \in Phases /\ <<>> \in Routes \cup {<<>>} /\ 0 \in Nat
        /\ [prio |-> 0, at |-> 0] \in [prio : 0..3, at : Nat]
    BY DEF Phases
  <2>3. NewRequest \in RequestRecord /\ NewRequest.event = FailedEvent
    BY <2>1, <2>2 DEF NewRequest, RequestRecord
  <2> QED BY ZenonT(30), <2>1, <2>3 DEF RequestRecord
<1>4. req' = [req EXCEPT ![r] = q] /\ req'[r] = q
  BY DEF Admit, ForwardingInv
<1> HIDE DEF q
<1>5. failed' = [failed EXCEPT ![r] = failed[r]] /\ sent' = [sent EXCEPT ![r] = sent[r]]
  BY ZenonT(30) DEF Admit, ForwardingInv
<1>6. RequestInv(r)'
  BY <1>2, <1>3, <1>4 DEF Admit, ForwardingInv, RequestInv, OnCandidate, InStep, Gated, FailedEvent
<1> QED BY ZenonT(30), <1>1, <1>4, <1>5, <1>6, OtherRequests DEF Admit

\* Preparing a candidate, and asking for its verification, keeps it.
LEMMA PrepareKeeps ==
    ASSUME ForwardingInv, NEW r \in Requests, Prepare(r)
    PROVE  ForwardingInv'
<1> DEFINE k == Candidate(r)
<1>1. RequestInv(r) /\ req[r] \in RequestRecord /\ k \in Keys /\ r \in Callers
  BY CandidateIsKey DEF ForwardingInv, RequestInv, Prepare
<1>2. channel[k] \in Nat
  BY <1>1 DEF ForwardingInv, VerifierInv, VerifierTypeOK
<1>3. call[r].pc = "idle"
  BY <1>1 DEF Prepare, RequestInv, InStep
<1>4. failed' = [failed EXCEPT ![r] = failed[r]] /\ sent' = [sent EXCEPT ![r] = sent[r]]
  BY ZenonT(30) DEF Prepare, ForwardingInv
<1>5. call \in [Callers -> [pc : CallPcs, key : Keys \cup {None}, kind : Kinds,
                           asked : Nat, event : Event]]
  BY DEF ForwardingInv, VerifierInv, VerifierTypeOK
<1>6. CASE k \in Tee
  <2> DEFINE q == [req[r] EXCEPT !.phase = "verify", !.since = channel[k]]
  <2>1. Call(r, k, "verify")
    BY <1>3, <1>6 DEF Prepare, Call
  <2>2. VerifierInv'
    BY <1>1, <2>1, CallKeeps DEF ForwardingInv, Kinds
  <2>3. req' = [req EXCEPT ![r] = q]
    BY <1>6 DEF Prepare, ForwardingInv
  <2>4. q \in RequestRecord /\ q.phase = "verify" /\ q.route = req[r].route
        /\ q.index = req[r].index /\ q.event = req[r].event
    <3>1. "verify" \in Phases
      BY DEF Phases
    <3> QED BY ZenonT(30), <1>1, <1>2, <3>1 DEF RequestRecord
  <2>5. req'[r] = q
    BY <2>3 DEF ForwardingInv
  <2> HIDE DEF q
  <2>6. call'[r].pc # "idle" /\ call'[r].key = k /\ \A c \in Callers \ {r} : call'[c] = call[c]
    BY <1>1, <1>5, <2>1 DEF Call, NewCall
  <2>7. Candidate(r)' = k
    BY <2>4, <2>5 DEF Candidate
  <2>8. RequestInv(r)'
    BY <1>1, <1>4, <2>4, <2>5, <2>6, <2>7 DEF Prepare, ForwardingInv, RequestInv, OnCandidate,
       InStep, Gated
  <2> QED BY ZenonT(30), <1>4, <2>2, <2>3, <2>6, <2>8, OtherRequests
<1>7. CASE k \notin Tee
  <2> DEFINE q == [req[r] EXCEPT !.phase = "send", !.since = channel[k]]
  <2>1. UNCHANGED verifierVars
    BY <1>7 DEF Prepare, verifierVars
  <2>2. VerifierInv'
    BY <2>1, VerifierUnchanged DEF ForwardingInv
  <2>3. req' = [req EXCEPT ![r] = q]
    BY <1>7 DEF Prepare, ForwardingInv
  <2>4. q \in RequestRecord /\ q.phase = "send" /\ q.route = req[r].route
        /\ q.index = req[r].index /\ q.event = req[r].event
    <3>1. "send" \in Phases
      BY DEF Phases
    <3> QED BY ZenonT(30), <1>1, <1>2, <3>1 DEF RequestRecord
  <2>5. req'[r] = q
    BY <2>3 DEF ForwardingInv
  <2> HIDE DEF q
  <2>6. Candidate(r)' = k /\ ~candidate_required(r)'
    BY <1>7, <2>4, <2>5 DEF Candidate, candidate_required
  <2>7. RequestInv(r)'
    BY <1>1, <1>3, <1>4, <2>1, <2>4, <2>5, <2>6 DEF verifierVars, Prepare, ForwardingInv,
       RequestInv, OnCandidate, InStep, Gated
  <2> QED BY ZenonT(30), <1>4, <2>1, <2>2, <2>3, <2>7, OtherRequests DEF verifierVars
<1> QED BY <1>6, <1>7

\* A candidate that cannot be prepared keeps it.
LEMMA PrepareFailsKeeps ==
    ASSUME ForwardingInv, NEW r \in Requests, NEW prio \in {1, 2}, PrepareFails(r, prio)
    PROVE  ForwardingInv'
<1> DEFINE f == Failure(r, "prepare", prio)
           err == upgrade_err(req[r].err, prio, req[r].index)
<1>1. VerifierInv'
  BY VerifierUnchanged DEF ForwardingInv, PrepareFails, verifierVars
<1>2. f \in FailureRecord /\ err \in [prio : 0..3, at : Nat]
  BY ZenonT(30), FailureTyped, Priorities DEF PrepareFails
<1>3. /\ req' = [req EXCEPT ![r] = NextCandidate(r, err)]
      /\ failed' = [failed EXCEPT ![r] = failed[r] \cup {f}]
      /\ sent' = [sent EXCEPT ![r] = sent[r]]
      /\ req[r].phase = "prepare" /\ call' = call
  BY DEF PrepareFails, FailCandidate, ForwardingInv
<1> HIDE DEF f, err
<1>4. sent[r] \in SUBSET DeliveryRecord /\ (\A d \in sent[r] : Closed(d)) /\ call[r].pc = "idle"
  BY <1>3 DEF ForwardingInv, RequestInv, InStep
<1> QED BY ZenonT(30), <1>1, <1>2, <1>3, <1>4, GiveUp

\* The gate on the verification result keeps it: what passes is verified or need not be.
LEMMA GateKeeps ==
    ASSUME ForwardingInv, NEW r \in Requests, Gate(r)
    PROVE  ForwardingInv'
<1>1. RequestInv(r) /\ req[r] \in RequestRecord /\ r \in Callers /\ req[r].phase = "verify"
      /\ call[r].pc = "return"
  BY DEF ForwardingInv, RequestInv, Gate
<1>2. Return(r)
  BY DEF Gate, Return
<1>3. VerifierInv'
  BY <1>1, <1>2, ReturnKeeps DEF ForwardingInv
<1>4. /\ call \in [Callers -> [pc : CallPcs, key : Keys \cup {None}, kind : Kinds,
                              asked : Nat, event : Event]]
      /\ call[r].event.result = "verified" => call[r].event.binding \in Nat
  BY ZenonT(30), <1>1 DEF ForwardingInv, VerifierInv, VerifierTypeOK, Ordered, CallOrdered
<1>5. call'[r].pc = "idle" /\ \A c \in Callers \ {r} : call'[c] = call[c]
  BY <1>1, <1>2, <1>4 DEF Return, Idle
<1>6. sent' = [sent EXCEPT ![r] = sent[r]]
  BY DEF Gate, ForwardingInv
<1>7. CASE candidate_required(r) /\ call[r].event.result # "verified"
  <2> DEFINE f == Failure(r, "verification", 3)
             err == upgrade_err(req[r].err, 3, req[r].index)
  <2>1. f \in FailureRecord /\ err \in [prio : 0..3, at : Nat]
    BY ZenonT(30), <1>1, FailureTyped, Priorities
  <2>2. /\ req' = [req EXCEPT ![r] = NextCandidate(r, err)]
        /\ failed' = [failed EXCEPT ![r] = failed[r] \cup {f}]
    BY <1>7 DEF Gate, FailCandidate
  <2> HIDE DEF f, err
  <2>3. sent[r] \in SUBSET DeliveryRecord /\ (\A d \in sent[r] : Closed(d))
    BY <1>1 DEF RequestInv
  <2> QED BY ZenonT(30), <1>1, <1>3, <1>5, <1>6, <2>1, <2>2, <2>3, GiveUp
<1>8. CASE ~(candidate_required(r) /\ call[r].event.result # "verified")
  <2> DEFINE q == [req[r] EXCEPT !.phase = "send", !.event = call[r].event]
  <2>1. req' = [req EXCEPT ![r] = q] /\ failed' = [failed EXCEPT ![r] = failed[r]]
    BY <1>8 DEF Gate, ForwardingInv
  <2>2. call[r].event \in Event /\ "send" \in Phases
    BY ZenonT(30), <1>1, <1>4 DEF Phases
  <2>3. q \in RequestRecord /\ q.phase = "send" /\ q.route = req[r].route
        /\ q.index = req[r].index /\ q.required = req[r].required /\ q.event = call[r].event
    BY ZenonT(30), <1>1, <2>2 DEF RequestRecord
  <2>4. req'[r] = q
    BY <2>1 DEF ForwardingInv
  <2> HIDE DEF q
  <2>5. candidate_required(r)' = candidate_required(r)
    BY <2>3, <2>4 DEF candidate_required, Candidate
  <2>6. RequestInv(r)'
    BY ZenonT(30), <1>1, <1>4, <1>5, <1>6, <1>8, <2>1, <2>3, <2>4, <2>5 DEF ForwardingInv, RequestInv,
       OnCandidate, InStep, Gated
  <2> QED BY ZenonT(30), <1>3, <1>5, <1>6, <2>1, <2>6, OtherRequests
<1> QED BY <1>7, <1>8

\* The verifier's share of a reverification: an invalidation and a new call.
LEMMA InvalidateAndCall ==
    ASSUME VerifierInv, NEW c \in Callers, NEW k \in Keys, call[c].pc = "idle",
           cache' = Without(cache, k), call' = [call EXCEPT ![c] = NewCall(k, "verify")],
           channel' = channel, verify_lock' = verify_lock
    PROVE  VerifierInv'
<1> USE DEF VerifierInv, NewCall, Without
<1>1. VerifierTypeOK'
  BY DEF VerifierTypeOK, CallPcs, Kinds, Event, FailedEvent
<1>2. OneVerification'
  BY DEF VerifierTypeOK, OneVerification, Holding
<1>3. CacheOrdered'
  BY DEF VerifierTypeOK, Ordered, CacheOrdered
<1>4. ASSUME NEW d \in Callers PROVE CallOrdered(d)'
  BY SMTT(30) DEF VerifierTypeOK, Ordered, CallOrdered, FailedEvent
<1> QED BY ZenonT(30), <1>1, <1>2, <1>3, <1>4 DEF Ordered

\* The retry after a binding mismatch keeps it.
LEMMA ReverifyKeeps ==
    ASSUME ForwardingInv, NEW r \in Requests, Reverify(r)
    PROVE  ForwardingInv'
<1> DEFINE q == [req[r] EXCEPT !.phase = "verify", !.reverify = req[r].reverify + 1]
<1>1. RequestInv(r) /\ req[r] \in RequestRecord /\ Candidate(r) \in Keys /\ r \in Callers
      /\ call[r].pc = "idle"
  BY CandidateIsKey DEF ForwardingInv, RequestInv, InStep, Reverify
<1>2. VerifierInv'
  BY ZenonT(30), <1>1, InvalidateAndCall DEF ForwardingInv, Reverify
<1>3. /\ req' = [req EXCEPT ![r] = q] /\ failed' = [failed EXCEPT ![r] = failed[r]]
      /\ sent' = [sent EXCEPT ![r] = sent[r]]
  BY ZenonT(30) DEF Reverify, ForwardingInv
<1>4. q \in RequestRecord /\ q.phase = "verify" /\ q.route = req[r].route
      /\ q.index = req[r].index /\ q.event = req[r].event
  <2>1. "verify" \in Phases /\ req[r].reverify + 1 \in Nat
    BY <1>1 DEF Phases, RequestRecord
  <2> QED BY ZenonT(30), <1>1, <2>1 DEF RequestRecord
<1>5. req'[r] = q /\ failed'[r] = failed[r] /\ sent'[r] = sent[r]
  BY <1>3 DEF ForwardingInv, Reverify
<1> HIDE DEF q
<1>6. call'[r].pc # "idle" /\ call'[r].key = Candidate(r)
      /\ \A c \in Callers \ {r} : call'[c] = call[c]
  BY <1>1 DEF Reverify, NewCall, ForwardingInv, VerifierInv, VerifierTypeOK
<1>7. Candidate(r)' = Candidate(r)
  BY <1>4, <1>5 DEF Candidate
<1>8. RequestInv(r)'
  <2>1. InStep(r)'
    BY <1>4, <1>5, <1>6, <1>7 DEF InStep
  <2>2. Gated(r)'
    BY ZenonT(30), <1>1, <1>4, <1>5 DEF RequestInv, Gated
  <2>3. OnCandidate(r)'
    BY <1>1, <1>4, <1>5 DEF RequestInv, OnCandidate, Reverify
  <2> QED BY <1>1, <1>4, <1>5, <2>1, <2>2, <2>3 DEF RequestInv
<1> QED BY ZenonT(30), <1>2, <1>3, <1>6, <1>8, OtherRequests

\* A binding mismatch with no retries left keeps it.
LEMMA MismatchFailsKeeps ==
    ASSUME ForwardingInv, NEW r \in Requests, MismatchFails(r)
    PROVE  ForwardingInv'
<1> DEFINE f == Failure(r, "mismatch", 2)
           err == upgrade_err(req[r].err, 2, req[r].index)
<1>1. RequestInv(r) /\ Candidate(r) \in Keys /\ req[r].phase = "send"
  BY CandidateIsKey DEF ForwardingInv, MismatchFails
<1>2. VerifierInv'
  <2>1. Invalidate(Candidate(r))
    BY DEF MismatchFails, Invalidate
  <2> QED BY <1>1, <2>1, EntryKeeps DEF ForwardingInv
<1>3. f \in FailureRecord /\ err \in [prio : 0..3, at : Nat]
  BY ZenonT(30), <1>1, FailureTyped, Priorities
<1>4. /\ req' = [req EXCEPT ![r] = NextCandidate(r, err)]
      /\ failed' = [failed EXCEPT ![r] = failed[r] \cup {f}]
      /\ sent' = [sent EXCEPT ![r] = sent[r]]
      /\ call' = call
  BY DEF MismatchFails, FailCandidate, ForwardingInv
<1> HIDE DEF f, err
<1>5. sent[r] \in SUBSET DeliveryRecord /\ (\A d \in sent[r] : Closed(d)) /\ call[r].pc = "idle"
  BY SMTT(30), <1>1 DEF RequestInv, InStep
<1> QED BY ZenonT(30), <1>1, <1>2, <1>3, <1>4, <1>5, GiveUp

\* A transport failure keeps it.
LEMMA TransportFailsKeeps ==
    ASSUME ForwardingInv, NEW r \in Requests, NEW reached \in BOOLEAN, TransportFails(r, reached)
    PROVE  ForwardingInv'
<1> DEFINE f == Failure(r, "transport", 2)
           err == upgrade_err(req[r].err, 2, req[r].index)
           D == IF reached THEN sent[r] \cup {Delivery(r, "lost")} ELSE sent[r]
<1>1. RequestInv(r) /\ req[r].phase = "send"
  BY DEF ForwardingInv, TransportFails
<1>2. VerifierInv'
  BY VerifierUnchanged DEF ForwardingInv, TransportFails, verifierVars
<1>3. f \in FailureRecord /\ err \in [prio : 0..3, at : Nat]
  BY ZenonT(30), <1>1, FailureTyped, Priorities
<1>4. /\ req' = [req EXCEPT ![r] = NextCandidate(r, err)]
      /\ failed' = [failed EXCEPT ![r] = failed[r] \cup {f}]
      /\ sent' = [sent EXCEPT ![r] = D]
      /\ call' = call
  BY ZenonT(30) DEF TransportFails, FailCandidate, ForwardingInv
<1>5. D \in SUBSET DeliveryRecord /\ \A d \in D : Closed(d)
  <2>1. sent[r] \subseteq DeliveryRecord /\ \A d \in sent[r] : Closed(d)
    BY <1>1 DEF RequestInv
  <2>2. reached => Delivery(r, "lost") \in DeliveryRecord /\ Closed(Delivery(r, "lost"))
    BY <1>1, DeliveryClosed DEF TransportFails
  <2> QED BY <2>1, <2>2
<1>6. call[r].pc = "idle"
  BY <1>1 DEF RequestInv, InStep
<1> HIDE DEF f, err, D
<1> QED BY ZenonT(30), <1>1, <1>2, <1>3, <1>4, <1>5, <1>6, GiveUp

\* A retryable answer of the provider keeps it.
LEMMA FailOverKeeps ==
    ASSUME ForwardingInv, NEW r \in Requests, NEW answer \in Answers, FailOver(r, answer)
    PROVE  ForwardingInv'
<1> DEFINE f == Failure(r, "status", 0)
           D == sent[r] \cup {Delivery(r, answer)}
<1>1. RequestInv(r) /\ req[r].phase = "send"
  BY DEF ForwardingInv, FailOver, Answered
<1>2. VerifierInv'
  BY VerifierUnchanged DEF ForwardingInv, FailOver, Answered, verifierVars
<1>3. f \in FailureRecord /\ req[r].err \in [prio : 0..3, at : Nat]
  <2>1. 0 \in 0..3 /\ req[r].phase # "idle"
    BY <1>1
  <2> QED BY ZenonT(30), <2>1, FailureTyped
<1>4. /\ req' = [req EXCEPT ![r] = NextCandidate(r, req[r].err)]
      /\ failed' = [failed EXCEPT ![r] = failed[r] \cup {f}]
      /\ sent' = [sent EXCEPT ![r] = D]
      /\ call' = call
  BY DEF FailOver, Answered
<1>5. D \in SUBSET DeliveryRecord /\ \A d \in D : Closed(d)
  BY <1>1, DeliveryClosed DEF RequestInv, FailOver, Answered
<1>6. call[r].pc = "idle"
  BY <1>1 DEF RequestInv, InStep
<1> HIDE DEF f, D
<1> QED BY ZenonT(30), <1>1, <1>2, <1>3, <1>4, <1>5, <1>6, GiveUp

\* A request that ends with the answer of its candidate.
LEMMA Finish ==
    ASSUME ForwardingInv, NEW r \in Requests, NEW answer \in Answers, Answered(r, answer),
           NEW outcome \in Outcomes, failed' = failed,
           req' = [req EXCEPT ![r] = Ended(r, outcome, req[r].event)]
    PROVE  ForwardingInv'
<1> DEFINE q == Ended(r, outcome, req[r].event)
           D == sent[r] \cup {Delivery(r, answer)}
<1>1. RequestInv(r) /\ req[r].phase = "send" /\ req[r] \in RequestRecord
  BY DEF ForwardingInv, Answered, RequestInv
<1>2. VerifierInv'
  BY VerifierUnchanged DEF ForwardingInv, Answered, verifierVars
<1>3. /\ req' = [req EXCEPT ![r] = q] /\ failed' = [failed EXCEPT ![r] = failed[r]]
      /\ sent' = [sent EXCEPT ![r] = D] /\ call' = call
  BY ZenonT(30) DEF Answered, ForwardingInv
<1>4. D \subseteq DeliveryRecord /\ \A d \in D : Closed(d)
  BY ZenonT(30), <1>1, DeliveryClosed DEF RequestInv, Answered
<1>5. q \in RequestRecord /\ q.phase = "done" /\ q.route = req[r].route
      /\ q.index = req[r].index /\ q.event = req[r].event
  <2>1. req[r].event \in Event
    BY <1>1 DEF RequestRecord
  <2> QED BY <1>1, <2>1, EndedFields
<1>6. req'[r] = q /\ failed'[r] = failed[r] /\ sent'[r] = D
  BY <1>3 DEF ForwardingInv
<1> HIDE DEF q, D
<1>7. RequestInv(r)'
  BY ZenonT(30), <1>1, <1>3, <1>4, <1>5, <1>6 DEF RequestInv, OnCandidate, InStep, Gated
<1> QED BY ZenonT(30), <1>2, <1>3, <1>7, OtherRequests

\* A refused stream keeps it.
LEMMA StreamErrorKeeps ==
    ASSUME ForwardingInv, NEW r \in Requests, NEW answer \in Answers, StreamError(r, answer)
    PROVE  ForwardingInv'
<1> QED BY ZenonT(30), Finish DEF StreamError, Outcomes

\* Committing to the answer of a candidate keeps it.
LEMMA CommitKeeps ==
    ASSUME ForwardingInv, NEW r \in Requests, NEW answer \in Answers, NEW sealed \in BOOLEAN,
           Commit(r, answer, sealed)
    PROVE  ForwardingInv'
<1> DEFINE outcome == IF sealed THEN "committed" ELSE "error"
<1>1. req' = [req EXCEPT ![r] = Ended(r, outcome, req[r].event)]
  BY DEF Commit, recorded_event
<1>2. outcome \in Outcomes
  BY DEF Outcomes
<1>3. Answered(r, answer) /\ failed' = failed
  BY ZenonT(30) DEF Commit
<1> HIDE DEF outcome
<1> QED BY ZenonT(30), <1>1, <1>2, <1>3, Finish

\* A request dropped by its client keeps it, whatever it was waiting for.
LEMMA AbandonKeeps ==
    ASSUME ForwardingInv, NEW r \in Requests, Abandon(r)
    PROVE  ForwardingInv'
<1> DEFINE q == Ended(r, "abandoned", FailedEvent)
<1>1. RequestInv(r) /\ req[r] \in RequestRecord /\ r \in Callers /\ req[r].phase # "idle"
  BY DEF ForwardingInv, RequestInv, Abandon
<1>2. call \in [Callers -> [pc : CallPcs, key : Keys \cup {None}, kind : Kinds,
                           asked : Nat, event : Event]]
  BY DEF ForwardingInv, VerifierInv, VerifierTypeOK
<1>3. call'[r].pc = "idle" /\ \A c \in Callers \ {r} : call'[c] = call[c]
  BY ZenonT(30), <1>1, <1>2 DEF Abandon, Idle
<1>4. VerifierInv'
  <2>1. CASE call[r].pc # "idle"
    BY ZenonT(30), <1>1, <2>1, CancelKeeps DEF Abandon, Cancel, ForwardingInv
  <2>2. CASE call[r].pc = "idle"
    <3> USE DEF Abandon, Unlock, VerifierInv, Idle
    <3>0. VerifierInv
      BY DEF ForwardingInv
    <3>1. VerifierTypeOK'
      BY ZenonT(30), <1>1, <3>0 DEF VerifierTypeOK, CallPcs, Kinds, Event, FailedEvent
    <3>2. OneVerification'
      BY <1>1, <2>2, <3>0 DEF VerifierTypeOK, OneVerification, Holding
    <3>3. CacheOrdered'
      BY ZenonT(30), <3>0 DEF Ordered, CacheOrdered
    <3>4. ASSUME NEW d \in Callers PROVE CallOrdered(d)'
      BY ZenonT(30), <3>0 DEF VerifierTypeOK, Ordered, CallOrdered, FailedEvent
    <3> QED BY <3>1, <3>2, <3>3, <3>4 DEF Ordered
  <2> QED BY <2>1, <2>2
<1>5. /\ req' = [req EXCEPT ![r] = q] /\ failed' = [failed EXCEPT ![r] = failed[r]]
      /\ sent' = [sent EXCEPT ![r] = sent[r]]
  BY ZenonT(30) DEF Abandon, ForwardingInv
<1>6. q \in RequestRecord /\ q.phase = "done" /\ q.route = req[r].route
      /\ q.index = req[r].index /\ q.event.result # "verified"
  <2>1. FailedEvent \in Event /\ FailedEvent.result # "verified"
    BY DEF FailedEvent, Event
  <2>2. "abandoned" \in Outcomes
    BY DEF Outcomes
  <2> QED BY SMTT(30), <1>1, <2>1, <2>2, EndedFields
<1>7. req'[r] = q /\ failed'[r] = failed[r] /\ sent'[r] = sent[r]
  BY <1>5 DEF ForwardingInv, Abandon
<1> HIDE DEF q
<1>8. RequestInv(r)'
  BY ZenonT(30), <1>1, <1>3, <1>6, <1>7 DEF RequestInv, OnCandidate, InStep, Gated
<1> QED BY ZenonT(30), <1>3, <1>4, <1>5, <1>8, OtherRequests

-----------------------------------------------------------------------------
(* The invariant.                                                          *)

\* Steps that leave the requests alone and neither begin nor end the
\* verification of one.
LEMMA Background ==
    ASSUME ForwardingInv, VerifierInv', UNCHANGED requestVars,
           \A r \in Requests : /\ call'[r].pc = "idle" <=> call[r].pc = "idle"
                               /\ call'[r].key = call[r].key
    PROVE  ForwardingInv'
<1>1. ASSUME NEW r \in Requests PROVE RequestInv(r)'
  BY Frame DEF requestVars, ForwardingInv
<1> QED BY <1>1 DEF requestVars, ForwardingInv

\* A step of the verifier keeps the invariant of the composition.
LEMMA VerifierStepInForwarding ==
    ASSUME ForwardingInv, NEW c \in Callers, VerifierStep(c), UNCHANGED requestVars
    PROVE  ForwardingInv'
<1>1. VerifierInv'
  BY VerifierStepKeeps DEF ForwardingInv
<1>2. \A r \in Requests : (call'[r].pc = "idle" <=> call[r].pc = "idle") /\ call'[r].key = call[r].key
  BY VerifierStepFrame DEF ForwardingInv
<1> QED BY <1>1, <1>2, Background

\* A verification begun by a background task keeps it.
LEMMA BackgroundCall ==
    ASSUME ForwardingInv, NEW c \in Callers \ Requests, UNCHANGED requestVars,
           \/ \E k \in Tee, kind \in Kinds : Call(c, k, kind)
           \/ Return(c)
           \/ Cancel(c)
    PROVE  ForwardingInv'
<1>1. VerifierInv'
  BY CallKeeps, ReturnKeeps, CancelKeeps DEF ForwardingInv
<1>2. call \in [Callers -> [pc : CallPcs, key : Keys \cup {None}, kind : Kinds,
                           asked : Nat, event : Event]]
  BY DEF ForwardingInv, VerifierInv, VerifierTypeOK
<1>3. \A r \in Requests : call'[r] = call[r]
  BY <1>2 DEF Call, Return, Cancel
<1> QED BY <1>1, <1>3, Background

\* A rotation, an expiry or an invalidation behind the requests' backs keeps it.
LEMMA BackgroundChange ==
    ASSUME ForwardingInv, NEW k \in Tee, Rotate(k) \/ Lapse(k), UNCHANGED requestVars
    PROVE  ForwardingInv'
<1>1. VerifierInv'
  BY EntryKeeps DEF ForwardingInv
<1> QED BY <1>1, Background DEF Rotate, Lapse

\* The inductive invariant holds initially.
LEMMA ForwardingInitHolds == ForwardingInit => ForwardingInv
<1> SUFFICES ASSUME ForwardingInit PROVE ForwardingInv
  OBVIOUS
<1>1. VerifierInv
  BY InitHolds DEF ForwardingInit
<1>2. "idle" \in Phases /\ "none" \in Outcomes /\ FailedEvent \in Event
      /\ <<>> \in Routes \cup {<<>>} /\ 0 \in Nat
      /\ [prio |-> 0, at |-> 0] \in [prio : 0..3, at : Nat]
  BY DEF Phases, Outcomes, FailedEvent, Event
<1>3. NewRequest \in RequestRecord /\ NewRequest.phase = "idle" /\ NewRequest.event = FailedEvent
  BY ZenonT(30), <1>2 DEF NewRequest, RequestRecord
<1>4. ASSUME NEW r \in Requests PROVE RequestInv(r)
  <2>1. call[r].pc = "idle"
    BY DEF ForwardingInit, VerifierInit, Idle
  <2> QED BY SMTT(30), <1>3, <2>1 DEF ForwardingInit, RequestInv, OnCandidate, InStep, Gated, FailedEvent
<1> QED BY <1>1, <1>4 DEF ForwardingInit, ForwardingInv

\* Every step of a request keeps the inductive invariant.
LEMMA RequestStepKeeps ==
    ASSUME ForwardingInv, NEW r \in Requests, RequestStep(r)
    PROVE  ForwardingInv'
  BY PrepareKeeps, PrepareFailsKeeps, GateKeeps, ReverifyKeeps, MismatchFailsKeeps,
     TransportFailsKeeps, FailOverKeeps, StreamErrorKeeps, CommitKeeps DEF RequestStep

\* Every step of the composition keeps the inductive invariant.
LEMMA ForwardingNextKeeps ==
    ForwardingInv /\ [ForwardingNext]_forwardingVars => ForwardingInv'
<1> SUFFICES ASSUME ForwardingInv, [ForwardingNext]_forwardingVars PROVE ForwardingInv'
  OBVIOUS
<1>1. ASSUME NEW r \in Requests,
             \/ \E route \in Routes, required \in BOOLEAN : Admit(r, route, required)
             \/ RequestStep(r)
             \/ Abandon(r)
             \/ VerifierStep(r) /\ UNCHANGED requestVars
      PROVE  ForwardingInv'
  BY <1>1, AdmitKeeps, RequestStepKeeps, AbandonKeeps, VerifierStepInForwarding
<1>2. ASSUME NEW c \in Callers \ Requests, UNCHANGED requestVars,
             \/ \E k \in Tee, kind \in Kinds : Call(c, k, kind)
             \/ VerifierStep(c)
             \/ Return(c)
             \/ Cancel(c)
      PROVE  ForwardingInv'
  BY <1>2, BackgroundCall, VerifierStepInForwarding
<1>3. ASSUME NEW k \in Tee, Rotate(k) \/ Lapse(k), UNCHANGED requestVars
      PROVE  ForwardingInv'
  BY <1>3, BackgroundChange
<1>4. CASE UNCHANGED forwardingVars
  <2>1. UNCHANGED verifierVars /\ UNCHANGED requestVars /\ call' = call
    BY <1>4 DEF forwardingVars, verifierVars, requestVars
  <2>2. VerifierInv'
    BY <2>1, VerifierUnchanged DEF ForwardingInv
  <2> QED BY <2>1, <2>2, Background
<1> QED BY <1>1, <1>2, <1>3, <1>4 DEF ForwardingNext

\* The inductive invariant holds of every behaviour.
THEOREM ForwardingInvariant == ForwardingSpec => []ForwardingInv
<1>1. ForwardingInit => ForwardingInv
  BY ForwardingInitHolds
<1>2. ForwardingInv /\ [ForwardingNext]_forwardingVars => ForwardingInv'
  BY ForwardingNextKeeps
<1> QED BY <1>1, <1>2, PTL DEF ForwardingSpec

\* The composition is well typed, and a request past admission always works on
\* a candidate of its list.
THEOREM ForwardingTypeCorrect == ForwardingSpec => []ForwardingTypeOK
<1>1. ForwardingInv => ForwardingTypeOK
  <2> SUFFICES ASSUME ForwardingInv PROVE ForwardingTypeOK
    OBVIOUS
  <2>1. VerifierTypeOK
    BY DEF ForwardingInv, VerifierInv
  <2>2. req \in [Requests -> RequestRecord]
    BY DEF ForwardingInv, RequestInv
  <2>3. failed \in [Requests -> SUBSET FailureRecord]
    BY DEF ForwardingInv, RequestInv
  <2>4. sent \in [Requests -> SUBSET DeliveryRecord]
    BY DEF ForwardingInv, RequestInv
  <2> QED BY <2>1, <2>2, <2>3, <2>4 DEF ForwardingInv, RequestInv, ForwardingTypeOK
<1> QED BY <1>1, ForwardingInvariant, PTL

\* Fail closed, for any number of requests, routes, rotations and retries: a
\* body that requires verification reaches a TEE upstream only over the channel
\* a successful verification bound.
THEOREM ForwardingFailsClosed == ForwardingSpec => []FailClosed
<1>1. ForwardingInv => FailClosed
  BY DEF ForwardingInv, RequestInv, Closed, FailClosed
<1> QED BY <1>1, ForwardingInvariant, PTL

\* What the verifier promises on its own it keeps in the composition, where the
\* requests drop calls, invalidate entries and ask again in the middle of a
\* retry loop: at most one verification runs, and a refresh answers with a
\* binding no older than the call.
THEOREM VerifierHoldsInForwarding == ForwardingSpec => [](OneVerification /\ RefreshIsFresh)
<1>1. ForwardingInv => OneVerification /\ RefreshIsFresh
  BY ZenonT(30) DEF ForwardingInv, VerifierInv, VerifierTypeOK, Ordered, CallOrdered, RefreshIsFresh
<1> QED BY <1>1, ForwardingInvariant, PTL

=============================================================================
