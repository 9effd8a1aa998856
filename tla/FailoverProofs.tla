--------------------------- MODULE FailoverProofs ---------------------------
(***************************************************************************)
(* Proofs about the failover of a request over its candidates, for lists   *)
(* of any length and any number of requests: no candidate gets the body    *)
(* twice, the failures are reported, and the reverification budget is      *)
(* enough.                                                                 *)
(*                                                                         *)
(* The invariant says of one request (Sound) that its failures are those   *)
(* of the candidates before the current one, each once, that the error it  *)
(* keeps is the best of theirs, and that the bodies it has sent went to    *)
(* those candidates and were lost or worth failing over.  The rest is what *)
(* makes that inductive: nothing has been sent to the current candidate    *)
(* while the request is active, and only the last candidate's failure,     *)
(* which has an error, ends the list.                                      *)
(*                                                                         *)
(* The budget has an invariant of its own (Budgeted): while the upstream   *)
(* has not rotated since the request turned to it, the reverifications the *)
(* request has made and the stale events that can still reach it, one in   *)
(* the cache and one in flight under verify_lock, are two at most.         *)
(***************************************************************************)
EXTENDS ForwardingProofs

LastFailed(q) == IF q.outcome = "all_failed" THEN q.index ELSE q.index - 1

\* err is the last of the most informative errors of the failures F.
Best(err, F) ==
    IF err.prio = 0
    THEN \A f \in F : f.prio = 0
    ELSE \E f \in F : /\ f.prio = err.prio /\ f.at = err.at
                      /\ \A g \in F : g.prio < f.prio \/ (g.prio = f.prio /\ g.at <= f.at)

Functional(S) == \A x, y \in S : x.at = y.at => x = y

FailedBefore(q, F) ==
    /\ Functional(F)
    /\ \A f \in F : f.at \in 1..LastFailed(q)
    /\ \A i \in 1..LastFailed(q) : \E f \in F : f.at = i

SentBefore(q, D) ==
    /\ Functional(D)
    /\ \A d \in D : d.at <= q.index
    /\ \A d \in D : d.at < q.index => d.answer \in {"retryable", "lost"}

\* The delivery the drafted receipt of q names.
Names(q, d) ==
    d.at = q.index /\ d.key = q.route[q.index] /\ d.event = q.event /\ d.answer # "lost"

\* What the invariant says of a request q with failures F and deliveries D.
Sound(q, F, D) ==
    /\ FailedBefore(q, F)
    /\ Best(q.err, F)
    /\ SentBefore(q, D)
    /\ q.phase = "idle" => F = {} /\ D = {} /\ q.err.prio = 0
    /\ q.phase # "done" => q.outcome = "none" /\ \A d \in D : d.at < q.index
    /\ q.outcome = "all_failed" => q.index = Len(q.route) /\ q.err.prio > 0
    /\ q.outcome = "committed" => \E d \in D : Names(q, d)

\* The inductive invariant.
FailoverInv ==
    /\ ForwardingInv
    /\ \A r \in Requests : Sound(req[r], failed[r], sent[r])

-----------------------------------------------------------------------------
(* Giving up a candidate.                                                  *)

\* The error kept after a failure of the current candidate is the best.
LEMMA BestAfterFailure ==
    ASSUME NEW err \in [prio : 0..3, at : Nat], NEW F \in SUBSET FailureRecord, Best(err, F),
           NEW i \in Nat, NEW f \in FailureRecord, f.at = i, \A g \in F : g.at < i
    PROVE  /\ f.prio = 0 => Best(err, F \cup {f})
           /\ f.prio > 0 => Best(upgrade_err(err, f.prio, i), F \cup {f})
<1>1. \A g \in F \cup {f} : g.prio \in 0..3 /\ g.at \in Nat
  BY DEF FailureRecord
<1>2. ASSUME f.prio = 0 PROVE Best(err, F \cup {f})
  <2>1. CASE err.prio = 0
    BY <1>2, <2>1 DEF Best
  <2>2. CASE err.prio # 0
    <3>1. PICK h \in F : /\ h.prio = err.prio /\ h.at = err.at
                         /\ \A g \in F : g.prio < h.prio \/ (g.prio = h.prio /\ g.at <= h.at)
      BY <2>2 DEF Best
    <3>2. f.prio < h.prio
      BY <1>1, <1>2, <2>2, <3>1
    <3> QED BY <2>2, <3>1, <3>2 DEF Best
  <2> QED BY <2>1, <2>2
<1>3. ASSUME f.prio > 0 PROVE Best(upgrade_err(err, f.prio, i), F \cup {f})
  <2>1. CASE f.prio >= err.prio
    <3>1. upgrade_err(err, f.prio, i) = [prio |-> f.prio, at |-> i]
      BY <2>1 DEF upgrade_err
    <3>2. \A g \in F : g.prio <= err.prio
      <4>1. CASE err.prio = 0
        BY <1>1, <4>1 DEF Best
      <4>2. CASE err.prio # 0
        BY <1>1, <4>2 DEF Best
      <4> QED BY <4>1, <4>2
    <3>3. \A g \in F \cup {f} : g.prio < f.prio \/ (g.prio = f.prio /\ g.at <= f.at)
      BY <1>1, <2>1, <3>2
    <3> QED BY <1>1, <1>3, <3>1, <3>3 DEF Best
  <2>2. CASE ~(f.prio >= err.prio)
    <3>1. upgrade_err(err, f.prio, i) = err /\ f.prio < err.prio /\ err.prio # 0
      BY <1>1, <1>3, <2>2 DEF upgrade_err
    <3>2. PICK h \in F : /\ h.prio = err.prio /\ h.at = err.at
                         /\ \A g \in F : g.prio < h.prio \/ (g.prio = h.prio /\ g.at <= h.at)
      BY <3>1 DEF Best
    <3> QED BY <1>1, <3>1, <3>2 DEF Best
  <2> QED BY <2>1, <2>2
<1> QED BY <1>2, <1>3

\* The fields of the record NextCandidate makes.
LEMMA NextCandidateFields ==
    ASSUME ForwardingInv, NEW r \in Requests, req[r].phase # "idle",
           NEW err \in [prio : 0..3, at : Nat]
    PROVE  LET q == NextCandidate(r, err)
           IN  /\ q.err = err /\ q.route = req[r].route
               /\ IF IsLast(r)
                  THEN q.phase = "done" /\ q.outcome = "all_failed" /\ q.index = req[r].index
                  ELSE q.phase = "prepare" /\ q.outcome = req[r].outcome
                       /\ q.index = req[r].index + 1
<1>1. req[r] \in RequestRecord
  BY DEF ForwardingInv, RequestInv
<1>2. CASE IsLast(r)
  <2> DEFINE e == Ended(r, "all_failed", FailedEvent)
  <2>1. FailedEvent \in Event /\ "all_failed" \in Outcomes
    BY DEF FailedEvent, Event, Outcomes
  <2>2. /\ e \in RequestRecord /\ e.phase = "done" /\ e.outcome = "all_failed"
        /\ e.route = req[r].route /\ e.index = req[r].index
    BY <1>1, <2>1, EndedFields
  <2>3. NextCandidate(r, err) = [e EXCEPT !.err = err]
    BY <1>2 DEF NextCandidate
  <2> HIDE DEF e
  <2> QED BY <1>2, <2>2, <2>3 DEF RequestRecord
<1>3. CASE ~IsLast(r)
  BY <1>1, <1>3 DEF NextCandidate, RequestRecord
<1> QED BY <1>2, <1>3

\* A candidate is given up, perhaps after it received the body.
LEMMA GiveUpSound ==
    ASSUME ForwardingInv, NEW r \in Requests, req[r].phase \notin {"idle", "done"},
           NEW F \in SUBSET FailureRecord, NEW D \in SUBSET DeliveryRecord, Sound(req[r], F, D),
           NEW f \in FailureRecord, f.at = req[r].index, IsLast(r) => f.prio > 0,
           NEW err, err = IF f.prio = 0 THEN req[r].err
                          ELSE upgrade_err(req[r].err, f.prio, req[r].index),
           NEW E \in SUBSET DeliveryRecord,
           \A d \in E : d \in D \/ (d.at = req[r].index /\ d.answer \in {"retryable", "lost"}),
           Functional(E)
    PROVE  Sound(NextCandidate(r, err), F \cup {f}, E)
<1> DEFINE q == NextCandidate(r, err)
           i == req[r].index
<1>1. /\ req[r] \in RequestRecord /\ i \in Nat /\ req[r].err \in [prio : 0..3, at : Nat]
      /\ req[r].outcome = "none"
      /\ i \in DOMAIN req[r].route /\ req[r].route \in Routes
      /\ i \in 1..Len(req[r].route)
  BY RouteFacts DEF ForwardingInv, RequestInv, RequestRecord, OnCandidate, Sound
<1>2. f.prio \in 0..3
  BY DEF FailureRecord
<1>3. err \in [prio : 0..3, at : Nat] /\ (f.prio > 0 => err.prio > 0)
  <2>1. i \in Nat /\ req[r].err \in [prio : 0..3, at : Nat]
    BY <1>1
  <2> QED BY SMTT(30), <1>2, <2>1 DEF upgrade_err
<1>4. /\ q.err = err /\ q.route = req[r].route
      /\ IF IsLast(r)
         THEN q.phase = "done" /\ q.outcome = "all_failed" /\ q.index = i
         ELSE q.phase = "prepare" /\ q.outcome = "none" /\ q.index = i + 1
  <2>1. req[r].outcome = "none" /\ err \in [prio : 0..3, at : Nat]
    BY <1>1, <1>3
  <2> QED BY SMTT(30), <2>1, NextCandidateFields
<1>5. LastFailed(req[r]) = i - 1 /\ LastFailed(q) = i
  BY SMTT(30), <1>1, <1>4 DEF LastFailed
<1> HIDE DEF q, i
<1>6. FailedBefore(req[r], F) /\ Best(req[r].err, F) /\ SentBefore(req[r], D)
  BY DEF Sound
<1>7. \A g \in F : g.at \in 1..(i - 1)
  BY <1>5, <1>6 DEF FailedBefore
<1>8. FailedBefore(q, F \cup {f})
  <2>1. f.at = i
    BY DEF i
  <2>2. Functional(F \cup {f})
    BY <1>1, <1>6, <1>7, <2>1 DEF FailedBefore, Functional
  <2>3. \A g \in F \cup {f} : g.at \in 1..i
    BY <1>1, <1>7, <2>1
  <2>4. ASSUME NEW j \in 1..i PROVE \E g \in F \cup {f} : g.at = j
    <3>1. CASE j = i
      BY <2>1, <3>1
    <3>2. CASE j # i
      BY <1>1, <1>5, <1>6, <3>2 DEF FailedBefore
    <3> QED BY <3>1, <3>2
  <2> QED BY <1>5, <2>2, <2>3, <2>4 DEF FailedBefore
<1>9. Best(q.err, F \cup {f})
  <2>1. \A g \in F : g.at < i
    BY <1>1, <1>7
  <2>2. /\ f.prio = 0 => Best(req[r].err, F \cup {f})
        /\ f.prio > 0 => Best(upgrade_err(req[r].err, f.prio, i), F \cup {f})
    BY ZenonT(30), <1>1, <1>6, <2>1, BestAfterFailure DEF i
  <2> QED BY <1>2, <1>4, <2>2 DEF i
<1>10. \A d \in E : d.at <= i /\ d.answer \in {"retryable", "lost"}
  <2>1. \A d \in D : d.at \in Nat /\ d.at < i
    BY DEF Sound, i, DeliveryRecord
  <2>2. \A d \in D : d.answer \in {"retryable", "lost"}
    BY <1>6, <2>1 DEF SentBefore, i
  <2> QED BY <1>1, <2>1, <2>2 DEF i
<1>11. \A d \in E : d.at \in Nat
  BY DEF DeliveryRecord
<1>12. SentBefore(q, E) /\ (q.phase # "done" => \A d \in E : d.at < q.index)
  BY <1>1, <1>4, <1>10, <1>11 DEF SentBefore
<1>13. q.outcome = "all_failed" => q.index = Len(q.route) /\ q.err.prio > 0
  BY <1>3, <1>4 DEF IsLast, i
<1> QED BY ZenonT(30), <1>4, <1>8, <1>9, <1>12, <1>13 DEF Sound, q

-----------------------------------------------------------------------------
(* The steps of a request.                                                 *)

\* A request that goes on with its candidate, its failures and deliveries as
\* they are.
LEMMA GoesOn ==
    ASSUME NEW q, NEW p, NEW F, NEW D, Sound(q, F, D),
           q.phase \notin {"idle", "done"}, p.phase \notin {"idle", "done"},
           p.index = q.index, p.outcome = q.outcome, p.err = q.err
    PROVE  Sound(p, F, D)
  BY DEF Sound, FailedBefore, SentBefore, LastFailed

\* A request that ends other than by exhausting its candidates, perhaps after
\* the current one answered.
LEMMA Ends ==
    ASSUME NEW q \in RequestRecord, NEW p, NEW F, NEW D \in SUBSET DeliveryRecord, Sound(q, F, D),
           q.phase \notin {"idle", "done"}, p.phase = "done",
           p.index = q.index, p.outcome # "all_failed", p.err = q.err,
           NEW E \in SUBSET DeliveryRecord, Functional(E), \A d \in E : d \in D \/ d.at = q.index,
           p.outcome = "committed" => \E d \in E : Names(p, d)
    PROVE  Sound(p, F, E)
<1>1. q.index \in Nat /\ \A d \in E \cup D : d.at \in Nat
  BY DEF RequestRecord, DeliveryRecord
<1>2. SentBefore(p, E)
  BY <1>1 DEF Sound, SentBefore
<1>3. FailedBefore(p, F)
  BY DEF Sound, FailedBefore, LastFailed
<1> QED BY <1>2, <1>3 DEF Sound

\* A body sent to the current candidate is the first sent to it.
LEMMA FirstDelivery ==
    ASSUME ForwardingInv, NEW r \in Requests, Sound(req[r], failed[r], sent[r]),
           req[r].phase = "send", ~Mismatch(r), NEW answer \in Answers \cup {"lost"}
    PROVE  LET E == sent[r] \cup {Delivery(r, answer)}
           IN  /\ E \in SUBSET DeliveryRecord
               /\ Functional(E)
               /\ \A d \in E : d \in sent[r] \/ (d.at = req[r].index /\ d.answer = answer)
<1>1. Delivery(r, answer) \in DeliveryRecord
  BY DeliveryClosed
<1>2. sent[r] \in SUBSET DeliveryRecord /\ req[r].index \in Nat
  BY DEF ForwardingInv, RequestInv, RequestRecord
<1>3. Delivery(r, answer).at = req[r].index /\ Delivery(r, answer).answer = answer
  BY DEF Delivery
<1>4. \A d \in sent[r] : d.at \in Nat /\ d.at < req[r].index
  BY <1>2 DEF Sound, DeliveryRecord
<1>5. Functional(sent[r])
  BY DEF Sound, SentBefore
<1>6. Functional(sent[r] \cup {Delivery(r, answer)})
  BY <1>2, <1>3, <1>4, <1>5 DEF Functional
<1> QED BY <1>1, <1>2, <1>3, <1>6

\* The records of the requests are functions on Requests, and typed.
LEMMA FailoverFacts ==
    ASSUME FailoverInv, NEW r \in Requests
    PROVE  /\ req = [s \in Requests |-> req[s]]
           /\ failed = [s \in Requests |-> failed[s]]
           /\ sent = [s \in Requests |-> sent[s]]
           /\ req[r] \in RequestRecord
           /\ failed[r] \in SUBSET FailureRecord
           /\ sent[r] \in SUBSET DeliveryRecord
           /\ Sound(req[r], failed[r], sent[r])
  BY DEF FailoverInv, ForwardingInv, RequestInv

\* A step of request r leaves the others sound.
LEMMA OthersSound ==
    ASSUME FailoverInv, NEW r \in Requests, NEW q, NEW F, NEW D,
           req' = [req EXCEPT ![r] = q], failed' = [failed EXCEPT ![r] = F],
           sent' = [sent EXCEPT ![r] = D], Sound(q, F, D), NEW s \in Requests
    PROVE  Sound(req'[s], failed'[s], sent'[s])
<1>1. /\ req'[r] = q /\ failed'[r] = F /\ sent'[r] = D
      /\ s # r => req'[s] = req[s] /\ failed'[s] = failed[s] /\ sent'[s] = sent[s]
  BY FailoverFacts
<1>2. Sound(req[s], failed[s], sent[s])
  BY DEF FailoverInv
<1>3. CASE s = r
  BY <1>1, <1>3
<1>4. CASE s # r
  BY <1>1, <1>2, <1>4
<1> QED BY <1>3, <1>4

\* What is left unchanged, as an assignment to r's entry.
LEMMA Kept ==
    ASSUME FailoverInv, NEW r \in Requests
    PROVE  failed = [failed EXCEPT ![r] = failed[r]] /\ sent = [sent EXCEPT ![r] = sent[r]]
  BY FailoverFacts

AllSound == \A s \in Requests : Sound(req[s], failed[s], sent[s])

\* An admitted request starts with nothing failed and nothing sent.
LEMMA AdmitSound ==
    ASSUME FailoverInv, NEW r \in Requests, NEW route \in Routes,
           NEW required \in BOOLEAN, Admit(r, route, required)
    PROVE  AllSound'
<1> DEFINE q == [NewRequest EXCEPT !.phase = "prepare", !.route = route, !.index = 1,
                                   !.required = required]
<1>1. failed[r] = {} /\ sent[r] = {}
  BY FailoverFacts DEF Admit, Sound
<1>2. q.phase = "prepare" /\ q.index = 1 /\ q.outcome = "none" /\ q.err.prio = 0
  BY DEF NewRequest
<1>3. req' = [req EXCEPT ![r] = q] /\ failed' = failed /\ sent' = sent
  BY DEF Admit
<1> HIDE DEF q
<1>4. Sound(q, {}, {})
  BY <1>2 DEF Sound, FailedBefore, SentBefore, Functional, LastFailed, Best
<1> QED BY ZenonT(30), <1>1, <1>3, <1>4, Kept, OthersSound DEF AllSound

\* A step that keeps the request on its candidate.
LEMMA StaysSound ==
    ASSUME FailoverInv, NEW r \in Requests, req[r].phase \notin {"idle", "done"}, NEW p,
           p.phase \notin {"idle", "done"}, p.index = req[r].index,
           p.outcome = req[r].outcome, p.err = req[r].err,
           req' = [req EXCEPT ![r] = p], failed' = failed, sent' = sent
    PROVE  AllSound'
<1>1. Sound(p, failed[r], sent[r])
  BY FailoverFacts, GoesOn
<1> QED BY ZenonT(30), <1>1, Kept, OthersSound DEF AllSound

\* Preparing, passing the gate and verifying again keep it there.
LEMMA PrepareSound ==
    ASSUME FailoverInv, NEW r \in Requests, Prepare(r)
    PROVE  AllSound'
<1> DEFINE k == Candidate(r)
           p == IF k \in Tee THEN [req[r] EXCEPT !.phase = "verify", !.since = channel[k]]
                             ELSE [req[r] EXCEPT !.phase = "send", !.since = channel[k]]
<1>1. req[r] \in RequestRecord /\ req[r].phase = "prepare"
  BY FailoverFacts DEF Prepare
<1>2. /\ p.phase \in {"verify", "send"} /\ p.index = req[r].index
      /\ p.outcome = req[r].outcome /\ p.err = req[r].err
  BY <1>1 DEF RequestRecord
<1>3. req' = [req EXCEPT ![r] = p]
  BY ZenonT(30), FailoverFacts DEF Prepare
<1>4. failed' = failed /\ sent' = sent
  BY DEF Prepare
<1> HIDE DEF p
<1> QED BY ZenonT(30), <1>1, <1>2, <1>3, <1>4, StaysSound

\* The common end of the steps that give up a candidate with an error.
LEMMA FailCandidateSound ==
    ASSUME FailoverInv, NEW r \in Requests, req[r].phase \notin {"idle", "done"},
           NEW cause \in {"prepare", "verification", "mismatch", "transport", "status"},
           NEW prio \in 1..3, FailCandidate(r, cause, prio),
           NEW E \in SUBSET DeliveryRecord, Functional(E),
           \A d \in E : d \in sent[r] \/ (d.at = req[r].index /\ d.answer \in {"retryable", "lost"}),
           sent' = [sent EXCEPT ![r] = E]
    PROVE  AllSound'
<1> DEFINE f == Failure(r, cause, prio)
           err == upgrade_err(req[r].err, prio, req[r].index)
<1>1. ForwardingInv /\ prio \in 0..3
  BY DEF FailoverInv
<1>2. f \in FailureRecord
  BY ZenonT(30), <1>1, FailureTyped, Priorities
<1>3. f.at = req[r].index /\ f.prio = prio
  BY DEF Failure
<1>4. req' = [req EXCEPT ![r] = NextCandidate(r, err)]
      /\ failed' = [failed EXCEPT ![r] = failed[r] \cup {f}]
  BY DEF FailCandidate
<1> HIDE DEF f
<1>5. Sound(NextCandidate(r, err), failed[r] \cup {f}, E)
  <2>1. f.prio > 0 /\ f.prio # 0
    BY <1>3
  <2>2. err = IF f.prio = 0 THEN req[r].err ELSE upgrade_err(req[r].err, f.prio, req[r].index)
    BY <1>3, <2>1
  <2> HIDE DEF err
  <2> QED BY ZenonT(30), <1>1, <1>2, <1>3, <2>1, <2>2, FailoverFacts, GiveUpSound
<1> HIDE DEF err
<1> QED BY ZenonT(30), <1>4, <1>5, OthersSound DEF AllSound

\* Nothing is sent by the steps that fail before the connection.
LEMMA FailsUnsentSound ==
    ASSUME FailoverInv, NEW r \in Requests, req[r].phase \notin {"idle", "done"},
           NEW cause \in {"prepare", "verification", "mismatch", "transport", "status"},
           NEW prio \in 1..3, FailCandidate(r, cause, prio), sent' = sent
    PROVE  AllSound'
<1>1. Functional(sent[r]) /\ sent[r] \in SUBSET DeliveryRecord
  BY FailoverFacts DEF Sound, SentBefore
<1>2. sent' = [sent EXCEPT ![r] = sent[r]]
  BY Kept
<1> QED BY ZenonT(30), <1>1, <1>2, FailCandidateSound

\* The gate lets the request on or fails the candidate.
LEMMA GateSound ==
    ASSUME FailoverInv, NEW r \in Requests, Gate(r)
    PROVE  AllSound'
<1>1. req[r] \in RequestRecord /\ req[r].phase = "verify" /\ sent' = sent
  BY FailoverFacts DEF Gate
<1>2. CASE FailCandidate(r, "verification", 3)
  BY <1>1, <1>2, FailsUnsentSound
<1>3. CASE /\ req' = [req EXCEPT ![r].phase = "send", ![r].event = call[r].event]
           /\ failed' = failed
  <2> DEFINE p == [req[r] EXCEPT !.phase = "send", !.event = call[r].event]
  <2>1. /\ p.phase = "send" /\ p.index = req[r].index
        /\ p.outcome = req[r].outcome /\ p.err = req[r].err
    BY <1>1 DEF RequestRecord
  <2>2. req' = [req EXCEPT ![r] = p]
    BY ZenonT(30), <1>3, FailoverFacts
  <2> HIDE DEF p
  <2> QED BY ZenonT(30), <1>1, <1>3, <2>1, <2>2, StaysSound
<1> QED BY <1>2, <1>3 DEF Gate

\* A reverification keeps the request on its candidate.
LEMMA ReverifySound ==
    ASSUME FailoverInv, NEW r \in Requests, Reverify(r)
    PROVE  AllSound'
<1> DEFINE p == [req[r] EXCEPT !.phase = "verify", !.reverify = @ + 1]
<1>1. req[r] \in RequestRecord /\ req[r].phase = "send"
  BY FailoverFacts DEF Reverify
<1>2. /\ p.phase = "verify" /\ p.index = req[r].index
      /\ p.outcome = req[r].outcome /\ p.err = req[r].err
  BY <1>1 DEF RequestRecord
<1>3. req' = [req EXCEPT ![r] = p] /\ failed' = failed /\ sent' = sent
  BY ZenonT(30), FailoverFacts DEF Reverify
<1> HIDE DEF p
<1> QED BY ZenonT(30), <1>1, <1>2, <1>3, StaysSound

\* A broken connection fails the candidate, whether it received the body or not.
LEMMA TransportFailsSound ==
    ASSUME FailoverInv, NEW r \in Requests, NEW reached \in BOOLEAN, TransportFails(r, reached)
    PROVE  AllSound'
<1>1. req[r].phase = "send" /\ FailCandidate(r, "transport", 2) /\ ForwardingInv
  BY DEF TransportFails, FailoverInv
<1>2. CASE reached
  <2> DEFINE E == sent[r] \cup {Delivery(r, "lost")}
  <2>1. ~Mismatch(r) /\ sent' = [sent EXCEPT ![r] = E]
    BY <1>2 DEF TransportFails
  <2>2. /\ E \in SUBSET DeliveryRecord /\ Functional(E)
        /\ \A d \in E : d \in sent[r] \/ (d.at = req[r].index /\ d.answer = "lost")
    BY ZenonT(30), <1>1, <2>1, FailoverFacts, FirstDelivery
  <2> HIDE DEF E
  <2>3. \A d \in E : d \in sent[r] \/ (d.at = req[r].index /\ d.answer \in {"retryable", "lost"})
    BY <2>2
  <2>4. req[r].phase \notin {"idle", "done"} /\ 2 \in 1..3
    BY <1>1
  <2> QED BY ZenonT(30), <1>1, <2>1, <2>2, <2>3, <2>4, FailCandidateSound
<1>3. CASE ~reached
  BY <1>1, <1>3, FailsUnsentSound DEF TransportFails
<1> QED BY <1>2, <1>3

\* An answer worth failing over gives up a candidate that is not the last.
LEMMA FailOverSound ==
    ASSUME FailoverInv, NEW r \in Requests, NEW answer \in Answers, FailOver(r, answer)
    PROVE  AllSound'
<1> DEFINE f == Failure(r, "status", 0)
           E == sent[r] \cup {Delivery(r, answer)}
<1>1. /\ req[r].phase = "send" /\ ~Mismatch(r) /\ ForwardingInv
      /\ answer = "retryable" /\ ~IsLast(r)
  BY DEF FailOver, Answered, FailsOver, FailoverInv
<1>2. f \in FailureRecord
  BY ZenonT(30), <1>1, FailureTyped, Priorities
<1>3. f.at = req[r].index /\ f.prio = 0
  BY DEF Failure
<1>4. /\ req' = [req EXCEPT ![r] = NextCandidate(r, req[r].err)]
      /\ failed' = [failed EXCEPT ![r] = failed[r] \cup {f}]
      /\ sent' = [sent EXCEPT ![r] = E]
  BY DEF FailOver, Answered
<1>5. /\ E \in SUBSET DeliveryRecord /\ Functional(E)
      /\ \A d \in E : d \in sent[r] \/ (d.at = req[r].index /\ d.answer = answer)
  BY ZenonT(30), <1>1, FailoverFacts, FirstDelivery
<1> HIDE DEF f, E
<1>6. \A d \in E : d \in sent[r] \/ (d.at = req[r].index /\ d.answer \in {"retryable", "lost"})
  BY SMTT(30), <1>1, <1>5
<1>7. Sound(NextCandidate(r, req[r].err), failed[r] \cup {f}, E)
  <2>1. req[r].phase \notin {"idle", "done"} /\ (IsLast(r) => f.prio > 0)
    BY <1>1
  <2>2. req[r].err = IF f.prio = 0 THEN req[r].err
                     ELSE upgrade_err(req[r].err, f.prio, req[r].index)
    BY <1>3
  <2> QED BY ZenonT(30), <1>1, <1>2, <1>3, <1>5, <1>6, <2>1, <2>2, FailoverFacts, GiveUpSound
<1> QED BY ZenonT(30), <1>4, <1>7, OthersSound DEF AllSound

\* A request ends with the answer of its candidate.
LEMMA AnsweredSound ==
    ASSUME FailoverInv, NEW r \in Requests, NEW answer \in Answers, Answered(r, answer),
           NEW p, p.phase = "done", p.index = req[r].index, p.outcome # "all_failed",
           p.err = req[r].err, p.route = req[r].route, p.event = req[r].event,
           req' = [req EXCEPT ![r] = p], failed' = failed
    PROVE  AllSound'
<1> DEFINE E == sent[r] \cup {Delivery(r, answer)}
<1>1. req[r].phase = "send" /\ ~Mismatch(r) /\ ForwardingInv /\ sent' = [sent EXCEPT ![r] = E]
  BY DEF Answered, FailoverInv
<1>2. /\ E \in SUBSET DeliveryRecord /\ Functional(E)
      /\ \A d \in E : d \in sent[r] \/ (d.at = req[r].index /\ d.answer = answer)
  BY ZenonT(30), <1>1, FailoverFacts, FirstDelivery
<1>0. \E d \in E : Names(p, d)
  <2>1. Delivery(r, answer) \in E
    OBVIOUS
  <2>2. answer # "lost"
    BY DEF Answers
  <2>3. Names(p, Delivery(r, answer))
    BY ZenonT(30), <2>2 DEF Names, Delivery, Candidate
  <2> QED BY <2>1, <2>3
<1> HIDE DEF E
<1>3. Sound(p, failed[r], E)
  <2>1. req[r].phase \notin {"idle", "done"}
    BY <1>1
  <2>2. \A d \in E : d \in sent[r] \/ d.at = req[r].index
    BY SMTT(30), <1>2
  <2> QED BY SMTT(30), <1>0, <1>2, <2>1, <2>2, FailoverFacts, Ends
<1> QED BY ZenonT(30), <1>1, <1>3, Kept, OthersSound DEF AllSound

\* A refused stream is such an end.
LEMMA StreamErrorSound ==
    ASSUME FailoverInv, NEW r \in Requests, NEW answer \in Answers, StreamError(r, answer)
    PROVE  AllSound'
<1> DEFINE p == Ended(r, "upstream_error", req[r].event)
<1>0. req[r] \in RequestRecord /\ req[r].event \in Event /\ "upstream_error" \in Outcomes
  BY FailoverFacts DEF RequestRecord, Outcomes
<1>1. /\ p.phase = "done" /\ p.index = req[r].index /\ p.outcome # "all_failed"
      /\ p.err = req[r].err /\ p.route = req[r].route /\ p.event = req[r].event
  BY SMTT(30), <1>0, EndedFields
<1>2. Answered(r, answer) /\ failed' = failed /\ req' = [req EXCEPT ![r] = p]
  BY FailoverFacts DEF StreamError
<1> HIDE DEF p
<1> QED BY ZenonT(30), <1>1, <1>2, AnsweredSound

\* So is a committed candidate, sealed or not.
LEMMA CommitSound ==
    ASSUME FailoverInv, NEW r \in Requests, NEW answer \in Answers, NEW sealed \in BOOLEAN,
           Commit(r, answer, sealed)
    PROVE  AllSound'
<1> DEFINE outcome == IF sealed THEN "committed" ELSE "error"
           p == Ended(r, outcome, req[r].event)
<1>0. /\ req[r] \in RequestRecord /\ req[r].event \in Event
      /\ outcome \in Outcomes /\ outcome # "all_failed"
  BY FailoverFacts DEF RequestRecord, Outcomes
<1>1. /\ p.phase = "done" /\ p.index = req[r].index /\ p.outcome # "all_failed"
      /\ p.err = req[r].err /\ p.route = req[r].route /\ p.event = req[r].event
  BY SMTT(30), <1>0, EndedFields
<1>2. Answered(r, answer) /\ failed' = failed /\ req' = [req EXCEPT ![r] = p]
  BY FailoverFacts DEF Commit, recorded_event
<1> HIDE DEF p
<1> QED BY ZenonT(30), <1>1, <1>2, AnsweredSound

\* A request dropped by its client ends without an answer.
LEMMA AbandonSound ==
    ASSUME FailoverInv, NEW r \in Requests, Abandon(r)
    PROVE  AllSound'
<1> DEFINE p == Ended(r, "abandoned", FailedEvent)
<1>1. req[r] \in RequestRecord /\ req[r].phase \notin {"idle", "done"}
  BY FailoverFacts DEF Abandon
<1>2. /\ p.phase = "done" /\ p.index = req[r].index /\ p.outcome = "abandoned"
      /\ p.err = req[r].err
  <2>1. FailedEvent \in Event /\ "abandoned" \in Outcomes
    BY DEF FailedEvent, Event, Outcomes
  <2> QED BY SMTT(30), <1>1, <2>1, EndedFields
<1>3. failed' = failed /\ sent' = sent /\ req' = [req EXCEPT ![r] = p]
  BY FailoverFacts DEF Abandon
<1> HIDE DEF p
<1>4. Functional(sent[r])
  BY FailoverFacts DEF Sound, SentBefore
<1>5. Sound(p, failed[r], sent[r])
  BY <1>1, <1>2, <1>4, FailoverFacts, Ends
<1> QED BY ZenonT(30), <1>3, <1>5, Kept, OthersSound DEF AllSound

-----------------------------------------------------------------------------
(* The theorems.                                                           *)

\* Every step of a request keeps all requests sound.
LEMMA RequestStepSound ==
    ASSUME FailoverInv, NEW r \in Requests, RequestStep(r)
    PROVE  AllSound'
<1>1. ASSUME NEW prio \in {1, 2}, PrepareFails(r, prio) PROVE AllSound'
  <2>1. req[r].phase = "prepare" /\ FailCandidate(r, "prepare", prio) /\ sent' = sent
    BY <1>1 DEF PrepareFails
  <2> QED BY <2>1, FailsUnsentSound
<1>2. ASSUME MismatchFails(r) PROVE AllSound'
  <2>1. req[r].phase = "send" /\ FailCandidate(r, "mismatch", 2) /\ sent' = sent
    BY <1>2 DEF MismatchFails
  <2> QED BY <2>1, FailsUnsentSound
<1> QED BY <1>1, <1>2, PrepareSound, GateSound, ReverifySound, TransportFailsSound, FailOverSound,
           StreamErrorSound, CommitSound DEF RequestStep

\* The inductive invariant is kept by every step of the composition.
LEMMA FailoverNextKeeps ==
    FailoverInv /\ [ForwardingNext]_forwardingVars => FailoverInv'
<1> SUFFICES ASSUME FailoverInv, [ForwardingNext]_forwardingVars PROVE FailoverInv'
  OBVIOUS
<1>1. ForwardingInv'
  BY ForwardingNextKeeps DEF FailoverInv
<1>2. ASSUME UNCHANGED requestVars PROVE AllSound'
  BY <1>2 DEF requestVars, FailoverInv, AllSound
<1>3. ASSUME NEW r \in Requests,
             \/ \E route \in Routes, required \in BOOLEAN : Admit(r, route, required)
             \/ RequestStep(r)
             \/ Abandon(r)
      PROVE  AllSound'
  BY <1>3, AdmitSound, RequestStepSound, AbandonSound
<1>4. ASSUME UNCHANGED forwardingVars PROVE AllSound'
  BY <1>2, <1>4 DEF forwardingVars, requestVars
<1>5. AllSound'
  BY <1>2, <1>3, <1>4 DEF ForwardingNext
<1> QED BY <1>1, <1>5 DEF FailoverInv, AllSound

\* The inductive invariant holds of every behaviour.
THEOREM FailoverInvariant == ForwardingSpec => []FailoverInv
<1>1. ForwardingInit => FailoverInv
  <2> SUFFICES ASSUME ForwardingInit PROVE FailoverInv
    OBVIOUS
  <2>1. ForwardingInv
    BY ForwardingInitHolds
  <2>2. ASSUME NEW r \in Requests PROVE Sound(req[r], failed[r], sent[r])
    <3>1. req[r] = NewRequest /\ failed[r] = {} /\ sent[r] = {}
      BY DEF ForwardingInit
    <3>2. /\ NewRequest.phase = "idle" /\ NewRequest.index = 0 /\ NewRequest.outcome = "none"
          /\ NewRequest.err.prio = 0
      BY DEF NewRequest
    <3>3. 1..LastFailed(NewRequest) = {}
      BY <3>2 DEF LastFailed
    <3> HIDE DEF NewRequest
    <3>4. FailedBefore(NewRequest, {}) /\ Best(NewRequest.err, {}) /\ SentBefore(NewRequest, {})
      BY <3>2, <3>3 DEF FailedBefore, Best, SentBefore, Functional
    <3> QED BY ZenonT(30), <3>1, <3>2, <3>4 DEF Sound
  <2> QED BY <2>1, <2>2 DEF FailoverInv
<1>2. FailoverInv /\ [ForwardingNext]_forwardingVars => FailoverInv'
  BY FailoverNextKeeps
<1> QED BY <1>1, <1>2, PTL DEF ForwardingSpec

\* A candidate receives the body at most once, and all but the last to receive
\* it broke the connection or answered with a status worth failing over, however
\* many candidates, requests, rotations and retries there are.
THEOREM CandidatesServedOnce == ForwardingSpec => []ServedOnce
<1>1. FailoverInv => ServedOnce
  <2> SUFFICES ASSUME FailoverInv, NEW r \in Requests, NEW d \in sent[r], NEW e \in sent[r]
               PROVE  /\ d.at = e.at => d = e
                      /\ d.at < e.at => d.answer \in {"retryable", "lost"}
                      /\ d.answer \in {"ok", "terminal"} => d.at = req[r].index
    BY DEF ServedOnce
  <2>1. SentBefore(req[r], sent[r])
    BY FailoverFacts DEF Sound
  <2>2. d.at \in Nat /\ e.at \in Nat /\ req[r].index \in Nat
    BY FailoverFacts DEF DeliveryRecord, RequestRecord
  <2> QED BY <2>1, <2>2 DEF SentBefore, Functional
<1> QED BY <1>1, FailoverInvariant, PTL

\* Every candidate given up is reported once, and a request whose candidates are
\* exhausted returns the last of its most informative errors.
THEOREM FailuresAreReported == ForwardingSpec => []FailuresReported
<1>1. FailoverInv => FailuresReported
  <2> SUFFICES ASSUME FailoverInv, NEW r \in Requests
               PROVE  /\ \A f, g \in failed[r] : f.at = g.at => f = g
                      /\ req[r].outcome = "all_failed" =>
                          /\ {f.at : f \in failed[r]} = DOMAIN req[r].route
                          /\ \E f \in failed[r] :
                              /\ f.prio > 0
                              /\ req[r].err = [prio |-> f.prio, at |-> f.at]
                              /\ \A g \in failed[r] :
                                    g.prio < f.prio \/ (g.prio = f.prio /\ g.at <= f.at)
                      /\ req[r].outcome \in {"committed", "upstream_error"} =>
                          {f.at : f \in failed[r]} = 1..(req[r].index - 1)
    BY ZenonT(30) DEF FailuresReported
  <2>1. /\ FailedBefore(req[r], failed[r]) /\ Best(req[r].err, failed[r])
        /\ req[r].outcome = "all_failed" => req[r].index = Len(req[r].route) /\ req[r].err.prio > 0
        /\ req[r].phase = "idle" => req[r].outcome = "none"
    BY FailoverFacts DEF Sound
  <2>2. {f.at : f \in failed[r]} = 1..LastFailed(req[r])
    BY SMTT(30), <2>1 DEF FailedBefore
  <2>3. ASSUME req[r].outcome = "all_failed"
        PROVE  /\ {f.at : f \in failed[r]} = DOMAIN req[r].route
               /\ \E f \in failed[r] :
                    /\ f.prio > 0
                    /\ req[r].err = [prio |-> f.prio, at |-> f.at]
                    /\ \A g \in failed[r] : g.prio < f.prio \/ (g.prio = f.prio /\ g.at <= f.at)
    <3>1. req[r].route \in Routes
      BY <2>1, <2>3 DEF FailoverInv, ForwardingInv, RequestInv, OnCandidate
    <3>2. DOMAIN req[r].route = 1..LastFailed(req[r])
      BY SMTT(30), <2>1, <2>3, <3>1, RouteFacts DEF LastFailed
    <3>3. req[r].err \in [prio : 0..3, at : Nat]
      BY FailoverFacts DEF RequestRecord
    <3>4. PICK f \in failed[r] : /\ f.prio = req[r].err.prio /\ f.at = req[r].err.at
                                 /\ \A g \in failed[r] : g.prio < f.prio
                                                         \/ (g.prio = f.prio /\ g.at <= f.at)
      BY SMTT(30), <2>1, <2>3, <3>3 DEF Best
    <3>5. f.prio > 0 /\ req[r].err = [prio |-> f.prio, at |-> f.at]
      BY SMTT(30), <2>1, <2>3, <3>3, <3>4
    <3> QED BY ZenonT(30), <2>2, <3>2, <3>4, <3>5
  <2>4. req[r].outcome # "all_failed" => LastFailed(req[r]) = req[r].index - 1
    BY DEF LastFailed
  <2> QED BY ZenonT(30), <2>1, <2>2, <2>3, <2>4 DEF FailedBefore, Functional
<1> QED BY <1>1, FailoverInvariant, PTL

\* The drafted receipt of a committed request names the candidate, the channel
\* and the event the answer came over.
THEOREM ReceiptNamesTheServer == ForwardingSpec => []ReceiptNamesServingChannel
<1>1. FailoverInv => ReceiptNamesServingChannel
  BY SMTT(30), FailoverFacts DEF Sound, Names, ReceiptNamesServingChannel, Candidate
<1> QED BY <1>1, FailoverInvariant, PTL

-----------------------------------------------------------------------------
(* The reverification budget.                                              *)

Cost(b) == IF b THEN 1 ELSE 0

\* The two places a binding from before a rotation can come from: the cache,
\* and the verification that holds verify_lock.
StaleCached(k) == k \in DOMAIN cache /\ cache[k].binding # channel[k]

StaleInFlight(k) ==
    \E c \in Callers : /\ call[c].pc = "ran" /\ call[c].key = k
                       /\ call[c].event.result = "verified"
                       /\ call[c].event.binding # channel[k]

Stale(event, s) == event.binding \notin {None, s}

\* Request q with call x, whose upstream serves s, has a stale event in hand.
StaleInHand(q, x, s) ==
    \/ q.phase = "verify" /\ x.pc = "return" /\ Stale(x.event, s)
    \/ q.phase = "send" /\ Stale(q.event, s)

\* As long as the upstream has not rotated since the request turned to it, the
\* reverifications made and the stale events still to come are two at most; a
\* stale event in hand has used up its own.
Budgeted(q, x, s, cached, flight) ==
    /\ q.phase = "prepare" => q.event = FailedEvent /\ q.reverify = 0
    /\ q.phase \in {"verify", "send"} => q.since <= s
    /\ q.phase = "verify" /\ x.pc = "ran" /\ q.since = s => ~Stale(x.event, s)
    /\ q.phase \in {"verify", "send"} /\ q.since = s =>
          IF StaleInHand(q, x, s)
          THEN q.reverify + Cost(flight) <= 1
          ELSE q.reverify + Cost(cached) + Cost(flight) <= 2

BudgetInv(r) ==
    req[r].phase \in {"prepare", "verify", "send"} =>
        Budgeted(req[r], call[r], channel[Candidate(r)],
                 StaleCached(Candidate(r)), StaleInFlight(Candidate(r)))

Excused(F) == \A f \in F : f.cause = "mismatch" => f.rotated

\* The inductive invariant.
RotationInv == \A r \in Requests : BudgetInv(r) /\ Excused(failed[r])

\* A step brings no stale event for k into play: one in the cache was there, or
\* was in flight and no longer is.
Calm(k) ==
    /\ channel'[k] \in Nat /\ channel'[k] >= channel[k]
    /\ channel'[k] = channel[k] =>
          /\ StaleInFlight(k)' => StaleInFlight(k)
          /\ StaleCached(k)' => StaleCached(k) \/ (StaleInFlight(k) /\ ~StaleInFlight(k)')

AllCalm == \A k \in Keys : Calm(k)

\* What the verifier's invariant says of the channels.
LEMMA ChannelNat ==
    ASSUME VerifierInv, NEW k \in Keys
    PROVE  channel[k] \in Nat
  BY VerifierAssumption DEF VerifierInv, VerifierTypeOK

\* A step that caches nothing and collects nothing.
LEMMA QuietIsCalm ==
    ASSUME VerifierInv, channel' = channel,
           \A k \in DOMAIN cache' : k \in DOMAIN cache /\ cache'[k].binding = cache[k].binding,
           \A c \in Callers : call'[c].pc = "ran" => call'[c] = call[c]
    PROVE  AllCalm
<1> SUFFICES ASSUME NEW k \in Keys PROVE Calm(k)
  BY DEF AllCalm
<1>1. channel[k] \in Nat
  BY ChannelNat
<1>2. StaleInFlight(k)' => StaleInFlight(k)
  BY DEF StaleInFlight
<1>3. StaleCached(k)' => StaleCached(k)
  BY DEF StaleCached
<1> QED BY SMTT(30), <1>1, <1>2, <1>3 DEF Calm

\* The verifier attests the channel as it is.
LEMMA CollectIsCalm ==
    ASSUME VerifierInv, NEW c \in Callers, Collect(c)
    PROVE  AllCalm
<1> SUFFICES ASSUME NEW k \in Keys PROVE Calm(k)
  BY DEF AllCalm
<1>1. channel[k] \in Nat /\ channel' = channel /\ cache' = cache
  BY ChannelNat DEF Collect
<1>2. PICK event \in Verdicts(call[c].key) :
          call' = [call EXCEPT ![c].pc = "ran", ![c].event = event]
  BY ZenonT(30) DEF Collect
<1>3. event.result = "verified" => event.binding = channel[call[c].key]
  BY DEF Verdicts, FailedEvent
<1>4. /\ call'[c].key = call[c].key /\ call'[c].event = event
      /\ \A d \in Callers \ {c} : call'[d] = call[d]
  BY <1>2 DEF VerifierInv, VerifierTypeOK
<1>5. StaleInFlight(k)' => StaleInFlight(k)
  BY <1>1, <1>3, <1>4 DEF StaleInFlight
<1>6. StaleCached(k)' => StaleCached(k)
  BY <1>1 DEF StaleCached
<1> QED BY <1>1, <1>5, <1>6 DEF Calm

\* The one verification in flight is cached, and then none is in flight.
LEMMA StoreIsCalm ==
    ASSUME VerifierInv, NEW c \in Callers, Store(c)
    PROVE  AllCalm
<1> SUFFICES ASSUME NEW k \in Keys PROVE Calm(k)
  BY DEF AllCalm
<1>1. channel[k] \in Nat /\ channel' = channel /\ call[c].pc = "ran"
  BY ChannelNat DEF Store
<1>2. \A d \in Callers \ {c} : call[d].pc # "ran" /\ call'[d] = call[d]
  BY <1>1 DEF Store, Answer, VerifierInv, VerifierTypeOK, OneVerification, Holding
<1>3. call'[c].pc = "return"
  BY DEF Store, Answer, VerifierInv, VerifierTypeOK
<1>4. ~StaleInFlight(k)'
  BY <1>2, <1>3 DEF StaleInFlight
<1>5. ASSUME StaleCached(k)', ~StaleCached(k) PROVE StaleInFlight(k)
  <2>1. /\ call[c].event.result = "verified" /\ call[c].key = k
        /\ cache'[k].binding = call[c].event.binding
    BY <1>1, <1>5 DEF Store, StaleCached, With
  <2> QED BY <1>1, <1>5, <2>1 DEF StaleInFlight, StaleCached
<1> QED BY <1>1, <1>4, <1>5 DEF Calm

\* A rotation: what was current becomes stale, but no longer unrotated.
LEMMA RotateIsCalm ==
    ASSUME VerifierInv, NEW x \in Keys, Rotate(x)
    PROVE  AllCalm
<1> SUFFICES ASSUME NEW k \in Keys PROVE Calm(k)
  BY DEF AllCalm
<1>1. channel[k] \in Nat /\ cache' = cache /\ call' = call
  BY ChannelNat DEF Rotate
<1>2. channel'[k] = IF k = x THEN channel[k] + 1 ELSE channel[k]
  BY DEF Rotate, VerifierInv, VerifierTypeOK
<1>3. CASE k = x
  BY <1>1, <1>2, <1>3 DEF Calm
<1>4. CASE k # x
  <2>1. channel'[k] = channel[k]
    BY <1>2, <1>4
  <2>2. (StaleInFlight(k)' => StaleInFlight(k)) /\ (StaleCached(k)' => StaleCached(k))
    BY <1>1, <2>1 DEF StaleInFlight, StaleCached
  <2> QED BY <1>1, <2>1, <2>2 DEF Calm
<1> QED BY <1>3, <1>4

\* The verifier's own steps.
LEMMA VerifierStepIsCalm ==
    ASSUME VerifierInv, NEW c \in Callers, VerifierStep(c)
    PROVE  AllCalm
<1>1. ASSUME Lookup(c) \/ Acquire(c) PROVE AllCalm
  <2>1. channel' = channel /\ cache' = cache
    BY ZenonT(30), <1>1 DEF Lookup, Acquire
  <2>2. call'[c].pc # "ran" /\ \A d \in Callers \ {c} : call'[d] = call[d]
    BY <1>1 DEF Lookup, Acquire, Answer, Goto, VerifierInv, VerifierTypeOK
  <2> QED BY <2>1, <2>2, QuietIsCalm
<1>2. ASSUME DropLapsed(c) PROVE AllCalm
  <2>1. channel' = channel /\ cache' = Without(cache, call[c].key)
    BY <1>2 DEF DropLapsed
  <2>2. call'[c].pc # "ran" /\ \A d \in Callers \ {c} : call'[d] = call[d]
    BY <1>2 DEF DropLapsed, Goto, VerifierInv, VerifierTypeOK
  <2>3. \A k \in DOMAIN cache' : k \in DOMAIN cache /\ cache'[k].binding = cache[k].binding
    BY <2>1 DEF Without
  <2> QED BY <2>1, <2>2, <2>3, QuietIsCalm
<1> QED BY <1>1, <1>2, CollectIsCalm, StoreIsCalm DEF VerifierStep

\* A calm step of somebody else leaves the budget as it is.
LEMMA CalmKeepsBudget ==
    ASSUME NEW q, q.since \in Nat, q.reverify \in Nat, NEW x, NEW s \in Nat, NEW t \in Nat, t >= s,
           NEW cached \in BOOLEAN, NEW flight \in BOOLEAN,
           NEW cached2 \in BOOLEAN, NEW flight2 \in BOOLEAN,
           t = s => (flight2 => flight) /\ (cached2 => cached \/ (flight /\ ~flight2)),
           Budgeted(q, x, s, cached, flight)
    PROVE  Budgeted(q, x, t, cached2, flight2)
<1>1. CASE t = s
  <2>1. Cost(flight2) <= Cost(flight) /\ Cost(flight) \in Nat /\ Cost(flight2) \in Nat
    BY <1>1 DEF Cost
  <2>2. Cost(cached2) + Cost(flight2) <= Cost(cached) + Cost(flight)
        /\ Cost(cached) \in Nat /\ Cost(cached2) \in Nat
    BY <1>1 DEF Cost
  <2>3. CASE StaleInHand(q, x, s)
    BY <1>1, <2>1, <2>3 DEF Budgeted
  <2>4. CASE ~StaleInHand(q, x, s)
    BY <1>1, <2>1, <2>2, <2>4 DEF Budgeted
  <2> QED BY <2>3, <2>4
<1>2. CASE t > s
  BY <1>2 DEF Budgeted
<1> QED BY <1>1, <1>2

\* A step of the request's own verification: its answer is stale only if the
\* cache was.
LEMMA CallKeepsBudget ==
    ASSUME NEW q, q.since \in Nat, q.reverify \in Nat, q.phase = "verify", NEW s \in Nat,
           NEW cached \in BOOLEAN, NEW flight \in BOOLEAN,
           NEW cached2 \in BOOLEAN, NEW flight2 \in BOOLEAN,
           flight2 => flight, cached2 => cached \/ (flight /\ ~flight2),
           NEW x, NEW y, Budgeted(q, x, s, cached, flight), x.pc # "return",
           y.pc = "ran" => ~Stale(y.event, s),
           y.pc = "return" /\ q.since = s /\ Stale(y.event, s) => cached
    PROVE  Budgeted(q, y, s, cached2, flight2)
<1>1. ~StaleInHand(q, x, s)
  BY DEF StaleInHand
<1>2. q.since <= s /\ (q.since = s => q.reverify + Cost(cached) + Cost(flight) <= 2)
  BY <1>1 DEF Budgeted
<1>3. Cost(cached2) + Cost(flight2) <= Cost(cached) + Cost(flight)
      /\ Cost(cached) \in Nat /\ Cost(cached2) \in Nat
      /\ Cost(flight2) <= Cost(flight) /\ Cost(flight) \in Nat /\ Cost(flight2) \in Nat
  BY DEF Cost
<1>4. CASE StaleInHand(q, y, s) /\ q.since = s
  <2>1. cached
    BY <1>4 DEF StaleInHand
  <2>2. q.reverify + Cost(flight2) <= 1
    BY <1>2, <1>3, <1>4, <2>1 DEF Cost
  <2> QED BY <1>2, <1>4, <2>2 DEF Budgeted
<1>5. CASE ~StaleInHand(q, y, s) \/ q.since # s
  BY <1>2, <1>3, <1>5 DEF Budgeted
<1> QED BY <1>4, <1>5

\* What the invariants say of a request at work, in one place.
LEMMA RotationFacts ==
    ASSUME ForwardingInv, NEW r \in Requests
    PROVE  /\ VerifierInv /\ r \in Callers /\ RequestInv(r)
           /\ req = [s \in Requests |-> req[s]] /\ failed = [s \in Requests |-> failed[s]]
           /\ req[r] \in RequestRecord /\ req[r].since \in Nat /\ req[r].reverify \in Nat
           /\ req[r].phase # "idle" => Candidate(r) \in Keys /\ channel[Candidate(r)] \in Nat
           /\ call \in [Callers -> [pc : CallPcs, key : Keys \cup {None}, kind : Kinds,
                                    asked : Nat, event : Event]]
<1>1. VerifierInv /\ r \in Callers /\ RequestInv(r)
      /\ req = [s \in Requests |-> req[s]] /\ failed = [s \in Requests |-> failed[s]]
  BY ForwardingAssumption DEF ForwardingInv
<1>2. req[r] \in RequestRecord /\ req[r].since \in Nat /\ req[r].reverify \in Nat
  BY <1>1 DEF RequestInv, RequestRecord
<1>3. req[r].phase # "idle" => Candidate(r) \in Keys /\ channel[Candidate(r)] \in Nat
  BY <1>1, CandidateIsKey, ChannelNat
<1>4. call \in [Callers -> [pc : CallPcs, key : Keys \cup {None}, kind : Kinds,
                           asked : Nat, event : Event]]
  BY <1>1 DEF VerifierInv, VerifierTypeOK
<1> QED BY <1>1, <1>2, <1>3, <1>4

\* The budget in the next state, with the candidate named.
LEMMA BudgetNext ==
    ASSUME NEW r, NEW k, Candidate(r)' = k,
           Budgeted(req'[r], call'[r], channel'[k], StaleCached(k)', StaleInFlight(k)')
    PROVE  BudgetInv(r)'
<1>1. StaleCached(Candidate(r))' = StaleCached(k)'
  BY DEF StaleCached
<1>2. StaleInFlight(Candidate(r))' = StaleInFlight(k)'
  BY DEF StaleInFlight
<1> QED BY <1>1, <1>2 DEF BudgetInv

\* A request that takes no step.
LEMMA BudgetFrame ==
    ASSUME ForwardingInv, NEW r \in Requests, BudgetInv(r), AllCalm,
           req'[r] = req[r], call'[r] = call[r]
    PROVE  BudgetInv(r)'
<1> SUFFICES ASSUME req[r].phase \in {"prepare", "verify", "send"} PROVE BudgetInv(r)'
  BY ZenonT(30) DEF BudgetInv
<1>1. PICK k \in Keys : k = Candidate(r)
  BY RotationFacts
<1>2. channel[k] \in Nat /\ req[r].since \in Nat /\ req[r].reverify \in Nat
  BY <1>1, RotationFacts
<1>3. Budgeted(req[r], call[r], channel[k], StaleCached(k), StaleInFlight(k))
  BY <1>1 DEF BudgetInv
<1>4. Calm(k)
  BY DEF AllCalm
<1>5. /\ StaleCached(k) \in BOOLEAN /\ StaleInFlight(k) \in BOOLEAN
      /\ StaleCached(k)' \in BOOLEAN /\ StaleInFlight(k)' \in BOOLEAN
  BY DEF StaleCached, StaleInFlight
<1>6. Budgeted(req[r], call[r], channel'[k], StaleCached(k)', StaleInFlight(k)')
  BY <1>2, <1>3, <1>4, <1>5, CalmKeepsBudget DEF Calm
<1>7. Candidate(r)' = k
  BY <1>1 DEF Candidate
<1> QED BY ZenonT(30), <1>6, <1>7, BudgetNext

\* A step of one request: the others go on as they were.
LEMMA OthersBudgeted ==
    ASSUME ForwardingInv, RotationInv, NEW r \in Requests, AllCalm,
           NEW q, req' = [req EXCEPT ![r] = q],
           NEW F, failed' = [failed EXCEPT ![r] = F], Excused(F),
           \A c \in Callers \ {r} : call'[c] = call[c], BudgetInv(r)'
    PROVE  RotationInv'
<1> SUFFICES ASSUME NEW s \in Requests PROVE BudgetInv(s)' /\ Excused(failed'[s])
  BY ZenonT(30) DEF RotationInv, Excused
<1>1. /\ s # r => req'[s] = req[s] /\ failed'[s] = failed[s] /\ call'[s] = call[s]
      /\ failed'[r] = F
  BY RotationFacts
<1>2. BudgetInv(s) /\ Excused(failed[s])
  BY DEF RotationInv
<1>3. CASE s = r
  BY <1>1, <1>3
<1>4. CASE s # r
  BY <1>1, <1>2, <1>4, BudgetFrame
<1> QED BY <1>3, <1>4

\* A request at the beginning of a candidate, or at its end.
LEMMA FreshBudget ==
    ASSUME NEW r \in Requests,
           req'[r].phase \notin {"verify", "send"},
           req'[r].phase = "prepare" => req'[r].event = FailedEvent /\ req'[r].reverify = 0
    PROVE  BudgetInv(r)'
  BY ZenonT(30) DEF BudgetInv, Budgeted

\* Giving up a candidate starts the next one with a fresh budget.
LEMMA GivesUpBudgeted ==
    ASSUME ForwardingInv, RotationInv, NEW r \in Requests, req[r].phase # "idle", AllCalm,
           NEW err \in [prio : 0..3, at : Nat],
           req' = [req EXCEPT ![r] = NextCandidate(r, err)],
           NEW f, failed' = [failed EXCEPT ![r] = failed[r] \cup {f}],
           f.cause = "mismatch" => f.rotated,
           \A c \in Callers \ {r} : call'[c] = call[c]
    PROVE  RotationInv'
<1> DEFINE q == NextCandidate(r, err)
<1>1. req[r] \in RequestRecord /\ req = [s \in Requests |-> req[s]]
  BY RotationFacts
<1>2. q.phase \notin {"verify", "send"} /\ (q.phase = "prepare" => ~IsLast(r))
  BY NextCandidateFields
<1>3. ~IsLast(r) => q.event = FailedEvent /\ q.reverify = 0
  BY <1>1 DEF NextCandidate, RequestRecord
<1>4. req'[r] = q
  BY <1>1
<1> HIDE DEF q
<1>5. BudgetInv(r)'
  BY ZenonT(30), <1>2, <1>3, <1>4, FreshBudget
<1>6. Excused(failed[r] \cup {f})
  BY ZenonT(30) DEF RotationInv, Excused
<1> QED BY ZenonT(30), <1>5, <1>6, OthersBudgeted DEF q

\* The same for a failure with an error.
LEMMA FailCandidateBudgeted ==
    ASSUME ForwardingInv, RotationInv, NEW r \in Requests, req[r].phase # "idle", AllCalm,
           NEW cause \in {"prepare", "verification", "mismatch", "transport", "status"},
           NEW prio \in 0..3, FailCandidate(r, cause, prio),
           cause = "mismatch" => channel[Candidate(r)] > req[r].since,
           \A c \in Callers \ {r} : call'[c] = call[c]
    PROVE  RotationInv'
<1> DEFINE f == Failure(r, cause, prio)
           err == upgrade_err(req[r].err, prio, req[r].index)
<1>1. err \in [prio : 0..3, at : Nat]
  BY ZenonT(30), FailureTyped
<1>2. f.cause = "mismatch" => f.rotated
  BY ZenonT(30) DEF Failure
<1>3. req' = [req EXCEPT ![r] = NextCandidate(r, err)]
      /\ failed' = [failed EXCEPT ![r] = failed[r] \cup {f}]
  BY SMTT(30) DEF FailCandidate
<1> HIDE DEF f, err
<1> QED BY ZenonT(30), <1>1, <1>2, <1>3, GivesUpBudgeted

\* What is left unchanged, as an assignment to r's entry.
LEMMA KeepsFailed ==
    ASSUME ForwardingInv, RotationInv, NEW r \in Requests
    PROVE  failed = [failed EXCEPT ![r] = failed[r]] /\ Excused(failed[r])
  BY RotationFacts DEF RotationInv

LEMMA AdmitBudgeted ==
    ASSUME ForwardingInv, RotationInv, NEW r \in Requests, NEW route \in Routes,
           NEW required \in BOOLEAN, Admit(r, route, required)
    PROVE  RotationInv'
<1> DEFINE q == [NewRequest EXCEPT !.phase = "prepare", !.route = route, !.index = 1,
                                   !.required = required]
<1>1. req' = [req EXCEPT ![r] = q] /\ failed' = failed /\ UNCHANGED verifierVars
  BY DEF Admit, verifierVars
<1>2. q.phase = "prepare" /\ q.event = FailedEvent /\ q.reverify = 0
  BY DEF NewRequest
<1>3. req'[r] = q
  BY <1>1, RotationFacts
<1> HIDE DEF q
<1>4. BudgetInv(r)'
  BY <1>2, <1>3, FreshBudget
<1>5. AllCalm
  BY <1>1, RotationFacts, QuietIsCalm DEF verifierVars
<1> QED BY ZenonT(30), <1>1, <1>4, <1>5, KeepsFailed, OthersBudgeted DEF verifierVars

\* A candidate is prepared: nothing used of the budget, one stale event in the
\* cache and one in flight at most.
LEMMA PrepareBudgeted ==
    ASSUME ForwardingInv, RotationInv, NEW r \in Requests, Prepare(r)
    PROVE  RotationInv'
<1>0. PICK k \in Keys : k = Candidate(r)
  BY RotationFacts DEF Prepare
<1> DEFINE q == IF k \in Tee THEN [req[r] EXCEPT !.phase = "verify", !.since = channel[k]]
                           ELSE [req[r] EXCEPT !.phase = "send", !.since = channel[k]]
<1>1. /\ req[r] \in RequestRecord /\ req = [s \in Requests |-> req[s]]
      /\ req[r].phase = "prepare" /\ channel[k] \in Nat /\ r \in Callers
      /\ VerifierInv
  BY <1>0, RotationFacts DEF Prepare
<1>2. req[r].event = FailedEvent /\ req[r].reverify = 0
  BY ZenonT(30), <1>1 DEF RotationInv, BudgetInv, Budgeted
<1>3. req' = [req EXCEPT ![r] = q] /\ failed' = failed /\ channel' = channel /\ cache' = cache
  BY ZenonT(30), <1>0, <1>1 DEF Prepare
<1>4. /\ q.phase = IF k \in Tee THEN "verify" ELSE "send"
      /\ q.since = channel[k] /\ q.reverify = 0 /\ q.event = FailedEvent
      /\ q.route = req[r].route /\ q.index = req[r].index
  BY <1>1, <1>2 DEF RequestRecord
<1>5. req'[r] = q
  BY <1>1, <1>3
<1> HIDE DEF q
<1>6. Candidate(r)' = k
  BY ZenonT(30), <1>0, <1>4, <1>5 DEF Candidate
<1>7. /\ \A c \in Callers \ {r} : call'[c] = call[c]
      /\ k \in Tee => call'[r].pc = "lookup"
      /\ k \notin Tee => call' = call
  BY <1>0, <1>1, RotationFacts DEF Prepare, NewCall
<1>8. call[r].pc = "idle"
  BY <1>1, RotationFacts DEF RequestInv, InStep
<1>9. AllCalm
  <2>1. call'[r].pc # "ran"
    BY <1>7, <1>8
  <2> QED BY <1>1, <1>3, <1>7, <2>1, QuietIsCalm
<1>10. BudgetInv(r)'
  <2>1. ~StaleInHand(q, call'[r], channel'[k])
    <3>1. ~Stale(q.event, channel'[k])
      BY <1>4 DEF Stale, FailedEvent
    <3>2. ~(q.phase = "verify" /\ call'[r].pc = "return")
      BY <1>4, <1>7
    <3> QED BY <3>1, <3>2 DEF StaleInHand
  <2>2. Cost(StaleCached(k)') + Cost(StaleInFlight(k)') <= 2
    BY DEF Cost
  <2>3. ~(q.phase = "verify" /\ call'[r].pc = "ran")
    BY <1>4, <1>7
  <2>4. Cost(StaleCached(k)') \in Nat /\ Cost(StaleInFlight(k)') \in Nat
    BY DEF Cost
  <2>5. Budgeted(q, call'[r], channel'[k], StaleCached(k)', StaleInFlight(k)')
    BY <1>1, <1>3, <1>4, <2>1, <2>2, <2>3, <2>4 DEF Budgeted
  <2> QED BY ZenonT(30), <1>5, <1>6, <2>5, BudgetNext
<1> QED BY ZenonT(30), <1>3, <1>7, <1>9, <1>10, KeepsFailed, OthersBudgeted

\* The steps that leave the verifier alone are calm.
LEMMA IdleIsCalm ==
    ASSUME ForwardingInv, UNCHANGED verifierVars
    PROVE  AllCalm
<1>1. VerifierInv
  BY DEF ForwardingInv
<1> QED BY <1>1, QuietIsCalm DEF verifierVars

\* So are those that drop the candidate's cache entry.
LEMMA InvalidationIsCalm ==
    ASSUME ForwardingInv, NEW x, cache' = Without(cache, x), channel' = channel,
           \A c \in Callers : call'[c].pc = "ran" => call'[c] = call[c]
    PROVE  AllCalm
<1>1. VerifierInv
  BY DEF ForwardingInv
<1>2. \A k \in DOMAIN cache' : k \in DOMAIN cache /\ cache'[k].binding = cache[k].binding
  BY DEF Without
<1> QED BY <1>1, <1>2, QuietIsCalm

\* The gate hands the answer over as it is, or gives up the candidate.
LEMMA GateBudgeted ==
    ASSUME ForwardingInv, RotationInv, NEW r \in Requests, Gate(r)
    PROVE  RotationInv'
<1>0. PICK k \in Keys : k = Candidate(r)
  BY RotationFacts DEF Gate
<1>1. /\ req[r] \in RequestRecord /\ req = [s \in Requests |-> req[s]]
      /\ req[r].phase = "verify" /\ call[r].pc = "return" /\ r \in Callers /\ VerifierInv
      /\ channel' = channel /\ cache' = cache
  BY RotationFacts DEF Gate
<1>2. call'[r].pc = "idle" /\ \A c \in Callers \ {r} : call'[c] = call[c]
  BY <1>1, RotationFacts DEF Gate, Idle
<1>3. AllCalm
  BY <1>1, <1>2, QuietIsCalm
<1>4. CASE FailCandidate(r, "verification", 3)
  BY <1>1, <1>2, <1>3, <1>4, Priorities, FailCandidateBudgeted
<1>5. CASE /\ req' = [req EXCEPT ![r].phase = "send", ![r].event = call[r].event]
           /\ failed' = failed
  <2> DEFINE q == [req[r] EXCEPT !.phase = "send", !.event = call[r].event]
  <2>1. /\ q.phase = "send" /\ q.since = req[r].since /\ q.reverify = req[r].reverify
        /\ q.event = call[r].event /\ q.route = req[r].route /\ q.index = req[r].index
    BY <1>1 DEF RequestRecord
  <2>2. req' = [req EXCEPT ![r] = q]
    BY ZenonT(30), <1>1, <1>5
  <2>3. req'[r] = q
    BY <1>1, <2>2
  <2> HIDE DEF q
  <2>4. Candidate(r)' = k
    BY ZenonT(30), <1>0, <2>1, <2>3 DEF Candidate
  <2>5. Budgeted(req[r], call[r], channel[k], StaleCached(k), StaleInFlight(k))
    BY <1>0, <1>1 DEF RotationInv, BudgetInv
  <2>6. /\ StaleCached(k)' = StaleCached(k)
        /\ StaleInFlight(k)' = StaleInFlight(k)
    BY <1>1, <1>2 DEF StaleCached, StaleInFlight
  <2>7. StaleInHand(q, call'[r], channel[k]) <=> StaleInHand(req[r], call[r], channel[k])
    BY ZenonT(30), <1>1, <2>1 DEF StaleInHand
  <2>8. Budgeted(q, call'[r], channel[k], StaleCached(k), StaleInFlight(k))
    BY ZenonT(30), <1>1, <2>1, <2>5, <2>7 DEF Budgeted
  <2>9. BudgetInv(r)'
    BY <1>1, <2>3, <2>4, <2>6, <2>8, BudgetNext
  <2> QED BY ZenonT(30), <1>2, <1>3, <1>5, <2>2, <2>9, KeepsFailed, OthersBudgeted
<1> QED BY <1>4, <1>5 DEF Gate

\* A mismatch without a rotation is a stale event in hand: its reverification
\* leaves at most the one in flight.
LEMMA ReverifyBudgeted ==
    ASSUME ForwardingInv, RotationInv, NEW r \in Requests, Reverify(r)
    PROVE  RotationInv'
<1>0. PICK k \in Keys : k = Candidate(r)
  BY RotationFacts DEF Reverify
<1>1. /\ req[r] \in RequestRecord /\ req = [s \in Requests |-> req[s]]
      /\ req[r].phase = "send" /\ r \in Callers /\ channel[k] \in Nat
      /\ req[r].since \in Nat /\ req[r].reverify \in Nat
      /\ channel' = channel /\ cache' = Without(cache, k)
  BY <1>0, RotationFacts DEF Reverify
<1>2. call'[r].pc = "lookup" /\ \A c \in Callers \ {r} : call'[c] = call[c]
  BY <1>1, RotationFacts DEF Reverify, NewCall
<1>3. call[r].pc = "idle"
  BY ZenonT(30), <1>1, RotationFacts DEF RequestInv, InStep
<1>4. AllCalm
  BY <1>1, <1>2, InvalidationIsCalm
<1> DEFINE q == [req[r] EXCEPT !.phase = "verify", !.reverify = @ + 1]
<1>5. /\ q.phase = "verify" /\ q.since = req[r].since /\ q.reverify = req[r].reverify + 1
      /\ q.route = req[r].route /\ q.index = req[r].index
  BY <1>1 DEF RequestRecord
<1>6. req' = [req EXCEPT ![r] = q] /\ failed' = failed
  BY ZenonT(30), <1>1 DEF Reverify
<1>7. req'[r] = q
  BY <1>1, <1>6
<1> HIDE DEF q
<1>8. Candidate(r)' = k
  BY <1>0, <1>5, <1>7 DEF Candidate
<1>9. Budgeted(req[r], call[r], channel[k], StaleCached(k), StaleInFlight(k))
  BY <1>0, <1>1 DEF RotationInv, BudgetInv
<1>10. StaleInHand(req[r], call[r], channel[k])
  BY <1>0, <1>1 DEF Reverify, Mismatch, StaleInHand, Stale
<1>11. StaleInFlight(k)' = StaleInFlight(k) /\ StaleCached(k)' = FALSE
  <2>1. StaleInFlight(k)' <=> StaleInFlight(k)
    BY ZenonT(30), <1>1, <1>2, <1>3 DEF StaleInFlight
  <2>2. k \notin DOMAIN cache'
    BY <1>1 DEF Without
  <2> QED BY ZenonT(30), <2>1, <2>2 DEF StaleCached, StaleInFlight
<1>12. ~StaleInHand(q, call'[r], channel[k])
  BY ZenonT(30), <1>2, <1>5 DEF StaleInHand
<1>13. Cost(FALSE) = 0 /\ Cost(StaleInFlight(k)) \in Nat
  BY DEF Cost
<1>14. Budgeted(q, call'[r], channel[k], FALSE, StaleInFlight(k))
  <2>1. /\ req[r].since <= channel[k]
        /\ req[r].since = channel[k] => req[r].reverify + Cost(StaleInFlight(k)) <= 1
    BY ZenonT(30), <1>1, <1>9, <1>10 DEF Budgeted
  <2>2. PICK n \in Nat : n = Cost(StaleInFlight(k))
    BY <1>13
  <2>3. q.since = channel[k] => q.reverify + 0 + n <= 2
    BY <1>1, <1>5, <2>1, <2>2
  <2>4. q.since = channel[k] => q.reverify + Cost(FALSE) + Cost(StaleInFlight(k)) <= 2
    BY ZenonT(30), <1>13, <2>2, <2>3
  <2> QED BY ZenonT(30), <1>2, <1>5, <1>12, <2>1, <2>4 DEF Budgeted
<1>15. BudgetInv(r)'
  BY ZenonT(30), <1>1, <1>7, <1>8, <1>11, <1>14, BudgetNext
<1> QED BY ZenonT(30), <1>2, <1>4, <1>6, <1>15, KeepsFailed, OthersBudgeted

\* With the budget of the code used up, the upstream has rotated.
LEMMA MismatchFailsBudgeted ==
    ASSUME MaxReverify >= 2, ForwardingInv, RotationInv, NEW r \in Requests, MismatchFails(r)
    PROVE  RotationInv'
<1>0. PICK k \in Keys : k = Candidate(r)
  BY RotationFacts DEF MismatchFails
<1>1. /\ req[r].phase = "send" /\ channel[k] \in Nat
      /\ req[r].since \in Nat /\ req[r].reverify \in Nat
      /\ channel' = channel /\ cache' = Without(cache, k) /\ call' = call
  BY <1>0, RotationFacts DEF MismatchFails
<1>2. AllCalm
  BY <1>1, InvalidationIsCalm
<1>3. Budgeted(req[r], call[r], channel[k], StaleCached(k), StaleInFlight(k))
  BY ZenonT(30), <1>0, <1>1 DEF RotationInv, BudgetInv
<1>4. StaleInHand(req[r], call[r], channel[k])
  BY ZenonT(30), <1>0, <1>1 DEF MismatchFails, Mismatch, StaleInHand, Stale
<1>5. req[r].reverify >= 2
  BY <1>1, ForwardingAssumption DEF MismatchFails, RetriesLeft
<1>6. Cost(StaleInFlight(k)) \in Nat
  BY DEF Cost
<1>7. channel[k] > req[r].since
  <2>1. /\ req[r].since <= channel[k]
        /\ req[r].since = channel[k] => req[r].reverify + Cost(StaleInFlight(k)) <= 1
    BY ZenonT(30), <1>1, <1>3, <1>4 DEF Budgeted
  <2>2. PICK n \in Nat : n = Cost(StaleInFlight(k))
    BY <1>6
  <2>3. req[r].reverify + n > 1
    BY <1>1, <1>5, <2>2
  <2> QED BY <1>1, <2>1, <2>2, <2>3
<1> QED BY ZenonT(30), <1>0, <1>1, <1>2, <1>7, Priorities, FailCandidateBudgeted DEF MismatchFails

\* The steps that give up a candidate for another reason than a mismatch.
LEMMA GivesUpOtherwise ==
    ASSUME ForwardingInv, RotationInv, NEW r \in Requests,
           \/ \E prio \in {1, 2} : PrepareFails(r, prio)
           \/ \E reached \in BOOLEAN : TransportFails(r, reached)
           \/ \E answer \in Answers : FailOver(r, answer)
    PROVE  RotationInv'
<1>1. ASSUME NEW prio \in {1, 2}, PrepareFails(r, prio) PROVE RotationInv'
  <2>1. UNCHANGED verifierVars /\ req[r].phase # "idle" /\ FailCandidate(r, "prepare", prio)
    BY ZenonT(30), <1>1 DEF PrepareFails, verifierVars
  <2> QED BY ZenonT(30), <2>1, IdleIsCalm, Priorities, FailCandidateBudgeted DEF verifierVars
<1>2. ASSUME NEW reached \in BOOLEAN, TransportFails(r, reached) PROVE RotationInv'
  <2>1. UNCHANGED verifierVars /\ req[r].phase # "idle" /\ FailCandidate(r, "transport", 2)
    BY ZenonT(30), <1>2 DEF TransportFails, verifierVars
  <2> QED BY <2>1, IdleIsCalm, Priorities, FailCandidateBudgeted DEF verifierVars
<1>3. ASSUME NEW answer \in Answers, FailOver(r, answer) PROVE RotationInv'
  <2> DEFINE f == Failure(r, "status", 0)
  <2>1. /\ UNCHANGED verifierVars /\ req[r].phase # "idle"
        /\ req' = [req EXCEPT ![r] = NextCandidate(r, req[r].err)]
        /\ failed' = [failed EXCEPT ![r] = failed[r] \cup {f}]
    BY <1>3 DEF FailOver, Answered, verifierVars
  <2>2. req[r].err \in [prio : 0..3, at : Nat]
    BY RotationFacts DEF RequestRecord
  <2>3. f.cause # "mismatch"
    BY ZenonT(30) DEF Failure
  <2> HIDE DEF f
  <2> QED BY ZenonT(30), <2>1, <2>2, <2>3, IdleIsCalm, GivesUpBudgeted DEF verifierVars
<1> QED BY <1>1, <1>2, <1>3

\* The steps that end a request.
LEMMA EndsBudgeted ==
    ASSUME ForwardingInv, RotationInv, NEW r \in Requests,
           \/ \E answer \in Answers :
                \/ StreamError(r, answer)
                \/ \E sealed \in BOOLEAN : Commit(r, answer, sealed)
           \/ Abandon(r)
    PROVE  RotationInv'
<1>1. ASSUME NEW outcome \in Outcomes, NEW event \in Event, AllCalm,
             req' = [req EXCEPT ![r] = Ended(r, outcome, event)], failed' = failed,
             \A c \in Callers \ {r} : call'[c] = call[c]
      PROVE  RotationInv'
  <2> DEFINE q == Ended(r, outcome, event)
  <2>1. q.phase = "done"
    BY RotationFacts, EndedFields
  <2>2. req'[r] = q
    BY <1>1, RotationFacts
  <2> HIDE DEF q
  <2>3. BudgetInv(r)'
    BY <2>1, <2>2, FreshBudget
  <2> QED BY ZenonT(30), <1>1, <2>3, KeepsFailed, OthersBudgeted
<1>2. req[r].event \in Event /\ FailedEvent \in Event
  BY ZenonT(30), RotationFacts DEF RequestRecord, FailedEvent, Event
<1>3. {"upstream_error", "committed", "error", "abandoned"} \subseteq Outcomes
  BY DEF Outcomes
<1>4. ASSUME NEW answer \in Answers, StreamError(r, answer) PROVE RotationInv'
  <2>1. UNCHANGED verifierVars /\ failed' = failed
        /\ req' = [req EXCEPT ![r] = Ended(r, "upstream_error", req[r].event)]
    BY ZenonT(30), <1>4 DEF StreamError, Answered, verifierVars
  <2> QED BY ZenonT(30), <1>1, <1>2, <1>3, <2>1, IdleIsCalm DEF verifierVars
<1>5. ASSUME NEW answer \in Answers, NEW sealed \in BOOLEAN, Commit(r, answer, sealed)
      PROVE  RotationInv'
  <2> DEFINE outcome == IF sealed THEN "committed" ELSE "error"
  <2>1. UNCHANGED verifierVars /\ failed' = failed
        /\ req' = [req EXCEPT ![r] = Ended(r, outcome, req[r].event)]
    BY ZenonT(30), <1>5 DEF Commit, Answered, recorded_event, verifierVars
  <2>2. outcome \in Outcomes
    BY <1>3
  <2> HIDE DEF outcome
  <2> QED BY ZenonT(30), <1>1, <1>2, <2>1, <2>2, IdleIsCalm DEF verifierVars
<1>6. ASSUME Abandon(r) PROVE RotationInv'
  <2>1. /\ channel' = channel /\ cache' = cache /\ failed' = failed
        /\ req' = [req EXCEPT ![r] = Ended(r, "abandoned", FailedEvent)]
    BY <1>6 DEF Abandon
  <2>2. call'[r].pc = "idle" /\ \A c \in Callers \ {r} : call'[c] = call[c]
    BY ZenonT(30), <1>6, RotationFacts DEF Abandon, Idle
  <2>3. AllCalm
    BY ZenonT(30), <2>1, <2>2, RotationFacts, QuietIsCalm
  <2> QED BY ZenonT(30), <1>1, <1>2, <1>3, <2>1, <2>2, <2>3
<1> QED BY <1>4, <1>5, <1>6

\* Steps that leave the requests alone, except for the verification of one.
LEMMA BackgroundBudgeted ==
    ASSUME ForwardingInv, RotationInv, AllCalm, UNCHANGED requestVars,
           NEW c, \A d \in Requests \ {c} : call'[d] = call[d],
           c \in Requests => BudgetInv(c)'
    PROVE  RotationInv'
<1> SUFFICES ASSUME NEW s \in Requests PROVE BudgetInv(s)' /\ Excused(failed'[s])
  BY DEF RotationInv, Excused
<1>1. BudgetInv(s) /\ Excused(failed'[s]) /\ req'[s] = req[s]
  BY DEF RotationInv, requestVars
<1>2. CASE s = c
  BY <1>1, <1>2
<1>3. CASE s # c
  BY <1>1, <1>3, BudgetFrame
<1> QED BY ZenonT(30), <1>2, <1>3

\* The answer of a verification is stale only if the cache gave it.
LEMMA OwnAnswer ==
    ASSUME VerifierInv, NEW c \in Callers, VerifierStep(c), call[c].key \in Keys
    PROVE  LET k == call[c].key
               y == call'[c]
           IN  /\ call[c].pc # "return"
               /\ channel' = channel
               /\ \A d \in Callers \ {c} : call'[d] = call[d]
               /\ y.pc = "ran" => ~Stale(y.event, channel[k])
               /\ y.pc = "return" => \/ call[c].pc = "ran" /\ y.event = call[c].event
                                     \/ ~Stale(y.event, channel[k])
                                     \/ StaleCached(k)
<1> USE DEF VerifierInv, VerifierTypeOK
<1>1. CASE Lookup(c)
  <2>1. ASSUME call'[c].pc = "return"
        PROVE  call[c].key \in DOMAIN cache /\ call'[c].event.binding = cache[call[c].key].binding
    BY <1>1, <2>1 DEF Lookup, Answer, Goto
  <2>2. /\ call[c].pc # "return" /\ channel' = channel /\ call'[c].pc # "ran"
        /\ \A d \in Callers \ {c} : call'[d] = call[d]
    BY <1>1 DEF Lookup, Answer, Goto
  <2> QED BY ZenonT(30), <2>1, <2>2 DEF Stale, StaleCached
<1>2. CASE DropLapsed(c) \/ Acquire(c)
  BY <1>2 DEF DropLapsed, Acquire, Goto
<1>3. CASE Collect(c)
  BY <1>3 DEF Collect, Verdicts, Stale, FailedEvent
<1>4. CASE Store(c)
  BY <1>4 DEF Store, Answer
<1> QED BY ZenonT(30), <1>1, <1>2, <1>3, <1>4 DEF VerifierStep

\* A verification under way, of a request or in the background.
LEMMA VerifierStepBudgeted ==
    ASSUME ForwardingInv, RotationInv, NEW c \in Callers, VerifierStep(c), UNCHANGED requestVars
    PROVE  RotationInv'
<1>1. VerifierInv
  BY DEF ForwardingInv
<1>2. AllCalm
  BY <1>1, VerifierStepIsCalm
<1>3. call[c].key \in Keys
  BY ZenonT(30), <1>1, VerifierStepFrame DEF VerifierInv, VerifierTypeOK, VerifierStep, Lookup, DropLapsed,
     Acquire, Collect, Store
<1>4. channel' = channel /\ \A d \in Callers \ {c} : call'[d] = call[d]
  BY ZenonT(30), <1>1, <1>3, OwnAnswer
<1>5. ASSUME c \in Requests PROVE BudgetInv(c)'
  <2>1. call[c].pc # "idle"
    BY ZenonT(30) DEF VerifierStep, Lookup, DropLapsed, Acquire, Collect, Store
  <2>2. req[c].phase = "verify" /\ call[c].key = Candidate(c)
    BY ZenonT(30), <1>5, <2>1, RotationFacts DEF RequestInv, InStep
  <2>3. PICK k \in Keys : k = Candidate(c)
    BY <1>3, <2>2
  <2>4. channel[k] \in Nat /\ req[c].since \in Nat /\ req[c].reverify \in Nat
    BY ZenonT(30), <1>5, <2>2, <2>3, RotationFacts
  <2>5. Budgeted(req[c], call[c], channel[k], StaleCached(k), StaleInFlight(k))
    BY ZenonT(30), <1>5, <2>2, <2>3 DEF RotationInv, BudgetInv
  <2>6. /\ call[c].pc # "return"
        /\ call'[c].pc = "ran" => ~Stale(call'[c].event, channel[k])
        /\ call'[c].pc = "return" => \/ call[c].pc = "ran" /\ call'[c].event = call[c].event
                                     \/ ~Stale(call'[c].event, channel[k])
                                     \/ StaleCached(k)
    BY ZenonT(30), <1>1, <1>3, <2>2, <2>3, OwnAnswer
  <2>7. call[c].pc = "ran" /\ req[c].since = channel[k] => ~Stale(call[c].event, channel[k])
    BY ZenonT(30), <2>2, <2>5 DEF Budgeted
  <2>8. call'[c].pc = "return" /\ req[c].since = channel[k] /\ Stale(call'[c].event, channel[k])
            => StaleCached(k)
    BY ZenonT(30), <2>6, <2>7
  <2>9. /\ StaleInFlight(k)' => StaleInFlight(k)
        /\ StaleCached(k)' => StaleCached(k) \/ (StaleInFlight(k) /\ ~StaleInFlight(k)')
    BY ZenonT(30), <1>2, <1>4 DEF AllCalm, Calm
  <2>10. /\ StaleCached(k) \in BOOLEAN /\ StaleInFlight(k) \in BOOLEAN
         /\ StaleCached(k)' \in BOOLEAN /\ StaleInFlight(k)' \in BOOLEAN
    BY ZenonT(30) DEF StaleCached, StaleInFlight
  <2>11. Budgeted(req[c], call'[c], channel[k], StaleCached(k)', StaleInFlight(k)')
    <3> DEFINE q == req[c]
               x == call[c]
               y == call'[c]
               s == channel[k]
               cached == StaleCached(k)
               flight == StaleInFlight(k)
               cached2 == StaleCached(k)'
               flight2 == StaleInFlight(k)'
    <3>1. /\ q.since \in Nat /\ q.reverify \in Nat /\ q.phase = "verify" /\ s \in Nat
          /\ cached \in BOOLEAN /\ flight \in BOOLEAN
          /\ cached2 \in BOOLEAN /\ flight2 \in BOOLEAN
          /\ flight2 => flight
          /\ cached2 => cached \/ (flight /\ ~flight2)
      BY ZenonT(30), <2>2, <2>4, <2>9, <2>10
    <3>2. /\ Budgeted(q, x, s, cached, flight) /\ x.pc # "return"
          /\ y.pc = "ran" => ~Stale(y.event, s)
          /\ y.pc = "return" /\ q.since = s /\ Stale(y.event, s) => cached
      BY ZenonT(30), <2>5, <2>6, <2>8
    <3> HIDE DEF q, x, y, s, cached, flight, cached2, flight2
    <3>3. Budgeted(q, y, s, cached2, flight2)
      BY SMTT(30), <3>1, <3>2, CallKeepsBudget
    <3> QED BY ZenonT(30), <3>3 DEF q, y, s, cached2, flight2
  <2>12. Candidate(c)' = k /\ req'[c] = req[c]
    BY ZenonT(30), <2>3 DEF requestVars, Candidate
  <2> QED BY ZenonT(30), <1>4, <2>11, <2>12, BudgetNext
<1> QED BY ZenonT(30), <1>2, <1>4, <1>5, ForwardingAssumption, BackgroundBudgeted

\* The other steps of the background tasks, and what befalls a cache entry or a
\* channel.
LEMMA BackgroundStepBudgeted ==
    ASSUME ForwardingInv, RotationInv, UNCHANGED requestVars,
           \/ \E c \in Callers \ Requests :
                \/ \E k \in Tee, kind \in Kinds : Call(c, k, kind)
                \/ Return(c)
                \/ Cancel(c)
           \/ \E k \in Tee : Rotate(k) \/ Lapse(k)
    PROVE  RotationInv'
<1>1. VerifierInv
  BY DEF ForwardingInv
<1>2. ASSUME NEW c \in Callers \ Requests,
             \/ \E k \in Tee, kind \in Kinds : Call(c, k, kind)
             \/ Return(c)
             \/ Cancel(c)
      PROVE  RotationInv'
  <2>1. channel' = channel /\ cache' = cache
    BY ZenonT(30), <1>2 DEF Call, Return, Cancel
  <2>2. call'[c].pc # "ran" /\ \A d \in Callers \ {c} : call'[d] = call[d]
    <3>1. ASSUME NEW k \in Tee, NEW kind \in Kinds, Call(c, k, kind)
          PROVE  call'[c].pc # "ran" /\ \A d \in Callers \ {c} : call'[d] = call[d]
      BY ZenonT(30), <1>1, <3>1 DEF Call, NewCall, VerifierInv, VerifierTypeOK
    <3>2. ASSUME Return(c) \/ Cancel(c)
          PROVE  call'[c].pc # "ran" /\ \A d \in Callers \ {c} : call'[d] = call[d]
      BY SMTT(30), <1>1, <3>2 DEF Return, Cancel, Idle, VerifierInv, VerifierTypeOK
    <3> QED BY ZenonT(30), <1>2, <3>1, <3>2
  <2>3. AllCalm
    BY ZenonT(30), <1>1, <2>1, <2>2, QuietIsCalm
  <2> QED BY ZenonT(30), <2>2, <2>3, ForwardingAssumption, BackgroundBudgeted
<1>3. ASSUME NEW k \in Tee, Rotate(k) PROVE RotationInv'
  <2>1. AllCalm /\ call' = call
    BY ZenonT(30), <1>1, <1>3, RotateIsCalm, ForwardingAssumption DEF Rotate
  <2>2. None \notin Requests
    BY ForwardingAssumption, VerifierAssumption
  <2> QED BY ZenonT(30), <2>1, <2>2, BackgroundBudgeted
<1>4. ASSUME NEW k \in Tee, Lapse(k) PROVE RotationInv'
  <2>1. channel' = channel /\ call' = call
    BY <1>4 DEF Lapse
  <2>2. \A x \in DOMAIN cache' : x \in DOMAIN cache /\ cache'[x].binding = cache[x].binding
    BY <1>1, <1>4 DEF Lapse, VerifierInv, VerifierTypeOK
  <2>3. AllCalm
    BY ZenonT(30), <1>1, <2>1, <2>2, QuietIsCalm
  <2>4. None \notin Requests
    BY ForwardingAssumption, VerifierAssumption
  <2> QED BY ZenonT(30), <2>1, <2>3, <2>4, BackgroundBudgeted
<1> QED BY <1>2, <1>3, <1>4

LEMMA RotationNextKeeps ==
    ASSUME MaxReverify >= 2, ForwardingInv, RotationInv, [ForwardingNext]_forwardingVars
    PROVE  RotationInv'
<1>1. ASSUME NEW r \in Requests,
             \/ \E route \in Routes, required \in BOOLEAN : Admit(r, route, required)
             \/ RequestStep(r)
             \/ Abandon(r)
             \/ VerifierStep(r) /\ UNCHANGED requestVars
      PROVE  RotationInv'
  <2>1. r \in Callers
    BY ForwardingAssumption
  <2>2. ASSUME RequestStep(r) PROVE RotationInv'
    BY ZenonT(30), <2>2, PrepareBudgeted, GateBudgeted, ReverifyBudgeted, MismatchFailsBudgeted,
       GivesUpOtherwise, EndsBudgeted DEF RequestStep
  <2> QED BY <1>1, <2>1, <2>2, AdmitBudgeted, EndsBudgeted, VerifierStepBudgeted
<1>2. ASSUME NEW c \in Callers \ Requests, UNCHANGED requestVars,
             \/ \E k \in Tee, kind \in Kinds : Call(c, k, kind)
             \/ VerifierStep(c)
             \/ Return(c)
             \/ Cancel(c)
      PROVE  RotationInv'
  BY <1>2, BackgroundStepBudgeted, VerifierStepBudgeted
<1>3. ASSUME NEW k \in Tee, Rotate(k) \/ Lapse(k), UNCHANGED requestVars
      PROVE  RotationInv'
  BY <1>3, BackgroundStepBudgeted
<1>4. CASE UNCHANGED forwardingVars
  <2>1. UNCHANGED verifierVars /\ UNCHANGED requestVars /\ call' = call
    BY <1>4 DEF forwardingVars, verifierVars, requestVars
  <2>2. None \notin Requests
    BY ForwardingAssumption, VerifierAssumption
  <2> QED BY ZenonT(30), <2>1, <2>2, IdleIsCalm, BackgroundBudgeted
<1> QED BY ZenonT(30), <1>1, <1>2, <1>3, <1>4 DEF ForwardingNext

\* The two reverifications the code allows (CHANNEL_BINDING_REVERIFY_ATTEMPTS)
\* are enough for any number of requests and background refreshes: a candidate
\* is given up over a mismatch only if its upstream rotated its key while the
\* request was working on it.
THEOREM ReverificationsSuffice ==
    ASSUME MaxReverify >= 2
    PROVE  ForwardingSpec => []RotationTolerated
<1>1. ForwardingInit => RotationInv
  BY SMTT(30) DEF ForwardingInit, NewRequest, RotationInv, BudgetInv, Excused
<1>2. ForwardingInv /\ RotationInv /\ [ForwardingNext]_forwardingVars => RotationInv'
  BY RotationNextKeeps
<1>3. RotationInv => RotationTolerated
  BY DEF RotationInv, Excused, RotationTolerated
<1> QED BY <1>1, <1>2, <1>3, ForwardingInvariant, PTL DEF ForwardingSpec

=============================================================================
