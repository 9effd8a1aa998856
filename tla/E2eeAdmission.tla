---------------------------- MODULE E2eeAdmission ----------------------------
(***************************************************************************)
(* The admission of encrypted requests: prepare_e2ee_v2_request reads the  *)
(* clock once, checks the timestamp, claims the tuple (client key, service *)
(* key, nonce) in the replay cache and only then decrypts;                 *)
(* prepare_legacy_e2ee_request has neither timestamp nor claim.            *)
(*                                                                         *)
(* A message is what a client sends under one tuple.  Its timestamp is     *)
(* fixed when it is first delivered; the network, or a retrying client,    *)
(* may deliver it again.  Field decryption is abstracted to its outcome.   *)
(***************************************************************************)
EXTENDS Naturals

CONSTANTS
    Requests,   \* HTTP requests, each the delivery of a message
    Messages,   \* (client key, service key, nonce) tuples
    None,       \* no message, no time
    Window,     \* the 300 seconds of the timestamp check and the replay cache
    Timestamps, \* the timestamps clients put into their messages
    MaxTime     \* bound on the clock

ASSUME AdmissionAssumption ==
    /\ None \notin Messages
    /\ None \notin Nat
    /\ Window \in Nat \ {0}
    /\ Timestamps \subseteq Nat
    /\ MaxTime \in Nat

VARIABLES
    now,         \* the clock
    timestamp,   \* the timestamp of each message delivered
    e2ee_replay, \* the expiry of each tuple in the replay cache
    claimed,     \* when each tuple was last accepted
    req          \* the progress of each request

admissionVars == <<now, timestamp, e2ee_replay, claimed, req>>

\* A request: its step and, up to the claim, its message and the time it read.
NewRequest == [pc |-> "new", message |-> None, read |-> 0]

Goto(r, pc) == req' = [req EXCEPT ![r] = [NewRequest EXCEPT !.pc = pc]]

AdmissionInit ==
    /\ now = 0
    /\ timestamp = [m \in Messages |-> None]
    /\ e2ee_replay = [m \in {} |-> 0]
    /\ claimed = [m \in Messages |-> None]
    /\ req = [r \in Requests |-> NewRequest]

-----------------------------------------------------------------------------
\* There is no await between reading the clock and the claim: the clock moves
\* by at most one in between.
Tick ==
    /\ now < MaxTime
    /\ \A r \in Requests : req[r].pc = "claim" => req[r].read = now
    /\ now' = now + 1
    /\ UNCHANGED <<timestamp, e2ee_replay, claimed, req>>

\* A client sends a message for the first time.
Send(m) ==
    /\ timestamp[m] = None
    /\ \E ts \in Timestamps : timestamp' = [timestamp EXCEPT ![m] = ts]
    /\ UNCHANGED <<now, e2ee_replay, claimed, req>>

Distance(a, b) == IF a >= b THEN a - b ELSE b - a

\* now.abs_diff(timestamp) <= 300
Fresh(ts) == Distance(now, ts) <= Window

\* A delivery of a message: the checks up to the claim read the clock once.
prepare_e2ee_v2_request(r, m) ==
    /\ req[r].pc = "new"
    /\ timestamp[m] # None
    /\ \/ /\ Fresh(timestamp[m])
          /\ req' = [req EXCEPT ![r] = [pc |-> "claim", message |-> m, read |-> now]]
       \/ /\ ~Fresh(timestamp[m])
          /\ Goto(r, "refused")
    /\ UNCHANGED <<now, timestamp, e2ee_replay, claimed>>

\* Missing or malformed headers, a key that is not in the keyset, a body
\* without a model: refused before the claim.
BadRequest(r) ==
    /\ req[r].pc = "new"
    /\ Goto(r, "refused")
    /\ UNCHANGED <<now, timestamp, e2ee_replay, claimed>>

\* The legacy protocol goes straight to the decryption.
prepare_legacy_e2ee_request(r) ==
    /\ req[r].pc = "new"
    /\ Goto(r, "decrypt")
    /\ UNCHANGED <<now, timestamp, e2ee_replay, claimed>>

\* Bug: an entry goes as soon as the one about to be made would outlive it.
RetainedYoung(read) == {m \in DOMAIN e2ee_replay : e2ee_replay[m] >= read + Window}

\* retain: the entries that have not expired at the time read.
Retained(read) == {m \in DOMAIN e2ee_replay : e2ee_replay[m] > read}

\* claim_e2ee_replay, under the cache's write lock.
claim_e2ee_replay(r) ==
    LET kept == Retained(req[r].read)
        message == req[r].message
    IN  /\ req[r].pc = "claim"
        /\ \/ /\ message \in kept
              /\ e2ee_replay' = [m \in kept |-> e2ee_replay[m]]
              /\ Goto(r, "repeated")
              /\ UNCHANGED claimed
           \/ /\ message \notin kept
              /\ e2ee_replay' = [m \in kept \cup {message} |->
                      IF m = message THEN req[r].read + Window ELSE e2ee_replay[m]]
              /\ Goto(r, "decrypt")
              /\ claimed' = [claimed EXCEPT ![message] = now]
        /\ UNCHANGED <<now, timestamp>>

\* A field that does not decrypt fails the request; its tuple stays claimed.
decrypt_request_payload(r) ==
    /\ req[r].pc = "decrypt"
    /\ \/ Goto(r, "admitted")
       \/ Goto(r, "refused")
    /\ UNCHANGED <<now, timestamp, e2ee_replay, claimed>>

-----------------------------------------------------------------------------
\* Types.
AdmissionTypeOK ==
    /\ now \in 0..MaxTime
    /\ timestamp \in [Messages -> Nat \cup {None}]
    /\ DOMAIN e2ee_replay \subseteq Messages
    /\ \A m \in DOMAIN e2ee_replay : e2ee_replay[m] \in Nat
    /\ claimed \in [Messages -> Nat \cup {None}]
    /\ req \in [Requests -> [pc : {"new", "claim", "decrypt", "admitted", "refused", "repeated"},
                             message : Messages \cup {None}, read : Nat]]

\* The step in which request r leaves the claim for the step pc.
Claims(r, pc) == req[r].pc = "claim" /\ req'[r].pc = pc

\* Two acceptances of one tuple are a window apart, less the second that may
\* pass between the clock and the claim, however deliveries, the purges of
\* other requests and stale clock readings interleave; and a request is refused
\* as a repetition only if its tuple was accepted less than a window ago, with
\* the same slack: an entry does not outlive its window however rarely the
\* cache is purged (claim_e2ee_replay).
AcceptancesApart ==
    [][\A r \in Requests :
         LET last == claimed[req[r].message] IN
         /\ Claims(r, "decrypt") /\ last # None => now + 1 >= last + Window
         /\ Claims(r, "repeated") => last # None /\ now <= last + Window]_admissionVars

=============================================================================
