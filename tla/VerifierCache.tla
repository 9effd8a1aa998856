---------------------------- MODULE VerifierCache ----------------------------
(***************************************************************************)
(* The verification cache of an external provider verifier                 *)
(* (ExternalProviderVerifier, src/src/aci/verifier/external.rs): verified  *)
(* events per channel, a process-wide verify_lock around the verifier      *)
(* subprocess, and invalidation from the forwarding path.                  *)
(*                                                                         *)
(* An upstream's channel is identified by the generation of its TLS key,   *)
(* which rotates behind the gateway's back; the binding in a verified      *)
(* event is the generation the verifier process saw.  A cache entry's      *)
(* expires_at is abstracted to whether it has passed.                      *)
(***************************************************************************)
EXTENDS Naturals

CONSTANTS
    Callers,        \* tasks that call verify or refresh
    Keys,           \* cache keys: one per upstream channel
    None,           \* no lock holder, no channel binding
    MaxRotations    \* bound on the key rotations of one upstream

ASSUME VerifierAssumption ==
    /\ None \notin Callers
    /\ None \notin Nat
    /\ MaxRotations \in Nat

VARIABLES
    channel,        \* the key generation each upstream serves
    cache,          \* cached verified events
    verify_lock,    \* the caller holding verify_lock, or None
    call            \* the progress of each caller's verify or refresh

verifierVars == <<channel, cache, verify_lock, call>>

Event == [result : {"verified", "failed"}, binding : Nat \cup {None}]

FailedEvent == [result |-> "failed", binding |-> None]

Kinds == {"verify", "refresh"}

Idle == [pc |-> "idle", key |-> None, kind |-> "verify", asked |-> 0, event |-> FailedEvent]

Holding == {"relookup", "redrop", "run", "ran"}

Without(f, x) == [y \in DOMAIN f \ {x} |-> f[y]]

With(f, x, v) == [y \in DOMAIN f \cup {x} |-> IF y = x THEN v ELSE f[y]]

-----------------------------------------------------------------------------
VerifierInit ==
    /\ channel = [k \in Keys |-> 0]
    /\ cache = [k \in {} |-> None]
    /\ verify_lock = None
    /\ call = [c \in Callers |-> Idle]

Goto(c, pc) == call' = [call EXCEPT ![c].pc = pc]

Answer(c, event) ==
    call' = [call EXCEPT ![c].pc = "return", ![c].event = event]

\* Bug: refresh answers from the cache like verify.
NewCallCached(k, kind) ==
    [pc |-> "lookup", key |-> k, kind |-> kind, asked |-> channel[k], event |-> FailedEvent]

\* A call begins; `asked` remembers the channel's generation at that moment.
\* verify looks at the cache first, refresh goes for the lock.
NewCall(k, kind) ==
    [pc |-> IF kind = "verify" THEN "lookup" ELSE "lock",
     key |-> k, kind |-> kind, asked |-> channel[k], event |-> FailedEvent]

Call(c, k, kind) ==
    /\ call[c].pc = "idle"
    /\ call' = [call EXCEPT ![c] = NewCall(k, kind)]
    /\ UNCHANGED <<channel, cache, verify_lock>>

\* Release of the guard when a lock holder returns.
Unlock(c) == verify_lock' = IF verify_lock = c THEN None ELSE verify_lock

\* cached_event, before or under the lock: a live entry answers the call; a
\* lapsed one is seen under the read lock and dropped in a step of its own.
Lookup(c) ==
    LET k == call[c].key
        live == k \in DOMAIN cache /\ cache[k].fresh
        outside == call[c].pc = "lookup"
    IN  /\ call[c].pc \in {"lookup", "relookup"}
        /\ \/ /\ live
              /\ Answer(c, [result |-> "verified", binding |-> cache[k].binding])
              /\ Unlock(c)
           \/ /\ ~live
              /\ k \in DOMAIN cache
              /\ Goto(c, IF outside THEN "drop" ELSE "redrop")
              /\ UNCHANGED verify_lock
           \/ /\ k \notin DOMAIN cache
              /\ Goto(c, IF outside THEN "lock" ELSE "run")
              /\ UNCHANGED verify_lock
        /\ UNCHANGED <<channel, cache>>

\* The write-locked removal after a lapsed entry was seen: it removes whatever
\* entry is there by now.
DropLapsed(c) ==
    /\ call[c].pc \in {"drop", "redrop"}
    /\ cache' = Without(cache, call[c].key)
    /\ Goto(c, IF call[c].pc = "drop" THEN "lock" ELSE "run")
    /\ UNCHANGED <<channel, verify_lock>>

\* The waiter the mutex is handed to.
Acquire(c) ==
    /\ call[c].pc = "lock"
    /\ verify_lock = None
    /\ verify_lock' = c
    /\ Goto(c, IF call[c].kind = "verify" THEN "relookup" ELSE "run")
    /\ UNCHANGED <<channel, cache>>

\* The verifier process attests the channel it finds.  It fails on a timeout,
\* a bad exit or an unusable output (no binding), or by its verdict (a binding
\* may come with it).
Verdicts(k) ==
    {[result |-> "verified", binding |-> channel[k]],
     [result |-> "failed", binding |-> channel[k]],
     FailedEvent}

Collect(c) ==
    /\ call[c].pc = "run"
    /\ \E event \in Verdicts(call[c].key) :
            call' = [call EXCEPT ![c].pc = "ran", ![c].event = event]
    /\ UNCHANGED <<channel, cache, verify_lock>>

\* Bug: a failed verification returns without dropping the guard.
StoreLeakingLock(c) ==
    /\ call[c].pc = "ran"
    /\ IF call[c].event.result = "verified"
       THEN cache' = With(cache, call[c].key, [binding |-> call[c].event.binding, fresh |-> TRUE])
            /\ Unlock(c)
       ELSE UNCHANGED <<cache, verify_lock>>
    /\ Answer(c, call[c].event)
    /\ UNCHANGED channel

\* Bug: what is cached is the binding the channel had when the call began.
StoreAsked(c) ==
    /\ call[c].pc = "ran"
    /\ cache' = IF call[c].event.result = "verified"
                THEN With(cache, call[c].key, [binding |-> call[c].asked, fresh |-> TRUE])
                ELSE cache
    /\ Answer(c, call[c].event)
    /\ Unlock(c)
    /\ UNCHANGED channel

\* maybe_cache_event and the return of verify_uncached, guard dropped.
Store(c) ==
    /\ call[c].pc = "ran"
    /\ cache' = IF call[c].event.result = "verified"
                THEN With(cache, call[c].key, [binding |-> call[c].event.binding, fresh |-> TRUE])
                ELSE cache
    /\ Answer(c, call[c].event)
    /\ Unlock(c)
    /\ UNCHANGED channel

Return(c) ==
    /\ call[c].pc = "return"
    /\ call' = [call EXCEPT ![c] = Idle]
    /\ UNCHANGED <<channel, cache, verify_lock>>

\* The task is dropped (its client went away): the guard goes with it and the
\* subprocess is killed.
Cancel(c) ==
    /\ call[c].pc # "idle"
    /\ call' = [call EXCEPT ![c] = Idle]
    /\ Unlock(c)
    /\ UNCHANGED <<channel, cache>>

Invalidate(k) ==
    /\ cache' = Without(cache, k)
    /\ UNCHANGED <<channel, verify_lock, call>>

\* External: an upstream serves a new key.
Rotate(k) ==
    /\ channel[k] < MaxRotations
    /\ channel' = [channel EXCEPT ![k] = @ + 1]
    /\ UNCHANGED <<cache, verify_lock, call>>

\* Time passes an entry's expires_at.
Lapse(k) ==
    /\ k \in DOMAIN cache
    /\ cache' = [cache EXCEPT ![k].fresh = FALSE]
    /\ UNCHANGED <<channel, verify_lock, call>>

\* The steps a verify or refresh takes by itself once called.
VerifierStep(c) ==
    \/ Lookup(c)
    \/ DropLapsed(c)
    \/ Acquire(c)
    \/ Collect(c)
    \/ Store(c)

VerifierNext ==
    \/ \E c \in Callers :
        \/ \E k \in Keys, kind \in Kinds : Call(c, k, kind)
        \/ VerifierStep(c)
        \/ Return(c)
        \/ Cancel(c)
    \/ \E k \in Keys : Invalidate(k) \/ Rotate(k) \/ Lapse(k)

VerifierSpec == VerifierInit /\ [][VerifierNext]_verifierVars

-----------------------------------------------------------------------------
CallPcs == {"idle", "lookup", "drop", "lock", "relookup", "redrop", "run", "ran", "return"}

\* The verifier's variables hold values of their types.
VerifierTypeOK ==
    /\ channel \in [Keys -> 0..MaxRotations]
    /\ DOMAIN cache \subseteq Keys
    /\ cache \in [DOMAIN cache -> [binding : Nat, fresh : BOOLEAN]]
    /\ verify_lock \in Callers \cup {None}
    /\ call \in [Callers -> [pc : CallPcs, key : Keys \cup {None}, kind : Kinds,
                             asked : Nat, event : Event]]
    /\ \A c \in Callers : call[c].pc # "idle" => call[c].key \in Keys

\* At most one verifier subprocess runs at a time, and the lock is held by
\* exactly the caller that is past its acquisition: no return, failure or
\* dropped task leaks it.
OneVerification ==
    \A c \in Callers : call[c].pc \in Holding <=> verify_lock = c

\* A cached binding is never overwritten by an older one, although evidence is
\* collected well before it is cached: the lock covers both.
CachedBindingAdvances ==
    [][\A k \in DOMAIN cache \cap DOMAIN cache' :
            cache'[k].binding >= cache[k].binding]_verifierVars

\* A verified answer of refresh attests a channel the upstream served when
\* refresh was called or later; it never comes from an earlier verification.
RefreshIsFresh ==
    \A c \in Callers :
        /\ call[c].pc = "return"
        /\ call[c].kind = "refresh"
        /\ call[c].event.result = "verified"
        => call[c].event.binding >= call[c].asked

=============================================================================
