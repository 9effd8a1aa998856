---------------------------- MODULE ChutesNoncePool --------------------------
(***************************************************************************)
(* The pool of invocation nonces of a Chutes upstream: ChutesSessionStore  *)
(* (src/src/aci/upstream/chutes/session.rs), the requests that take a      *)
(* nonce from it and refill it, the background session refresh, and the    *)
(* verifier, which records the nonces its discovery returned.              *)
(*                                                                         *)
(* One chute with a set of instances.  An instance is redeployed with a    *)
(* new E2EE key behind the gateway's back, so a key is an instance and a   *)
(* generation.  A verified event is the set of keys it binds.  Nonces are  *)
(* numbered in the order the provider issues them.                         *)
(***************************************************************************)
EXTENDS Naturals, SequencesExt

CONSTANTS
    Instances,      \* the instances of the chute
    Requests,       \* tasks that forward a request to the chute
    None,           \* no lock holder
    Lifetimes,      \* the values of nonce_expires_in the provider reports
    Relists,        \* whether the provider lists an unspent nonce again
    MaxBatch,       \* bound on the new nonces per instance in one response
    MaxNonces,      \* bound on the nonces issued
    MaxKey,         \* bound on the redeployments of an instance
    MaxTime         \* bound on the clock

ASSUME ChutesAssumption ==
    /\ None \notin Requests
    /\ Lifetimes \subseteq Nat
    /\ Relists \in BOOLEAN
    /\ {MaxBatch, MaxNonces, MaxKey, MaxTime} \subseteq Nat

VARIABLES
    now,            \* the clock
    key,            \* the key generation each instance runs with
    issued,         \* the key each nonce was issued for, in order of issue
    uses,           \* how often each issued nonce was sent with an invocation
    verified,       \* the keys bound by the verified event in the cache
    attested,       \* every key a verified event ever bound
    pool,           \* nonce_pools of the chute
    refill_lock,    \* the request holding refill_lock, or None
    req,            \* the progress of each request
    refresh,        \* the progress of the background session refresh
    verifier        \* the progress of the verifier's discovery

poolVars == <<pool, refill_lock>>
providerVars == <<now, key, issued, uses>>
chutesVars == <<now, key, issued, uses, verified, attested, pool, refill_lock,
                req, refresh, verifier>>

Key == [instance_id : Instances, generation : 0..MaxKey]

LiveKey(i) == [instance_id |-> i, generation |-> key[i]]

NoListing == [ttl |-> 0, instances |-> <<>>]

\* The keys of an instances response.
KeysOf(listing) == {c.key : c \in ToSet(listing.instances)}

IdleRequest == [pc |-> "idle", accepted |-> {}, listing |-> NoListing, selected |-> <<>>]

IdleRefresh == [pc |-> "idle", accepted |-> {}, listing |-> NoListing]

-----------------------------------------------------------------------------
\* The unspent nonces the provider has outstanding for a key.
Outstanding(k) ==
    SelectSeq([n \in 1..Len(issued) |-> n], LAMBDA n : issued[n] = k /\ uses[n] = 0)

\* GET /e2e/instances: some instances with their keys, each with new nonces
\* and, if the provider relists, with those it has outstanding.
Listing(S, batch, ttl) ==
    LET order == SetToSeq(S)
        fresh(j) == [b \in 1..batch |-> Len(issued) + (j - 1) * batch + b]
    IN  [ttl |-> ttl,
         instances |-> [j \in 1..Len(order) |->
            [key |-> LiveKey(order[j]),
             nonces |-> (IF Relists THEN Outstanding(LiveKey(order[j])) ELSE <<>>) \o fresh(j)]]]

Issue(S, batch) ==
    LET order == SetToSeq(S)
        owners == [m \in 1..(Len(order) * batch) |-> LiveKey(order[((m - 1) \div batch) + 1])]
    IN  /\ Len(issued) + Len(owners) <= MaxNonces
        /\ issued' = issued \o owners
        /\ uses' = uses \o [m \in 1..Len(owners) |-> 0]

\* The instances of a response whose key the event binds.
VerifiedInstances(listing, accepted) ==
    SelectSeq(listing.instances, LAMBDA c : c.key \in accepted)

\* The nonces of the candidates, one instance after the other in each round.
Interleaved(candidates) ==
    LET round(m) == SelectSeq(candidates, LAMBDA c : m \in DOMAIN c.nonces)
        rounds == [m \in 1..MaxNonces |->
                     [j \in DOMAIN round(m) |-> [key |-> round(m)[j].key,
                                                 nonce |-> round(m)[j].nonces[m]]]]
    IN  FlattenSeq(rounds)

\* record_nonce_candidates: nonces that are already pooled are left alone.
Recorded(candidates, ttl) ==
    FoldLeft(LAMBDA p, c :
                IF \E e \in ToSet(p) : /\ e.key.instance_id = c.key.instance_id
                                       /\ e.nonce = c.nonce
                THEN p
                ELSE Append(p, [key |-> c.key, nonce |-> c.nonce, expires_at |-> now + ttl]),
             pool, Interleaved(candidates))

WithNonces(candidates) == SelectSeq(candidates, LAMBDA c : c.nonces # <<>>)

\* record_verified_discovery fails: a lifetime, but no nonce to live it.
NoFreshNonces(candidates, ttl) == ttl # 0 /\ WithNonces(candidates) = <<>>

\* record_verified_discovery succeeds.
record_verified_discovery(candidates, ttl) ==
    /\ ~NoFreshNonces(candidates, ttl)
    /\ pool' = IF ttl = 0 THEN pool ELSE Recorded(WithNonces(candidates), ttl)

Live(e) == e.expires_at > now

\* Bug: any live nonce will do.
AnyLive(accepted) == SelectSeq(pool, Live)

\* What pop_verified_nonce finds in the pool.
Usable(accepted) == SelectSeq(pool, LAMBDA e : Live(e) /\ e.key \in accepted)

-----------------------------------------------------------------------------
ChutesInit ==
    /\ now = 0
    /\ key = [i \in Instances |-> 0]
    /\ issued = <<>>
    /\ uses = <<>>
    /\ verified = {}
    /\ attested = {}
    /\ pool = <<>>
    /\ refill_lock = None
    /\ req = [r \in Requests |-> IdleRequest]
    /\ refresh = IdleRefresh
    /\ verifier = [pc |-> "idle", listing |-> NoListing]

Tick ==
    /\ now < MaxTime
    /\ now' = now + 1
    /\ UNCHANGED <<key, issued, uses, verified, attested, pool, refill_lock,
                   req, refresh, verifier>>

\* An instance is redeployed with a new key.
Redeploy(i) ==
    /\ key[i] < MaxKey
    /\ key' = [key EXCEPT ![i] = @ + 1]
    /\ UNCHANGED <<now, issued, uses, verified, attested, pool, refill_lock,
                   req, refresh, verifier>>

\* invoke_verified: only a verified event with an E2EE key binding gets here.
Begin(r) ==
    /\ req[r].pc \in {"idle", "invoked", "mismatch", "error"}
    /\ verified # {}
    /\ req' = [req EXCEPT ![r] = [IdleRequest EXCEPT !.pc = "pop", !.accepted = verified]]
    /\ UNCHANGED <<providerVars, verified, attested, poolVars, refresh, verifier>>

\* Bug: the nonce is left in the pool for the next request.
PeekNonce(r, onNone) ==
    LET usable == Usable(req[r].accepted)
    IN  /\ pool' = usable
        /\ req' = IF usable = <<>>
                  THEN [req EXCEPT ![r].pc = onNone]
                  ELSE [req EXCEPT ![r].pc = "invoke", ![r].listing = NoListing,
                                        ![r].selected = <<Head(usable)>>]

\* pop_verified_nonce: the first usable nonce is taken, the others kept;
\* expired nonces and those of other keys are dropped.
pop_verified_nonce(r, onNone) ==
    LET usable == Usable(req[r].accepted)
    IN  IF usable = <<>>
        THEN /\ pool' = <<>>
             /\ req' = [req EXCEPT ![r].pc = onNone]
        ELSE /\ pool' = Tail(usable)
             /\ req' = [req EXCEPT ![r].pc = "invoke", ![r].listing = NoListing,
                                        ![r].selected = <<Head(usable)>>]

\* The first attempt takes no lock.
FirstPop(r) ==
    /\ req[r].pc = "pop"
    /\ pop_verified_nonce(r, "lock")
    /\ UNCHANGED <<providerVars, verified, attested, refill_lock, refresh, verifier>>

Lock(r) ==
    /\ req[r].pc = "lock"
    /\ refill_lock = None
    /\ refill_lock' = r
    /\ req' = [req EXCEPT ![r].pc = "repop"]
    /\ UNCHANGED <<providerVars, verified, attested, pool, refresh, verifier>>

\* A nonce another request's refill left ends the wait.
SecondPop(r) ==
    /\ req[r].pc = "repop"
    /\ pop_verified_nonce(r, "fetch")
    /\ refill_lock' = IF req'[r].pc = "fetch" THEN r ELSE None
    /\ UNCHANGED <<providerVars, verified, attested, refresh, verifier>>

Fetch(r) ==
    /\ req[r].pc = "fetch"
    /\ \E S \in SUBSET Instances, batch \in 0..MaxBatch, ttl \in Lifetimes :
          /\ Issue(S, batch)
          /\ req' = [req EXCEPT ![r].pc = "record", ![r].listing = Listing(S, batch, ttl)]
    /\ UNCHANGED <<now, key, verified, attested, poolVars, refresh, verifier>>

\* Bug: an early return forgets the lock.
FailKeepsLock(r, outcome) ==
    /\ req' = [req EXCEPT ![r].pc = outcome]
    /\ UNCHANGED refill_lock

\* An error leaves acquire_verified_chutes_session and drops the guard.
Fail(r, outcome) ==
    /\ req' = [req EXCEPT ![r].pc = outcome,
                          ![r].listing = IF outcome = "error" THEN NoListing ELSE @]
    /\ refill_lock' = None

\* The instances request fails.
FetchFails(r) ==
    /\ req[r].pc = "fetch"
    /\ Fail(r, "error")
    /\ UNCHANGED <<providerVars, verified, attested, pool, refresh, verifier>>

\* cache_verified_chutes_nonces after the response of a refill.
Record(r) ==
    LET candidates == VerifiedInstances(req[r].listing, req[r].accepted)
        ttl == req[r].listing.ttl
    IN  /\ req[r].pc = "record"
        /\ \/ /\ candidates = <<>>
              /\ Fail(r, "mismatch")
              /\ UNCHANGED pool
           \/ /\ candidates # <<>>
              /\ NoFreshNonces(candidates, ttl)
              /\ Fail(r, "error")
              /\ UNCHANGED pool
           \/ /\ candidates # <<>>
              /\ record_verified_discovery(candidates, ttl)
              /\ req' = [req EXCEPT ![r].pc = "lastpop"]
              /\ UNCHANGED refill_lock
        /\ UNCHANGED <<providerVars, verified, attested, refresh, verifier>>

\* The last attempt: no nonce is reported as a binding mismatch.
LastPop(r) ==
    /\ req[r].pc = "lastpop"
    /\ pop_verified_nonce(r, "mismatch")
    /\ refill_lock' = None
    /\ UNCHANGED <<providerVars, verified, attested, refresh, verifier>>

\* POST /e2e/invoke with the nonce, encrypted to its instance's key.
Invoke(r) ==
    /\ req[r].pc = "invoke"
    /\ req' = [req EXCEPT ![r] = [IdleRequest EXCEPT !.pc = "invoked"]]
    /\ uses' = [uses EXCEPT ![req[r].selected[1].nonce] = @ + 1]
    /\ UNCHANGED <<now, key, issued, verified, attested, poolVars, refresh, verifier>>

-----------------------------------------------------------------------------
\* refresh_provider_sessions: the verified event, then a fetch without the
\* refill lock.
RefreshFetch ==
    /\ refresh.pc = "idle"
    /\ verified # {}
    /\ \E S \in SUBSET Instances, batch \in 0..MaxBatch, ttl \in Lifetimes :
          /\ Issue(S, batch)
          /\ refresh' = [pc |-> "record", accepted |-> verified,
                         listing |-> Listing(S, batch, ttl)]
    /\ UNCHANGED <<now, key, verified, attested, poolVars, req, verifier>>

\* A mismatch makes the refresh ask the verifier for new evidence.
RefreshRecord ==
    LET candidates == VerifiedInstances(refresh.listing, refresh.accepted)
        ttl == refresh.listing.ttl
    IN  /\ refresh.pc = "record"
        /\ \/ /\ candidates = <<>>
              /\ refresh' = [IdleRefresh EXCEPT !.pc = "reverify"]
              /\ UNCHANGED pool
           \/ /\ candidates # <<>>
              /\ NoFreshNonces(candidates, ttl)
              /\ refresh' = IdleRefresh
              /\ UNCHANGED pool
           \/ /\ candidates # <<>>
              /\ record_verified_discovery(candidates, ttl)
              /\ refresh' = IdleRefresh
        /\ UNCHANGED <<providerVars, verified, attested, refill_lock, req, verifier>>

\* The verifier's own discovery of the instances it will attest: for the
\* refresh, for a request that reported a mismatch, or for a first event.
VerifierFetch ==
    /\ verifier.pc = "idle"
    /\ \/ verified = {}
       \/ refresh.pc = "reverify"
       \/ \E r \in Requests : req[r].pc = "mismatch"
    /\ \E S \in SUBSET Instances \ {{}}, batch \in 0..MaxBatch, ttl \in Lifetimes :
          /\ Issue(S, batch)
          /\ verifier' = [pc |-> "record", listing |-> Listing(S, batch, ttl)]
    /\ refresh' = IF refresh.pc = "reverify" THEN IdleRefresh ELSE refresh
    /\ UNCHANGED <<now, key, verified, attested, poolVars, req>>

\* The verified event binds the keys of the discovery, whose nonces are
\* recorded unfiltered; a discovery without nonces fails the verification.
VerifierRecord ==
    LET candidates == verifier.listing.instances
        ttl == verifier.listing.ttl
    IN  /\ verifier.pc = "record"
        /\ verifier' = [pc |-> "idle", listing |-> NoListing]
        /\ \/ /\ NoFreshNonces(candidates, ttl)
              /\ UNCHANGED <<pool, verified, attested>>
           \/ /\ record_verified_discovery(candidates, ttl)
              /\ verified' = KeysOf(verifier.listing)
              /\ attested' = attested \cup KeysOf(verifier.listing)
        /\ UNCHANGED <<providerVars, refill_lock, req, refresh>>

-----------------------------------------------------------------------------
Acquire(r) ==
    \/ FirstPop(r) \/ Lock(r) \/ SecondPop(r) \/ Fetch(r) \/ FetchFails(r)
    \/ Record(r) \/ LastPop(r) \/ Invoke(r)

ChutesNext ==
    \/ Tick
    \/ \E i \in Instances : Redeploy(i)
    \/ \E r \in Requests : Begin(r) \/ Acquire(r)
    \/ RefreshFetch
    \/ RefreshRecord
    \/ VerifierFetch
    \/ VerifierRecord

ChutesSpec == ChutesInit /\ [][ChutesNext]_chutesVars

\* A request's task is polled until it ends, HTTP calls time out, and tokio's
\* mutex hands the refill lock to its waiters in turn.
FairChutesSpec ==
    /\ ChutesSpec
    /\ \A r \in Requests : WF_chutesVars(Acquire(r)) /\ SF_chutesVars(Lock(r))

-----------------------------------------------------------------------------
Listed == [key : Key, nonces : Seq(1..MaxNonces)]

Pooled == [key : Key, nonce : 1..MaxNonces, expires_at : Nat]

Pcs == {"idle", "pop", "lock", "repop", "fetch", "record", "lastpop", "invoke",
        "invoked", "mismatch", "error"}

\* The refill lock is held exactly by a request between taking it and
\* leaving acquire_verified_chutes_session.
Refilling == {"repop", "fetch", "record", "lastpop"}

\* Types, and the request inside the refill section is the one with the lock.
ChutesTypeOK ==
    /\ now \in 0..MaxTime
    /\ key \in [Instances -> 0..MaxKey]
    /\ issued \in Seq(Key) /\ uses \in Seq(Nat) /\ Len(uses) = Len(issued)
    /\ verified \subseteq attested /\ attested \subseteq Key
    /\ \A e \in ToSet(pool) : e \in Pooled
    /\ \A r \in Requests :
          /\ req[r].pc \in Pcs
          /\ req[r].accepted \subseteq attested
          /\ req[r].listing.instances \in Seq(Listed)
          /\ refill_lock = r <=> req[r].pc \in Refilling
    /\ refresh.pc \in {"idle", "record", "reverify"}
    /\ verifier.pc \in {"idle", "record"}

\* A request is encrypted only to a key its own verified event binds, with a
\* nonce the provider issued for that key, whoever pooled the nonce and under
\* whichever event (pop_verified_nonce, verified_discovery_from_response); and
\* no nonce is pooled for a key that was never attested, on any of the three
\* ways into the pool: a request's refill, the session refresh and the
\* verifier.
InvokedUnderOwnBinding ==
    /\ ChutesTypeOK
    /\ \A e \in ToSet(pool) : e.key \in attested
    /\ \A r \in Requests : req[r].pc = "invoke" =>
        LET e == req[r].selected[1]
        IN  e.key \in req[r].accepted /\ issued[e.nonce] = e.key

\* No nonce is sent with two invocations, counting those already taken
\* ("Nonces are single-use locally",
\* docs/upstream-verification-lifecycle.md:184-185).
NonceUsedOnce ==
    \A n \in DOMAIN uses :
        uses[n] + Cardinality({r \in Requests : /\ req[r].pc = "invoke"
                                                /\ req[r].selected[1].nonce = n}) <= 1

\* Every request that asks for a nonce invokes the chute or fails: no error
\* path of a refill leaves the others waiting for refill_lock.
AcquireEnds ==
    \A r \in Requests :
        req[r].pc = "pop" ~> req[r].pc \in {"invoked", "mismatch", "error"}

=============================================================================
