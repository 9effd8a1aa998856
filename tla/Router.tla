------------------------------- MODULE Router -------------------------------
(***************************************************************************)
(* The router middleware for one public model: which configured upstream a *)
(* completion tries first, the in-flight counters that choice is based on, *)
(* and the poller that refreshes the upstreams' own load figures            *)
(* (middleware/router.rs).  One model makes a route the same thing as an    *)
(* upstream.                                                                *)
(*                                                                         *)
(* A request takes the router's lock three times (select, read the loads,   *)
(* mark the route started) and once more for each change of its guard, so   *)
(* other requests, the poller and the operator run in between.              *)
(***************************************************************************)
EXTENDS Integers, Sequences, FiniteSets

CONSTANTS
    Upstreams,      \* names, ordered: the last tie breaker
    Requests,
    Texts,          \* routing texts, sequences of characters
    Samples,        \* what a metrics endpoint may answer
    None,
    AbsThreshold,   \* balance_abs_threshold
    RelThreshold,   \* balance_rel_threshold in thousandths
    CacheThreshold, \* cache_threshold in thousandths
    MaxHistory,     \* max_history_per_route
    MaxPolls,       \* bound: rounds of the poller
    MaxToggles      \* bound: changes of the upstream config

SampleType ==
    [ok : BOOLEAN, running : Nat, waiting : Nat, global_limit : Nat,
     basic_limit : Nat, basic_inflight : Nat]

ASSUME RouterAssumption ==
    /\ Upstreams \subseteq Nat /\ IsFiniteSet(Upstreams) /\ IsFiniteSet(Requests)
    /\ Samples \subseteq SampleType
    /\ None \notin Upstreams /\ None \notin Samples
    /\ \A text \in Texts : text \in Seq({text[i] : i \in DOMAIN text})
    /\ AbsThreshold \in Nat /\ RelThreshold \in Nat /\ CacheThreshold \in Nat
    /\ MaxHistory \in Nat /\ MaxPolls \in Nat /\ MaxToggles \in Nat

VARIABLES
    enabled,   \* the upstreams the live config offers
    running,   \* RouteStats.running
    processed, \* RouteStats.processed
    history,   \* the routing texts last sent to each route
    metrics,   \* the last sample of each upstream, None before the first
    stale,     \* the upstreams whose sample is older than metrics_stale_ms
    poll,      \* the poller: the names it asked, the answers still to apply
    req,       \* the requests
    polls, toggles

vars == <<enabled, running, processed, history, metrics, stale, poll, req, polls, toggles>>

Tiers == {"basic", "premium"}

-----------------------------------------------------------------------------
(***************************************************************************)
(* Pressure and order.                                                     *)
(***************************************************************************)
Larger(a, b) == IF a >= b THEN a ELSE b
Least(S) == CHOOSE x \in S : \A y \in S : x <= y
Greatest(S) == CHOOSE x \in S : \A y \in S : x >= y

\* A limit of 0 is one that is not known.
ratio_milli(value, limit) ==
    IF limit = 0 THEN 0 ELSE (value * 1000 + limit \div 2) \div limit

Fullness(m, tier) ==
    LET global == ratio_milli(m.running, m.global_limit)
    IN  IF tier = "premium" THEN global
        ELSE Larger(global, ratio_milli(m.basic_inflight, m.basic_limit))

metrics_missing(u) == metrics[u] = None \/ u \in stale \/ ~metrics[u].ok

route_pressure(u, tier) ==
    IF metrics_missing(u)
    THEN [blocked |-> FALSE, missing |-> TRUE, waiting |-> 0, fullness |-> 0,
          running |-> running[u], processed |-> processed[u]]
    ELSE LET m == metrics[u]
         IN  [blocked |-> m.waiting > 0 \/ Fullness(m, tier) >= 1000,
              missing |-> FALSE, waiting |-> m.waiting,
              fullness |-> Fullness(m, tier),
              running |-> Larger(running[u], m.running), processed |-> processed[u]]

Flag(b) == IF b THEN 1 ELSE 0

route_order_key(u, tier) ==
    LET p == route_pressure(u, tier)
    IN  <<Flag(p.blocked), Flag(p.missing), p.waiting, p.fullness, p.running,
          p.processed, u>>

KeyLess(a, b) ==
    \E i \in DOMAIN a : a[i] < b[i] /\ \A j \in 1..(i - 1) : a[j] = b[j]

least_loaded(routes, tier) ==
    CHOOSE u \in routes : \A v \in routes \ {u} :
        KeyLess(route_order_key(u, tier), route_order_key(v, tier))

-----------------------------------------------------------------------------
(***************************************************************************)
(* Selection.                                                              *)
(***************************************************************************)
common_prefix_chars(a, b) ==
    Greatest({n \in 0..Len(a) : n <= Len(b) /\ SubSeq(a, 1, n) = SubSeq(b, 1, n)})

Matched(u, text) ==
    Greatest({0} \cup {common_prefix_chars(history[u][i], text) : i \in DOMAIN history[u]})

\* The gap between two loads is over both thresholds.
TooFar(high, low) == high - low > AbsThreshold /\ high * 1000 > low * RelThreshold

cache_route_is_acceptable(cache, least, tier) ==
    LET c == route_pressure(cache, tier)
        l == route_pressure(least, tier)
    IN  /\ ~(c.blocked /\ ~l.blocked)
        /\ ~(c.missing /\ ~l.missing)
        /\ ~(c.waiting > 0 /\ l.waiting = 0)
        /\ c.fullness <= l.fullness + 250
        /\ ~TooFar(c.running, l.running)

\* Bug: a warm route is taken whatever its pressure.
select_cache_first(text, routes, tier) ==
    LET matched == Greatest({Matched(u, text) : u \in routes})
        warm == least_loaded({u \in routes : Matched(u, text) = matched}, tier)
    IN  IF matched * 1000 > CacheThreshold * Larger(Len(text), 1)
        THEN [route |-> warm, reason |-> "cache"]
        ELSE [route |-> least_loaded(routes, tier), reason |-> "least_running"]

\* The route with the longest match, the better ordered one among equals, if
\* the match and its pressure allow; otherwise the first in the order.
select_cache_aware(text, routes, tier) ==
    LET matched == Greatest({Matched(u, text) : u \in routes})
        warm == least_loaded({u \in routes : Matched(u, text) = matched}, tier)
        least == least_loaded(routes, tier)
    IN  IF /\ matched * 1000 > CacheThreshold * Larger(Len(text), 1)
           /\ cache_route_is_acceptable(warm, least, tier)
        THEN [route |-> warm, reason |-> "cache"]
        ELSE [route |-> least, reason |-> "least_running"]

imbalanced(routes, tier) ==
    LET loads == {route_pressure(u, tier).running : u \in routes}
    IN  TooFar(Greatest(loads), Least(loads))

select(text, routes, tier) ==
    IF Cardinality(routes) = 1
    THEN [route |-> CHOOSE u \in routes : TRUE, reason |-> "single"]
    ELSE IF imbalanced(routes, tier)
    THEN [route |-> least_loaded(routes, tier), reason |-> "load_imbalance"]
    ELSE IF text = <<>>
    THEN [route |-> least_loaded(routes, tier), reason |-> "no_text"]
    ELSE select_cache_aware(text, routes, tier)

\* The oldest samples go when there are too many; empty texts are not kept.
record_history(u, text) ==
    IF text = <<>> \/ MaxHistory = 0 THEN history
    ELSE [history EXCEPT ![u] =
             LET samples == Append(@, text)
             IN  SubSeq(samples, Larger(1, Len(samples) - MaxHistory + 1), Len(samples))]

\* The status endpoint's view of one route, and of all of them.
route_status_code(u, tier) ==
    LET p == route_pressure(u, tier)
        known == metrics[u].global_limit > 0 /\ (tier = "basic" => metrics[u].basic_limit > 0)
    IN  IF p.blocked \/ p.fullness >= 1000 THEN "red"
        ELSE IF p.missing \/ p.fullness >= 850 \/ ~known THEN "yellow"
        ELSE "green"

upstream_status_code(routes, tier) ==
    LET codes == {route_status_code(u, tier) : u \in routes}
    IN  IF "green" \in codes THEN "green" ELSE IF "yellow" \in codes THEN "yellow" ELSE "red"

-----------------------------------------------------------------------------
Idle == [pc |-> "new", tier |-> "basic", routes |-> {}, route |-> None,
         candidates |-> <<>>, guard |-> None]

Init ==
    /\ enabled = Upstreams
    /\ running = [u \in Upstreams |-> 0]
    /\ processed = [u \in Upstreams |-> 0]
    /\ history = [u \in Upstreams |-> <<>>]
    /\ metrics = [u \in Upstreams |-> None]
    /\ stale = {}
    /\ poll = [busy |-> FALSE, live |-> {}, fetched |-> <<>>]
    /\ req = [q \in Requests |-> Idle]
    /\ polls = 0 /\ toggles = 0

counters == <<running, processed>>
sampling == <<metrics, stale, poll, polls>>
config == <<enabled, toggles>>

\* handle_completion: the routes of this moment's config, and the choice among
\* them under the lock.  No route is a 400 without a guard.
Select(q) ==
    /\ req[q].pc = "new"
    /\ \E text \in Texts, tier \in Tiers :
          LET s == select(text, enabled, tier)
          IN  IF enabled = {}
              THEN /\ req' = [req EXCEPT ![q].pc = "done"]
                   /\ UNCHANGED history
              ELSE /\ req' = [req EXCEPT ![q] = [@ EXCEPT !.pc = "selected", !.tier = tier,
                                  !.routes = enabled, !.route = s.route]]
                   /\ history' = record_history(s.route, text)
    /\ UNCHANGED <<counters, sampling, config>>

\* The sequence has the chosen route of request q first, then the others by load
\* and name.
InFallbackOrder(q, seq) ==
    LET load(u) == route_pressure(u, req[q].tier).running
        key(u) == <<Flag(u # req[q].route), load(u), u>>
    IN  \A i, j \in DOMAIN seq : i < j => KeyLess(key(seq[i]), key(seq[j]))

\* The fallback order of all routes, from loads read under the lock a second
\* time.
Order(q) ==
    /\ req[q].pc = "selected"
    /\ \E seq \in [1..Cardinality(req[q].routes) -> req[q].routes] :
          /\ InFallbackOrder(q, seq)
          /\ req' = [req EXCEPT ![q].pc = "ordered", ![q].candidates = seq]
    /\ UNCHANGED <<counters, history, sampling, config>>

mark_started(u) ==
    /\ running' = [running EXCEPT ![u] = @ + 1]
    /\ processed' = [processed EXCEPT ![u] = @ + 1]

\* RouteInFlight::start.
Start(q) ==
    /\ req[q].pc = "ordered"
    /\ mark_started(req[q].route)
    /\ req' = [req EXCEPT ![q].pc = "forwarding", ![q].guard = req[q].route]
    /\ UNCHANGED <<history, sampling, config>>

\* decrement_running saturates.
Decremented(r, u) == [r EXCEPT ![u] = IF @ = 0 THEN 0 ELSE @ - 1]

\* Bug: the guard moves on without giving back the route it leaves.
CommitKeeping(q) ==
    /\ req[q].pc = "forwarding"
    /\ \E i \in DOMAIN req[q].candidates :
          LET u == req[q].candidates[i]
          IN  /\ running' = IF u = req[q].guard THEN running ELSE [running EXCEPT ![u] = @ + 1]
              /\ req' = [req EXCEPT ![q].pc = "answering", ![q].guard = u]
    /\ UNCHANGED <<processed, history, sampling, config>>

\* A candidate has answered, maybe not the first: retarget moves the guard.
Commit(q) ==
    /\ req[q].pc = "forwarding"
    /\ \E i \in DOMAIN req[q].candidates :
          LET u == req[q].candidates[i]
          IN  /\ running' = IF u = req[q].guard THEN running
                            ELSE [Decremented(running, req[q].guard) EXCEPT ![u] = @ + 1]
              /\ req' = [req EXCEPT ![q].pc = "answering", ![q].guard = u]
    /\ UNCHANGED <<processed, history, sampling, config>>

\* The guard is dropped: after a buffered answer, at the end of a streamed one,
\* when every candidate failed, or when the client leaves in between.
Release(q) ==
    /\ req[q].pc \in {"forwarding", "answering"}
    /\ running' = Decremented(running, req[q].guard)
    /\ req' = [req EXCEPT ![q] = [Idle EXCEPT !.pc = "done"]]
    /\ UNCHANGED <<processed, history, sampling, config>>

-----------------------------------------------------------------------------
\* What a round of fetches may bring: for each target a sample, or a failure,
\* which is a sample that is not ok.
fetch_upstream_metrics(targets) == [targets -> Samples]

\* The poller asks every enabled upstream at once.
PollFetch ==
    /\ ~poll.busy
    /\ polls < MaxPolls
    /\ polls' = polls + 1
    /\ \E fetched \in fetch_upstream_metrics(enabled) :
          poll' = [busy |-> TRUE, live |-> enabled, fetched |-> fetched]
    /\ UNCHANGED <<counters, history, metrics, stale, req, config>>

\* update_upstream_metrics, one lock per answer.
PollApply(u) ==
    /\ poll.busy
    /\ u \in DOMAIN poll.fetched
    /\ metrics' = [metrics EXCEPT ![u] = poll.fetched[u]]
    /\ stale' = stale \ {u}
    /\ poll' = [poll EXCEPT !.fetched = [v \in DOMAIN @ \ {u} |-> @[v]]]
    /\ UNCHANGED <<counters, history, polls, req, config>>

\* Bug: samples of upstreams that are gone are kept.
PollKeepAll ==
    /\ poll.busy
    /\ DOMAIN poll.fetched = {}
    /\ poll' = [poll EXCEPT !.busy = FALSE]
    /\ UNCHANGED <<counters, history, metrics, stale, polls, req, config>>

\* retain_upstream_metrics with the names of the start of the round.
PollRetain ==
    /\ poll.busy
    /\ DOMAIN poll.fetched = {}
    /\ metrics' = [u \in Upstreams |-> IF u \in poll.live THEN metrics[u] ELSE None]
    /\ stale' = stale \cap poll.live
    /\ poll' = [poll EXCEPT !.busy = FALSE]
    /\ UNCHANGED <<counters, history, polls, req, config>>

\* A sample grows older than metrics_stale_ms.
Age(u) ==
    /\ metrics[u] # None
    /\ u \notin stale
    /\ stale' = stale \cup {u}
    /\ UNCHANGED <<counters, history, metrics, poll, polls, req, config>>

\* The operator enables, disables, adds or removes an upstream.
Toggle(u) ==
    /\ toggles < MaxToggles
    /\ toggles' = toggles + 1
    /\ enabled' = IF u \in enabled THEN enabled \ {u} ELSE enabled \cup {u}
    /\ UNCHANGED <<counters, history, sampling, req>>

Next ==
    \/ \E q \in Requests :
          \/ Select(q)
          \/ Order(q)
          \/ Start(q)
          \/ Commit(q)
          \/ Release(q)
    \/ PollFetch
    \/ PollRetain
    \/ \E u \in Upstreams : PollApply(u) \/ Age(u) \/ Toggle(u)

Spec == Init /\ [][Next]_vars

-----------------------------------------------------------------------------
\* The router's state is well formed and its history bounded.
RouterTypeOK ==
    /\ enabled \subseteq Upstreams
    /\ running \in [Upstreams -> 0..Cardinality(Requests)]
    /\ processed \in [Upstreams -> 0..Cardinality(Requests)]
    /\ \A u \in Upstreams : Len(history[u]) <= MaxHistory
    /\ metrics \in [Upstreams -> Samples \cup {None}]
    /\ stale \subseteq {u \in Upstreams : metrics[u] # None}
    /\ \A q \in Requests : req[q].guard \in Upstreams \cup {None}

\* The in-flight counter of a route is the number of requests holding a guard
\* for it, through retargets, failures and clients that leave: nothing leaks
\* and the saturating decrement never hides a loss.
RunningCountsGuards ==
    /\ RouterTypeOK
    /\ \A u \in Upstreams :
        running[u] = Cardinality({q \in Requests : req[q].guard = u})

\* "PIG pressure always wins over cache affinity" (docs/router-middleware.md): a
\* blocked route is chosen only when every candidate is blocked, whatever the
\* text, the tier and the age of the samples.  /v1/upstream-status judges the
\* same: at green the next request gets a route that is not blocked, at red it
\* gets a blocked route or none.
SelectionAvoidsBlocked ==
    \A text \in Texts, tier \in Tiers :
        LET code == upstream_status_code(enabled, tier)
            open == enabled # {} /\ ~route_pressure(select(text, enabled, tier).route, tier).blocked
        IN  /\ open <=> \E u \in enabled : ~route_pressure(u, tier).blocked
            /\ tier = "basic" => (code = "green" => open) /\ (code = "red" => ~open)

\* Between rounds the samples are exactly those of the upstreams the last round
\* asked: none of a removed upstream is left, none is missing.
SamplesAreLastRounds ==
    ~poll.busy => {u \in Upstreams : metrics[u] # None} = poll.live

-----------------------------------------------------------------------------
=============================================================================
