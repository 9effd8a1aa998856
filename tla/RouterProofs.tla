---------------------------- MODULE RouterProofs ----------------------------
(***************************************************************************)
(* Proofs about the router, for any number of upstreams and requests, any  *)
(* texts, samples and thresholds.                                          *)
(*                                                                         *)
(* A selection always yields one of the routes it was given (Selected):    *)
(* the order of routes is lexicographic over numbers, so every non-empty   *)
(* set of routes has a first one, and the longest common prefix exists.    *)
(* The counters then follow from what a request holds at each of its steps *)
(* (Holds).                                                                *)
(***************************************************************************)
EXTENDS Router, FiniteSetTheorems, SequenceTheorems, TLAPS

Guards(u) == {q \in Requests : req[q].guard = u}

\* The requests that may have been counted as processed.
Started == {q \in Requests : req[q].pc \in {"forwarding", "answering", "done"}}

\* What a request holds at each of its steps.
Holds(q) ==
    LET r == req[q]
    IN  /\ r = [pc |-> r.pc, tier |-> r.tier, routes |-> r.routes, route |-> r.route,
                candidates |-> r.candidates, guard |-> r.guard]
        /\ r.pc \in {"new", "selected", "ordered", "forwarding", "answering", "done"}
        /\ r.routes \subseteq Upstreams
        /\ r.pc \in {"selected", "ordered"} => r.route \in Upstreams
        /\ \A i \in DOMAIN r.candidates : r.candidates[i] \in Upstreams
        /\ r.pc \in {"forwarding", "answering"} => r.guard \in Upstreams
        /\ r.pc \notin {"forwarding", "answering"} => r.guard = None

Requested == DOMAIN req = Requests /\ \A q \in Requests : Holds(q)

\* The counters against the requests.
Counted ==
    /\ running \in [Upstreams -> Nat]
    /\ \A u \in Upstreams : running[u] = Cardinality(Guards(u))

Tallied ==
    /\ processed \in [Upstreams -> Nat]
    /\ \A u \in Upstreams : processed[u] <= Cardinality(Started)

Recorded ==
    /\ history \in [Upstreams -> Seq(Texts)]
    /\ \A u \in Upstreams : Len(history[u]) <= MaxHistory

Sampled ==
    /\ metrics \in [Upstreams -> Samples \cup {None}]
    /\ stale \subseteq {u \in Upstreams : metrics[u] # None}

\* A round of the poller: what it has not applied yet it asked for, and what it
\* has applied is there.
Round ==
    /\ poll = [busy |-> poll.busy, live |-> poll.live, fetched |-> poll.fetched]
    /\ poll.busy \in BOOLEAN
    /\ poll.live \subseteq Upstreams
    /\ DOMAIN poll.fetched \subseteq poll.live
    /\ \A u \in DOMAIN poll.fetched : poll.fetched[u] \in Samples
    /\ poll.busy => \A u \in poll.live \ DOMAIN poll.fetched : metrics[u] # None

\* The inductive invariant.
RouterInv ==
    /\ enabled \subseteq Upstreams
    /\ Counted /\ Tallied /\ Recorded /\ Requested
    /\ Sampled /\ Round /\ SamplesAreLastRounds

-----------------------------------------------------------------------------
(* First and last elements.                                                *)

\* A non-empty set of numbers has a least element.
LEMMA LeastNatural ==
    ASSUME NEW S \in SUBSET Nat, S # {}
    PROVE  \E m \in S : \A n \in S : m <= n
<1> DEFINE T == {1..n : n \in S}
           R == StrictSubsetOrdering(Nat)
<1>1. T # {} /\ T \subseteq FiniteSubsetsOf(Nat)
  <2>1. ASSUME NEW n \in S PROVE 1..n \in SUBSET Nat /\ IsFiniteSet(1..n)
    BY FS_Interval
  <2> QED BY ZenonT(30), <2>1 DEF FiniteSubsetsOf
<1>2. IsWellFoundedOn(R, FiniteSubsetsOf(Nat))
  BY FS_StrictSubsetOrderingWellFounded
<1> HIDE DEF R
<1>3. \E x \in T : \A y \in T : ~ (<<y, x>> \in R)
  BY ZenonT(30), <1>1, <1>2, WFMin
<1>4. PICK m \in S : \A n \in S : ~ (<<1..n, 1..m>> \in R)
  BY ZenonT(30), <1>3
<1>5. ASSUME NEW n \in S, n < m PROVE FALSE
  <2>1. 1..n \in SUBSET Nat /\ 1..m \in SUBSET Nat /\ 1..n \subseteq 1..m
    BY <1>5
  <2>2. m \in 1..m /\ m \notin 1..n
    BY <1>5
  <2>3. 1..n # 1..m
    BY <2>2
  <2>4. <<1..n, 1..m>> \in R
    BY <2>1, <2>3 DEF R, StrictSubsetOrdering
  <2> QED BY <2>4, <1>4
<1> QED
  BY <1>4, <1>5

\* A non-empty bounded set of numbers has a greatest element.
LEMMA GreatestOfBounded ==
    ASSUME NEW S \in SUBSET Nat, S # {}, NEW n \in Nat, \A x \in S : x <= n
    PROVE  Greatest(S) \in S /\ \A x \in S : Greatest(S) >= x
<1> DEFINE T == {n - x : x \in S}
<1>1. T \in SUBSET Nat /\ T # {}
  <2>1. \A x \in S : n - x \in Nat
    OBVIOUS
  <2> QED
    BY ZenonT(30), <2>1
<1>2. PICK m \in T : \A t \in T : m <= t
  BY ZenonT(30), <1>1, LeastNatural
<1>3. PICK x \in S : m = n - x
  OBVIOUS
<1>4. \A y \in S : n - x <= n - y
  BY ZenonT(30), <1>2, <1>3
<1>5. \A y \in S : x >= y
  BY <1>4
<1>6. \E g \in S : \A y \in S : g >= y
  BY <1>5
<1> QED
  BY ZenonT(30), <1>6 DEF Greatest

Keys == [1..7 -> Nat]

\* Keys are compared at the first place where they differ.
LEMMA KeysCompare ==
    ASSUME NEW a \in Keys, NEW b \in Keys, a # b
    PROVE  KeyLess(a, b) \/ KeyLess(b, a)
<1> DEFINE D == {i \in 1..7 : a[i] # b[i]}
<1>1. D # {} /\ D \in SUBSET Nat
  BY DEF Keys
<1>2. PICK i \in D : \A j \in D : i <= j
  BY <1>1, LeastNatural
<1>3. \A j \in 1..(i - 1) : a[j] = b[j]
  BY <1>2
<1>4. DOMAIN a = 1..7 /\ DOMAIN b = 1..7 /\ a[i] \in Nat /\ b[i] \in Nat
  BY DEF Keys
<1>5. a[i] < b[i] \/ b[i] < a[i]
  BY <1>4
<1> QED
  BY <1>2, <1>3, <1>4, <1>5 DEF KeyLess

\* The first place decides against a key that is larger there.
LEMMA KeyLessFirst ==
    ASSUME NEW a \in Keys, NEW b \in Keys, KeyLess(a, b)
    PROVE  a[1] <= b[1]
<1>1. PICK i \in 1..7 : a[i] < b[i] /\ \A j \in 1..(i - 1) : a[j] = b[j]
  BY DEF KeyLess, Keys
<1>2. CASE i = 1
  BY <1>1, <1>2 DEF Keys
<1>3. CASE i # 1
  <2>1. 1 \in 1..(i - 1)
    BY <1>3
  <2> QED
    BY <1>1, <2>1 DEF Keys
<1> QED
  BY <1>2, <1>3

\* Of any non-empty set of keys one is not preceded by another.
LEMMA FirstKey ==
    ASSUME NEW T \in SUBSET Keys, T # {}
    PROVE  \E a \in T : \A b \in T : ~KeyLess(b, a)
<1> DEFINE R == {ss \in Nat \X Nat : ss[1] < ss[2]}
           L == LexProductOrdering(R, Nat, 7)
<1>1. ASSUME NEW S \in SUBSET Nat, S # {}
      PROVE  \E x \in S : \A y \in S : ~(<<y, x>> \in R)
  <2>1. PICK x \in S : \A y \in S : x <= y
    BY <1>1, LeastNatural
  <2>2. \A y \in S : ~(y < x)
    BY <2>1
  <2> QED
    BY <2>2
<1>2. IsWellFoundedOn(R, Nat)
  <2> HIDE DEF R
  <2> QED
    BY ZenonT(30), <1>1, MinWF
<1>3. IsWellFoundedOn(L, Keys)
  <2> HIDE DEF R
  <2> QED
    BY ZenonT(30), <1>2, WFLexProductOrdering DEF Keys
<1>4. \E a \in T : \A b \in T : ~(<<b, a>> \in L)
  <2> HIDE DEF L
  <2> QED
    BY <1>3, WFMin
<1>5. ASSUME NEW a \in Keys, NEW b \in Keys, KeyLess(b, a) PROVE <<b, a>> \in L
  <2>1. PICK i \in 1..7 : b[i] < a[i] /\ \A j \in 1..(i - 1) : b[j] = a[j]
    BY <1>5 DEF KeyLess, Keys
  <2>2. <<b[i], a[i]>> \in R
    BY <2>1 DEF Keys
  <2> HIDE DEF R
  <2> QED
    BY <2>1, <2>2 DEF LexProductOrdering, Keys
<1> HIDE DEF L
<1> QED
  BY ZenonT(30), <1>4, <1>5

-----------------------------------------------------------------------------
(* Selection.                                                              *)

\* The state a selection looks at is well typed.
Typed ==
    /\ enabled \subseteq Upstreams
    /\ running \in [Upstreams -> Nat] /\ processed \in [Upstreams -> Nat]
    /\ metrics \in [Upstreams -> Samples \cup {None}]
    /\ history \in [Upstreams -> Seq(Texts)]

LEMMA RatioIsNatural ==
    ASSUME NEW value \in Nat, NEW limit \in Nat
    PROVE  ratio_milli(value, limit) \in Nat
<1>1. ASSUME NEW a \in Nat, NEW b \in Nat \ {0} PROVE a \div b \in Nat
  OBVIOUS
<1>2. value * 1000 + limit \div 2 \in Nat
  BY <1>1
<1> QED
  BY <1>1, <1>2 DEF ratio_milli

LEMMA FullnessIsNatural ==
    ASSUME NEW m \in Samples, NEW tier
    PROVE  Fullness(m, tier) \in Nat
<1>1. /\ m.running \in Nat /\ m.global_limit \in Nat
      /\ m.basic_inflight \in Nat /\ m.basic_limit \in Nat
  BY RouterAssumption DEF SampleType
<1>2. ratio_milli(m.running, m.global_limit) \in Nat
  BY ZenonT(30), <1>1, RatioIsNatural
<1>3. ratio_milli(m.basic_inflight, m.basic_limit) \in Nat
  BY ZenonT(30), <1>1, RatioIsNatural
<1> QED
  BY <1>2, <1>3 DEF Fullness, Larger

\* What the router makes of an upstream's samples and counters.
LEMMA PressureTyped ==
    ASSUME Typed, NEW u \in Upstreams, NEW tier
    PROVE  /\ route_pressure(u, tier).blocked \in BOOLEAN
           /\ route_pressure(u, tier).missing \in BOOLEAN
           /\ route_pressure(u, tier).waiting \in Nat
           /\ route_pressure(u, tier).fullness \in Nat
           /\ route_pressure(u, tier).running \in Nat
           /\ route_pressure(u, tier).processed \in Nat
           /\ route_pressure(u, tier).fullness >= 1000 => route_pressure(u, tier).blocked
<1> DEFINE p == route_pressure(u, tier)
           m == metrics[u]
<1>1. running[u] \in Nat /\ processed[u] \in Nat
  BY DEF Typed
<1>2. CASE metrics_missing(u)
  <2>1. p = [blocked |-> FALSE, missing |-> TRUE, waiting |-> 0, fullness |-> 0,
             running |-> running[u], processed |-> processed[u]]
    BY <1>2 DEF route_pressure
  <2> HIDE DEF p
  <2>2. /\ p.blocked \in BOOLEAN /\ p.missing \in BOOLEAN /\ p.waiting \in Nat
        /\ p.fullness \in Nat /\ p.running \in Nat /\ p.processed \in Nat
        /\ ~(p.fullness >= 1000)
    BY <1>1, <2>1
  <2> QED
    BY <2>2 DEF p
<1>3. CASE ~metrics_missing(u)
  <2>1. m \in Samples
    BY <1>3 DEF metrics_missing, Typed
  <2>2. m.waiting \in Nat /\ m.running \in Nat /\ Fullness(m, tier) \in Nat
    BY <2>1, FullnessIsNatural, RouterAssumption DEF SampleType
  <2>3. p = [blocked |-> m.waiting > 0 \/ Fullness(m, tier) >= 1000,
             missing |-> FALSE, waiting |-> m.waiting,
             fullness |-> Fullness(m, tier),
             running |-> Larger(running[u], m.running), processed |-> processed[u]]
    BY <1>3 DEF route_pressure
  <2>4. Larger(running[u], m.running) \in Nat
    BY <1>1, <2>2 DEF Larger
  <2> HIDE DEF p, m
  <2>5. /\ p.blocked = (m.waiting > 0 \/ Fullness(m, tier) >= 1000)
        /\ p.missing = FALSE /\ p.waiting = m.waiting /\ p.fullness = Fullness(m, tier)
        /\ p.running \in Nat /\ p.processed \in Nat
    BY <1>1, <2>3, <2>4
  <2>6. p.blocked \in BOOLEAN /\ p.missing \in BOOLEAN
    BY ZenonT(30), <2>5
  <2>7. ASSUME p.fullness >= 1000 PROVE p.blocked
    BY ZenonT(30), <2>5, <2>7
  <2>8. p.waiting \in Nat /\ p.fullness \in Nat /\ p.running \in Nat /\ p.processed \in Nat
    BY <2>2, <2>5
  <2> QED
    BY ZenonT(30), <2>6, <2>7, <2>8 DEF p
<1> QED
  BY <1>2, <1>3

\* The key of a route: whether it is blocked comes first, its name last.
LEMMA KeyTyped ==
    ASSUME Typed, NEW u \in Upstreams, NEW tier
    PROVE  /\ route_order_key(u, tier) \in Keys
           /\ route_order_key(u, tier)[1] = Flag(route_pressure(u, tier).blocked)
           /\ route_order_key(u, tier)[7] = u
<1> DEFINE p == route_pressure(u, tier)
<1>1. /\ p.waiting \in Nat /\ p.fullness \in Nat /\ p.running \in Nat /\ p.processed \in Nat
      /\ u \in Nat
  BY PressureTyped, RouterAssumption
<1>2. Flag(p.blocked) \in Nat /\ Flag(p.missing) \in Nat
  BY DEF Flag
<1>3. route_order_key(u, tier) = <<Flag(p.blocked), Flag(p.missing), p.waiting, p.fullness,
                                   p.running, p.processed, u>>
  BY DEF route_order_key
<1> HIDE DEF p
<1>4. route_order_key(u, tier) \in Keys
  BY <1>1, <1>2, <1>3 DEF Keys
<1> QED
  BY <1>3, <1>4 DEF p

\* least_loaded finds a route, and one that is blocked only if all are.
LEMMA LeastLoaded ==
    ASSUME Typed, NEW routes \in SUBSET Upstreams, routes # {}, NEW tier
    PROVE  /\ least_loaded(routes, tier) \in routes
           /\ \A v \in routes : route_pressure(least_loaded(routes, tier), tier).blocked
                                  => route_pressure(v, tier).blocked
<1> DEFINE key(u) == route_order_key(u, tier)
           T == {key(u) : u \in routes}
<1>1. \A u \in routes : key(u) \in Keys /\ key(u)[7] = u
  BY KeyTyped
<1> HIDE DEF key
<1>2. T \in SUBSET Keys /\ T # {}
  BY <1>1
<1>3. PICK a \in T : \A b \in T : ~KeyLess(b, a)
  BY ZenonT(30), <1>2, FirstKey
<1>4. PICK u \in routes : a = key(u)
  OBVIOUS
<1>5. ASSUME NEW v \in routes \ {u} PROVE KeyLess(key(u), key(v))
  <2>1. key(u) # key(v)
    BY <1>1
  <2>2. ~KeyLess(key(v), key(u))
    BY <1>3, <1>4
  <2> QED
    BY <1>1, <2>1, <2>2, KeysCompare
<1>6. \E w \in routes : \A v \in routes \ {w} : KeyLess(key(w), key(v))
  BY <1>5
<1> DEFINE l == least_loaded(routes, tier)
<1>7. l \in routes /\ \A v \in routes \ {l} : KeyLess(key(l), key(v))
  BY <1>6 DEF least_loaded, key
<1> HIDE DEF l
<1>8. ASSUME NEW v \in routes, route_pressure(l, tier).blocked
      PROVE  route_pressure(v, tier).blocked
  <2>1. CASE v = l
    BY <1>8, <2>1
  <2>2. CASE v # l
    <3>1. key(l)[1] <= key(v)[1]
      BY <1>1, <1>7, <2>2, KeyLessFirst
    <3>2. /\ key(l)[1] = Flag(route_pressure(l, tier).blocked)
          /\ key(v)[1] = Flag(route_pressure(v, tier).blocked)
      BY <1>7, KeyTyped DEF key
    <3>3. Flag(route_pressure(l, tier).blocked) = 1
      BY <1>8 DEF Flag
    <3>4. Flag(route_pressure(v, tier).blocked) # 0
      BY <3>1, <3>2, <3>3
    <3> QED
      BY <3>4 DEF Flag
  <2> QED
    BY <2>1, <2>2
<1> QED
  BY <1>7, <1>8 DEF l

\* A text has a length.
LEMMA TextLength ==
    ASSUME NEW text \in Texts
    PROVE  Len(text) \in Nat
  BY RouterAssumption

\* The longest common prefix exists and is no longer than the text asked about.
LEMMA PrefixBounded ==
    ASSUME NEW a \in Texts, NEW b \in Texts
    PROVE  common_prefix_chars(a, b) \in 0..Len(b)
<1> DEFINE S == {n \in 0..Len(a) : n <= Len(b) /\ SubSeq(a, 1, n) = SubSeq(b, 1, n)}
<1>1. Len(a) \in Nat /\ Len(b) \in Nat
  BY TextLength
<1>2. SubSeq(a, 1, 0) = <<>> /\ SubSeq(b, 1, 0) = <<>>
  BY SubSeqEmpty
<1>3. 0 \in S
  BY <1>1, <1>2
<1>4. S \in SUBSET Nat /\ S # {} /\ \A n \in S : n <= Len(b)
  BY <1>1, <1>3
<1> HIDE DEF S
<1>5. Greatest(S) \in S
  BY ZenonT(30), <1>1, <1>4, GreatestOfBounded
<1>6. Greatest(S) \in 0..Len(b)
  <2> DEFINE g == Greatest(S)
  <2>1. g \in S
    BY <1>5
  <2> HIDE DEF g
  <2>2. g \in 0..Len(b)
    BY <1>1, <1>4, <2>1
  <2> QED
    BY <2>2 DEF g
<1> QED
  BY <1>6 DEF common_prefix_chars, S

\* The longest match in a route's history.
LEMMA MatchBounded ==
    ASSUME Typed, NEW u \in Upstreams, NEW text \in Texts
    PROVE  Matched(u, text) \in 0..Len(text)
<1> DEFINE S == {0} \cup {common_prefix_chars(history[u][i], text) : i \in DOMAIN history[u]}
<1>1. Len(text) \in Nat
  BY TextLength
<1>2. \A i \in DOMAIN history[u] : history[u][i] \in Texts
  BY DEF Typed
<1>3. S \in SUBSET (0..Len(text)) /\ S # {}
  BY <1>1, <1>2, PrefixBounded
<1> HIDE DEF S
<1>4. S \in SUBSET Nat /\ \A n \in S : n <= Len(text)
  BY <1>1, <1>3
<1>5. Greatest(S) \in S
  BY ZenonT(30), <1>1, <1>3, <1>4, GreatestOfBounded
<1> QED
  BY <1>3, <1>5 DEF Matched, S

\* A selection yields one of its routes, and a blocked one only if all are.
LEMMA Selected ==
    ASSUME Typed, NEW routes \in SUBSET Upstreams, routes # {}, NEW text \in Texts, NEW tier
    PROVE  /\ select(text, routes, tier).route \in routes
           /\ \A v \in routes : route_pressure(select(text, routes, tier).route, tier).blocked
                                  => route_pressure(v, tier).blocked
<1> DEFINE Best(u) == /\ u \in routes
                      /\ \A v \in routes : route_pressure(u, tier).blocked
                                             => route_pressure(v, tier).blocked
           least == least_loaded(routes, tier)
           matched == Greatest({Matched(u, text) : u \in routes})
           warm == least_loaded({u \in routes : Matched(u, text) = matched}, tier)
<1>1. Best(least)
  BY LeastLoaded
<1>2. warm \in routes
  <2> DEFINE S == {Matched(u, text) : u \in routes}
             W == {u \in routes : Matched(u, text) = matched}
  <2>1. Len(text) \in Nat
    BY TextLength
  <2>2. \A u \in routes : Matched(u, text) \in 0..Len(text)
    BY MatchBounded
  <2>3. S \in SUBSET Nat /\ S # {} /\ \A n \in S : n <= Len(text)
    BY <2>1, <2>2
  <2>4. Greatest(S) \in S
    BY ZenonT(30), <2>1, <2>3, GreatestOfBounded
  <2>5. W # {} /\ W \in SUBSET Upstreams
    BY ZenonT(30), <2>4
  <2> HIDE DEF W
  <2>6. least_loaded(W, tier) \in W
    BY <2>5, LeastLoaded
  <2> QED
    BY <2>6 DEF W
<1>3. ASSUME cache_route_is_acceptable(warm, least, tier)
      PROVE  Best(warm)
  <2>1. ~(route_pressure(warm, tier).blocked /\ ~route_pressure(least, tier).blocked)
    BY <1>3 DEF cache_route_is_acceptable
  <2> HIDE DEF least, warm
  <2> QED
    BY <1>1, <1>2, <2>1
<1>4. Best(select_cache_aware(text, routes, tier).route)
  <2>1. \/ select_cache_aware(text, routes, tier).route = least
        \/ /\ select_cache_aware(text, routes, tier).route = warm
           /\ cache_route_is_acceptable(warm, least, tier)
    BY DEF select_cache_aware
  <2> HIDE DEF least, warm, Best
  <2> QED
    BY <1>1, <1>3, <2>1
<1>5. ASSUME Cardinality(routes) = 1 PROVE Best(CHOOSE u \in routes : TRUE)
  <2>1. IsFiniteSet(routes)
    BY ZenonT(30), FS_Subset, RouterAssumption
  <2>2. PICK x : routes = {x}
    BY ZenonT(30), <1>5, <2>1, FS_Singleton
  <2>3. (CHOOSE u \in routes : TRUE) = x
    BY <2>2
  <2> QED
    BY <2>2, <2>3
<1>6. \/ /\ Cardinality(routes) = 1
         /\ select(text, routes, tier).route = CHOOSE u \in routes : TRUE
      \/ select(text, routes, tier).route = least
      \/ select(text, routes, tier).route = select_cache_aware(text, routes, tier).route
  BY DEF select
<1> HIDE DEF least, Best
<1>7. Best(select(text, routes, tier).route)
  BY ZenonT(30), <1>1, <1>4, <1>5, <1>6
<1> QED
  BY <1>7 DEF Best

\* The answer of /v1/upstream-status and the next selection agree on whether an
\* upstream is open.
LEMMA StatusAgrees ==
    ASSUME Typed
    PROVE  SelectionAvoidsBlocked
<1> SUFFICES ASSUME NEW text \in Texts, NEW tier \in Tiers
             PROVE  LET code == upstream_status_code(enabled, tier)
                        open == /\ enabled # {}
                                /\ ~route_pressure(select(text, enabled, tier).route, tier).blocked
                    IN  /\ open <=> \E u \in enabled : ~route_pressure(u, tier).blocked
                        /\ tier = "basic" => (code = "green" => open) /\ (code = "red" => ~open)
  BY DEF SelectionAvoidsBlocked
<1> DEFINE code == upstream_status_code(enabled, tier)
           blocked(u) == route_pressure(u, tier).blocked
           chosen == select(text, enabled, tier).route
           open == enabled # {} /\ ~blocked(chosen)
<1>1. open <=> \E u \in enabled : ~blocked(u)
  <2>1. CASE enabled = {}
    BY <2>1
  <2>2. CASE enabled # {}
    <3>1. chosen \in enabled /\ \A v \in enabled : blocked(chosen) => blocked(v)
      BY <2>2, Selected DEF Typed
    <3> HIDE DEF chosen, blocked
    <3> QED
      BY <2>2, <3>1
  <2> QED
    BY <2>1, <2>2
<1>2. \A u \in enabled : route_status_code(u, tier) = "green" => ~blocked(u)
  BY DEF route_status_code
<1>3. \A u \in enabled : route_status_code(u, tier) \notin {"green", "yellow"} => blocked(u)
  <2> SUFFICES ASSUME NEW u \in enabled, route_status_code(u, tier) \notin {"green", "yellow"}
               PROVE  blocked(u)
    OBVIOUS
  <2>1. blocked(u) \/ route_pressure(u, tier).fullness >= 1000
    BY DEF route_status_code
  <2>2. u \in Upstreams
    BY DEF Typed
  <2> QED
    BY <2>1, <2>2, PressureTyped
<1>4. code = "green" => \E u \in enabled : route_status_code(u, tier) = "green"
  BY DEF upstream_status_code
<1>5. code = "red" => \A u \in enabled : route_status_code(u, tier) \notin {"green", "yellow"}
  BY DEF upstream_status_code
<1> HIDE DEF code, open, blocked
<1>6. /\ open <=> \E u \in enabled : ~blocked(u)
      /\ (code = "green" => open) /\ (code = "red" => ~open)
  BY <1>1, <1>2, <1>3, <1>4, <1>5
<1> QED
  BY <1>6 DEF code, open, blocked

-----------------------------------------------------------------------------
(* Counting.                                                               *)

\* Two sets that differ at most in q.
LEMMA Recount ==
    ASSUME NEW S, NEW T, NEW q, IsFiniteSet(S), IsFiniteSet(T), S \ {q} = T \ {q}
    PROVE  /\ Cardinality(S) \in Nat /\ Cardinality(T) \in Nat
           /\ (q \in S <=> q \in T) => Cardinality(T) = Cardinality(S)
           /\ q \in T /\ q \notin S => Cardinality(T) = Cardinality(S) + 1
           /\ q \in S /\ q \notin T => Cardinality(T) = Cardinality(S) - 1
<1>1. Cardinality(S) \in Nat /\ Cardinality(T) \in Nat
  BY FS_CardinalityType
<1>2. Cardinality(S \ {q}) = IF q \in S THEN Cardinality(S) - 1 ELSE Cardinality(S)
  BY FS_RemoveElement
<1>3. Cardinality(T \ {q}) = IF q \in T THEN Cardinality(T) - 1 ELSE Cardinality(T)
  BY FS_RemoveElement
<1> QED
  BY <1>1, <1>2, <1>3

\* Any requests are finitely many.
LEMMA RequestsFinite ==
    ASSUME NEW T \in SUBSET Requests
    PROVE  IsFiniteSet(T) /\ Cardinality(T) \in 0..Cardinality(Requests)
<1>1. IsFiniteSet(Requests) /\ Cardinality(Requests) \in Nat
  BY RouterAssumption, FS_CardinalityType
<1>2. IsFiniteSet(T) /\ Cardinality(T) <= Cardinality(Requests)
  BY <1>1, FS_Subset
<1>3. Cardinality(T) \in Nat
  BY <1>2, FS_CardinalityType
<1> QED
  BY <1>1, <1>2, <1>3

LEMMA CountsFinite ==
    /\ \A u : IsFiniteSet(Guards(u)) /\ Cardinality(Guards(u)) \in 0..Cardinality(Requests)
    /\ IsFiniteSet(Started) /\ Cardinality(Started) \in 0..Cardinality(Requests)
  BY RequestsFinite DEF Guards, Started

\* The invariant gives what the selection needs, and the checked properties.
LEMMA InvTyped ==
    ASSUME RouterInv
    PROVE  Typed
  BY DEF RouterInv, Typed, Counted, Tallied, Recorded, Sampled

LEMMA InvCounts ==
    ASSUME RouterInv
    PROVE  RunningCountsGuards
<1>1. \A u \in Upstreams : running[u] \in 0..Cardinality(Requests)
  BY CountsFinite DEF RouterInv, Counted
<1>2. \A u \in Upstreams : processed[u] \in 0..Cardinality(Requests)
  <2> SUFFICES ASSUME NEW u \in Upstreams
               PROVE  processed[u] \in 0..Cardinality(Requests)
    OBVIOUS
  <2>1. processed[u] \in Nat /\ processed[u] <= Cardinality(Started)
    BY DEF RouterInv, Tallied
  <2>2. Cardinality(Started) \in 0..Cardinality(Requests) /\ Cardinality(Requests) \in Nat
    BY CountsFinite, RouterAssumption, FS_CardinalityType
  <2> QED
    BY <2>1, <2>2
<1>3. /\ running \in [Upstreams -> 0..Cardinality(Requests)]
      /\ processed \in [Upstreams -> 0..Cardinality(Requests)]
  BY <1>1, <1>2 DEF RouterInv, Counted, Tallied
<1>4. \A q \in Requests : req[q].guard \in Upstreams \cup {None}
  BY DEF RouterInv, Requested, Holds
<1>5. RouterTypeOK
  BY <1>3, <1>4 DEF RouterTypeOK, RouterInv, Recorded, Sampled
<1> QED
  BY <1>5 DEF RunningCountsGuards, RouterInv, Counted, Guards

-----------------------------------------------------------------------------
(* The steps of a request.                                                 *)

\* Only the request that moves can change what is counted.
LEMMA OthersStay ==
    ASSUME Requested, NEW q \in Requests, DOMAIN req' = Requests, Holds(q)',
           \A p \in Requests \ {q} : req'[p] = req[p]
    PROVE  /\ Requested'
           /\ \A u : Guards(u)' \ {q} = Guards(u) \ {q}
           /\ Started' \ {q} = Started \ {q}
<1>1. ASSUME NEW p \in Requests \ {q} PROVE Holds(p)'
  BY <1>1, Zenon DEF Requested, Holds
<1>2. Requested'
  BY <1>1, Zenon DEF Requested
<1> QED
  BY <1>2 DEF Guards, Started

\* A request that keeps its guard keeps every count, one that stays started
\* keeps the tally below the number of started requests.
LEMMA GuardKept ==
    ASSUME Counted, NEW q \in Requests, UNCHANGED running,
           \A u : Guards(u)' \ {q} = Guards(u) \ {q}, req'[q].guard = req[q].guard
    PROVE  Counted'
<1>1. \A u : Guards(u)' = Guards(u)
  BY DEF Guards
<1> QED
  BY <1>1 DEF Counted

LEMMA TallyKept ==
    ASSUME Tallied, NEW q \in Requests, UNCHANGED processed, Started' \ {q} = Started \ {q},
           q \in Started => q \in Started'
    PROVE  Tallied'
<1>1. IsFiniteSet(Started) /\ IsFiniteSet(Started')
  BY RequestsFinite DEF Started
<1>2. /\ Cardinality(Started) \in Nat /\ Cardinality(Started') \in Nat
      /\ Cardinality(Started) <= Cardinality(Started')
  BY <1>1, Recount
<1>3. ASSUME NEW u \in Upstreams PROVE processed'[u] <= Cardinality(Started')
  <2>1. processed[u] \in Nat /\ processed[u] <= Cardinality(Started)
    BY DEF Tallied
  <2> QED
    BY <1>2, <2>1
<1> QED
  BY <1>3 DEF Tallied

\* The history of a route stays a bounded sequence of texts.
LEMMA HistoryBounded ==
    ASSUME Recorded, NEW u \in Upstreams, NEW text \in Texts, history' = record_history(u, text)
    PROVE  Recorded'
<1>1. CASE text = <<>> \/ MaxHistory = 0
  BY <1>1 DEF record_history, Recorded
<1>2. CASE text # <<>> /\ MaxHistory # 0
  <2> DEFINE samples == Append(history[u], text)
             n == Len(samples)
             m == Larger(1, n - MaxHistory + 1)
             kept == SubSeq(samples, m, n)
  <2>1. history[u] \in Seq(Texts) /\ MaxHistory \in Nat
    BY RouterAssumption DEF Recorded
  <2>2. samples \in Seq(Texts) /\ n = Len(history[u]) + 1
    BY <2>1, AppendProperties
  <2>3. n \in Nat /\ n >= 1 /\ \A i \in 1..n : samples[i] \in Texts
    BY <2>1, <2>2, LenProperties
  <2> HIDE DEF samples, n
  <2>4. m \in Nat /\ 1 <= m /\ m <= n /\ n - m + 1 <= MaxHistory
    BY <1>2, <2>1, <2>3 DEF Larger
  <2> HIDE DEF m
  <2>5. kept \in Seq(Texts) /\ Len(kept) = n - m + 1
    BY <2>3, <2>4, SubSeqProperties
  <2>6. history' = [history EXCEPT ![u] = kept]
    BY <1>2 DEF record_history, samples, n, m
  <2> HIDE DEF kept
  <2> QED
    BY <2>4, <2>5, <2>6 DEF Recorded
<1> QED
  BY <1>1, <1>2

LEMMA SelectKeeps ==
    ASSUME RouterInv, NEW q \in Requests, Select(q)
    PROVE  RouterInv'
<1>1. PICK text \in Texts, tier \in Tiers :
          LET s == select(text, enabled, tier)
          IN  IF enabled = {}
              THEN /\ req' = [req EXCEPT ![q].pc = "done"]
                   /\ UNCHANGED history
              ELSE /\ req' = [req EXCEPT ![q] = [@ EXCEPT !.pc = "selected", !.tier = tier,
                                  !.routes = enabled, !.route = s.route]]
                   /\ history' = record_history(s.route, text)
  BY ZenonT(30) DEF Select
<1> DEFINE route == select(text, enabled, tier).route
<1>2. enabled # {} => route \in enabled
  BY ZenonT(30), Selected, InvTyped DEF Typed
<1> HIDE DEF route
<1>3. Holds(q) /\ req[q].pc = "new" /\ DOMAIN req = Requests /\ enabled \subseteq Upstreams
  BY DEF RouterInv, Requested, Select
<1>4. \/ req' = [req EXCEPT ![q].pc = "done"]
      \/ /\ req' = [req EXCEPT ![q] = [@ EXCEPT !.pc = "selected", !.tier = tier,
                                  !.routes = enabled, !.route = route]]
         /\ route \in Upstreams
  BY <1>1, <1>2, <1>3 DEF route
<1>5. /\ DOMAIN req' = Requests /\ \A p \in Requests \ {q} : req'[p] = req[p]
      /\ Holds(q)' /\ req'[q].guard = req[q].guard
  <2>1. CASE req' = [req EXCEPT ![q].pc = "done"]
    <3>1. req'[q] = [req[q] EXCEPT !.pc = "done"]
      BY <1>3, <2>1
    <3> QED
      BY <1>3, <2>1, <3>1 DEF Holds
  <2>2. CASE /\ req' = [req EXCEPT ![q] = [@ EXCEPT !.pc = "selected", !.tier = tier,
                                  !.routes = enabled, !.route = route]]
             /\ route \in Upstreams
    <3>1. req'[q] = [req[q] EXCEPT !.pc = "selected", !.tier = tier, !.routes = enabled,
                                   !.route = route]
      BY <1>3, <2>2
    <3> QED
      BY ZenonT(30), <1>3, <2>2, <3>1 DEF Holds
  <2> QED
    BY <1>4, <2>1, <2>2
<1>6. Requested' /\ (\A u : Guards(u)' \ {q} = Guards(u) \ {q}) /\ Started' \ {q} = Started \ {q}
  BY <1>5, OthersStay DEF RouterInv
<1>7. q \notin Started
  BY <1>3 DEF Started
<1>8. UNCHANGED <<running, processed, metrics, stale, poll, enabled>>
  BY DEF Select, counters, sampling, config
<1>9. Counted' /\ Tallied'
  BY ZenonT(30), <1>5, <1>6, <1>7, <1>8, GuardKept, TallyKept DEF RouterInv
<1>10. Recorded'
  <2>1. CASE enabled = {}
    BY <1>1, <2>1 DEF RouterInv, Recorded
  <2>2. CASE enabled # {}
    BY <1>1, <1>2, <1>3, <2>2, HistoryBounded DEF RouterInv, route
  <2> QED
    BY <2>1, <2>2
<1> QED
  BY <1>6, <1>8, <1>9, <1>10 DEF RouterInv, Sampled, Round, SamplesAreLastRounds

LEMMA OrderKeeps ==
    ASSUME RouterInv, NEW q \in Requests, Order(q)
    PROVE  RouterInv'
<1>1. PICK seq \in [1..Cardinality(req[q].routes) -> req[q].routes] :
          req' = [req EXCEPT ![q].pc = "ordered", ![q].candidates = seq]
  BY ZenonT(30) DEF Order
<1>2. Holds(q) /\ req[q].pc = "selected" /\ DOMAIN req = Requests
  BY DEF RouterInv, Requested, Order
<1>3. \A i \in DOMAIN seq : seq[i] \in Upstreams
  BY ZenonT(30), <1>2 DEF Holds
<1>4. req'[q] = [req[q] EXCEPT !.pc = "ordered", !.candidates = seq]
  BY <1>1, <1>2
<1>5. /\ DOMAIN req' = Requests /\ \A p \in Requests \ {q} : req'[p] = req[p]
      /\ req'[q].guard = req[q].guard
  BY <1>1, <1>2, <1>4 DEF Holds
<1>6. Holds(q)'
  BY ZenonT(30), <1>2, <1>3, <1>4 DEF Holds
<1>7. Requested' /\ (\A u : Guards(u)' \ {q} = Guards(u) \ {q}) /\ Started' \ {q} = Started \ {q}
  BY <1>5, <1>6, OthersStay DEF RouterInv
<1>8. q \notin Started
  BY <1>2 DEF Started
<1>9. UNCHANGED <<running, processed, history, metrics, stale, poll, enabled>>
  BY DEF Order, counters, sampling, config
<1>10. Counted' /\ Tallied'
  BY ZenonT(30), <1>5, <1>7, <1>8, <1>9, GuardKept, TallyKept DEF RouterInv
<1> QED
  BY <1>7, <1>9, <1>10 DEF RouterInv, Recorded, Sampled, Round, SamplesAreLastRounds

LEMMA StartKeeps ==
    ASSUME RouterInv, NEW q \in Requests, Start(q)
    PROVE  RouterInv'
<1> DEFINE u == req[q].route
<1>1. Holds(q) /\ req[q].pc = "ordered" /\ DOMAIN req = Requests
  BY DEF RouterInv, Requested, Start
<1>2. u \in Upstreams /\ req[q].guard = None
  BY ZenonT(30), <1>1 DEF Holds
<1>3. req' = [req EXCEPT ![q].pc = "forwarding", ![q].guard = u]
  BY DEF Start
<1>4. req'[q] = [req[q] EXCEPT !.pc = "forwarding", !.guard = u]
  BY <1>1, <1>3
<1>5. /\ DOMAIN req' = Requests /\ \A p \in Requests \ {q} : req'[p] = req[p]
      /\ req'[q].guard = u /\ req'[q].pc = "forwarding"
  BY <1>1, <1>3, <1>4 DEF Holds
<1>6. Holds(q)'
  BY ZenonT(30), <1>1, <1>2, <1>4 DEF Holds
<1>7. Requested' /\ (\A v : Guards(v)' \ {q} = Guards(v) \ {q}) /\ Started' \ {q} = Started \ {q}
  BY ZenonT(30), <1>5, <1>6, OthersStay DEF RouterInv
<1>8. /\ running' = [running EXCEPT ![u] = @ + 1]
      /\ processed' = [processed EXCEPT ![u] = @ + 1]
      /\ UNCHANGED <<history, metrics, stale, poll, enabled>>
  BY DEF Start, mark_started, sampling, config
<1>9. \A v \in Upstreams : q \notin Guards(v) /\ (q \in Guards(v)' <=> v = u)
  BY <1>2, <1>5, RouterAssumption DEF Guards
<1>10. q \notin Started /\ q \in Started'
  BY <1>1, <1>5 DEF Started
<1> HIDE DEF u
<1>11. Counted'
  <2>1. ASSUME NEW v \in Upstreams PROVE running'[v] = Cardinality(Guards(v)')
    <3>1. IsFiniteSet(Guards(v)) /\ IsFiniteSet(Guards(v)')
      BY RequestsFinite DEF Guards
    <3>2. /\ Cardinality(Guards(v)) \in Nat
          /\ Cardinality(Guards(v)') = IF v = u THEN Cardinality(Guards(v)) + 1
                                                ELSE Cardinality(Guards(v))
      BY <1>7, <1>9, <3>1, Recount
    <3>3. running[v] = Cardinality(Guards(v)) /\ running \in [Upstreams -> Nat]
      BY DEF RouterInv, Counted
    <3> QED
      BY <1>2, <1>8, <3>2, <3>3
  <2>2. running' \in [Upstreams -> Nat]
    BY <1>2, <1>8 DEF RouterInv, Counted
  <2> QED
    BY <2>1, <2>2 DEF Counted
<1>12. Tallied'
  <2>1. IsFiniteSet(Started) /\ IsFiniteSet(Started')
    BY RequestsFinite DEF Started
  <2>2. Cardinality(Started) \in Nat /\ Cardinality(Started') = Cardinality(Started) + 1
    BY <1>7, <1>10, <2>1, Recount
  <2>3. ASSUME NEW v \in Upstreams PROVE processed'[v] <= Cardinality(Started')
    <3>1. processed[v] \in Nat /\ processed[v] <= Cardinality(Started)
      BY DEF RouterInv, Tallied
    <3>2. processed'[v] = IF v = u THEN processed[v] + 1 ELSE processed[v]
      BY <1>8 DEF RouterInv, Tallied
    <3> QED
      BY <2>2, <3>1, <3>2
  <2>4. processed' \in [Upstreams -> Nat]
    BY <1>2, <1>8 DEF RouterInv, Tallied
  <2> QED
    BY <2>3, <2>4 DEF Tallied
<1> QED
  BY <1>7, <1>8, <1>11, <1>12 DEF RouterInv, Recorded, Sampled, Round, SamplesAreLastRounds

\* A request that holds a guard for g is counted there, so giving it back does
\* not saturate; wherever the guard goes next, the counts follow it.
LEMMA GuardMoves ==
    ASSUME Counted, NEW q \in Requests, NEW g \in Upstreams, req[q].guard = g,
           NEW h \in Upstreams \cup {None}, req'[q].guard = h, h # g,
           \A u : Guards(u)' \ {q} = Guards(u) \ {q},
           running' \in [Upstreams -> Nat],
           \A u \in Upstreams \ {g, h} : running'[u] = running[u],
           running'[g] = IF running[g] = 0 THEN 0 ELSE running[g] - 1,
           h \in Upstreams => running'[h] = running[h] + 1
    PROVE  Counted'
<1>1. ASSUME NEW u \in Upstreams PROVE running'[u] = Cardinality(Guards(u)')
  <2>1. IsFiniteSet(Guards(u)) /\ IsFiniteSet(Guards(u)')
    BY RequestsFinite DEF Guards
  <2>2. (q \in Guards(u) <=> u = g) /\ (q \in Guards(u)' <=> u = h)
    BY DEF Guards
  <2>3. /\ Cardinality(Guards(u)) \in Nat /\ Cardinality(Guards(u)') \in Nat
        /\ u = g => Cardinality(Guards(u)') = Cardinality(Guards(u)) - 1
        /\ u = h => Cardinality(Guards(u)') = Cardinality(Guards(u)) + 1
        /\ u # g /\ u # h => Cardinality(Guards(u)') = Cardinality(Guards(u))
    BY ZenonT(30), <2>1, <2>2, Recount
  <2>4. running[u] = Cardinality(Guards(u))
    BY DEF Counted
  <2> QED
    BY <2>3, <2>4
<1> QED
  BY <1>1 DEF Counted

LEMMA CommitKeeps ==
    ASSUME RouterInv, NEW q \in Requests, Commit(q)
    PROVE  RouterInv'
<1> DEFINE g == req[q].guard
<1>1. PICK i \in DOMAIN req[q].candidates :
          LET u == req[q].candidates[i]
          IN  /\ running' = IF u = req[q].guard THEN running
                            ELSE [Decremented(running, req[q].guard) EXCEPT ![u] = @ + 1]
              /\ req' = [req EXCEPT ![q].pc = "answering", ![q].guard = u]
  BY ZenonT(30) DEF Commit
<1> DEFINE u == req[q].candidates[i]
<1>2. Holds(q) /\ req[q].pc = "forwarding" /\ DOMAIN req = Requests
  BY DEF RouterInv, Requested, Commit
<1>3. u \in Upstreams /\ g \in Upstreams
  BY <1>2 DEF Holds
<1>4. req' = [req EXCEPT ![q].pc = "answering", ![q].guard = u]
  BY <1>1
<1>5. req'[q] = [req[q] EXCEPT !.pc = "answering", !.guard = u]
  BY <1>2, <1>4
<1>6. /\ DOMAIN req' = Requests /\ \A p \in Requests \ {q} : req'[p] = req[p]
      /\ req'[q].guard = u /\ req'[q].pc = "answering"
  BY <1>2, <1>4, <1>5 DEF Holds
<1>7. Holds(q)'
  BY ZenonT(30), <1>2, <1>3, <1>5 DEF Holds
<1>8. Requested' /\ (\A v : Guards(v)' \ {q} = Guards(v) \ {q}) /\ Started' \ {q} = Started \ {q}
  BY <1>6, <1>7, OthersStay DEF RouterInv
<1>9. running' = IF u = g THEN running ELSE [Decremented(running, g) EXCEPT ![u] = @ + 1]
  BY <1>1
<1>10. UNCHANGED <<processed, history, metrics, stale, poll, enabled>>
  BY DEF Commit, sampling, config
<1>11. q \in Started'
  BY <1>6 DEF Started
<1>12. Tallied'
  BY <1>8, <1>10, <1>11, TallyKept DEF RouterInv
<1>13. req[q].guard = g
  OBVIOUS
<1>14. Counted /\ running \in [Upstreams -> Nat]
  BY DEF RouterInv, Counted
<1> HIDE DEF g, u
<1>15. Counted'
  <2>1. CASE u = g
    BY <1>6, <1>8, <1>9, <1>13, <1>14, <2>1, GuardKept
  <2>2. CASE u # g
    <3>1. /\ running' \in [Upstreams -> Nat]
          /\ \A v \in Upstreams \ {g, u} : running'[v] = running[v]
          /\ running'[g] = IF running[g] = 0 THEN 0 ELSE running[g] - 1
          /\ running'[u] = running[u] + 1
      BY <1>3, <1>9, <1>14, <2>2 DEF Decremented
    <3> QED
      BY <1>3, <1>6, <1>8, <1>13, <1>14, <2>2, <3>1, GuardMoves
  <2> QED
    BY <2>1, <2>2
<1> QED
  BY <1>8, <1>10, <1>12, <1>15 DEF RouterInv, Recorded, Sampled, Round, SamplesAreLastRounds

LEMMA ReleaseKeeps ==
    ASSUME RouterInv, NEW q \in Requests, Release(q)
    PROVE  RouterInv'
<1> DEFINE g == req[q].guard
<1>1. Holds(q) /\ req[q].pc \in {"forwarding", "answering"} /\ DOMAIN req = Requests
  BY DEF RouterInv, Requested, Release
<1>2. g \in Upstreams
  BY ZenonT(30), <1>1 DEF Holds
<1>3. req' = [req EXCEPT ![q] = [Idle EXCEPT !.pc = "done"]]
  BY DEF Release
<1>4. req'[q] = [Idle EXCEPT !.pc = "done"]
  BY <1>1, <1>3
<1>5. /\ DOMAIN req' = Requests /\ \A p \in Requests \ {q} : req'[p] = req[p]
      /\ req'[q].guard = None /\ req'[q].pc = "done"
  BY <1>1, <1>3, <1>4 DEF Idle
<1>6. Holds(q)'
  BY <1>4 DEF Holds, Idle
<1>7. Requested' /\ (\A v : Guards(v)' \ {q} = Guards(v) \ {q}) /\ Started' \ {q} = Started \ {q}
  BY ZenonT(30), <1>5, <1>6, OthersStay DEF RouterInv
<1>8. running' = Decremented(running, g)
  BY DEF Release
<1>9. UNCHANGED <<processed, history, metrics, stale, poll, enabled>>
  BY DEF Release, sampling, config
<1>10. q \in Started'
  BY <1>5 DEF Started
<1>11. Tallied'
  BY <1>7, <1>9, <1>10, TallyKept DEF RouterInv
<1>12. req[q].guard = g
  OBVIOUS
<1>13. Counted /\ running \in [Upstreams -> Nat]
  BY DEF RouterInv, Counted
<1>14. None # g /\ None \notin Upstreams
  BY <1>2, RouterAssumption
<1> HIDE DEF g
<1>15. /\ running' \in [Upstreams -> Nat]
       /\ \A v \in Upstreams \ {g, None} : running'[v] = running[v]
       /\ running'[g] = IF running[g] = 0 THEN 0 ELSE running[g] - 1
  BY <1>2, <1>8, <1>13 DEF Decremented
<1>16. Counted'
  BY ZenonT(30), <1>2, <1>5, <1>7, <1>12, <1>13, <1>14, <1>15, GuardMoves
<1> QED
  BY ZenonT(30), <1>7, <1>9, <1>11, <1>16 DEF RouterInv, Recorded, Sampled, Round, SamplesAreLastRounds

-----------------------------------------------------------------------------
(* The poller, the clock and the operator.                                 *)

\* They leave the requests and their counters alone.
LEMMA RequestsKept ==
    ASSUME RouterInv, UNCHANGED <<running, processed, history, req>>
    PROVE  Counted' /\ Tallied' /\ Recorded' /\ Requested'
<1>1. Requested'
  BY Zenon DEF RouterInv, Requested, Holds
<1>2. Counted' /\ Recorded'
  BY DEF RouterInv, Counted, Guards, Recorded
<1>3. Tallied'
  BY DEF RouterInv, Tallied, Started
<1> QED
  BY <1>1, <1>2, <1>3

LEMMA PollFetchKeeps ==
    ASSUME RouterInv, PollFetch
    PROVE  RouterInv'
<1>1. UNCHANGED <<running, processed, history, req, metrics, stale, enabled>>
  BY DEF PollFetch, counters, config
<1>2. PICK fetched \in [enabled -> Samples] :
          poll' = [busy |-> TRUE, live |-> enabled, fetched |-> fetched]
  BY ZenonT(30) DEF PollFetch, fetch_upstream_metrics
<1>3. Round' /\ SamplesAreLastRounds'
  BY <1>1, <1>2 DEF Round, SamplesAreLastRounds, RouterInv
<1> QED
  BY <1>1, <1>3, RequestsKept DEF RouterInv, Sampled

LEMMA PollApplyKeeps ==
    ASSUME RouterInv, NEW u \in Upstreams, PollApply(u)
    PROVE  RouterInv'
<1>1. UNCHANGED <<running, processed, history, req, enabled>>
  BY DEF PollApply, counters, config
<1>2. /\ poll.busy /\ u \in DOMAIN poll.fetched
      /\ metrics' = [metrics EXCEPT ![u] = poll.fetched[u]]
      /\ stale' = stale \ {u}
      /\ poll' = [poll EXCEPT !.fetched = [v \in DOMAIN @ \ {u} |-> @[v]]]
  BY DEF PollApply
<1> DEFINE rest == [v \in DOMAIN poll.fetched \ {u} |-> poll.fetched[v]]
<1>3. poll' = [busy |-> poll.busy, live |-> poll.live, fetched |-> rest]
  BY ZenonT(30), <1>2 DEF RouterInv, Round
<1>4. DOMAIN rest = DOMAIN poll.fetched \ {u} /\ \A v \in DOMAIN rest : rest[v] = poll.fetched[v]
  OBVIOUS
<1> HIDE DEF rest
<1>5. poll.fetched[u] \in Samples /\ poll.fetched[u] # None
  BY <1>2, RouterAssumption DEF RouterInv, Round
<1>6. Sampled' /\ metrics'[u] # None /\ \A v \in Upstreams \ {u} : metrics'[v] = metrics[v]
  BY <1>2, <1>5 DEF RouterInv, Sampled
<1>7. Round'
  <2>1. poll'.busy = poll.busy /\ poll'.live = poll.live /\ poll'.fetched = rest
    BY <1>3
  <2>2. \A v \in poll.live \ DOMAIN rest : metrics'[v] # None
    BY <1>2, <1>4, <1>6 DEF RouterInv, Round
  <2> QED
    BY <1>3, <1>4, <2>1, <2>2 DEF RouterInv, Round
<1>8. SamplesAreLastRounds'
  BY <1>2, <1>3 DEF SamplesAreLastRounds
<1> QED
  BY <1>1, <1>6, <1>7, <1>8, RequestsKept DEF RouterInv

LEMMA PollRetainKeeps ==
    ASSUME RouterInv, PollRetain
    PROVE  RouterInv'
<1>1. UNCHANGED <<running, processed, history, req, enabled>>
  BY DEF PollRetain, counters, config
<1>2. /\ poll.busy /\ DOMAIN poll.fetched = {}
      /\ metrics' = [u \in Upstreams |-> IF u \in poll.live THEN metrics[u] ELSE None]
      /\ stale' = stale \cap poll.live
      /\ poll' = [poll EXCEPT !.busy = FALSE]
  BY DEF PollRetain
<1>3. poll' = [busy |-> FALSE, live |-> poll.live, fetched |-> poll.fetched]
  BY ZenonT(30), <1>2 DEF RouterInv, Round
<1>4. poll.live \subseteq Upstreams /\ \A u \in poll.live : metrics[u] # None
  BY <1>2 DEF RouterInv, Round
<1>5. Sampled'
  BY <1>2 DEF RouterInv, Sampled
<1>6. SamplesAreLastRounds'
  BY <1>2, <1>3, <1>4 DEF SamplesAreLastRounds
<1>7. Round'
  BY ZenonT(30), <1>2, <1>3 DEF RouterInv, Round
<1> QED
  BY <1>1, <1>5, <1>6, <1>7, RequestsKept DEF RouterInv

LEMMA AgeKeeps ==
    ASSUME RouterInv, NEW u \in Upstreams, Age(u)
    PROVE  RouterInv'
<1>1. UNCHANGED <<running, processed, history, req, enabled, metrics, poll>>
  BY DEF Age, counters, config
<1>2. Sampled'
  BY DEF RouterInv, Sampled, Age
<1> QED
  BY <1>1, <1>2, RequestsKept DEF RouterInv, Round, SamplesAreLastRounds

LEMMA ToggleKeeps ==
    ASSUME RouterInv, NEW u \in Upstreams, Toggle(u)
    PROVE  RouterInv'
<1>1. UNCHANGED <<running, processed, history, req, metrics, stale, poll>>
  BY DEF Toggle, counters, sampling
<1>2. enabled' \subseteq Upstreams
  BY DEF RouterInv, Toggle
<1> QED
  BY <1>1, <1>2, RequestsKept DEF RouterInv, Round, SamplesAreLastRounds, Sampled

-----------------------------------------------------------------------------
LEMMA RouterInit ==
    ASSUME Init
    PROVE  RouterInv
<1>1. \A u \in Upstreams : Guards(u) = {}
  BY RouterAssumption DEF Init, Idle, Guards
<1>2. Counted
  BY ZenonT(30), <1>1, FS_EmptySet DEF Init, Counted
<1>3. Tallied
  <2>1. Started = {}
    BY DEF Init, Idle, Started
  <2> QED
    BY <2>1, FS_EmptySet DEF Init, Tallied
<1>4. Recorded
  <2>1. <<>> \in Seq(Texts) /\ Len(<<>>) = 0
    OBVIOUS
  <2> QED
    BY <2>1, RouterAssumption DEF Init, Recorded
<1>5. Requested
  <2>1. DOMAIN req = Requests /\ \A q \in Requests : req[q] = Idle
    BY DEF Init
  <2>2. ASSUME NEW q \in Requests PROVE Holds(q)
    <3>1. req[q] = Idle
      BY <2>1
    <3> QED
      BY <3>1 DEF Holds, Idle
  <2> QED
    BY <2>1, <2>2 DEF Requested
<1>6. Sampled /\ Round /\ SamplesAreLastRounds
  BY DEF Init, Sampled, Round, SamplesAreLastRounds
<1> QED
  BY <1>2, <1>3, <1>4, <1>5, <1>6 DEF Init, RouterInv

LEMMA RouterStep ==
    ASSUME RouterInv, [Next]_vars
    PROVE  RouterInv'
<1>1. CASE UNCHANGED vars
  BY ZenonT(30), <1>1, RequestsKept DEF vars, RouterInv, Sampled, Round, SamplesAreLastRounds
<1>2. CASE Next
  BY <1>2, SelectKeeps, OrderKeeps, StartKeeps, CommitKeeps, ReleaseKeeps, PollFetchKeeps,
     PollApplyKeeps, PollRetainKeeps, AgeKeeps, ToggleKeeps DEF Next
<1> QED
  BY <1>1, <1>2

\* Every reachable state of the router satisfies the inductive invariant.
THEOREM RouterInvariant == Spec => []RouterInv
  BY RouterInit, RouterStep, PTL DEF Spec

\* The in-flight counter of a route is the number of requests holding a guard for
\* it, through retargets, failures and clients that leave.
THEOREM NoGuardLeaks == Spec => []RunningCountsGuards
  BY RouterInvariant, InvCounts, PTL

\* A blocked route is chosen only when every route is blocked, and
\* /v1/upstream-status judges the same.
THEOREM PressureWins == Spec => []SelectionAvoidsBlocked
  BY RouterInvariant, InvTyped, StatusAgrees, PTL

\* Between rounds of the poller the samples are those of the upstreams it asked.
THEOREM NoSampleOutlivesItsUpstream == Spec => []SamplesAreLastRounds
<1>1. RouterInv => SamplesAreLastRounds
  BY DEF RouterInv
<1> QED
  BY <1>1, RouterInvariant, PTL

=============================================================================
