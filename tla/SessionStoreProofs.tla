------------------------- MODULE SessionStoreProofs -------------------------
(***************************************************************************)
(* Proofs about the durable session store, for any number of sessions and  *)
(* sealing requests, any retention, any sequence-number limit and any age  *)
(* of clock readings.                                                      *)
(*                                                                         *)
(* Neither property is inductive.  That every session of the index can be  *)
(* replayed needs to know what the writer lock protects: a session about   *)
(* to be published is in the log already, and while a compaction writes    *)
(* its snapshot nothing enters the index that the snapshot lacks (Locked). *)
(* That a promise is kept needs a bound on promises: none reaches further  *)
(* than one retention from now, so a renewal with an older reading takes   *)
(* back no more than the reading's age (Kept).                             *)
(***************************************************************************)
EXTENDS SessionStore, FiniteSetTheorems, TLAPS

MaxNumber == Later(MaxSeq, Cardinality(Sessions))

InLog == {r.id : r \in log}

\* The records of the file: their numbers identify them; those with a newline
\* come before the next number, the one without has it.
Numbered ==
    /\ \A r, s \in Readable : r.seq = s.seq => r = s
    /\ \A r \in Readable : r.seq <= MaxNumber
    /\ up => /\ \A r \in log : r.seq < next_seq
             /\ \A r \in tail : r.seq = next_seq

\* What the writer lock protects.
Locked ==
    /\ \A s \in Sealers : writer = s <=> sealer[s].pc = "publish"
    /\ \A s \in Sealers : sealer[s].pc = "publish" => sealer[s].id \in InLog \cup unreadable
    /\ writer = Compactor => DOMAIN index.by_id \subseteq DOMAIN snapshot
    /\ DOMAIN index.by_id \subseteq InLog \cup unreadable

\* A gateway that is down holds nothing in memory.
Down ==
    ~up => /\ index = [by_id |-> Nothing, by_expiry |-> {}]
           /\ writer = None
           /\ sealer = [s \in Sealers |-> Idle]
           /\ promised = Nothing

\* The readings requests work with, and the promises they make.
Recent == \A s \in Sealers : sealer[s].pc # "idle" =>
              sealer[s].now <= clock /\ clock <= sealer[s].now + MaxLag

Keeps(deadlines, promises, now) ==
    \A id \in DOMAIN promises :
        /\ promises[id] <= now + Ttl
        /\ promises[id] > now + MaxLag =>
              id \in DOMAIN deadlines /\ deadlines[id] + MaxLag >= promises[id]

Kept == Keeps(index.by_id, promised, clock)

\* The inductive invariant.
SessionInv ==
    /\ SessionTypeOK
    /\ HintsExact(index)
    /\ Numbered
    /\ Locked
    /\ Down
    /\ Recent
    /\ Kept

-----------------------------------------------------------------------------
(* The index.                                                              *)

GoodIndex(x) == IsIndex(x) /\ HintsExact(x)

\* An index is well typed and its hints exact if it is built from well-typed
\* deadlines and their hints.
LEMMA Indexed ==
    ASSUME NEW x, NEW f, DOMAIN f \subseteq Sessions, f \in [DOMAIN f -> Nat],
           x = [by_id |-> f, by_expiry |-> {<<f[i], i>> : i \in DOMAIN f}]
    PROVE  GoodIndex(x) /\ x.by_id = f
<1>1. x.by_id = f /\ x.by_expiry = {<<f[i], i>> : i \in DOMAIN f}
  OBVIOUS
<1>2. x.by_expiry \subseteq Nat \X Sessions
  BY <1>1
<1> QED
  BY <1>1, <1>2 DEF GoodIndex, IsIndex, HintsExact

\* insert: the deadline of one id is set, and its old hint goes with the old
\* deadline.
LEMMA InsertIndexed ==
    ASSUME NEW x, GoodIndex(x), NEW id \in Sessions, NEW exp \in Nat
    PROVE  /\ GoodIndex(insert(x, id, exp))
           /\ DOMAIN insert(x, id, exp).by_id = DOMAIN x.by_id \cup {id}
           /\ insert(x, id, exp).by_id[id] = exp
           /\ \A i \in DOMAIN x.by_id \ {id} : insert(x, id, exp).by_id[i] = x.by_id[i]
<1> DEFINE f == With(x.by_id, id, exp)
           y == insert(x, id, exp)
<1>1. /\ DOMAIN f = DOMAIN x.by_id \cup {id}
      /\ f[id] = exp
      /\ \A i \in DOMAIN x.by_id \ {id} : f[i] = x.by_id[i]
  BY DEF With
<1>2. DOMAIN f \subseteq Sessions /\ f \in [DOMAIN f -> Nat]
  BY DEF With, GoodIndex, IsIndex
<1>3. y.by_id = f /\ y.by_expiry = drop_expiry_hint(x, id) \cup {<<exp, id>>}
  BY DEF insert
<1>4. y = [by_id |-> y.by_id, by_expiry |-> y.by_expiry]
  BY DEF insert
<1> HIDE DEF f, y
<1>5. y.by_expiry = {<<f[i], i>> : i \in DOMAIN f}
  <2> DEFINE g == x.by_id
  <2>1. x.by_expiry = {<<g[i], i>> : i \in DOMAIN g}
    BY DEF GoodIndex, HintsExact
  <2>2. drop_expiry_hint(x, id) = {<<g[i], i>> : i \in DOMAIN g \ {id}}
    BY <2>1 DEF drop_expiry_hint
  <2>3. {<<g[i], i>> : i \in DOMAIN g \ {id}} = {<<f[i], i>> : i \in DOMAIN g \ {id}}
    BY <1>1
  <2> HIDE DEF g
  <2>4. DOMAIN f = (DOMAIN g \ {id}) \cup {id}
    BY <1>1 DEF g
  <2> QED
    BY <1>1, <1>3, <2>2, <2>3, <2>4
<1>6. y = [by_id |-> f, by_expiry |-> {<<f[i], i>> : i \in DOMAIN f}]
  BY <1>3, <1>4, <1>5
<1>7. GoodIndex(y)
  BY <1>2, <1>6, Indexed
<1> QED
  BY <1>1, <1>3, <1>7 DEF y

\* evict_expired: because the hints are exact, the ids dropped are exactly those
\* whose deadline has come.
LEMMA EvictIndexed ==
    ASSUME NEW x, GoodIndex(x), NEW now \in Nat
    PROVE  /\ GoodIndex(evict_expired(x, now))
           /\ DOMAIN evict_expired(x, now).by_id = {i \in DOMAIN x.by_id : x.by_id[i] > now}
           /\ \A i \in DOMAIN evict_expired(x, now).by_id :
                  evict_expired(x, now).by_id[i] = x.by_id[i]
<1> DEFINE due == {hint \in x.by_expiry : hint[1] <= now}
           gone == {i \in DOMAIN x.by_id : \E h \in due : h[2] = i}
           left == {i \in DOMAIN x.by_id : x.by_id[i] > now}
           f == Without(x.by_id, gone)
           y == evict_expired(x, now)
<1>1. x.by_expiry = {<<x.by_id[i], i>> : i \in DOMAIN x.by_id}
  BY DEF GoodIndex, HintsExact
<1>2. DOMAIN x.by_id \subseteq Sessions /\ x.by_id \in [DOMAIN x.by_id -> Nat]
  BY DEF GoodIndex, IsIndex
<1>3. \A i \in DOMAIN x.by_id : i \in gone <=> x.by_id[i] <= now
  <2>1. ASSUME NEW i \in DOMAIN x.by_id, x.by_id[i] <= now PROVE i \in gone
    <3>1. <<x.by_id[i], i>> \in x.by_expiry
      BY <1>1
    <3>2. <<x.by_id[i], i>> \in due /\ <<x.by_id[i], i>>[2] = i
      BY <2>1, <3>1
    <3> QED BY <3>2
  <2>2. ASSUME NEW i \in gone PROVE x.by_id[i] <= now
    <3>1. PICK h \in x.by_expiry : h[1] <= now /\ h[2] = i
      OBVIOUS
    <3>2. PICK j \in DOMAIN x.by_id : h = <<x.by_id[j], j>>
      BY <1>1
    <3> QED BY <3>1, <3>2
  <2> QED BY <2>1, <2>2
<1>4. DOMAIN f = left
  BY <1>2, <1>3 DEF Without
<1>5. \A i \in left : f[i] = x.by_id[i]
  BY <1>4 DEF Without
<1>6. f \in [left -> Nat] /\ left \subseteq Sessions
  BY <1>2, <1>4, <1>5 DEF Without
<1>7. y = [by_id |-> f, by_expiry |-> x.by_expiry \ due]
  BY DEF evict_expired
<1>8. x.by_expiry \ due = {<<f[i], i>> : i \in DOMAIN f}
  <2>1. x.by_expiry \ due = {h \in x.by_expiry : ~(h[1] <= now)}
    OBVIOUS
  <2>2. {h \in x.by_expiry : ~(h[1] <= now)} = {<<x.by_id[i], i>> : i \in left}
    BY <1>1, <1>2
  <2>3. {<<x.by_id[i], i>> : i \in left} = {<<f[i], i>> : i \in left}
    BY ZenonT(30), <1>5
  <2> QED BY ZenonT(30), <1>4, <2>1, <2>2, <2>3
<1> HIDE DEF f, y, due, gone
<1>9. GoodIndex(y) /\ y.by_id = f
  BY <1>4, <1>6, <1>7, <1>8, Indexed
<1> QED
  BY <1>4, <1>5, <1>9 DEF y

\* The index x after get_session has found id past its deadline.
Dropped(x, id) ==
    [by_id |-> Without(x.by_id, {id}), by_expiry |-> drop_expiry_hint(x, id)]

\* get_session's removal of one id.
LEMMA DropIndexed ==
    ASSUME NEW x, GoodIndex(x), NEW id \in DOMAIN x.by_id
    PROVE  /\ GoodIndex(Dropped(x, id))
           /\ DOMAIN Dropped(x, id).by_id = DOMAIN x.by_id \ {id}
           /\ \A i \in DOMAIN Dropped(x, id).by_id : Dropped(x, id).by_id[i] = x.by_id[i]
<1> DEFINE f == Without(x.by_id, {id})
           y == Dropped(x, id)
<1>1. DOMAIN f = DOMAIN x.by_id \ {id} /\ \A i \in DOMAIN f : f[i] = x.by_id[i]
  BY DEF Without
<1>2. DOMAIN f \subseteq Sessions /\ f \in [DOMAIN f -> Nat]
  BY DEF Without, GoodIndex, IsIndex
<1>3. x.by_expiry = {<<x.by_id[i], i>> : i \in DOMAIN x.by_id}
  BY DEF GoodIndex, HintsExact
<1>4. drop_expiry_hint(x, id) = {<<x.by_id[i], i>> : i \in DOMAIN x.by_id \ {id}}
  BY <1>3 DEF drop_expiry_hint
<1> HIDE DEF f, y
<1>5. drop_expiry_hint(x, id) = {<<f[i], i>> : i \in DOMAIN f}
  BY <1>1, <1>4
<1>6. y = [by_id |-> f, by_expiry |-> {<<f[i], i>> : i \in DOMAIN f}]
  BY <1>5 DEF f, y, Dropped
<1>7. GoodIndex(y) /\ y.by_id = f
  BY <1>2, <1>6, Indexed
<1> QED
  BY <1>1, <1>7 DEF y

-----------------------------------------------------------------------------
(* The log.                                                                *)

\* A non-empty set of numbers has a least element.
LEMMA LeastNatural ==
    ASSUME NEW S \in SUBSET Nat, S # {}
    PROVE  \E m \in S : \A n \in S : m <= n
<1> DEFINE T == {1..n : n \in S}
           R == StrictSubsetOrdering(Nat)
<1>1. T # {} /\ T \subseteq FiniteSubsetsOf(Nat)
  <2>1. ASSUME NEW n \in S PROVE 1..n \in SUBSET Nat /\ IsFiniteSet(1..n)
    BY FS_Interval
  <2> QED BY <2>1 DEF FiniteSubsetsOf
<1>2. IsWellFoundedOn(R, FiniteSubsetsOf(Nat))
  BY FS_StrictSubsetOrderingWellFounded
<1> HIDE DEF R
<1>3. \E x \in T : \A y \in T : ~ (<<y, x>> \in R)
  BY ZenonT(30), <1>1, <1>2, WFMin
<1>4. PICK m \in S : \A n \in S : ~ (<<1..n, 1..m>> \in R)
  BY ZenonT(30), <1>3
<1>5. ASSUME NEW n \in S, n < m PROVE FALSE
  <2>1. 1..n \in SUBSET Nat /\ 1..m \in SUBSET Nat /\ 1..n \subseteq 1..m
    BY <1>5
  <2>2. m \in 1..m /\ m \notin 1..n
    BY <1>5
  <2>3. 1..n # 1..m
    BY <2>2
  <2>4. <<1..n, 1..m>> \in R
    BY <2>1, <2>3 DEF R, StrictSubsetOrdering
  <2> QED BY <2>4, <1>4
<1> QED
  BY <1>4, <1>5

\* The largest sequence number is a number.
LEMMA MaxNumberIsNatural ==
    /\ MaxNumber \in Nat
    /\ MaxSeq <= MaxNumber
    /\ \A D \in SUBSET Sessions : /\ IsFiniteSet(D)
                                  /\ Cardinality(D) \in Nat
                                  /\ Cardinality(D) <= MaxNumber
<1>1. Cardinality(Sessions) \in Nat
  BY FS_CardinalityType, SessionStoreAssumption
<1>2. MaxNumber \in Nat /\ MaxSeq <= MaxNumber /\ Cardinality(Sessions) <= MaxNumber
  BY <1>1, SessionStoreAssumption DEF MaxNumber, Later
<1>3. ASSUME NEW D \in SUBSET Sessions
      PROVE  IsFiniteSet(D) /\ Cardinality(D) \in Nat /\ Cardinality(D) <= MaxNumber
  <2>1. IsFiniteSet(D) /\ Cardinality(D) <= Cardinality(Sessions)
    BY FS_Subset, SessionStoreAssumption
  <2>2. Cardinality(D) \in Nat
    BY <2>1, FS_CardinalityType
  <2> QED
    BY <1>1, <1>2, <2>1, <2>2
<1> QED
  BY <1>2, <1>3

\* replay finds for every id in the file the last record that carries it.
LEMMA ReplayIndexed ==
    ASSUME \A r \in Readable : r \in Record /\ r.seq <= MaxNumber
    PROVE  GoodIndex(replay) /\ DOMAIN replay.by_id = Logged
<1>1. ASSUME NEW id \in Logged
      PROVE  Last(id) \in Readable /\ Last(id).id = id
  <2> DEFINE R == {r \in Readable : r.id = id}
             S == {MaxNumber - r.seq : r \in R}
  <2>1. R # {}
    BY DEF Logged
  <2>2. \A r \in R : r.seq \in Nat /\ r.seq <= MaxNumber
    BY DEF Record
  <2>3. S \in SUBSET Nat /\ S # {}
    BY <2>1, <2>2, MaxNumberIsNatural
  <2>4. PICK m \in S : \A n \in S : m <= n
    BY ZenonT(30), <2>3, LeastNatural
  <2>5. PICK r \in R : m = MaxNumber - r.seq
    OBVIOUS
  <2>6. \A s \in R : MaxNumber - r.seq <= MaxNumber - s.seq
    BY <2>4, <2>5
  <2>7. \A s \in R : s.seq <= r.seq
    BY <2>2, <2>6, MaxNumberIsNatural
  <2>8. \E q \in Readable : q.id = id /\ \A s \in Readable : s.id = id => s.seq <= q.seq
    BY <2>7
  <2> QED
    BY <2>8 DEF Last
<1> DEFINE f == [id \in Logged |-> Last(id).expires_at]
<1>2. \A id \in Logged : id \in Sessions /\ Last(id).expires_at \in Nat
  BY <1>1 DEF Record, Logged
<1>3. DOMAIN f = Logged /\ f \in [Logged -> Nat] /\ Logged \subseteq Sessions
  BY <1>2
<1>4. replay = [by_id |-> f, by_expiry |-> {<<f[i], i>> : i \in Logged}]
  BY DEF replay
<1> HIDE DEF f
<1>5. GoodIndex(replay) /\ replay.by_id = f
  BY <1>3, <1>4, Indexed
<1> QED
  BY <1>3, <1>5

\* The file compaction leaves: a record for every session it was given, with
\* numbers from zero that identify the records.
LEMMA RewrittenNumbered ==
    ASSUME NEW D \in SUBSET Sessions, NEW f \in [D -> Nat], NEW order \in Orders(D)
    PROVE  /\ \A r \in Rewritten(f, order) : /\ r \in Record
                                             /\ r.seq < Cardinality(D)
                                             /\ r.seq <= MaxNumber
           /\ \A r, s \in Rewritten(f, order) : r.seq = s.seq => r = s
           /\ {r.id : r \in Rewritten(f, order)} = D
<1> DEFINE rec(id) == [seq |-> order[id], id |-> id, expires_at |-> f[id]]
<1>1. Cardinality(D) \in Nat /\ Cardinality(D) <= MaxNumber /\ MaxNumber \in Nat
  BY MaxNumberIsNatural
<1>2. Rewritten(f, order) = {rec(id) : id \in D}
  BY DEF Rewritten
<1>3. /\ order \in [D -> 0..(Cardinality(D) - 1)]
      /\ \A i, j \in D : order[i] = order[j] => i = j
  BY DEF Orders
<1>4. \A id \in D : /\ rec(id) \in Record
                    /\ rec(id).seq = order[id] /\ rec(id).id = id
                    /\ order[id] < Cardinality(D) /\ order[id] <= MaxNumber
  BY <1>1, <1>3 DEF Record
<1> HIDE DEF rec
<1>5. \A r \in Rewritten(f, order) :
          r \in Record /\ r.seq < Cardinality(D) /\ r.seq <= MaxNumber
  BY <1>2, <1>4
<1>6. ASSUME NEW r \in Rewritten(f, order), NEW s \in Rewritten(f, order), r.seq = s.seq
      PROVE  r = s
  <2>1. PICK i \in D : r = rec(i)
    BY <1>2
  <2>2. PICK j \in D : s = rec(j)
    BY <1>2
  <2> QED
    BY <1>3, <1>4, <1>6, <2>1, <2>2
<1>7. {r.id : r \in Rewritten(f, order)} = D
  BY <1>2, <1>4
<1> QED
  BY <1>5, <1>6, <1>7

-----------------------------------------------------------------------------
(* The promises.                                                           *)

\* An eviction with a reading that is not in the future takes no session whose
\* promise is still to be kept.
LEMMA EvictionKeeps ==
    ASSUME NEW x, GoodIndex(x), NEW p, p \in [DOMAIN p -> Nat], NEW t \in Nat,
           NEW now \in Nat, now <= t, Keeps(x.by_id, p, t)
    PROVE  Keeps(evict_expired(x, now).by_id, p, t)
<1> DEFINE f == x.by_id
           g == evict_expired(x, now).by_id
<1>1. DOMAIN g = {i \in DOMAIN f : f[i] > now} /\ \A i \in DOMAIN g : g[i] = f[i]
  BY EvictIndexed
<1>2. f \in [DOMAIN f -> Nat]
  BY DEF GoodIndex, IsIndex
<1>3. Keeps(f, p, t)
  OBVIOUS
<1> HIDE DEF f, g
<1>4. Keeps(g, p, t)
  BY <1>1, <1>2, <1>3, SessionStoreAssumption DEF Keeps
<1> QED
  BY <1>4 DEF g

\* The promises p after one more (Promise).
Promised(p, id, exp) ==
    With(p, id, IF id \in DOMAIN p THEN Later(p[id], exp) ELSE exp)

\* A promise adds at most its own id.
LEMMA PromisedTyped ==
    ASSUME NEW p, p \in [DOMAIN p -> Nat], NEW id, NEW exp \in Nat
    PROVE  /\ Promised(p, id, exp) \in [DOMAIN p \cup {id} -> Nat]
           /\ DOMAIN Promised(p, id, exp) = DOMAIN p \cup {id}
  BY DEF Promised, With, Later

\* A renewal or a put moves a deadline to one retention after its own reading,
\* which takes back no more than the age of the reading.
LEMMA InsertionKeeps ==
    ASSUME NEW x, GoodIndex(x), NEW p, p \in [DOMAIN p -> Nat], NEW t \in Nat,
           NEW now \in Nat, now <= t, t <= now + MaxLag, Keeps(x.by_id, p, t),
           NEW id \in Sessions
    PROVE  Keeps(insert(x, id, now + Ttl).by_id, Promised(p, id, now + Ttl), t)
<1> DEFINE q == Promised(p, id, now + Ttl)
           f == x.by_id
           g == insert(x, id, now + Ttl).by_id
<1>1. now + Ttl \in Nat /\ t <= (now + Ttl) + MaxLag
  BY SessionStoreAssumption
<1>2. /\ DOMAIN g = DOMAIN f \cup {id}
      /\ g[id] = now + Ttl
      /\ \A i \in DOMAIN f \ {id} : g[i] = f[i]
  BY <1>1, InsertIndexed
<1>3. /\ DOMAIN q = DOMAIN p \cup {id}
      /\ q[id] = IF id \in DOMAIN p THEN Later(p[id], now + Ttl) ELSE now + Ttl
      /\ \A i \in DOMAIN p \ {id} : q[i] = p[i]
  BY DEF Promised, With
<1>5. Keeps(f, p, t)
  OBVIOUS
<1> HIDE DEF f, g, q
<1>6. q[id] \in Nat /\ q[id] <= t + Ttl
  BY <1>1, <1>3, <1>5, SessionStoreAssumption DEF Keeps, Later
<1>7. g[id] + MaxLag >= q[id]
  BY <1>2, <1>6, SessionStoreAssumption
<1>8. ASSUME NEW i \in DOMAIN p \ {id}
      PROVE  /\ q[i] <= t + Ttl
             /\ q[i] > t + MaxLag => i \in DOMAIN g /\ g[i] + MaxLag >= q[i]
  BY <1>2, <1>3, <1>5 DEF Keeps
<1>9. Keeps(g, q, t)
  BY <1>2, <1>3, <1>6, <1>7, <1>8 DEF Keeps
<1> QED
  BY <1>9 DEF g, q

-----------------------------------------------------------------------------
(* The steps.                                                              *)

\* The facts about a request under way that its steps rest on.
LEMMA SealerFacts ==
    ASSUME SessionInv, NEW s \in Sealers, sealer[s].pc # "idle"
    PROVE  /\ sealer[s].id \in Sessions
           /\ sealer[s].now \in Nat /\ sealer[s].now + Ttl \in Nat
           /\ sealer[s].now <= clock /\ clock <= sealer[s].now + MaxLag
           /\ clock \in Nat
           /\ up
<1>1. up
  BY DEF SessionInv, Down, Idle
<1> QED
  BY <1>1, SessionStoreAssumption DEF SessionInv, SessionTypeOK, Recent

LEMMA InitHolds == Init => SessionInv
<1> SUFFICES ASSUME Init PROVE SessionInv
  OBVIOUS
<1>1. SessionTypeOK /\ HintsExact(index)
  <2>1. Nothing \in [{} -> Nat] /\ DOMAIN Nothing = {}
    BY DEF Nothing
  <2>2. IsIndex(index) /\ HintsExact(index)
    BY <2>1 DEF Init, IsIndex, HintsExact
  <2>3. 0 \in 0..MaxNumber
    BY MaxNumberIsNatural
  <2>4. Idle \in [pc : {"idle", "renew", "put", "publish"}, id : Sessions \cup {None}, now : Nat]
    BY DEF Idle
  <2> QED
    BY ZenonT(30), <2>1, <2>2, <2>3, <2>4 DEF Init, SessionTypeOK, MaxNumber, Idle
<1>2. Numbered /\ Locked /\ Down /\ Recent /\ Kept
  BY SessionStoreAssumption
     DEF Init, Numbered, Readable, Locked, Down, Recent, Kept, Keeps, Nothing, Idle
<1> QED
  BY <1>1, <1>2 DEF SessionInv

LEMMA TickKeeps ==
    ASSUME SessionInv, Tick
    PROVE  SessionInv'
<1>1. SessionTypeOK' /\ HintsExact(index)'
  BY DEF SessionInv, SessionTypeOK, Tick, disk, history, IsIndex, HintsExact
<1>2. Numbered' /\ Locked' /\ Down'
  BY DEF SessionInv, Tick, disk, history, Numbered, Readable, Locked, InLog, Down
<1>3. Recent'
  BY SessionStoreAssumption DEF SessionInv, SessionTypeOK, Tick, Recent
<1>4. Kept'
  <2>1. /\ clock \in Nat /\ clock' = clock + 1 /\ promised' = promised /\ index' = index
        /\ promised \in [DOMAIN promised -> Nat]
    BY DEF SessionInv, SessionTypeOK, Tick, history
  <2> QED
    BY <2>1, SessionStoreAssumption DEF SessionInv, Kept, Keeps
<1> QED
  BY <1>1, <1>2, <1>3, <1>4 DEF SessionInv

LEMMA BeginKeeps ==
    ASSUME SessionInv, NEW s \in Sealers, NEW id \in Sessions, Begin(s, id)
    PROVE  SessionInv'
<1>1. SessionTypeOK'
  BY DEF SessionInv, SessionTypeOK, Begin, disk, history, IsIndex
<1>2. HintsExact(index)' /\ Numbered' /\ Down' /\ Kept'
  BY DEF SessionInv, Begin, disk, history, HintsExact, Numbered, Readable, Down, Kept, Keeps
<1>3. /\ sealer' = [sealer EXCEPT ![s] = [pc |-> "renew", id |-> id, now |-> clock]]
      /\ DOMAIN sealer = Sealers /\ sealer[s].pc = "idle"
      /\ clock' = clock /\ clock \in Nat /\ writer' = writer /\ log' = log /\ index' = index
      /\ unreadable' = unreadable /\ snapshot' = snapshot
  BY DEF SessionInv, SessionTypeOK, Begin, disk, history
<1>4. Locked'
  BY ZenonT(30), <1>3 DEF SessionInv, Locked, InLog
<1>5. Recent'
  BY <1>3, SessionStoreAssumption DEF SessionInv, Recent
<1> QED
  BY <1>1, <1>2, <1>4, <1>5 DEF SessionInv

\* The conjuncts that a change of the index alone leaves to check.
LEMMA IndexStep ==
    ASSUME SessionInv, GoodIndex(index)', clock' = clock, up' = up, UNCHANGED disk,
           next_seq' = next_seq, unreadable' = unreadable, up
    PROVE  /\ HintsExact(index)' /\ IsIndex(index)'
           /\ Numbered' /\ Down'
           /\ InLog' = InLog
  BY DEF SessionInv, GoodIndex, Numbered, Readable, Down, InLog, disk

LEMMA RenewKeeps ==
    ASSUME SessionInv, NEW s \in Sealers, Renew(s)
    PROVE  SessionInv'
<1> DEFINE id == sealer[s].id
           now == sealer[s].now
           live == evict_expired(index, now)
<1>1. /\ sealer[s].pc = "renew"
      /\ \/ /\ id \in DOMAIN live.by_id
            /\ index' = insert(live, id, now + Ttl)
            /\ sealer' = [sealer EXCEPT ![s] = Idle]
            /\ Promise(id, now + Ttl)
         \/ /\ id \notin DOMAIN live.by_id
            /\ index' = live
            /\ sealer' = [sealer EXCEPT ![s].pc = "put"]
            /\ UNCHANGED promised
      /\ UNCHANGED <<clock, up, disk, writer, next_seq, snapshot, unreadable>>
  BY DEF Renew
<1>2. /\ id \in Sessions /\ now \in Nat /\ now + Ttl \in Nat
      /\ now <= clock /\ clock <= now + MaxLag /\ clock \in Nat /\ up
  BY <1>1, SealerFacts
<1>3. GoodIndex(index) /\ promised \in [DOMAIN promised -> Nat] /\ DOMAIN promised \subseteq Sessions
  BY DEF SessionInv, SessionTypeOK, GoodIndex
<1>4. /\ GoodIndex(live)
      /\ DOMAIN live.by_id \subseteq DOMAIN index.by_id
      /\ Keeps(live.by_id, promised, clock)
  <2>1. GoodIndex(live) /\ DOMAIN live.by_id \subseteq DOMAIN index.by_id
    BY <1>2, <1>3, EvictIndexed
  <2>2. Keeps(index.by_id, promised, clock)
    BY DEF SessionInv, Kept
  <2> QED
    BY <1>2, <1>3, <2>1, <2>2, EvictionKeeps
<1> HIDE DEF live
<1>5. /\ GoodIndex(index')
      /\ DOMAIN index'.by_id \subseteq DOMAIN index.by_id
      /\ promised' \in [DOMAIN promised' -> Nat] /\ DOMAIN promised' \subseteq Sessions
      /\ Keeps(index'.by_id, promised', clock)
  <2>1. CASE id \notin DOMAIN live.by_id
    BY <1>1, <1>3, <1>4, <2>1
  <2>2. CASE id \in DOMAIN live.by_id
    <3>1. /\ index' = insert(live, id, now + Ttl)
          /\ promised' = Promised(promised, id, now + Ttl)
      BY <1>1, <2>2 DEF Promise, Promised
    <3> HIDE DEF id, now
    <3>2. GoodIndex(index') /\ DOMAIN index'.by_id = DOMAIN live.by_id \cup {id}
      BY ZenonT(30), <1>2, <1>4, <3>1, InsertIndexed
    <3>3. /\ promised' \in [DOMAIN promised \cup {id} -> Nat]
          /\ DOMAIN promised' = DOMAIN promised \cup {id}
          /\ Keeps(insert(live, id, now + Ttl).by_id, promised', clock)
      <4>1. Keeps(insert(live, id, now + Ttl).by_id, Promised(promised, id, now + Ttl), clock)
        BY ZenonT(30), <1>2, <1>3, <1>4, InsertionKeeps
      <4>2. /\ Promised(promised, id, now + Ttl) \in [DOMAIN promised \cup {id} -> Nat]
            /\ DOMAIN Promised(promised, id, now + Ttl) = DOMAIN promised \cup {id}
        BY ZenonT(30), <1>2, <1>3, PromisedTyped
      <4> QED
        BY <3>1, <4>1, <4>2
    <3> QED
      BY <1>2, <1>3, <1>4, <2>2, <3>1, <3>2, <3>3
  <2> QED
    BY <2>1, <2>2
<1>6. /\ HintsExact(index)' /\ IsIndex(index)' /\ Numbered' /\ Down' /\ InLog' = InLog
  BY <1>1, <1>2, <1>5, IndexStep
<1>7. /\ sealer' \in [Sealers -> [pc : {"idle", "renew", "put", "publish"},
                                 id : Sessions \cup {None}, now : Nat]]
      /\ \A q \in Sealers \ {s} : sealer'[q] = sealer[q]
      /\ sealer'[s].pc \in {"idle", "put"}
      /\ sealer'[s].pc # "idle" => sealer'[s].id = id /\ sealer'[s].now = now
  BY <1>1 DEF SessionInv, SessionTypeOK, Idle
<1> HIDE DEF id, now
<1>8. SessionTypeOK'
  BY <1>1, <1>2, <1>5, <1>6, <1>7 DEF SessionInv, SessionTypeOK, disk
<1>9. Locked'
  BY <1>1, <1>5, <1>6, <1>7 DEF SessionInv, Locked
<1>10. Recent'
  BY <1>1, <1>2, <1>7 DEF SessionInv, Recent
<1>11. Kept'
  BY <1>1, <1>5 DEF Kept
<1> QED
  BY <1>6, <1>8, <1>9, <1>10, <1>11 DEF SessionInv

LEMMA PublishKeeps ==
    ASSUME SessionInv, NEW s \in Sealers, Publish(s)
    PROVE  SessionInv'
<1> DEFINE id == sealer[s].id
           now == sealer[s].now
           put == insert(index, id, now + Ttl)
<1>1. /\ sealer[s].pc = "publish"
      /\ index' = evict_expired(put, now)
      /\ Promise(id, now + Ttl)
      /\ writer' = None
      /\ sealer' = [sealer EXCEPT ![s] = Idle]
      /\ UNCHANGED <<clock, up, disk, next_seq, snapshot, unreadable>>
  BY DEF Publish, put_and_evict
<1>2. /\ id \in Sessions /\ now \in Nat /\ now + Ttl \in Nat
      /\ now <= clock /\ clock <= now + MaxLag /\ clock \in Nat /\ up
  BY <1>1, SealerFacts
<1>3. GoodIndex(index) /\ promised \in [DOMAIN promised -> Nat] /\ DOMAIN promised \subseteq Sessions
  BY DEF SessionInv, SessionTypeOK, GoodIndex
<1>4. writer = s /\ id \in InLog \cup unreadable
  BY <1>1 DEF SessionInv, Locked
<1>5. promised' = Promised(promised, id, now + Ttl)
  BY <1>1 DEF Promise, Promised
<1>6. Keeps(index.by_id, promised, clock)
  BY DEF SessionInv, Kept
<1> HIDE DEF id, now
<1>7. GoodIndex(put) /\ DOMAIN put.by_id = DOMAIN index.by_id \cup {id}
  BY <1>2, <1>3, InsertIndexed
<1>8. /\ promised' \in [DOMAIN promised \cup {id} -> Nat]
      /\ DOMAIN promised' = DOMAIN promised \cup {id}
      /\ Keeps(put.by_id, promised', clock)
  <2>1. Keeps(insert(index, id, now + Ttl).by_id, Promised(promised, id, now + Ttl), clock)
    BY ZenonT(30), <1>2, <1>3, <1>6, InsertionKeeps
  <2>2. /\ Promised(promised, id, now + Ttl) \in [DOMAIN promised \cup {id} -> Nat]
        /\ DOMAIN Promised(promised, id, now + Ttl) = DOMAIN promised \cup {id}
    BY ZenonT(30), <1>2, <1>3, PromisedTyped
  <2> QED
    BY <1>5, <2>1, <2>2
<1> HIDE DEF put
<1>9. /\ GoodIndex(index')
      /\ DOMAIN index'.by_id \subseteq DOMAIN index.by_id \cup {id}
  BY <1>1, <1>2, <1>7, EvictIndexed
<1>10. Keeps(index'.by_id, promised', clock)
  BY <1>1, <1>2, <1>7, <1>8, EvictionKeeps
<1>11. /\ HintsExact(index)' /\ IsIndex(index)' /\ Numbered' /\ Down' /\ InLog' = InLog
  BY <1>1, <1>2, <1>9, IndexStep
<1>12. /\ sealer' \in [Sealers -> [pc : {"idle", "renew", "put", "publish"},
                                  id : Sessions \cup {None}, now : Nat]]
       /\ \A q \in Sealers \ {s} : sealer'[q] = sealer[q]
       /\ sealer'[s].pc = "idle"
  BY <1>1 DEF SessionInv, SessionTypeOK, Idle
<1>13. SessionTypeOK'
  BY <1>1, <1>2, <1>3, <1>8, <1>11, <1>12 DEF SessionInv, SessionTypeOK, disk
<1>14. Locked'
  <2>1. \A q \in Sealers : writer' = q <=> sealer'[q].pc = "publish"
    BY ZenonT(30), <1>1, <1>4, <1>12, SessionStoreAssumption DEF SessionInv, Locked
  <2> QED
    BY ZenonT(30), <1>1, <1>4, <1>9, <1>11, <1>12, <2>1, SessionStoreAssumption DEF SessionInv, Locked
<1>15. Recent' /\ Kept'
  BY ZenonT(30), <1>1, <1>10, <1>12 DEF SessionInv, Recent, Kept
<1> QED
  BY <1>11, <1>13, <1>14, <1>15 DEF SessionInv

\* The record a request is about to append.
LEMMA NewRecordFacts ==
    ASSUME SessionInv, NEW s \in Sealers, sealer[s].pc = "put", next_seq < MaxSeq
    PROVE  /\ NewRecord(s) \in Record
           /\ NewRecord(s).seq = next_seq /\ NewRecord(s).id = sealer[s].id
           /\ next_seq \in Nat /\ next_seq + 1 <= MaxNumber /\ MaxNumber \in Nat
<1>1. next_seq \in Nat /\ sealer[s].id \in Sessions /\ sealer[s].now + Ttl \in Nat
  BY SealerFacts DEF SessionInv, SessionTypeOK
<1>2. next_seq + 1 <= MaxNumber /\ MaxNumber \in Nat
  BY <1>1, MaxNumberIsNatural, SessionStoreAssumption
<1> QED
  BY <1>1, <1>2 DEF NewRecord, Record

LEMMA AppendKeeps ==
    ASSUME SessionInv, NEW s \in Sealers, Append(s)
    PROVE  SessionInv'
<1>1. /\ sealer[s].pc = "put" /\ writer = None /\ next_seq < MaxSeq
      /\ writer' = s /\ next_seq' = next_seq + 1
      /\ log' = IF torn THEN log ELSE log \cup {NewRecord(s)}
      /\ unreadable' = IF torn THEN unreadable \cup {sealer[s].id} ELSE unreadable
      /\ torn' = FALSE /\ tail' = {}
      /\ sealer' = [sealer EXCEPT ![s].pc = "publish"]
      /\ UNCHANGED <<clock, up, index, snapshot, promised>>
  BY DEF Append
<1>2. /\ NewRecord(s) \in Record
      /\ NewRecord(s).seq = next_seq /\ NewRecord(s).id = sealer[s].id
      /\ next_seq \in Nat /\ next_seq + 1 <= MaxNumber /\ MaxNumber \in Nat
  BY <1>1, NewRecordFacts
<1>3. sealer[s].id \in Sessions /\ up
  BY <1>1, SealerFacts
<1>4. /\ sealer' \in [Sealers -> [pc : {"idle", "renew", "put", "publish"},
                                 id : Sessions \cup {None}, now : Nat]]
      /\ \A q \in Sealers \ {s} : sealer'[q] = sealer[q]
      /\ sealer'[s].pc = "publish" /\ sealer'[s].id = sealer[s].id
      /\ sealer'[s].now = sealer[s].now
  BY <1>1 DEF SessionInv, SessionTypeOK
<1> DEFINE new == NewRecord(s)
<1> HIDE DEF new
<1>5. /\ log \subseteq log' /\ log' \subseteq log \cup {new}
      /\ new \in Record /\ new.seq = next_seq /\ new.id = sealer[s].id
  BY <1>1, <1>2 DEF new
<1>6. SessionTypeOK'
  <2>1. \A r \in (log \cup tail)' : r \in Record
    BY <1>1, <1>5 DEF SessionInv, SessionTypeOK
  <2>2. next_seq' \in 0..MaxNumber
    BY <1>1, <1>2
  <2>3. unreadable' \subseteq Sessions
    BY <1>1, <1>3 DEF SessionInv, SessionTypeOK
  <2>4. \A q \in Sealers : sealer'[q].pc # "idle" => sealer'[q].id \in Sessions
    BY <1>3, <1>4 DEF SessionInv, SessionTypeOK
  <2> QED
    BY ZenonT(30), <1>1, <1>4, <2>1, <2>2, <2>3, <2>4 DEF SessionInv, SessionTypeOK, IsIndex, MaxNumber
<1>7. HintsExact(index)' /\ Down' /\ Kept'
  BY <1>1, <1>3 DEF SessionInv, HintsExact, Down, Kept
<1>8. Numbered'
  <2>1. \A r \in log : r.seq \in Nat /\ r.seq < next_seq /\ r.seq <= MaxNumber
    BY <1>3 DEF SessionInv, SessionTypeOK, Numbered, Readable, Record
  <2>2. \A r, q \in log : r.seq = q.seq => r = q
    BY DEF SessionInv, Numbered, Readable
  <2> QED
    BY <1>1, <1>2, <1>5, <2>1, <2>2 DEF Numbered, Readable
<1>9. Locked'
  <2>1. InLog \cup unreadable \subseteq (InLog \cup unreadable)'
    BY <1>1, <1>5 DEF InLog
  <2>2. sealer[s].id \in (InLog \cup unreadable)'
    BY <1>1, <1>2 DEF InLog
  <2>3. \A q \in Sealers : writer' = q <=> sealer'[q].pc = "publish"
    BY <1>1, <1>4, SessionStoreAssumption DEF SessionInv, Locked
  <2>4. \A q \in Sealers : sealer'[q].pc = "publish" => sealer'[q].id \in (InLog \cup unreadable)'
    BY <1>4, <2>1, <2>2 DEF SessionInv, Locked
  <2> QED
    BY <1>1, <2>1, <2>3, <2>4, SessionStoreAssumption DEF SessionInv, Locked
<1>10. Recent'
  BY <1>1, <1>4 DEF SessionInv, Recent
<1> QED
  BY <1>6, <1>7, <1>8, <1>9, <1>10 DEF SessionInv

\* A request that ends without a record: nothing but the tail of the file may
\* have changed.
LEMMA PutEnds ==
    ASSUME SessionInv, NEW s \in Sealers, sealer[s].pc = "put",
           sealer' = [sealer EXCEPT ![s] = Idle], torn' \in BOOLEAN,
           \A r \in tail' : r \in Record /\ r.seq = next_seq,
           \A r, q \in tail' : r = q,
           UNCHANGED <<clock, up, index, log, writer, next_seq, snapshot, history>>
    PROVE  SessionInv'
<1>1. up /\ next_seq \in 0..MaxNumber /\ MaxNumber \in Nat
  BY ZenonT(30), SealerFacts, MaxNumberIsNatural DEF SessionInv, SessionTypeOK, MaxNumber
<1>2. /\ sealer' \in [Sealers -> [pc : {"idle", "renew", "put", "publish"},
                                 id : Sessions \cup {None}, now : Nat]]
      /\ \A q \in Sealers \ {s} : sealer'[q] = sealer[q]
      /\ sealer'[s].pc = "idle"
  BY DEF SessionInv, SessionTypeOK, Idle
<1>3. SessionTypeOK'
  BY <1>2 DEF SessionInv, SessionTypeOK, IsIndex, history
<1>4. HintsExact(index)' /\ Down' /\ Kept'
  BY ZenonT(30), <1>1 DEF SessionInv, HintsExact, Down, Kept, history
<1>5. Numbered'
  <2>1. \A r \in log : r.seq \in Nat /\ r.seq < next_seq /\ r.seq <= MaxNumber
    BY <1>1 DEF SessionInv, SessionTypeOK, Numbered, Readable, Record
  <2>2. \A r, q \in log : r.seq = q.seq => r = q
    BY DEF SessionInv, Numbered, Readable
  <2> QED
    BY <1>1, <2>1, <2>2 DEF Numbered, Readable
<1>6. Locked'
  <2>1. InLog' = InLog
    BY DEF InLog
  <2> QED
    BY <1>2, <2>1 DEF SessionInv, Locked, history
<1>7. Recent'
  BY <1>2 DEF SessionInv, Recent
<1> QED
  BY <1>3, <1>4, <1>5, <1>6, <1>7 DEF SessionInv

LEMMA AppendFailsKeeps ==
    ASSUME SessionInv, NEW s \in Sealers, NEW wrote \in BOOLEAN, NEW whole \in BOOLEAN,
           AppendFails(s, wrote, whole)
    PROVE  SessionInv'
<1>1. /\ sealer[s].pc = "put" /\ next_seq < MaxSeq
      /\ torn' = (torn \/ wrote)
      /\ tail' = IF ~wrote THEN tail ELSE IF whole /\ ~torn THEN {NewRecord(s)} ELSE {}
      /\ sealer' = [sealer EXCEPT ![s] = Idle]
      /\ UNCHANGED <<clock, up, index, log, writer, next_seq, snapshot, history>>
  BY DEF AppendFails
<1>2. NewRecord(s) \in Record /\ NewRecord(s).seq = next_seq /\ up
  BY <1>1, NewRecordFacts, SealerFacts
<1>3. /\ \A r \in tail : r \in Record /\ r.seq = next_seq
      /\ \A r, q \in tail : r = q
  BY <1>2 DEF SessionInv, SessionTypeOK, Numbered, Readable
<1>4. /\ \A r \in tail' : r \in Record /\ r.seq = next_seq
      /\ \A r, q \in tail' : r = q
  BY <1>1, <1>2, <1>3
<1>5. torn' \in BOOLEAN
  BY <1>1
<1> QED
  BY ZenonT(30), <1>1, <1>4, <1>5, PutEnds

LEMMA SeqOverflowKeeps ==
    ASSUME SessionInv, NEW s \in Sealers, SeqOverflow(s)
    PROVE  SessionInv'
<1>1. /\ sealer[s].pc = "put"
      /\ sealer' = [sealer EXCEPT ![s] = Idle]
      /\ UNCHANGED <<clock, up, index, disk, writer, next_seq, snapshot, history>>
  BY DEF SeqOverflow
<1>2. up
  BY <1>1, SealerFacts
<1>3. /\ \A r \in tail' : r \in Record /\ r.seq = next_seq
      /\ \A r, q \in tail' : r = q
      /\ torn' \in BOOLEAN
  BY <1>1, <1>2 DEF SessionInv, SessionTypeOK, Numbered, Readable, disk
<1>4. UNCHANGED <<clock, up, index, log, writer, next_seq, snapshot, history>>
  BY <1>1 DEF disk
<1> QED
  BY ZenonT(30), <1>1, <1>3, <1>4, PutEnds

\* A step in which sessions that are due leave the index.
LEMMA Shrinks ==
    ASSUME SessionInv, up, GoodIndex(index'),
           DOMAIN index'.by_id \subseteq DOMAIN index.by_id,
           Keeps(index'.by_id, promised, clock),
           \/ UNCHANGED <<writer, snapshot>>
           \/ writer = None /\ writer' = Compactor /\ snapshot' = index'.by_id,
           UNCHANGED <<clock, up, disk, next_seq, sealer, history>>
    PROVE  SessionInv'
<1>1. /\ HintsExact(index)' /\ IsIndex(index)' /\ Numbered' /\ Down' /\ InLog' = InLog
  BY ZenonT(30), IndexStep DEF history
<1>2. SessionTypeOK'
  <2>1. writer' \in Sealers \cup {Compactor, None}
    BY DEF SessionInv, SessionTypeOK
  <2>2. DOMAIN snapshot' \subseteq Sessions /\ snapshot' \in [DOMAIN snapshot' -> Nat]
    BY <1>1 DEF SessionInv, SessionTypeOK, IsIndex
  <2> QED
    BY <1>1, <2>1, <2>2 DEF SessionInv, SessionTypeOK, disk, history
<1>3. Locked'
  <2>1. \A s \in Sealers : writer' = s <=> sealer'[s].pc = "publish"
    BY ZenonT(30), SessionStoreAssumption DEF SessionInv, Locked
  <2> QED
    BY <1>1, <2>1 DEF SessionInv, Locked, history
<1>4. Recent' /\ Kept'
  BY ZenonT(30) DEF SessionInv, Recent, Kept, history
<1> QED
  BY <1>1, <1>2, <1>3, <1>4 DEF SessionInv

\* The facts about the index and the promises that a step on the index needs.
LEMMA IndexFacts ==
    ASSUME SessionInv
    PROVE  /\ GoodIndex(index) /\ clock \in Nat
           /\ promised \in [DOMAIN promised -> Nat]
           /\ Keeps(index.by_id, promised, clock)
           /\ \A now \in Readings : now \in Nat /\ now <= clock
  BY DEF SessionInv, SessionTypeOK, GoodIndex, Kept, Readings

LEMMA GetKeeps ==
    ASSUME SessionInv, NEW now \in Readings, NEW id \in Sessions, Get(id, now)
    PROVE  SessionInv'
<1>1. /\ up /\ id \in DOMAIN index.by_id /\ now >= index.by_id[id]
      /\ index' = Dropped(index, id)
      /\ UNCHANGED <<clock, up, disk, writer, next_seq, sealer, snapshot, history>>
  BY DEF Get, Dropped
<1>2. /\ GoodIndex(index')
      /\ DOMAIN index'.by_id = DOMAIN index.by_id \ {id}
      /\ \A i \in DOMAIN index'.by_id : index'.by_id[i] = index.by_id[i]
  BY <1>1, IndexFacts, DropIndexed
<1>3. Keeps(index'.by_id, promised, clock)
  <2> DEFINE f == index.by_id
             g == index'.by_id
  <2>1. f \in [DOMAIN f -> Nat] /\ id \in DOMAIN f /\ now >= f[id] /\ Keeps(f, promised, clock)
    BY <1>1, IndexFacts DEF GoodIndex, IsIndex
  <2>2. DOMAIN g = DOMAIN f \ {id} /\ \A i \in DOMAIN g : g[i] = f[i]
    BY <1>2
  <2>3. now \in Nat /\ now <= clock /\ clock \in Nat /\ promised \in [DOMAIN promised -> Nat]
    BY IndexFacts
  <2> HIDE DEF f, g
  <2>4. Keeps(g, promised, clock)
    BY <2>1, <2>2, <2>3, SessionStoreAssumption DEF Keeps
  <2> QED
    BY <2>4 DEF g
<1> QED
  BY <1>1, <1>2, <1>3, Shrinks

LEMMA CompactBeginKeeps ==
    ASSUME SessionInv, NEW now \in Readings, CompactBegin(now)
    PROVE  SessionInv'
<1>1. /\ up /\ writer = None /\ writer' = Compactor
      /\ index' = evict_expired(index, now)
      /\ snapshot' = index'.by_id
      /\ UNCHANGED <<clock, up, disk, next_seq, sealer, history>>
  BY DEF CompactBegin
<1>2. GoodIndex(index') /\ DOMAIN index'.by_id \subseteq DOMAIN index.by_id
  BY <1>1, IndexFacts, EvictIndexed
<1>3. Keeps(index'.by_id, promised, clock)
  BY <1>1, IndexFacts, EvictionKeeps
<1> QED
  BY ZenonT(30), <1>1, <1>2, <1>3, Shrinks

\* The file a compaction, or a restart, puts in place of the log.
LEMMA NewFile ==
    ASSUME NEW D \in SUBSET Sessions, NEW f \in [D -> Nat], NEW order \in Orders(D),
           log' = Rewritten(f, order), tail' = {}, next_seq' = Cardinality(D)
    PROVE  /\ \A r \in (log \cup tail)' : r \in Record
           /\ next_seq' \in 0..Later(MaxSeq, Cardinality(Sessions))
           /\ Numbered'
           /\ InLog' = D
<1>1. /\ \A r \in log' : r \in Record /\ r.seq < Cardinality(D) /\ r.seq <= MaxNumber
      /\ \A r, s \in log' : r.seq = s.seq => r = s
      /\ {r.id : r \in log'} = D
  BY ZenonT(30), RewrittenNumbered
<1>2. next_seq' \in 0..MaxNumber
  BY MaxNumberIsNatural
<1>3. Numbered'
  BY <1>1 DEF Numbered, Readable
<1> QED
  BY <1>1, <1>2, <1>3 DEF InLog, MaxNumber

LEMMA CompactSwapKeeps ==
    ASSUME SessionInv, NEW order \in Orders(DOMAIN snapshot), CompactSwap(order)
    PROVE  SessionInv'
<1>1. /\ writer = Compactor /\ writer' = None
      /\ log' = Rewritten(snapshot, order)
      /\ torn' = FALSE /\ tail' = {}
      /\ next_seq' = Cardinality(DOMAIN snapshot)
      /\ snapshot' = Nothing /\ unreadable' = {}
      /\ UNCHANGED <<clock, up, index, sealer, promised>>
  BY DEF CompactSwap
<1>2. DOMAIN snapshot \in SUBSET Sessions /\ snapshot \in [DOMAIN snapshot -> Nat]
  BY DEF SessionInv, SessionTypeOK
<1>3. /\ \A r \in (log \cup tail)' : r \in Record
      /\ next_seq' \in 0..Later(MaxSeq, Cardinality(Sessions))
      /\ Numbered'
      /\ InLog' = DOMAIN snapshot
  BY <1>1, <1>2, NewFile
<1>4. DOMAIN Nothing = {} /\ Nothing \in [{} -> Nat]
  BY DEF Nothing
<1>5. SessionTypeOK'
  BY ZenonT(30), <1>1, <1>3, <1>4 DEF SessionInv, SessionTypeOK, IsIndex
<1>6. HintsExact(index)' /\ Kept' /\ Recent'
  BY ZenonT(30), <1>1 DEF SessionInv, HintsExact, Kept, Recent
<1>7. Down'
  BY ZenonT(30), <1>1, SessionStoreAssumption DEF SessionInv, Down
<1>8. Locked'
  BY ZenonT(30), <1>1, <1>3, SessionStoreAssumption DEF SessionInv, Locked
<1> QED
  BY <1>3, <1>5, <1>6, <1>7, <1>8 DEF SessionInv

LEMMA CompactFailsKeeps ==
    ASSUME SessionInv, CompactFails
    PROVE  SessionInv'
<1>1. DOMAIN Nothing = {} /\ Nothing \in [{} -> Nat]
  BY DEF Nothing
<1>2. SessionTypeOK'
  BY ZenonT(30), <1>1 DEF SessionInv, SessionTypeOK, IsIndex, CompactFails, disk, history
<1>3. HintsExact(index)' /\ Kept' /\ Recent' /\ Down' /\ Numbered'
  BY ZenonT(30) DEF SessionInv, HintsExact, Kept, Recent, Down, Numbered, Readable, CompactFails, disk, history
<1>4. Locked'
  BY ZenonT(30), SessionStoreAssumption DEF SessionInv, Locked, InLog, CompactFails, disk, history
<1> QED
  BY <1>2, <1>3, <1>4 DEF SessionInv

LEMMA CrashKeeps ==
    ASSUME SessionInv, Crash
    PROVE  SessionInv'
<1>1. DOMAIN Nothing = {} /\ Nothing \in [{} -> Nat]
  BY DEF Nothing
<1>2. /\ up' = FALSE /\ writer' = None /\ next_seq' = 0
      /\ index' = [by_id |-> Nothing, by_expiry |-> {}]
      /\ sealer' = [s \in Sealers |-> Idle]
      /\ snapshot' = Nothing /\ promised' = Nothing /\ unreadable' = {}
      /\ UNCHANGED <<clock, log, torn, tail>>
  BY ZenonT(30) DEF Crash, disk
<1>3. IsIndex(index)' /\ HintsExact(index)' /\ DOMAIN index'.by_id = {}
  BY <1>1, <1>2 DEF IsIndex, HintsExact
<1>4. \A s \in Sealers : sealer'[s] = Idle /\ Idle.pc = "idle"
  BY <1>2 DEF Idle
<1>5. SessionTypeOK'
  <2>1. sealer' \in [Sealers -> [pc : {"idle", "renew", "put", "publish"},
                                id : Sessions \cup {None}, now : Nat]]
    BY <1>2 DEF Idle
  <2>2. next_seq' \in 0..Later(MaxSeq, Cardinality(Sessions))
    BY <1>2, MaxNumberIsNatural DEF MaxNumber
  <2>3. /\ DOMAIN snapshot' \subseteq Sessions /\ snapshot' \in [DOMAIN snapshot' -> Nat]
        /\ DOMAIN promised' \subseteq Sessions /\ promised' \in [DOMAIN promised' -> Nat]
    BY <1>1, <1>2
  <2> QED
    BY ZenonT(30), <1>2, <1>3, <1>4, <2>1, <2>2, <2>3 DEF SessionInv, SessionTypeOK
<1>6. Numbered' /\ Down' /\ Recent'
  BY ZenonT(30), <1>2, <1>4 DEF SessionInv, Numbered, Readable, Down, Recent
<1>7. Kept'
  BY <1>1, <1>2 DEF Kept, Keeps
<1>8. Locked'
  BY ZenonT(30), <1>2, <1>3, <1>4, SessionStoreAssumption DEF Locked
<1> QED
  BY <1>3, <1>5, <1>6, <1>7, <1>8 DEF SessionInv

LEMMA RestartKeeps ==
    ASSUME SessionInv, NEW now \in Readings, NEW order, Restart(now, order)
    PROVE  SessionInv'
<1> DEFINE live == evict_expired(replay, now)
<1>1. /\ ~up /\ up' = TRUE
      /\ order \in Orders(DOMAIN live.by_id)
      /\ index' = live
      /\ log' = Rewritten(live.by_id, order)
      /\ torn' = FALSE /\ tail' = {}
      /\ next_seq' = Cardinality(DOMAIN live.by_id)
      /\ UNCHANGED <<clock, writer, sealer, snapshot, history>>
  BY DEF Restart
<1>2. writer = None /\ sealer = [s \in Sealers |-> Idle] /\ promised = Nothing
  BY <1>1 DEF SessionInv, Down
<1>3. GoodIndex(replay)
  BY ZenonT(30), ReplayIndexed DEF SessionInv, SessionTypeOK, Numbered, Readable
<1>4. GoodIndex(live)
  BY <1>3, IndexFacts, EvictIndexed
<1> HIDE DEF live
<1>5. DOMAIN live.by_id \in SUBSET Sessions /\ live.by_id \in [DOMAIN live.by_id -> Nat]
  BY <1>4 DEF GoodIndex, IsIndex
<1>6. /\ \A r \in (log \cup tail)' : r \in Record
      /\ next_seq' \in 0..Later(MaxSeq, Cardinality(Sessions))
      /\ Numbered'
      /\ InLog' = DOMAIN live.by_id
  BY ZenonT(30), <1>1, <1>5, NewFile
<1>7. SessionTypeOK' /\ HintsExact(index)'
  BY ZenonT(30), <1>1, <1>4, <1>6 DEF SessionInv, SessionTypeOK, GoodIndex, history
<1>8. Down' /\ Recent'
  BY ZenonT(30), <1>1 DEF SessionInv, Down, Recent
<1>9. Kept'
  BY ZenonT(30), <1>1, <1>2 DEF Kept, Keeps, Nothing, history
<1>10. Locked'
  BY SMTT(30), <1>1, <1>2, <1>6, SessionStoreAssumption DEF Locked, Idle
<1> QED
  BY <1>6, <1>7, <1>8, <1>9, <1>10 DEF SessionInv

\* Every step of the store keeps the invariant.
LEMMA SessionStep == SessionInv /\ [Next]_vars => SessionInv'
<1> SUFFICES ASSUME SessionInv, [Next]_vars PROVE SessionInv'
  OBVIOUS
<1>1. CASE UNCHANGED vars
  BY ZenonT(30), <1>1 DEF vars, disk, history, SessionInv, SessionTypeOK, IsIndex, HintsExact, Numbered,
              Readable, Locked, InLog, Down, Recent, Kept
<1>2. CASE Next
  BY ZenonT(30), <1>2, TickKeeps, BeginKeeps, RenewKeeps, AppendKeeps, AppendFailsKeeps,
     SeqOverflowKeeps, PublishKeeps, GetKeeps, CompactBeginKeeps, RestartKeeps,
     CompactSwapKeeps, CompactFailsKeeps, CrashKeeps DEF Next
<1> QED
  BY <1>1, <1>2

\* The inductive invariant holds in every reachable state of the session store.
THEOREM SessionInvariant == Spec => []SessionInv
  BY InitHolds, SessionStep, PTL DEF Spec

\* Whatever appends, renewals, torn writes, compactions and crashes interleave,
\* every session of the index has a record in the log, unless its line ran into
\* the tail of a failed write, and sequence numbers identify the records and
\* order them as they were written (put_session, compact, open).
THEOREM SessionLogReplayable == Spec => []LogReplayable
<1>1. SessionInv => LogReplayable
  BY ZenonT(30) DEF SessionInv, LogReplayable, Numbered, Locked, InLog, Logged, Readable
<1> QED
  BY <1>1, SessionInvariant, PTL

\* No session leaves the index before the latest deadline a request was given
\* for it, less the age of a clock reading, and the hints that eviction trusts
\* match the deadlines (renew_session, put_session, evict_expired).
THEOREM SessionsAreRetained == Spec => []SessionRetained
<1>1. SessionInv => SessionRetained
  BY ZenonT(30) DEF SessionInv, SessionRetained, Kept, Keeps
<1> QED
  BY <1>1, SessionInvariant, PTL

=============================================================================
