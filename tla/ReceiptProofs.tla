---------------------------- MODULE ReceiptProofs ----------------------------
(***************************************************************************)
(* The receipt store and the receipt endpoints, for any sets of ids and    *)
(* owners, any retention and any number of handlers.                       *)
(*                                                                         *)
(* The three indexes agree: each store operation maps a well-formed,       *)
(* agreeing store to one.  The store implements ReceiptRetention, also     *)
(* under the endpoints; the step simulation needs the agreement of the     *)
(* indexes, since an eviction pops hints where the abstract step names     *)
(* deadlines.  What a handler has fetched is what the store still has or   *)
(* has lapsed, so the endpoints release to the entitled.                   *)
(***************************************************************************)
EXTENDS ReceiptLookup, TLAPS

Good(s) == IsStore(s) /\ ExpiryExact(s) /\ ChatSound(s)

\* Dropping one receipt from the three indexes (remove) keeps them in
\* agreement, and the receipt is gone.
LEMMA RemoveKeepsGood ==
    ASSUME NEW s, NEW r \in ReceiptIds, Good(s)
    PROVE  Good(remove(s, r)) /\ r \notin Retained(remove(s, r))
<1>1. CASE r \notin Retained(s)
  BY <1>1 DEF remove
<1>2. CASE r \in Retained(s)
  <2> DEFINE t == remove(s, r)
  <2>1. /\ t = [by_receipt |-> Without(s.by_receipt, {r}),
                by_chat    |-> drop_chat_mapping(s, {r}),
                by_expiry  |-> s.by_expiry \ {<<s.by_receipt[r].expires_at, r>>}]
    BY <1>2 DEF remove
  <2>2. Retained(t) = Retained(s) \ {r}
    BY <2>1 DEF Without, Retained
  <2>3. \A q \in Retained(t) : t.by_receipt[q] = s.by_receipt[q]
    BY <2>1, <2>2 DEF Without, Retained
  <2>4. IsStore(t)
    BY <2>1, <2>2, <2>3 DEF Good, IsStore, Without, Retained, drop_chat_mapping
  <2>5. ExpiryExact(t)
    <3> DEFINE hint(x, q) == <<x.by_receipt[q].expires_at, q>>
    <3>1. s.by_expiry = {hint(s, q) : q \in Retained(s)}
      BY DEF Good, ExpiryExact
    <3>2. t.by_expiry = s.by_expiry \ {hint(s, r)}
      BY <2>1
    <3>3. \A q \in Retained(t) : hint(t, q) = hint(s, q)
      BY <2>3
    <3> HIDE DEF t
    <3>4. ASSUME NEW h \in t.by_expiry PROVE \E q \in Retained(t) : h = hint(t, q)
      BY <2>2, <3>1, <3>2, <3>3
    <3>5. ASSUME NEW q \in Retained(t) PROVE hint(t, q) \in t.by_expiry
      BY <2>2, <3>1, <3>2, <3>3
    <3>6. t.by_expiry = {hint(t, q) : q \in Retained(t)}
      BY <3>4, <3>5
    <3> QED BY <3>6 DEF ExpiryExact
  <2>6. ChatSound(t)
    BY SMTT(30), <2>1, <2>2, <2>3, <1>2 DEF Good, IsStore, ChatSound, drop_chat_mapping, Without, Retained
  <2> QED
    BY <2>2, <2>4, <2>5, <2>6 DEF Good
<1> QED
  BY <1>1, <1>2

\* Evicting what has lapsed keeps the indexes in agreement: because the hints
\* are exact, popping the due buckets removes exactly their receipts.
LEMMA EvictKeepsGood ==
    ASSUME NEW s, NEW now \in Nat, Good(s)
    PROVE  Good(evict_expired(s, now))
<1> DEFINE due  == {hint \in s.by_expiry : hint[1] <= now}
           gone == {r \in Retained(s) : \E hint \in due : hint[2] = r}
           t    == evict_expired(s, now)
<1>1. t = [by_receipt |-> Without(s.by_receipt, gone),
           by_chat    |-> drop_chat_mapping(s, gone),
           by_expiry  |-> s.by_expiry \ due]
  BY DEF evict_expired
<1>2. Retained(t) = Retained(s) \ gone
  BY <1>1 DEF Without, Retained
<1>3. \A q \in Retained(t) : t.by_receipt[q] = s.by_receipt[q]
  BY <1>1, <1>2 DEF Without, Retained
<1>4. IsStore(t)
  BY <1>1, <1>2, <1>3 DEF Good, IsStore, Without, Retained, drop_chat_mapping
<1>5. ExpiryExact(t)
  <2>1. \A q \in Retained(s) : q \in gone <=> <<s.by_receipt[q].expires_at, q>> \in due
    BY DEF Good, IsStore, ExpiryExact
  <2>2. s.by_expiry \ due = {<<s.by_receipt[q].expires_at, q>> : q \in Retained(s) \ gone}
    BY <2>1 DEF Good, ExpiryExact
  <2>3. t.by_expiry = s.by_expiry \ due
    BY <1>1
  <2> HIDE DEF t, due, gone
  <2>4. {<<s.by_receipt[q].expires_at, q>> : q \in Retained(t)}
         = {<<t.by_receipt[q].expires_at, q>> : q \in Retained(t)}
    BY <1>3
  <2> QED
    BY <2>2, <2>3, <2>4, <1>2 DEF ExpiryExact
<1>6. ChatSound(t)
  <2> SUFFICES ASSUME NEW c \in DOMAIN t.by_chat
               PROVE  t.by_chat[c] \in Retained(t) /\ t.by_receipt[t.by_chat[c]].chat_id = c
    BY DEF ChatSound
  <2>1. c \in DOMAIN s.by_chat /\ t.by_chat[c] = s.by_chat[c]
    BY <1>1 DEF drop_chat_mapping, Without
  <2>2. s.by_chat[c] \in Retained(s) /\ s.by_receipt[s.by_chat[c]].chat_id = c
    BY <2>1 DEF Good, ChatSound
  <2>3. s.by_chat[c] \notin gone
    BY <1>1, <2>1, <2>2 DEF drop_chat_mapping, Without
  <2> QED
    BY <1>2, <1>3, <2>1, <2>2, <2>3
<1> QED
  BY <1>4, <1>5, <1>6 DEF Good

\* Storing a receipt keeps the indexes in agreement: the id is removed first,
\* so its new deadline and its new chat mapping are its only ones.
LEMMA InsertKeepsGood ==
    ASSUME NEW s, NEW r \in ReceiptIds, NEW entry \in StoredReceipt, Good(s)
    PROVE  Good(insert(s, r, entry))
<1> DEFINE t == remove(s, r)
           u == insert(s, r, entry)
<1>1. Good(t) /\ r \notin Retained(t)
  BY RemoveKeepsGood
<1> HIDE DEF t
<1>2. u = [by_receipt |-> With(t.by_receipt, r, entry),
           by_chat    |-> map_chat(t.by_chat, entry.chat_id, r),
           by_expiry  |-> t.by_expiry \cup {<<entry.expires_at, r>>}]
  BY DEF insert, t
<1> HIDE DEF u
<1>3. Retained(u) = Retained(t) \cup {r}
  BY <1>2 DEF With, Retained
<1>4. /\ u.by_receipt[r] = entry
      /\ \A q \in Retained(t) : u.by_receipt[q] = t.by_receipt[q]
  BY <1>1, <1>2 DEF With, Retained
<1>5. /\ entry.chat_id \in ChatIds \cup {None}
      /\ entry.expires_at \in Nat
  BY DEF StoredReceipt
<1>6. /\ DOMAIN u.by_chat = DOMAIN t.by_chat \cup ({entry.chat_id} \ {None})
      /\ \A c \in DOMAIN u.by_chat :
            u.by_chat[c] = IF c = entry.chat_id THEN r ELSE t.by_chat[c]
  <2>1. None \notin DOMAIN t.by_chat
    BY <1>1, ReceiptStoreAssumption DEF Good, IsStore
  <2> QED
    BY <1>2, <2>1 DEF map_chat, With
<1>7. IsStore(u)
  <2>1. u.by_receipt \in [Retained(u) -> StoredReceipt] /\ Retained(u) \subseteq ReceiptIds
    <3>1. u.by_receipt = [y \in Retained(t) \cup {r} |-> IF y = r THEN entry ELSE t.by_receipt[y]]
      BY <1>2 DEF With, Retained
    <3> QED
      BY <1>1, <1>3, <3>1 DEF Good, IsStore
  <2>2. u.by_chat \in [DOMAIN u.by_chat -> ReceiptIds] /\ DOMAIN u.by_chat \subseteq ChatIds
    <3>1. u.by_chat = [c \in DOMAIN u.by_chat |-> u.by_chat[c]]
      BY ZenonT(30), <1>1, <1>2 DEF map_chat, With, Good, IsStore
    <3> QED
      BY SMTT(30), <1>1, <1>5, <1>6, <3>1 DEF Good, IsStore
  <2>3. u = [by_receipt |-> u.by_receipt, by_chat |-> u.by_chat, by_expiry |-> u.by_expiry]
    BY <1>2
  <2>4. u.by_expiry \subseteq Nat \X ReceiptIds
    BY <1>1, <1>2, <1>5 DEF Good, IsStore
  <2> QED
    BY <2>1, <2>2, <2>3, <2>4 DEF IsStore
<1>8. ExpiryExact(u)
  BY <1>1, <1>2, <1>3, <1>4 DEF Good, ExpiryExact
<1>9. ChatSound(u)
  BY <1>1, <1>3, <1>4, <1>6 DEF Good, ChatSound
<1> QED
  BY <1>7, <1>8, <1>9 DEF Good, u

\* A read keeps the indexes in agreement, whether or not it removes a receipt.
LEMMA TouchKeepsGood ==
    ASSUME NEW s, NEW r \in ReceiptIds, NEW now \in Nat, Good(s)
    PROVE  Good(touch(s, r, now))
  BY RemoveKeepsGood DEF touch

Inv == clock \in Nat /\ Good(store)

\* Every operation of the store keeps the invariant.
LEMMA StoreStep == Inv /\ [Next]_vars => Inv'
<1> SUFFICES ASSUME Inv, [Next]_vars PROVE Inv'
  OBVIOUS
<1>1. CASE Tick
  BY <1>1 DEF Tick, Inv
<1>2. ASSUME NEW now \in Readings, NEW r \in ReceiptIds,
             NEW chat \in ChatIds \cup {None}, NEW owner \in Owners \cup {None},
             Put(r, chat, owner, now)
      PROVE  Inv'
  <2> DEFINE entry == [chat_id |-> chat, owner |-> owner, expires_at |-> now + Ttl]
  <2>1. now \in Nat
    BY DEF Readings, Inv
  <2>2. entry \in StoredReceipt
    BY <2>1, ReceiptStoreAssumption DEF StoredReceipt
  <2>3. Good(evict_expired(store, now))
    BY <2>1, EvictKeepsGood DEF Inv
  <2> HIDE DEF entry
  <2>4. Good(insert(evict_expired(store, now), r, entry))
    BY <2>2, <2>3, InsertKeepsGood
  <2> QED
    BY <1>2, <2>4 DEF Put, Inv, entry
<1>3. ASSUME NEW now \in Readings, NEW r \in ReceiptIds, ReadById(r, now)
      PROVE  Inv'
  <2>1. now \in Nat
    BY DEF Readings, Inv
  <2> QED
    BY <1>3, <2>1, TouchKeepsGood DEF ReadById, Inv
<1>4. ASSUME NEW now \in Readings, NEW c \in ChatIds, ReadByChat(c, now)
      PROVE  Inv'
  <2>1. now \in Nat /\ store.by_chat[c] \in ReceiptIds
    BY <1>4 DEF Readings, Inv, ReadByChat, Good, IsStore
  <2> QED
    BY <1>4, <2>1, TouchKeepsGood DEF ReadByChat, Inv
<1>5. CASE UNCHANGED vars
  BY <1>5 DEF vars, Inv
<1> QED
  BY <1>1, <1>2, <1>3, <1>4, <1>5 DEF Next

\* In every reachable state of the receipt store the clock and the indexes are
\* well typed and the indexes agree.
THEOREM StoreInvariant == Spec => []Inv
<1>1. Init => Inv
  BY DEF Init, Inv, Good, IsStore, ExpiryExact, ChatSound, Retained
<1>2. Inv /\ [Next]_vars => Inv'
  BY StoreStep
<1> QED
  BY <1>1, <1>2, PTL DEF Spec

\* Type correctness of the receipt store.
THEOREM TypeCorrect == Spec => []TypeOK
  BY StoreInvariant, PTL DEF Inv, Good, TypeOK

\* The expiry index of the receipt store holds exactly the deadlines of the
\* retained receipts, so evict_expired drops each lapsed receipt and no other,
\* and every chat mapping leads to a retained receipt that carries that chat id.
THEOREM StoreIndexesAgree == Spec => []IndexesAgree
  BY StoreInvariant, PTL DEF Inv, Good, TypeOK, IndexesAgree

-----------------------------------------------------------------------------
(* The retention promise.                                                  *)

\* Dropping mappings of the receipts `gone` leaves the names of the others.
LEMMA DroppedNames ==
    ASSUME NEW s, Good(s), NEW gone
    PROVE  drop_chat_mapping(s, gone \cap Retained(s))
             = [c \in {d \in DOMAIN s.by_chat : s.by_chat[d] \notin gone} |-> s.by_chat[c]]
<1>1. \A c \in DOMAIN s.by_chat :
        (\E r \in gone \cap Retained(s) : s.by_receipt[r].chat_id = c /\ s.by_chat[c] = r)
          <=> s.by_chat[c] \in gone
  BY DEF Good, ChatSound
<1> QED
  BY <1>1 DEF drop_chat_mapping, Without

\* remove without the expiry index.
LEMMA RemoveForgets ==
    ASSUME NEW s, Good(s), NEW r
    PROVE  /\ remove(s, r).by_receipt = [q \in Retained(s) \ {r} |-> s.by_receipt[q]]
           /\ remove(s, r).by_chat
                = [c \in {d \in DOMAIN s.by_chat : s.by_chat[d] # r} |-> s.by_chat[c]]
<1>1. CASE r \notin Retained(s)
  <2>1. Retained(s) \ {r} = Retained(s) /\ remove(s, r) = s
    BY <1>1 DEF remove
  <2>2. {d \in DOMAIN s.by_chat : s.by_chat[d] # r} = DOMAIN s.by_chat
    BY <1>1 DEF Good, ChatSound
  <2> QED
    BY ZenonT(30), <2>1, <2>2 DEF Good, IsStore, Retained
<1>2. CASE r \in Retained(s)
  <2>1. {r} \cap Retained(s) = {r}
    BY <1>2
  <2>2. drop_chat_mapping(s, {r})
          = [c \in {d \in DOMAIN s.by_chat : s.by_chat[d] \notin {r}} |-> s.by_chat[c]]
    BY <2>1, DroppedNames
  <2> QED
    BY <1>2, <2>2 DEF remove, Without, Retained
<1> QED
  BY <1>1, <1>2

\* evict_expired without the expiry index: what lapsed by `now` goes.
LEMMA EvictForgets ==
    ASSUME NEW s, Good(s), NEW now \in Nat
    PROVE  LET gone == {q \in Retained(s) : s.by_receipt[q].expires_at <= now} IN
           /\ evict_expired(s, now).by_receipt = [q \in Retained(s) \ gone |-> s.by_receipt[q]]
           /\ evict_expired(s, now).by_chat
                = [c \in {d \in DOMAIN s.by_chat : s.by_chat[d] \notin gone} |-> s.by_chat[c]]
<1> DEFINE gone == {q \in Retained(s) : s.by_receipt[q].expires_at <= now}
           due  == {hint \in s.by_expiry : hint[1] <= now}
           hit  == {r \in Retained(s) : \E hint \in due : hint[2] = r}
<1>1. hit = gone
  <2>1. \A hint \in s.by_expiry : \E r \in Retained(s) : hint = <<s.by_receipt[r].expires_at, r>>
    BY DEF Good, ExpiryExact
  <2>2. \A r \in Retained(s) : <<s.by_receipt[r].expires_at, r>> \in s.by_expiry
    BY DEF Good, ExpiryExact
  <2>3. ASSUME NEW r \in hit PROVE r \in gone
    BY <2>1
  <2>4. ASSUME NEW r \in gone PROVE r \in hit
    <3> DEFINE at == s.by_receipt[r].expires_at
    <3>1. <<at, r>> \in s.by_expiry /\ at <= now
      BY <2>2
    <3> HIDE DEF at
    <3>2. <<at, r>> \in due /\ <<at, r>>[2] = r
      BY <3>1
    <3> QED
      BY <3>2
  <2> QED
    BY <2>3, <2>4
<1>2. evict_expired(s, now).by_receipt = Without(s.by_receipt, hit)
  BY DEF evict_expired
<1>3. evict_expired(s, now).by_chat = drop_chat_mapping(s, hit)
  BY DEF evict_expired
<1>4. gone \cap Retained(s) = gone
  OBVIOUS
<1>5. drop_chat_mapping(s, gone \cap Retained(s))
        = [c \in {d \in DOMAIN s.by_chat : s.by_chat[d] \notin gone} |-> s.by_chat[c]]
  BY DroppedNames
<1> HIDE DEF gone, hit
<1>6. /\ evict_expired(s, now).by_receipt = [q \in Retained(s) \ gone |-> s.by_receipt[q]]
      /\ evict_expired(s, now).by_chat
           = [c \in {d \in DOMAIN s.by_chat : s.by_chat[d] \notin gone} |-> s.by_chat[c]]
  BY <1>1, <1>2, <1>3, <1>4, <1>5 DEF Without, Retained
<1> QED
  BY <1>6 DEF gone

\* Storing is an abstract Store.
LEMMA PutStores ==
    ASSUME Inv, NEW now \in Readings, NEW r \in ReceiptIds,
           NEW chat \in ChatIds \cup {None}, NEW owner \in Owners \cup {None},
           Put(r, chat, owner, now)
    PROVE  Retention!Store(r, chat, owner, now)
<1> DEFINE gone  == {q \in Retained(store) : store.by_receipt[q].expires_at <= now}
           entry == [chat_id |-> chat, owner |-> owner, expires_at |-> now + Ttl]
           s     == evict_expired(store, now)
           t     == remove(s, r)
<1>1. now \in Nat /\ now <= clock /\ clock <= now + MaxLag
  BY DEF Readings, Inv
<1>2. Good(s)
  BY <1>1, EvictKeepsGood DEF Inv
<1>3. /\ s.by_receipt = [q \in Retained(store) \ gone |-> store.by_receipt[q]]
      /\ s.by_chat = [c \in {d \in DOMAIN store.by_chat : store.by_chat[d] \notin gone}
                        |-> store.by_chat[c]]
  <2>1. Good(store) /\ now \in Nat
    BY <1>1 DEF Inv
  <2> QED BY ZenonT(30), <2>1, EvictForgets
<1>4. /\ store'.by_receipt = With(t.by_receipt, r, entry)
      /\ store'.by_chat = map_chat(t.by_chat, chat, r)
      /\ clock' = clock
  BY DEF Put, insert
<1> HIDE DEF s, gone
<1>5. /\ t.by_receipt = [q \in Retained(s) \ {r} |-> s.by_receipt[q]]
      /\ t.by_chat = [c \in {d \in DOMAIN s.by_chat : s.by_chat[d] # r} |-> s.by_chat[c]]
  BY <1>2, RemoveForgets
<1> HIDE DEF t
<1>6. t.by_receipt = [q \in Retained(store) \ (gone \cup {r}) |-> store.by_receipt[q]]
  BY <1>3, <1>5 DEF Retained
<1>7. t.by_chat = [c \in {d \in DOMAIN store.by_chat : store.by_chat[d] \notin gone \cup {r}}
                     |-> store.by_chat[c]]
  BY <1>3, <1>5
<1>8. store'.by_receipt = [q \in (Retained(store) \ (gone \cup {r})) \cup {r} |->
                             IF q = r THEN entry ELSE store.by_receipt[q]]
  BY <1>4, <1>6 DEF With
<1> DEFINE left == {d \in DOMAIN store.by_chat : store.by_chat[d] \notin gone \cup {r}}
<1>9. store'.by_chat = [c \in left \cup ({chat} \ {None}) |->
                          IF c = chat THEN r ELSE store.by_chat[c]]
  <2>1. None \notin left
    BY ReceiptStoreAssumption DEF Inv, Good, IsStore
  <2> HIDE DEF left
  <2>2. CASE chat = None
    <3>1. store'.by_chat = [c \in left |-> store.by_chat[c]]
      BY <1>4, <1>7, <2>2 DEF map_chat, left
    <3> QED
      BY <2>1, <2>2, <3>1
  <2>3. CASE chat # None
    <3>1. t.by_chat = [c \in left |-> store.by_chat[c]]
      BY <1>7 DEF left
    <3>2. store'.by_chat = With(t.by_chat, chat, r)
      BY <1>4, <2>3 DEF map_chat
    <3>3. DOMAIN t.by_chat = left /\ \A c \in left : t.by_chat[c] = store.by_chat[c]
      BY <3>1
    <3>4. store'.by_chat = [c \in left \cup {chat} |-> IF c = chat THEN r ELSE store.by_chat[c]]
      BY <3>2, <3>3 DEF With
    <3> QED
      BY <2>3, <3>4
  <2> QED
    BY <2>2, <2>3
<1> QED
  BY ZenonT(30), <1>1, <1>4, <1>8, <1>9 DEF Retention!Store, Retention!NamesLeft, Retained, gone

\* A read forgets one lapsed receipt or changes nothing.
LEMMA TouchForgets ==
    ASSUME Inv, NEW now \in Readings, NEW r, clock' = clock,
           store' = touch(store, r, now)
    PROVE  (r \in Retained(store) /\ Retention!Forget(r)) \/ store' = store
<1>1. CASE ~Lapsed(store, r, now)
  BY <1>1 DEF touch
<1>2. CASE Lapsed(store, r, now)
  <2>1. r \in Retained(store) /\ now >= store.by_receipt[r].expires_at
    BY <1>2 DEF Lapsed
  <2>2. store.by_receipt[r].expires_at \in Nat
    BY <2>1 DEF Inv, Good, IsStore, StoredReceipt
  <2>3. store.by_receipt[r].expires_at <= clock
    BY <2>1, <2>2 DEF Readings, Inv
  <2>4. /\ store'.by_receipt = [q \in Retained(store) \ {r} |-> store.by_receipt[q]]
        /\ store'.by_chat
             = [c \in {d \in DOMAIN store.by_chat : store.by_chat[d] # r} |-> store.by_chat[c]]
    BY SMTT(30), <1>2, RemoveForgets DEF touch, Inv
  <2>5. {d \in DOMAIN store.by_chat : store.by_chat[d] # r}
          = {d \in DOMAIN store.by_chat : store.by_chat[d] \notin {r}}
    OBVIOUS
  <2> QED
    BY <2>1, <2>3, <2>4, <2>5 DEF Retention!Forget, Retention!NamesLeft, Retained
<1> QED
  BY <1>1, <1>2

\* Every step of the store is a step of ReceiptRetention or changes nothing it
\* speaks of.
LEMMA StepRefines == Inv /\ [Next]_vars => [Retention!Next]_(Retention!vars)
<1> SUFFICES ASSUME Inv, [Next]_vars PROVE [Retention!Next]_(Retention!vars)
  OBVIOUS
<1>1. CASE Tick
  BY <1>1 DEF Tick, Retention!Next, Retention!Tick
<1>2. ASSUME NEW now \in Readings, NEW r \in ReceiptIds,
             NEW chat \in ChatIds \cup {None}, NEW owner \in Owners \cup {None},
             Put(r, chat, owner, now)
      PROVE  [Retention!Next]_(Retention!vars)
  <2>1. now \in 0..clock
    BY DEF Readings
  <2> QED
    BY <1>2, <2>1, PutStores DEF Retention!Next
<1>3. ASSUME NEW now \in Readings, NEW r, clock' = clock, store' = touch(store, r, now)
      PROVE  [Retention!Next]_(Retention!vars)
  BY <1>3, TouchForgets DEF Retention!Next, Retention!vars, Retained
<1>4. CASE UNCHANGED vars
  BY <1>4 DEF vars, Retention!vars
<1> QED
  BY <1>1, <1>2, <1>3, <1>4 DEF Next, ReadById, ReadByChat

\* The three-index receipt store implements the retention promise.
THEOREM StoreImplementsRetention == Spec => KeepsReceipts
<1>1. Init => Retention!Init
  BY DEF Init, Retention!Init
<1> QED
  BY <1>1, StepRefines, StoreInvariant, PTL DEF Spec, Retention!Spec, KeepsReceipts

\* Each step of the endpoints' handlers acts on the store as one of its
\* operations or leaves it alone.
LEMMA LookupStepRefines == Inv /\ [LookupNext]_lookupVars => [Next]_vars
<1> SUFFICES ASSUME Inv, [LookupNext]_lookupVars PROVE [Next]_vars
  OBVIOUS
<1>1. CASE LookupTick
  BY <1>1 DEF LookupTick, Next
<1>2. ASSUME NEW now \in Readings, NEW r \in ReceiptIds,
             NEW chat \in ChatIds \cup {None}, NEW owner \in Owners \cup {None},
             Issue(r, chat, owner, now)
      PROVE  [Next]_vars
  BY <1>2 DEF Issue, Next
<1>3. ASSUME NEW h \in Handlers, NEW id, NEW cred, NEW order, Begin(h, id, cred, order)
      PROVE  [Next]_vars
  BY <1>3 DEF Begin, vars
<1>4. ASSUME NEW now \in Readings, NEW r \in Retained(store), clock' = clock,
             store' = touch(store, r, now)
      PROVE  [Next]_vars
  <2>1. r \in ReceiptIds
    BY DEF Inv, Good, IsStore
  <2> QED
    BY <1>4, <2>1 DEF Next, ReadById
<1>5. ASSUME NEW now \in Readings, NEW h \in Handlers, NEW index, NEW missed,
             ReadIndex(h, index, missed, now)
      PROVE  [Next]_vars
  <2> DEFINE found == Candidate(handler[h].id, index)
  <2>1. /\ \A r \in found : store' = touch(store, r, now)
        /\ found = {} => store' = store
        /\ clock' = clock
    BY <1>5 DEF ReadIndex
  <2>2. found \subseteq Retained(store)
    BY DEF Candidate, Inv, Good, ChatSound
  <2> HIDE DEF found
  <2>3. CASE found = {}
    BY <2>1, <2>3 DEF vars
  <2>4. CASE found # {}
    BY <1>4, <2>1, <2>2, <2>4
  <2> QED
    BY <2>3, <2>4
<1>6. ASSUME NEW now \in Readings, NEW h \in Handlers, CheckOwner(h, now)
      PROVE  [Next]_vars
  <2>1. clock' = clock /\ store' = touch(store, handler[h].receipt_id, now)
    BY <1>6 DEF CheckOwner
  <2>2. CASE handler[h].receipt_id \in Retained(store)
    BY <1>4, <2>1, <2>2
  <2>3. CASE handler[h].receipt_id \notin Retained(store)
    BY <2>1, <2>3 DEF touch, Lapsed, vars
  <2> QED
    BY <2>2, <2>3
<1>7. CASE UNCHANGED lookupVars
  BY <1>7 DEF lookupVars, vars
<1> QED
  BY ZenonT(30), <1>1, <1>2, <1>3, <1>5, <1>6, <1>7 DEF LookupNext, First, Second

\* With receipts issued and any number of handlers of the two endpoints reading
\* them, step by step and with stale clock readings, the store still keeps the
\* retention promise and its indexes agree.
THEOREM LookupKeepsReceipts == LookupSpec => KeepsReceipts /\ []IndexesAgree
<1>1. LookupInit => Init /\ Inv
  BY DEF LookupInit, Init, Inv, Good, IsStore, ExpiryExact, ChatSound, Retained
<1>2. Inv /\ [Next]_vars => Inv'
  BY StoreStep
<1>3. LookupSpec => Spec
  BY <1>1, <1>2, LookupStepRefines, PTL DEF LookupSpec, Spec
<1> QED
  BY <1>3, StoreImplementsRetention, StoreIndexesAgree

-----------------------------------------------------------------------------
(* Who gets a receipt.                                                     *)

\* A receipt a handler fetched: the store still has it, or it has lapsed.
Traced(x) ==
    IF x.receipt_id \in Retained(store) THEN store.by_receipt[x.receipt_id] = x.receipt
    ELSE clock >= x.receipt.expires_at

\* What a handler holds at each of its steps.
Fetched(h) ==
    LET x == handler[h] IN
    /\ x.pc \in {"idle", "first", "second", "owner", "done"}
    /\ x.pc \in {"first", "second"} =>
          x = [pc |-> x.pc, id |-> x.id, cred |-> x.cred, order |-> x.order]
    /\ x.pc = "owner" =>
          /\ x.receipt_id \in issued
          /\ x.receipt \in StoredReceipt
          /\ x.id \in {x.receipt_id, x.receipt.chat_id}
          /\ Traced(x)
    /\ x.pc = "done" /\ x.answer = "released" =>
          /\ x.id \in {x.receipt_id, x.receipt.chat_id}
          /\ x.receipt.owner \in {None, x.cred} \/ x.lapsed

HandlersInv ==
    /\ Retained(store) \subseteq issued
    /\ DOMAIN handler = Handlers
    /\ \A h \in Handlers : Fetched(h)

\* The store loses a receipt only once it has lapsed, changes none, and gains
\* none but the ones issued.
Loses(new) ==
    /\ clock' \in Nat /\ clock' >= clock
    /\ issued' = issued \cup new /\ new \cap issued = {}
    /\ Retained(store') \subseteq Retained(store) \cup new
    /\ \A r \in Retained(store) \ new :
          IF r \in Retained(store') THEN store'.by_receipt[r] = store.by_receipt[r]
          ELSE clock >= store.by_receipt[r].expires_at

LEMMA TouchLoses ==
    ASSUME Inv, NEW now \in Readings, NEW r, UNCHANGED <<clock, issued>>,
           store' = touch(store, r, now)
    PROVE  Loses({})
<1>1. clock \in Nat
  BY DEF Inv
<1>2. CASE store' = store
  BY <1>1, <1>2 DEF Loses
<1>3. CASE r \in Retained(store) /\ Retention!Forget(r)
  <2>1. /\ store.by_receipt[r].expires_at <= clock
        /\ store'.by_receipt = [q \in Retained(store) \ {r} |-> store.by_receipt[q]]
    BY <1>3 DEF Retention!Forget, Retained
  <2>2. store.by_receipt[r].expires_at \in Nat
    BY <1>3 DEF Inv, Good, IsStore, StoredReceipt
  <2>3. /\ Retained(store') = Retained(store) \ {r}
        /\ \A q \in Retained(store') : store'.by_receipt[q] = store.by_receipt[q]
    BY <2>1 DEF Retained
  <2> QED
    BY <1>1, <2>1, <2>2, <2>3 DEF Loses
<1> QED
  BY <1>2, <1>3, TouchForgets

LEMMA IssueLoses ==
    ASSUME Inv, HandlersInv, NEW now \in Readings, NEW r \in ReceiptIds,
           NEW chat \in ChatIds \cup {None}, NEW owner \in Owners \cup {None},
           Issue(r, chat, owner, now)
    PROVE  Loses({r})
<1> DEFINE gone == {q \in Retained(store) : store.by_receipt[q].expires_at <= now} \cup {r}
<1>1. clock \in Nat /\ now \in Nat /\ now <= clock
  BY DEF Inv, Readings
<1>2. Put(r, chat, owner, now) /\ r \notin issued /\ issued' = issued \cup {r}
  BY DEF Issue
<1>3. Retention!Store(r, chat, owner, now)
  BY <1>2, PutStores
<1>4. /\ store'.by_receipt = [q \in (Retained(store) \ gone) \cup {r} |->
                  IF q = r THEN [chat_id |-> chat, owner |-> owner, expires_at |-> now + Ttl]
                  ELSE store.by_receipt[q]]
      /\ clock' = clock
  BY <1>3 DEF Retention!Store, Retained
<1>5. /\ Retained(store') = (Retained(store) \ gone) \cup {r}
      /\ \A q \in Retained(store) \ gone : store'.by_receipt[q] = store.by_receipt[q]
  BY ZenonT(30), <1>4 DEF Retained
<1>6. \A q \in gone \ {r} : clock >= store.by_receipt[q].expires_at
  <2> SUFFICES ASSUME NEW q \in gone \ {r} PROVE clock >= store.by_receipt[q].expires_at
    OBVIOUS
  <2>1. store.by_receipt[q].expires_at \in Nat /\ store.by_receipt[q].expires_at <= now
    BY DEF Inv, Good, IsStore, StoredReceipt
  <2> QED
    BY <1>1, <2>1
<1>7. r \notin Retained(store)
  BY <1>2 DEF HandlersInv
<1> HIDE DEF gone
<1> QED
  BY <1>1, <1>2, <1>4, <1>5, <1>6, <1>7 DEF Loses

\* So what a handler has fetched stays traced whatever the others do.
LEMMA StaysTraced ==
    ASSUME Inv, HandlersInv, NEW new, Loses(new), NEW h \in Handlers, handler'[h] = handler[h]
    PROVE  Fetched(h)'
<1> DEFINE x == handler[h]
<1>1. Fetched(h) /\ Retained(store) \subseteq issued
  BY ZenonT(30) DEF HandlersInv
<1>2. ASSUME x.pc = "owner" PROVE x.receipt_id \in issued' /\ Traced(x)'
  <2>1. x.receipt_id \in issued /\ x.receipt \in StoredReceipt /\ Traced(x)
    BY <1>1, <1>2 DEF Fetched
  <2>2. x.receipt.expires_at \in Nat /\ clock \in Nat
    BY <2>1 DEF StoredReceipt, Inv
  <2>3. x.receipt_id \notin new /\ x.receipt_id \in issued'
    BY <2>1 DEF Loses
  <2>4. x' = x
    OBVIOUS
  <2> HIDE DEF x
  <2>5. CASE x.receipt_id \in Retained(store)
    BY <2>1, <2>2, <2>3, <2>4, <2>5 DEF Traced, Loses
  <2>6. CASE x.receipt_id \notin Retained(store)
    BY <2>1, <2>2, <2>3, <2>4, <2>6 DEF Traced, Loses
  <2> QED
    BY <2>3, <2>5, <2>6
<1> QED
  BY ZenonT(30), <1>1, <1>2 DEF Fetched

\* A step of one handler: what the others hold is not disturbed.
LEMMA OneHandlerSteps ==
    ASSUME Inv, HandlersInv, NEW new \in SUBSET ReceiptIds, Loses(new), NEW h \in Handlers, NEW x,
           handler' = [handler EXCEPT ![h] = x], Fetched(h)'
    PROVE  HandlersInv'
<1>1. DOMAIN handler = Handlers /\ Retained(store) \subseteq issued
  BY DEF HandlersInv
<1>2. DOMAIN handler' = Handlers
  BY <1>1
<1>3. ASSUME NEW g \in Handlers PROVE Fetched(g)'
  <2>1. CASE g = h
    BY <2>1
  <2>2. CASE g # h
    <3>1. handler'[g] = handler[g]
      BY <1>1, <2>2
    <3> QED
      BY <3>1, StaysTraced
  <2> QED
    BY <2>1, <2>2
<1>4. Retained(store') \subseteq issued'
  BY <1>1 DEF Loses
<1> QED
  BY <1>2, <1>3, <1>4 DEF HandlersInv

LEMMA NoHandlerSteps ==
    ASSUME Inv, HandlersInv, NEW new \in SUBSET ReceiptIds, Loses(new), handler' = handler
    PROVE  HandlersInv'
<1>1. DOMAIN handler = Handlers /\ Retained(store) \subseteq issued
  BY DEF HandlersInv
<1>2. ASSUME NEW g \in Handlers PROVE Fetched(g)'
  BY StaysTraced
<1>3. Retained(store') \subseteq issued'
  BY <1>1 DEF Loses
<1> QED
  BY <1>1, <1>2, <1>3 DEF HandlersInv

LEMMA BeginKeeps ==
    ASSUME Inv, HandlersInv, NEW h \in Handlers, NEW id, NEW cred, NEW order,
           Begin(h, id, cred, order)
    PROVE  HandlersInv'
<1> DEFINE x == [pc |-> "first", id |-> id, cred |-> cred, order |-> order]
<1>1. handler' = [handler EXCEPT ![h] = x] /\ UNCHANGED <<clock, store, issued>>
  BY DEF Begin
<1>2. handler'[h] = x
  BY <1>1 DEF HandlersInv
<1>3. Fetched(h)'
  BY <1>2 DEF Fetched
<1>4. Loses({})
  BY <1>1 DEF Loses, Inv
<1> QED
  BY ZenonT(30), <1>1, <1>3, <1>4, OneHandlerSteps

\* The receipt an index leads to is retained, and the id names it.
LEMMA CandidateNames ==
    ASSUME Inv, NEW id, NEW index, NEW r \in Candidate(id, index)
    PROVE  r \in Retained(store) /\ id \in {r, store.by_receipt[r].chat_id}
BY DEF Candidate, Inv, Good, ChatSound

LEMMA ReadKeeps ==
    ASSUME Inv, HandlersInv, NEW h \in Handlers, NEW index, NEW missed, NEW now \in Readings,
           ReadIndex(h, index, missed, now),
           handler'[h] = missed => Fetched(h)'
    PROVE  HandlersInv'
<1> DEFINE found == Candidate(handler[h].id, index)
           live  == {r \in found : ~Lapsed(store, r, now)}
           r     == CHOOSE q \in live : TRUE
           x     == IF live = {} THEN missed
                    ELSE [pc |-> "owner", id |-> handler[h].id, cred |-> handler[h].cred,
                          receipt_id |-> r, receipt |-> store.by_receipt[r]]
<1>1. /\ \A q \in found : store' = touch(store, q, now)
      /\ found = {} => store' = store
      /\ handler' = [handler EXCEPT ![h] = x]
      /\ UNCHANGED <<clock, issued>>
  BY ZenonT(30) DEF ReadIndex
<1>2. handler'[h] = x
  BY <1>1 DEF HandlersInv
<1>3. Loses({})
  <2> HIDE DEF found
  <2>1. CASE found = {}
    BY <1>1, <2>1 DEF Loses, Inv
  <2>2. CASE found # {}
    <3>1. PICK q \in found : store' = touch(store, q, now)
      BY <1>1, <2>2
    <3> QED
      BY <1>1, <3>1, TouchLoses
  <2> QED
    BY <2>1, <2>2
<1>4. CASE live = {}
  BY ZenonT(30), <1>1, <1>2, <1>3, <1>4, OneHandlerSteps
<1>5. CASE live # {}
  <2>1. r \in found /\ ~Lapsed(store, r, now)
    BY <1>5
  <2>2. r \in Retained(store) /\ handler[h].id \in {r, store.by_receipt[r].chat_id}
    BY ZenonT(30), <2>1, CandidateNames
  <2>3. store' = store
    BY <1>1, <2>1 DEF touch
  <2>4. store.by_receipt[r] \in StoredReceipt
    BY <2>2 DEF Inv, Good, IsStore
  <2>5. r \in issued'
    BY <1>1, <2>2 DEF HandlersInv
  <2>6. x = [pc |-> "owner", id |-> handler[h].id, cred |-> handler[h].cred,
             receipt_id |-> r, receipt |-> store.by_receipt[r]]
    BY ZenonT(30), <1>5
  <2> HIDE DEF r, x, live, found
  <2>7. /\ x.pc = "owner" /\ x.id = handler[h].id /\ x.receipt_id = r
        /\ x.receipt = store.by_receipt[r]
    BY <2>6
  <2>8. Fetched(h)'
    <3>1. r \in Retained(store') /\ store'.by_receipt[r] = x.receipt
      BY <2>2, <2>3, <2>7
    <3> QED
      BY <1>2, <2>2, <2>4, <2>5, <2>7, <3>1 DEF Fetched, Traced
  <2> QED
    BY ZenonT(30), <1>1, <1>3, <2>8, OneHandlerSteps
<1> QED
  BY <1>4, <1>5

LEMMA FirstKeeps ==
    ASSUME Inv, HandlersInv, NEW h \in Handlers, NEW now \in Readings, First(h, now)
    PROVE  HandlersInv'
<1> DEFINE missed == [handler[h] EXCEPT !.pc = "second"]
<1>1. handler[h].pc = "first" /\ ReadIndex(h, handler[h].order, missed, now)
  BY DEF First
<1>2. handler[h] = [pc |-> "first", id |-> handler[h].id, cred |-> handler[h].cred,
                    order |-> handler[h].order]
  BY <1>1 DEF HandlersInv, Fetched
<1>3. missed = [pc |-> "second", id |-> handler[h].id, cred |-> handler[h].cred,
                order |-> handler[h].order]
  BY <1>2
<1> HIDE DEF missed
<1>4. ASSUME handler'[h] = missed PROVE Fetched(h)'
  BY <1>3, <1>4 DEF Fetched
<1> QED
  BY <1>1, <1>4, ReadKeeps

LEMMA SecondKeeps ==
    ASSUME Inv, HandlersInv, NEW h \in Handlers, NEW now \in Readings, Second(h, now)
    PROVE  HandlersInv'
<1> DEFINE missed == [pc |-> "done", answer |-> "not_found"]
<1>1. ReadIndex(h, Other(handler[h].order), missed, now)
  BY DEF Second
<1>2. ASSUME handler'[h] = missed PROVE Fetched(h)'
  BY <1>2 DEF Fetched
<1> QED
  BY ZenonT(30), <1>1, <1>2, ReadKeeps

\* The owner check releases to the recorded owner, to anyone when the receipt
\* has none, and to anyone once the receipt it looks up again is gone.
LEMMA OwnerCheckKeeps ==
    ASSUME Inv, HandlersInv, NEW h \in Handlers, NEW now \in Readings, CheckOwner(h, now)
    PROVE  HandlersInv'
<1> DEFINE y == handler[h]
           recorded == OwnerOf(y.receipt_id, now)
           answer == enforce_owner(recorded, y.cred)
           x == [pc |-> "done", answer |-> answer, id |-> y.id, cred |-> y.cred,
                 receipt_id |-> y.receipt_id, receipt |-> y.receipt,
                 lapsed |-> clock >= y.receipt.expires_at]
<1>1. /\ y.pc = "owner" /\ handler' = [handler EXCEPT ![h] = x]
      /\ store' = touch(store, y.receipt_id, now) /\ UNCHANGED <<clock, issued>>
  BY DEF CheckOwner
<1>2. Loses({})
  BY <1>1, TouchLoses
<1>3. handler'[h] = x
  BY <1>1 DEF HandlersInv
<1>4. /\ y.receipt \in StoredReceipt /\ Traced(y)
      /\ y.id \in {y.receipt_id, y.receipt.chat_id}
  BY ZenonT(30), <1>1 DEF HandlersInv, Fetched
<1>5. clock \in Nat /\ now \in Nat /\ now <= clock /\ y.receipt.expires_at \in Nat
  BY <1>4 DEF Inv, Readings, StoredReceipt
<1>6. recorded = y.receipt.owner \/ (recorded = None /\ clock >= y.receipt.expires_at)
  <2> HIDE DEF y
  <2>1. CASE y.receipt_id \in Retained(store)
    BY <1>4, <1>5, <2>1 DEF OwnerOf, Lapsed, Traced
  <2>2. CASE y.receipt_id \notin Retained(store)
    BY <1>4, <2>2 DEF OwnerOf, Traced
  <2> QED
    BY <2>1, <2>2
<1>7. answer = "released" => recorded = None \/ recorded = y.cred
  <2> HIDE DEF recorded
  <2> QED
    BY DEF enforce_owner
<1> HIDE DEF answer, recorded
<1>8. answer = "released" => y.receipt.owner \in {None, y.cred} \/ clock >= y.receipt.expires_at
  BY <1>6, <1>7
<1>9. /\ x.pc = "done" /\ x.answer = answer /\ x.id = y.id /\ x.cred = y.cred
      /\ x.receipt_id = y.receipt_id /\ x.receipt = y.receipt
      /\ x.lapsed = (clock >= y.receipt.expires_at)
  BY ZenonT(30), SMTT(30)
<1> HIDE DEF x, y
<1>10. Fetched(h)'
  BY ZenonT(30), <1>3, <1>4, <1>8, <1>9 DEF Fetched
<1> QED
  BY ZenonT(30), <1>1, <1>2, <1>10, OneHandlerSteps

LEMMA HandlersStep == Inv /\ HandlersInv /\ [LookupNext]_lookupVars => HandlersInv'
<1> SUFFICES ASSUME Inv, HandlersInv, [LookupNext]_lookupVars PROVE HandlersInv'
  OBVIOUS
<1>1. ASSUME LookupTick PROVE HandlersInv'
  <2>1. Loses({}) /\ handler' = handler
    BY <1>1 DEF LookupTick, Tick, Loses, Inv
  <2> QED
    BY <2>1, NoHandlerSteps
<1>2. ASSUME NEW now \in Readings, NEW r \in ReceiptIds,
             NEW chat \in ChatIds \cup {None}, NEW owner \in Owners \cup {None},
             Issue(r, chat, owner, now)
      PROVE  HandlersInv'
  <2>1. Loses({r}) /\ handler' = handler
    BY <1>2, IssueLoses DEF Issue
  <2> QED
    BY <2>1, NoHandlerSteps
<1>3. ASSUME UNCHANGED lookupVars PROVE HandlersInv'
  <2>1. Loses({}) /\ handler' = handler
    BY <1>3 DEF lookupVars, Loses, Inv
  <2> QED
    BY <2>1, NoHandlerSteps
<1> QED
  BY <1>1, <1>2, <1>3, BeginKeeps, FirstKeeps, SecondKeeps, OwnerCheckKeeps DEF LookupNext

\* A receipt is released only for an id that names it, and only to a caller it
\* belongs to, or once its retention has ended: for any number of handlers of
\* the two endpoints, interleaved with issued receipts, evictions and the
\* clock between their two index reads and the owner check.
THEOREM ReleasesToTheEntitled == LookupSpec => []ReleaseMatchesRequest
<1>1. LookupInit => Init /\ Inv /\ HandlersInv
  <2>1. LookupInit => Init /\ Inv
    BY DEF LookupInit, Init, Inv, Good, IsStore, ExpiryExact, ChatSound, Retained
  <2>2. LookupInit => HandlersInv
    BY DEF LookupInit, Init, Retained, HandlersInv, Fetched, Idle
  <2> QED
    BY <2>1, <2>2
<1>2. Inv /\ [Next]_vars => Inv'
  BY StoreStep
<1>3. HandlersInv => ReleaseMatchesRequest
  BY ZenonT(30) DEF HandlersInv, Fetched, ReleaseMatchesRequest
<1> QED
  BY <1>1, <1>2, <1>3, LookupStepRefines, HandlersStep, PTL DEF LookupSpec

=============================================================================
