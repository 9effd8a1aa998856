---------------------------- MODULE ReceiptStore ----------------------------
(***************************************************************************)
(* The in-memory receipt store of the gateway: signed receipts indexed by  *)
(* receipt id, by chat id and by retention deadline, all three behind one  *)
(* RwLock (src/src/aggregator/service/receipt_store.rs).                   *)
(*                                                                         *)
(* Every operation runs under the write lock, so each is one action.  The  *)
(* `now` an operation works with is read from the clock before the lock is *)
(* taken: it may lag the clock by the time spent waiting, at most MaxLag.  *)
(*                                                                         *)
(* The expiry index, a map from deadline to a non-empty set of ids, is the *)
(* relation of its (deadline, id) pairs.                                   *)
(***************************************************************************)
EXTENDS Naturals

CONSTANTS
    ReceiptIds,     \* receipt ids the service generates
    ChatIds,        \* ids providers give completions; they may equal receipt ids
    Owners,         \* hashed bearer credentials
    None,           \* Rust's Option::None
    Ttl,            \* receipt_ttl_seconds
    MaxTime,        \* bound on the clock
    MaxLag          \* bound on the age of a clock reading when it is used

ASSUME ReceiptStoreAssumption ==
    /\ None \notin ReceiptIds
    /\ None \notin ChatIds
    /\ None \notin Owners
    /\ Ttl \in Nat \ {0}
    /\ MaxTime \in Nat
    /\ MaxLag \in Nat

VARIABLES
    clock,          \* wall-clock seconds
    store           \* the three indexes, InMemoryReceiptStoreInner

vars == <<clock, store>>

StoredReceipt ==
    [chat_id : ChatIds \cup {None}, owner : Owners \cup {None}, expires_at : Nat]

-----------------------------------------------------------------------------
(* The index operations.                                                   *)

Retained(s) == DOMAIN s.by_receipt

Without(f, D) == [x \in DOMAIN f \ D |-> f[x]]

With(f, x, v) == [y \in DOMAIN f \cup {x} |-> IF y = x THEN v ELSE f[y]]

\* Bug: a mapping a later receipt has taken over is dropped too.
drop_any_mapping(s, gone) ==
    Without(s.by_chat, {c \in DOMAIN s.by_chat : \E r \in gone : s.by_receipt[r].chat_id = c})

\* The chat mappings left when the receipts `gone` are dropped: a mapping a
\* later receipt has taken over survives.
drop_chat_mapping(s, gone) ==
    Without(s.by_chat, {c \in DOMAIN s.by_chat :
                            \E r \in gone : /\ s.by_receipt[r].chat_id = c
                                            /\ s.by_chat[c] = r})

\* Bug: a removed receipt leaves its expiry hint behind.
remove_keeping_hint(s, r) ==
    IF r \notin Retained(s) THEN s
    ELSE [by_receipt |-> Without(s.by_receipt, {r}),
          by_chat    |-> drop_chat_mapping(s, {r}),
          by_expiry  |-> s.by_expiry]

remove(s, r) ==
    IF r \notin Retained(s) THEN s
    ELSE [by_receipt |-> Without(s.by_receipt, {r}),
          by_chat    |-> drop_chat_mapping(s, {r}),
          by_expiry  |-> s.by_expiry \ {<<s.by_receipt[r].expires_at, r>>}]

evict_expired(s, now) ==
    LET due  == {hint \in s.by_expiry : hint[1] <= now}
        gone == {r \in Retained(s) : \E hint \in due : hint[2] = r}
    IN  [by_receipt |-> Without(s.by_receipt, gone),
         by_chat    |-> drop_chat_mapping(s, gone),
         by_expiry  |-> s.by_expiry \ due]

\* A stored receipt takes over its chat id; one without a chat id takes none.
map_chat(by_chat, chat, r) ==
    IF chat = None THEN by_chat ELSE With(by_chat, chat, r)

insert(s, r, entry) ==
    LET t == remove(s, r)
    IN  [by_receipt |-> With(t.by_receipt, r, entry),
         by_chat    |-> map_chat(t.by_chat, entry.chat_id, r),
         by_expiry  |-> t.by_expiry \cup {<<entry.expires_at, r>>}]

Lapsed(s, r, now) == r \in Retained(s) /\ now >= s.by_receipt[r].expires_at

\* What the three reads do to the store: a receipt found past its deadline is
\* removed.
touch(s, r, now) == IF Lapsed(s, r, now) THEN remove(s, r) ELSE s

-----------------------------------------------------------------------------
(* The actions.                                                            *)

Readings == {t \in 0..clock : clock <= t + MaxLag}

Init ==
    /\ clock = 0
    /\ store = [by_receipt |-> [r \in {} |-> None],
                by_chat    |-> [c \in {} |-> None],
                by_expiry  |-> {}]

Tick ==
    /\ clock < MaxTime
    /\ clock' = clock + 1
    /\ UNCHANGED store

\* store_receipt and put: the deadline is computed from the same reading the
\* eviction uses.
Put(r, chat, owner, now) ==
    /\ store' = insert(evict_expired(store, now), r,
                       [chat_id |-> chat, owner |-> owner, expires_at |-> now + Ttl])
    /\ UNCHANGED clock

\* get_by_receipt_id and owner_of
ReadById(r, now) ==
    /\ store' = touch(store, r, now)
    /\ UNCHANGED clock

ReadByChat(c, now) ==
    /\ c \in DOMAIN store.by_chat
    /\ store' = touch(store, store.by_chat[c], now)
    /\ UNCHANGED clock

Next ==
    \/ Tick
    \/ \E now \in Readings :
        \/ \E r \in ReceiptIds :
            \/ \E chat \in ChatIds \cup {None}, owner \in Owners \cup {None} :
                    Put(r, chat, owner, now)
            \/ ReadById(r, now)
        \/ \E c \in ChatIds : ReadByChat(c, now)

Spec == Init /\ [][Next]_vars

-----------------------------------------------------------------------------
(* Properties.                                                             *)

IsStore(s) ==
    /\ s = [by_receipt |-> s.by_receipt, by_chat |-> s.by_chat, by_expiry |-> s.by_expiry]
    /\ Retained(s) \subseteq ReceiptIds
    /\ s.by_receipt \in [Retained(s) -> StoredReceipt]
    /\ DOMAIN s.by_chat \subseteq ChatIds
    /\ s.by_chat \in [DOMAIN s.by_chat -> ReceiptIds]
    /\ s.by_expiry \subseteq Nat \X ReceiptIds

ExpiryExact(s) == s.by_expiry = {<<s.by_receipt[r].expires_at, r>> : r \in Retained(s)}

ChatSound(s) ==
    \A c \in DOMAIN s.by_chat :
        s.by_chat[c] \in Retained(s) /\ s.by_receipt[s.by_chat[c]].chat_id = c

\* The clock and the three indexes hold values of their types.
TypeOK == clock \in Nat /\ IsStore(store)

\* The three indexes agree.  The expiry index holds exactly one hint per
\* retained receipt, at the receipt's own deadline: evict_expired, which trusts
\* the hints, drops every lapsed receipt and no other, also after an id
\* collision.  A chat id never leads to a receipt that is gone or that carries
\* another chat id, although insert repoints a mapping and remove drops it only
\* when it still points at the receipt removed.
IndexesAgree == TypeOK /\ ExpiryExact(store) /\ ChatSound(store)

Retention == INSTANCE ReceiptRetention WITH kept <- store.by_receipt, named <- store.by_chat

\* The store keeps its promise: read without the expiry index, the operations
\* on three indexes are the steps of ReceiptRetention.  No receipt is lost
\* before its deadline, not even by an eviction or a read with a stale clock
\* reading, and dropping an old receipt never takes away a chat id that a
\* later one has taken over.
KeepsReceipts == Retention!Spec

=============================================================================
