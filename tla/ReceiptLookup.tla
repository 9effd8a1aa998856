---------------------------- MODULE ReceiptLookup ----------------------------
(***************************************************************************)
(* The two receipt endpoints over the receipt store: GET                   *)
(* /v1/aci/receipts/{id} (aci_receipt) and GET /v1/signature/{id}          *)
(* (receipt_by_chat_id), src/src/http/app/handlers.rs, with enforce_owner  *)
(* of src/src/http/app/util.rs.                                            *)
(*                                                                         *)
(* A handler takes the store's lock up to three times (first index, other  *)
(* index, owner of the receipt found), each time with a fresh clock        *)
(* reading; requests that store receipts run in between.                   *)
(***************************************************************************)
EXTENDS ReceiptStore

CONSTANT Handlers

VARIABLES
    handler,    \* the state of each handler
    issued      \* receipt ids generated so far; generate_receipt_id is random,
                \* so an id is issued once

lookupVars == <<clock, store, handler, issued>>

Idle == [pc |-> "idle"]

LookupInit == Init /\ handler = [h \in Handlers |-> Idle] /\ issued = {}

\* A request stores its receipt under a newly generated id.
Issue(r, chat, owner, now) ==
    /\ r \notin issued
    /\ issued' = issued \cup {r}
    /\ Put(r, chat, owner, now)
    /\ UNCHANGED handler

\* A client asks for `id` and presents credential `cred` (None: no bearer
\* token).  `order` is the endpoint's order of the two indexes.
Begin(h, id, cred, order) ==
    /\ handler[h].pc = "idle"
    /\ handler' = [handler EXCEPT ![h] =
                     [pc |-> "first", id |-> id, cred |-> cred, order |-> order]]
    /\ UNCHANGED <<clock, store, issued>>

\* The receipt an index leads to for `id`, as a set with at most one element.
Candidate(id, index) ==
    IF index = "receipt"
    THEN {id} \cap Retained(store)
    ELSE {store.by_chat[c] : c \in {id} \cap DOMAIN store.by_chat}

\* One of the two index reads of a handler: found and live, found and lapsed
\* (removed), or not found.
ReadIndex(h, index, missed, now) ==
    LET found == Candidate(handler[h].id, index)
        live  == {r \in found : ~Lapsed(store, r, now)}
    IN  /\ \A r \in found : store' = touch(store, r, now)
        /\ found = {} => store' = store
        /\ handler' = [handler EXCEPT ![h] =
             IF live = {} THEN missed
             ELSE LET r == CHOOSE r \in live : TRUE
                  IN  [pc |-> "owner", id |-> @.id, cred |-> @.cred, receipt_id |-> r,
                       receipt |-> store.by_receipt[r]]]
        /\ UNCHANGED <<clock, issued>>

Other(index) == IF index = "receipt" THEN "chat" ELSE "receipt"

First(h, now) ==
    /\ handler[h].pc = "first"
    /\ ReadIndex(h, handler[h].order, [handler[h] EXCEPT !.pc = "second"], now)

Second(h, now) ==
    /\ handler[h].pc = "second"
    /\ ReadIndex(h, Other(handler[h].order), [pc |-> "done", answer |-> "not_found"], now)

\* Bug: a caller without a bearer token passes the owner check.
answer_without_token(recorded, cred) ==
    IF recorded = None \/ cred = None \/ cred = recorded THEN "released" ELSE "forbidden"

\* The answer to a caller presenting `cred` for a receipt whose owner the
\* store reports as `recorded`.
enforce_owner(recorded, cred) ==
    CASE recorded = None -> "released"
      [] recorded # None /\ cred = None -> "unauthorized"
      [] recorded # None /\ cred = recorded -> "released"
      [] OTHER -> "forbidden"

\* The owner of a retained, live receipt; None otherwise (owner_of).
OwnerOf(r, now) ==
    IF r \in Retained(store) /\ ~Lapsed(store, r, now)
    THEN store.by_receipt[r].owner ELSE None

CheckOwner(h, now) ==
    /\ handler[h].pc = "owner"
    /\ handler' = [handler EXCEPT ![h] =
         [pc |-> "done",
          answer |-> enforce_owner(OwnerOf(@.receipt_id, now), @.cred),
          id |-> @.id, cred |-> @.cred, receipt_id |-> @.receipt_id,
          receipt |-> @.receipt, lapsed |-> clock >= @.receipt.expires_at]]
    /\ store' = touch(store, handler[h].receipt_id, now)
    /\ UNCHANGED <<clock, issued>>

LookupTick == Tick /\ UNCHANGED <<handler, issued>>

LookupNext ==
    \/ LookupTick
    \/ \E h \in Handlers, id \in ReceiptIds \cup ChatIds, cred \in Owners \cup {None},
          order \in {"receipt", "chat"} : Begin(h, id, cred, order)
    \/ \E now \in Readings :
        \/ \E r \in ReceiptIds, chat \in ChatIds \cup {None}, owner \in Owners \cup {None} :
                Issue(r, chat, owner, now)
        \/ \E h \in Handlers : First(h, now) \/ Second(h, now) \/ CheckOwner(h, now)

LookupSpec == LookupInit /\ [][LookupNext]_lookupVars

-----------------------------------------------------------------------------
\* A receipt an endpoint releases is one the id names, and it goes to a caller
\* entitled to it: the receipt has no owner, or the caller presented the
\* owner's credential, or the receipt's retention had ended by the time of the
\* owner check.  The last case is real: enforce_owner reads the store again
\* and takes a receipt that lapsed since it was fetched for an anonymous one.
ReleaseMatchesRequest ==
    \A h \in Handlers :
        handler[h].pc = "done" /\ handler[h].answer = "released" =>
            LET r == handler[h].receipt IN
            /\ handler[h].id \in {handler[h].receipt_id, r.chat_id}
            /\ r.owner \in {None, handler[h].cred} \/ handler[h].lapsed

=============================================================================
