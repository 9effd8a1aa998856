-------------------------- MODULE ReceiptRetention --------------------------
(***************************************************************************)
(* What the receipt store promises, without its indexes: a receipt is kept *)
(* from the moment it is stored until its deadline at least, it is         *)
(* forgotten afterwards only, storing another one forgets all that lapsed, *)
(* and a chat id leads to the receipt stored last under it for as long as  *)
(* that receipt is kept.  ReceiptStore implements this specification.      *)
(***************************************************************************)
EXTENDS Naturals

CONSTANTS ReceiptIds, ChatIds, Owners, None, Ttl, MaxLag

VARIABLES
    clock,      \* wall-clock seconds
    kept,       \* the receipts kept
    named       \* the receipt a chat id leads to

vars == <<clock, kept, named>>

Init ==
    /\ clock = 0
    /\ kept = [r \in {} |-> None]
    /\ named = [c \in {} |-> None]

Tick ==
    /\ clock' = clock + 1
    /\ UNCHANGED <<kept, named>>

NamesLeft(gone) == {c \in DOMAIN named : named[c] \notin gone}

\* A receipt is stored with a clock reading at most MaxLag old; whatever lapsed
\* by that reading, and a receipt of the same id, is forgotten.
Store(r, chat, owner, now) ==
    LET gone == {q \in DOMAIN kept : kept[q].expires_at <= now} \cup {r} IN
    /\ now <= clock /\ clock <= now + MaxLag
    /\ kept' = [q \in (DOMAIN kept \ gone) \cup {r} |->
                  IF q = r THEN [chat_id |-> chat, owner |-> owner, expires_at |-> now + Ttl]
                  ELSE kept[q]]
    /\ named' = [c \in NamesLeft(gone) \cup ({chat} \ {None}) |-> IF c = chat THEN r ELSE named[c]]
    /\ UNCHANGED clock

\* A receipt past its deadline is forgotten.
Forget(r) ==
    /\ kept[r].expires_at <= clock
    /\ kept' = [q \in DOMAIN kept \ {r} |-> kept[q]]
    /\ named' = [c \in NamesLeft({r}) |-> named[c]]
    /\ UNCHANGED clock

Next ==
    \/ Tick
    \/ \E r \in ReceiptIds, chat \in ChatIds \cup {None}, owner \in Owners \cup {None},
          now \in 0..clock : Store(r, chat, owner, now)
    \/ \E r \in DOMAIN kept : Forget(r)

Spec == Init /\ [][Next]_vars

=============================================================================
