---------------------------- MODULE SessionStore ----------------------------
(***************************************************************************)
(* The durable store of attested sessions (JsonlSessionStore,              *)
(* src/src/aggregator/session_store.rs): an append-only log, an in-memory  *)
(* index behind a lock of its own, compaction that rewrites the log from   *)
(* the index, and replay after a crash; used by seal_attested_session      *)
(* (src/src/aggregator/service/forward.rs) and by the compaction tasks of  *)
(* src/src/main.rs.  InMemorySessionStore is the index alone.              *)
(*                                                                         *)
(* A session is its content id; what varies is its retention deadline.     *)
(* Records enter the log in the order of their sequence numbers, so the    *)
(* log is the set of its well-formed records.  A write that fails half-way *)
(* leaves bytes without a newline behind it: the record if only the        *)
(* newline is missing, garbage otherwise.  The next line runs into them    *)
(* and is unreadable.  A crash is that of the process: what reached the    *)
(* file stays.                                                             *)
(***************************************************************************)
EXTENDS Integers, FiniteSets

CONSTANTS
    Sessions,       \* content-addressed session ids
    Sealers,        \* requests that seal a session
    Compactor,      \* the background compaction task
    None,           \* the writer lock is free
    Ttl,            \* receipt_ttl_seconds
    MaxSeq,         \* u64::MAX, the sequence number that has no successor
    MaxTime,        \* bound on the clock
    MaxLag          \* bound on the age of a clock reading when it is used

ASSUME SessionStoreAssumption ==
    /\ IsFiniteSet(Sessions)
    /\ Compactor \notin Sealers
    /\ None \notin Sealers \cup {Compactor}
    /\ Ttl \in Nat \ {0}
    /\ MaxSeq \in Nat
    /\ MaxTime \in Nat
    /\ MaxLag \in Nat

VARIABLES
    clock,          \* wall-clock seconds
    up,             \* the gateway is running
    index,          \* SessionIndex: deadlines by id, and the expiry hints
    log, torn, tail,\* the file: its records, whether it ends without a newline,
                    \* and the record, if any, that ends it without one
    writer,         \* the holder of the writer lock
    next_seq,       \* LogWriter.next_seq
    sealer,         \* the progress of each sealing request
    snapshot,       \* the live deadlines a compaction is writing out
    promised,       \* history: the latest deadline a request was given for each
                    \* session since the last start
    unreadable      \* history: sessions whose line ran into a torn tail and that
                    \* no compaction has written since

disk == <<log, torn, tail>>
history == <<promised, unreadable>>
vars == <<clock, up, index, disk, writer, next_seq, sealer, snapshot, history>>

Record == [seq : Nat, id : Sessions, expires_at : Nat]

Idle == [pc |-> "idle", id |-> None, now |-> 0]

Without(f, D) == [x \in DOMAIN f \ D |-> f[x]]

With(f, x, v) == [y \in DOMAIN f \cup {x} |-> IF y = x THEN v ELSE f[y]]

Nothing == [x \in {} |-> 0]

Later(a, b) == IF a >= b THEN a ELSE b

-----------------------------------------------------------------------------
(* SessionIndex.                                                           *)

\* Hints of an id whose deadline moves from the one in `x` are dropped.
drop_expiry_hint(x, id) ==
    IF id \in DOMAIN x.by_id THEN x.by_expiry \ {<<x.by_id[id], id>>} ELSE x.by_expiry

\* Bug: the hint for the old deadline is left behind.
keep_expiry_hint(x, id, exp) ==
    [by_id     |-> With(x.by_id, id, exp),
     by_expiry |-> x.by_expiry \cup {<<exp, id>>}]

\* What insert does, and renew to an id it finds.
insert(x, id, exp) ==
    [by_id     |-> With(x.by_id, id, exp),
     by_expiry |-> drop_expiry_hint(x, id) \cup {<<exp, id>>}]

evict_expired(x, now) ==
    LET due == {hint \in x.by_expiry : hint[1] <= now}
    IN  [by_id     |-> Without(x.by_id, {id \in DOMAIN x.by_id : \E h \in due : h[2] = id}),
         by_expiry |-> x.by_expiry \ due]

put_and_evict(x, id, exp, ts) == evict_expired(insert(x, id, exp), ts)

-----------------------------------------------------------------------------
(* The log.                                                                *)

Readable == log \cup tail

Logged == {r.id : r \in Readable}

\* The record of an id that replay meets last.
Last(id) == CHOOSE r \in Readable : r.id = id /\ \A s \in Readable : s.id = id => s.seq <= r.seq

replay ==
    LET deadlines == [id \in Logged |-> Last(id).expires_at]
    IN  [by_id |-> deadlines, by_expiry |-> {<<deadlines[id], id>> : id \in Logged}]

\* The file compaction leaves: one record per session, in any order.
Rewritten(deadlines, order) ==
    {[seq |-> order[id], id |-> id, expires_at |-> deadlines[id]] : id \in DOMAIN deadlines}

Orders(D) ==
    {f \in [D -> 0..(Cardinality(D) - 1)] : \A i, j \in D : f[i] = f[j] => i = j}

-----------------------------------------------------------------------------
(* The actions.                                                            *)

Readings == {t \in 0..clock : clock <= t + MaxLag}

Init ==
    /\ clock = 0
    /\ up = TRUE
    /\ index = [by_id |-> Nothing, by_expiry |-> {}]
    /\ log = {} /\ torn = FALSE /\ tail = {}
    /\ writer = None
    /\ next_seq = 0
    /\ sealer = [s \in Sealers |-> Idle]
    /\ snapshot = Nothing
    /\ promised = Nothing
    /\ unreadable = {}

\* Time passes, but no request holds a reading older than MaxLag.
Tick ==
    /\ clock < MaxTime
    /\ \A s \in Sealers : sealer[s].pc # "idle" => clock < sealer[s].now + MaxLag
    /\ clock' = clock + 1
    /\ UNCHANGED <<up, index, disk, writer, next_seq, sealer, snapshot, history>>

\* record_attested_upstream_session reads the clock ...
Begin(s, id) ==
    /\ up
    /\ sealer[s].pc = "idle"
    /\ sealer' = [sealer EXCEPT ![s] = [pc |-> "renew", id |-> id, now |-> clock]]
    /\ UNCHANGED <<clock, up, index, disk, writer, next_seq, snapshot, history>>

Promise(id, exp) ==
    promised' = With(promised, id, IF id \in DOMAIN promised THEN Later(promised[id], exp) ELSE exp)

\* ... and renews the session if it is recorded and live.
Renew(s) ==
    LET id == sealer[s].id
        now == sealer[s].now
        live == evict_expired(index, now)
    IN  /\ sealer[s].pc = "renew"
        /\ IF id \in DOMAIN live.by_id
           THEN /\ index' = insert(live, id, now + Ttl)
                /\ sealer' = [sealer EXCEPT ![s] = Idle]
                /\ Promise(id, now + Ttl)
           ELSE /\ index' = live
                /\ sealer' = [sealer EXCEPT ![s].pc = "put"]
                /\ UNCHANGED promised
        /\ UNCHANGED <<clock, up, disk, writer, next_seq, snapshot, unreadable>>

NewRecord(s) == [seq |-> next_seq, id |-> sealer[s].id, expires_at |-> sealer[s].now + Ttl]

\* Bug: the line is appended while compaction rewrites the log.
AppendUnlocked(s) ==
    /\ sealer[s].pc = "put"
    /\ next_seq < MaxSeq
    /\ next_seq' = next_seq + 1
    /\ log' = log \cup {NewRecord(s)}
    /\ sealer' = [sealer EXCEPT ![s].pc = "publish"]
    /\ UNCHANGED <<clock, up, index, torn, tail, writer, snapshot, history>>

\* put_session takes the writer lock and appends a line.
Append(s) ==
    /\ sealer[s].pc = "put"
    /\ writer = None
    /\ next_seq < MaxSeq
    /\ writer' = s
    /\ next_seq' = next_seq + 1
    /\ log' = IF torn THEN log ELSE log \cup {NewRecord(s)}
    /\ unreadable' = IF torn THEN unreadable \cup {sealer[s].id} ELSE unreadable
    /\ torn' = FALSE
    /\ tail' = {}
    /\ sealer' = [sealer EXCEPT ![s].pc = "publish"]
    /\ UNCHANGED <<clock, up, index, snapshot, promised>>

\* The write fails, or the process dies in it, with nothing, a part of the line
\* or all but the newline (`whole`) in the file; put_session returns an error.
AppendFails(s, wrote, whole) ==
    /\ sealer[s].pc = "put"
    /\ writer = None
    /\ next_seq < MaxSeq
    /\ whole => wrote
    /\ torn' = (torn \/ wrote)
    /\ tail' = IF ~wrote THEN tail ELSE IF whole /\ ~torn THEN {NewRecord(s)} ELSE {}
    /\ sealer' = [sealer EXCEPT ![s] = Idle]
    /\ UNCHANGED <<clock, up, index, log, writer, next_seq, snapshot, history>>

\* The sequence numbers are exhausted: an error before anything is written.
SeqOverflow(s) ==
    /\ sealer[s].pc = "put"
    /\ writer = None
    /\ next_seq >= MaxSeq
    /\ sealer' = [sealer EXCEPT ![s] = Idle]
    /\ UNCHANGED <<clock, up, index, disk, writer, next_seq, snapshot, history>>

\* The index follows under the writer lock, which put_session then drops.
Publish(s) ==
    LET id == sealer[s].id
        now == sealer[s].now
    IN  /\ sealer[s].pc = "publish"
        /\ index' = put_and_evict(index, id, now + Ttl, now)
        /\ Promise(id, now + Ttl)
        /\ writer' = None
        /\ sealer' = [sealer EXCEPT ![s] = Idle]
        /\ UNCHANGED <<clock, up, disk, next_seq, snapshot, unreadable>>

\* get_session drops a session found past its deadline.
Get(id, now) ==
    /\ up
    /\ id \in DOMAIN index.by_id
    /\ now >= index.by_id[id]
    /\ index' = [by_id |-> Without(index.by_id, {id}), by_expiry |-> drop_expiry_hint(index, id)]
    /\ UNCHANGED <<clock, up, disk, writer, next_seq, sealer, snapshot, history>>

\* compact: under the writer lock, the index is purged and copied, ...
CompactBegin(now) ==
    /\ up
    /\ writer = None
    /\ writer' = Compactor
    /\ index' = evict_expired(index, now)
    /\ snapshot' = index'.by_id
    /\ UNCHANGED <<clock, up, disk, next_seq, sealer, history>>

\* ... the copy written to a temporary file and synced, and renamed over the log.
CompactSwap(order) ==
    /\ writer = Compactor
    /\ log' = Rewritten(snapshot, order)
    /\ torn' = FALSE
    /\ tail' = {}
    /\ next_seq' = Cardinality(DOMAIN snapshot)
    /\ writer' = None
    /\ snapshot' = Nothing
    /\ unreadable' = {}
    /\ UNCHANGED <<clock, up, index, sealer, promised>>

\* Any of its steps before the rename, or the rename, fails: the log stays.
CompactFails ==
    /\ writer = Compactor
    /\ writer' = None
    /\ snapshot' = Nothing
    /\ UNCHANGED <<clock, up, index, disk, next_seq, sealer, history>>

Crash ==
    /\ up
    /\ up' = FALSE
    /\ index' = [by_id |-> Nothing, by_expiry |-> {}]
    /\ writer' = None
    /\ next_seq' = 0
    /\ sealer' = [s \in Sealers |-> Idle]
    /\ snapshot' = Nothing
    /\ promised' = Nothing
    /\ unreadable' = {}
    /\ UNCHANGED <<clock, disk>>

\* open replays the log, and startup compaction rewrites it before the gateway
\* serves; if the compaction fails the gateway does not start.
Restart(now, order) ==
    LET live == evict_expired(replay, now)
    IN  /\ ~up
        /\ order \in Orders(DOMAIN live.by_id)
        /\ up' = TRUE
        /\ index' = live
        /\ log' = Rewritten(live.by_id, order)
        /\ torn' = FALSE
        /\ tail' = {}
        /\ next_seq' = Cardinality(DOMAIN live.by_id)
        /\ UNCHANGED <<clock, writer, sealer, snapshot, history>>

Next ==
    \/ Tick
    \/ \E s \in Sealers :
        \/ \E id \in Sessions : Begin(s, id)
        \/ Renew(s)
        \/ Append(s)
        \/ \E wrote, whole \in BOOLEAN : AppendFails(s, wrote, whole)
        \/ SeqOverflow(s)
        \/ Publish(s)
    \/ \E now \in Readings :
        \/ \E id \in Sessions : Get(id, now)
        \/ CompactBegin(now)
        \/ \E D \in SUBSET Sessions : \E order \in Orders(D) : Restart(now, order)
    \/ \E order \in Orders(DOMAIN snapshot) : CompactSwap(order)
    \/ CompactFails
    \/ Crash

Spec == Init /\ [][Next]_vars

-----------------------------------------------------------------------------
(* Properties.                                                             *)

IsIndex(x) ==
    /\ x = [by_id |-> x.by_id, by_expiry |-> x.by_expiry]
    /\ DOMAIN x.by_id \subseteq Sessions
    /\ x.by_id \in [DOMAIN x.by_id -> Nat]
    /\ x.by_expiry \subseteq Nat \X Sessions

\* The variables hold values of their types.
SessionTypeOK ==
    /\ clock \in Nat
    /\ up \in BOOLEAN
    /\ IsIndex(index)
    /\ \A r \in log \cup tail : r \in Record
    /\ torn \in BOOLEAN
    /\ writer \in Sealers \cup {Compactor, None}
    /\ next_seq \in 0..Later(MaxSeq, Cardinality(Sessions))
    /\ sealer \in [Sealers -> [pc : {"idle", "renew", "put", "publish"},
                               id : Sessions \cup {None}, now : Nat]]
    /\ \A s \in Sealers : sealer[s].pc # "idle" => sealer[s].id \in Sessions
    /\ DOMAIN snapshot \subseteq Sessions
    /\ snapshot \in [DOMAIN snapshot -> Nat]
    /\ DOMAIN promised \subseteq Sessions
    /\ promised \in [DOMAIN promised -> Nat]
    /\ unreadable \subseteq Sessions

HintsExact(x) == x.by_expiry = {<<x.by_id[id], id>> : id \in DOMAIN x.by_id}

\* What the index holds can be replayed.  Every session in it has a record in
\* the log, whatever appends, renewals, failed writes and compactions
\* interleave; and sequence numbers identify records and grow, so that replay,
\* which keeps the last record of an id, sees them in the order they were
\* written, also after compaction has renumbered them.  The exception is the
\* line that ran into the torn tail a failed write left: put_session reports it
\* as written, and it is readable again only after the next compaction.  No
\* sequence number without a successor is used (SessionTypeOK).
LogReplayable ==
    /\ SessionTypeOK
    /\ DOMAIN index.by_id \subseteq Logged \cup unreadable
    /\ \A r, s \in Readable : r.seq = s.seq => r = s
    /\ up => \A r \in log : r.seq < next_seq

\* A session stays until the deadline a request was given for it, give or take
\* the age of the clock readings requests work with: no other request's renewal
\* or put, no eviction and no compaction ends its retention sooner.  Eviction
\* looks at the expiry hints only, which match the deadlines one to one however
\* often one is renewed.
SessionRetained ==
    /\ HintsExact(index)
    /\ \A id \in DOMAIN promised :
        promised[id] > clock + MaxLag =>
            id \in DOMAIN index.by_id /\ index.by_id[id] + MaxLag >= promised[id]

=============================================================================
