-------------------------- MODULE KeysetLifecycle ---------------------------
(***************************************************************************)
(* The workload keyset over restarts: the managed epoch of                 *)
(* src/src/aggregator/keyset_epoch.rs, the revocation store of             *)
(* src/src/aggregator/revocation_store.rs, and what revoking the keyset    *)
(* stops (src/src/aggregator/service/mod.rs and e2ee.rs).                  *)
(*                                                                         *)
(* A keyset is its epoch and key material; its digest identifies it, so    *)
(* the model uses the keyset itself.  Both files are replaced by a rename: *)
(* a crash leaves the old content or the new one.                          *)
(***************************************************************************)
EXTENDS Integers, FiniteSets

CONSTANTS
    Materials,      \* fingerprints of key material
    Admins,         \* concurrent calls of POST /v1/admin/revoke-keyset
    Readers,        \* concurrent requests for an attestation report
    None,           \* no epoch has been persisted yet
    Window,         \* keyset_epoch_window_seconds
    MaxTime,        \* bound on the clock
    MaxVersion      \* bound on the persisted version a start may find

Epoch == [version : Nat, not_after : Nat, material : Materials]

ASSUME KeysetAssumption ==
    /\ None \notin Epoch
    /\ Window \in Nat \ {0}
    /\ MaxTime \in Nat
    /\ MaxVersion \in Nat

VARIABLES
    clock,
    phase,          \* "down", "resolve", "store" (start-up) or "serving"
    keyset,         \* the epoch being resolved, then the one served
    rolls,          \* iterations of the start-up loop that are left
    epoch_file,     \* PersistedKeysetEpoch
    statements,     \* RevocationStore.statements: the keysets revoked
    revocation_file,
    admin,          \* what each revocation call is doing
    reader,         \* what each report request is doing
    acked,          \* history: keysets a revocation call answered 200 for
    unsaved,        \* history: keysets whose statement failed to reach the file
    served          \* history: keysets served

files == <<epoch_file, revocation_file>>
history == <<acked, unsaved, served>>
vars == <<clock, phase, keyset, rolls, files, statements, admin, reader, history>>

-----------------------------------------------------------------------------
(* Deciding the epoch.                                                     *)

Fresh(version, now, material) ==
    [version |-> version, not_after |-> now + Window, material |-> material]

\* Bug: new keys within the validity window keep the version.
resolve_by_expiry(previous, material, now) ==
    IF previous = None THEN Fresh(1, now, material)
    ELSE IF previous.not_after > now THEN [previous EXCEPT !.material = material]
    ELSE Fresh(previous.version + 1, now, material)

resolve_epoch(previous, material, now) ==
    IF previous = None THEN Fresh(1, now, material)
    ELSE IF previous.material = material /\ previous.not_after > now THEN previous
    ELSE Fresh(previous.version + 1, now, material)

\* Bug: only the window is renewed.
roll_window(previous, now) == [previous EXCEPT !.not_after = now + Window]

roll_forward(previous, now) == Fresh(previous.version + 1, now, previous.material)

-----------------------------------------------------------------------------
Init ==
    /\ clock = 0
    /\ phase = "down"
    /\ keyset = None
    /\ rolls = 0
    /\ epoch_file = None
    /\ statements = {}
    /\ revocation_file = {}
    /\ admin = [a \in Admins |-> "idle"]
    /\ reader = [r \in Readers |-> "idle"]
    /\ acked = {} /\ unsaved = {} /\ served = {}

\* Start-up reads the clock once, so no time passes in its loop.
Tick ==
    /\ clock < MaxTime
    /\ phase # "resolve"
    /\ clock' = clock + 1
    /\ UNCHANGED <<phase, keyset, rolls, files, statements, admin, reader, history>>

\* RevocationStore::open, then resolve_launcher_epoch up to its loop, which
\* runs at most len + 2 times.
Boot(material) ==
    /\ phase = "down"
    /\ epoch_file # None => epoch_file.version < MaxVersion
    /\ phase' = "resolve"
    /\ statements' = revocation_file
    /\ keyset' = resolve_epoch(epoch_file, material, clock)
    /\ rolls' = Cardinality(revocation_file) + 2
    /\ UNCHANGED <<clock, files, admin, reader, history>>

\* Bug: the loop neither counts nor changes the version.
ResolveRefreshing ==
    /\ phase = "resolve"
    /\ IF keyset \notin statements
       THEN phase' = "store" /\ UNCHANGED <<keyset, rolls>>
       ELSE /\ keyset' = roll_window(keyset, clock)
            /\ UNCHANGED <<phase, rolls>>
    /\ UNCHANGED <<clock, files, statements, admin, reader, history>>

\* One iteration of the loop: break, or roll to the next version.
Resolve ==
    /\ phase = "resolve"
    /\ IF rolls = 0 \/ keyset \notin statements
       THEN phase' = "store" /\ UNCHANGED <<keyset, rolls>>
       ELSE /\ keyset' = roll_forward(keyset, clock)
            /\ rolls' = rolls - 1
            /\ UNCHANGED phase
    /\ UNCHANGED <<clock, files, statements, admin, reader, history>>

\* The epoch is persisted before it is served; when that fails, or a later step
\* of the start, the process exits (Crash).
Store ==
    /\ phase = "store"
    /\ phase' = "serving"
    /\ epoch_file' = keyset
    /\ served' = served \cup {keyset}
    /\ UNCHANGED <<clock, keyset, rolls, statements, revocation_file, admin, reader, acked, unsaved>>

\* revoke_current_keyset up to the end of record's critical section.
Revoke(a) ==
    /\ phase = "serving"
    /\ admin[a] = "idle"
    /\ IF keyset \in statements
       THEN acked' = acked \cup {keyset} /\ UNCHANGED <<statements, admin>>
       ELSE /\ statements' = statements \cup {keyset}
            /\ admin' = [admin EXCEPT ![a] = "persist"]
            /\ UNCHANGED acked
    /\ UNCHANGED <<clock, phase, keyset, rolls, files, reader, unsaved, served>>

\* Bug: only the new statement is written.
PersistLast(a) ==
    /\ admin[a] = "persist"
    /\ admin' = [admin EXCEPT ![a] = "idle"]
    /\ revocation_file' = {keyset}
    /\ acked' = acked \cup {keyset}
    /\ UNCHANGED <<clock, phase, keyset, rolls, epoch_file, statements, reader, unsaved, served>>

\* persist succeeds; the snapshot is all of the statements, for the keyset of
\* this run is the only one added to those loaded.
Persist(a) ==
    /\ admin[a] = "persist"
    /\ admin' = [admin EXCEPT ![a] = "idle"]
    /\ revocation_file' = statements
    /\ acked' = acked \cup {keyset}
    /\ UNCHANGED <<clock, phase, keyset, rolls, epoch_file, statements, reader, unsaved, served>>

\* The write or the rename fails: the call answers 500.
PersistFails(a) ==
    /\ admin[a] = "persist"
    /\ admin' = [admin EXCEPT ![a] = "idle"]
    /\ unsaved' = unsaved \cup {keyset}
    /\ UNCHANGED <<clock, phase, keyset, rolls, files, statements, reader, acked, served>>

\* A revocation that was answered with 200 and reached the file.
Settled == keyset \in acked \ unsaved

\* Bug: the report is built whether or not the keyset is revoked.
ReportUnchecked(r) ==
    /\ phase = "serving"
    /\ reader[r] = "idle"
    /\ reader' = [reader EXCEPT ![r] = IF Settled THEN "late_quote" ELSE "quote"]
    /\ UNCHANGED <<clock, phase, keyset, rolls, files, statements, admin, history>>

\* attestation_report_for_domain checks the revocation, then awaits the quote.
Report(r) ==
    /\ phase = "serving"
    /\ reader[r] = "idle"
    /\ keyset \notin statements
    /\ reader' = [reader EXCEPT ![r] = IF Settled THEN "late_quote" ELSE "quote"]
    /\ UNCHANGED <<clock, phase, keyset, rolls, files, statements, admin, history>>

\* legacy_attestation_report_for_domain awaits the quote without a check.
LegacyReport(r) ==
    /\ phase = "serving"
    /\ reader[r] = "idle"
    /\ reader' = [reader EXCEPT ![r] = "legacy_quote"]
    /\ UNCHANGED <<clock, phase, keyset, rolls, files, statements, admin, history>>

\* assemble_report; the response goes out.
Assemble(r) ==
    /\ reader[r] # "idle"
    /\ reader' = [reader EXCEPT ![r] = "idle"]
    /\ UNCHANGED <<clock, phase, keyset, rolls, files, statements, admin, history>>

\* The process ends; a statement on its way to the file may be lost.
Crash ==
    /\ phase # "down"
    /\ phase' = "down"
    /\ keyset' = None
    /\ rolls' = 0
    /\ statements' = {}
    /\ admin' = [a \in Admins |-> "idle"]
    /\ reader' = [r \in Readers |-> "idle"]
    /\ unsaved' = IF \E a \in Admins : admin[a] = "persist" THEN unsaved \cup {keyset} ELSE unsaved
    /\ UNCHANGED <<clock, files, acked, served>>

Start == (\E material \in Materials : Boot(material)) \/ Resolve \/ Store

Serving ==
    \/ \E a \in Admins : Revoke(a) \/ Persist(a) \/ PersistFails(a)
    \/ \E r \in Readers : Report(r) \/ LegacyReport(r) \/ Assemble(r)

Next == Tick \/ Start \/ Serving \/ Crash

Spec == Init /\ [][Next]_vars

\* A start-up that is not cut short goes on.
FairSpec == Spec /\ WF_vars(Resolve) /\ WF_vars(Store)

-----------------------------------------------------------------------------
\* The variables hold values of their types; only a process that is up has a
\* keyset and calls in progress.
KeysetTypeOK ==
    /\ clock \in Nat
    /\ phase \in {"down", "resolve", "store", "serving"}
    /\ keyset \in Epoch \cup {None}
    /\ phase # "down" => keyset \in Epoch
    /\ rolls \in Nat
    /\ epoch_file \in Epoch \cup {None}
    /\ \A s \in {statements, revocation_file, acked, unsaved, served} : s \subseteq Epoch
    /\ admin \in [Admins -> {"idle", "persist"}]
    /\ reader \in [Readers -> {"idle", "quote", "late_quote", "legacy_quote"}]
    /\ phase # "serving" => /\ \A a \in Admins : admin[a] = "idle"
                            /\ \A r \in Readers : reader[r] = "idle"

\* A keyset version is never used twice: over all restarts, crashes during
\* start-up included, two keysets served under the same version are the same
\* keyset, and the one served now has the highest version of all.  Verifiers
\* that reject a version lower than one they have seen never reject the gateway.
VersionIdentifiesKeyset ==
    /\ \A a, b \in served : a.version = b.version => a = b
    /\ phase = "serving" => \A a \in served : a.version <= keyset.version

\* The gateway starts with a keyset it can serve: whatever was revoked before,
\* the start-up loop has rolled past it when serving begins, although it gives
\* up after a number of rolls.
StartsUnrevoked == [][phase # "serving" /\ phase' = "serving" => keyset' \notin statements']_vars

\* A revocation acknowledged to an operator holds after any number of restarts:
\* the keyset is not served again and stays listed, unless the statement did
\* not reach the file when it was first recorded.
RevocationSticks ==
    /\ acked \ unsaved \subseteq revocation_file \cup statements
    /\ phase = "serving" /\ keyset \in acked \ unsaved => keyset \in statements

\* No ACI report is begun for a keyset after its revocation was acknowledged and
\* saved, whatever restarts and failing writes came in between ("A revoked
\* keyset must stop producing acceptable reports", service/e2ee.rs:43).  The
\* legacy report, which has no such check, is left out.
NoLateReport == \A r \in Readers : reader[r] # "late_quote"

\* The start-up loop ends: the gateway serves, unless the start is cut short.
StartEnds == phase = "resolve" ~> phase \in {"serving", "down"}

=============================================================================
