---------------------------- MODULE KeysetProofs ----------------------------
(***************************************************************************)
(* Proofs about the keyset lifecycle, for any key material, window, number *)
(* of operators and number of restarts.                                    *)
(*                                                                         *)
(* What makes the properties inductive: only keysets that were served are  *)
(* ever revoked, every keyset served is in the epoch file or has a lower   *)
(* version than the one there, and the keyset a start-up resolves is the   *)
(* one in the file or has a higher version.  So one roll gets past every   *)
(* revocation, and the bound on the rolls is never what ends the loop.     *)
(* Of the statements: those in the file are loaded at every start, and one *)
(* that is acknowledged is in the file, unsaved, or on its way to it.      *)
(***************************************************************************)
EXTENDS KeysetLifecycle, FiniteSetTheorems, TLAPS

\* The keyset of a revocation on its way to the file.
Pending == IF \E a \in Admins : admin[a] = "persist" THEN {keyset} ELSE {}

\* What was served, and how it relates to the epoch file.
ServedInv ==
    /\ served # {} => epoch_file \in Epoch
    /\ \A a \in served : a = epoch_file \/ a.version < epoch_file.version
    /\ \A a, b \in served : a.version = b.version => a = b

\* What start-up has resolved, or the process serves.
PhaseInv ==
    /\ phase = "serving" => keyset = epoch_file /\ keyset \in served
    /\ phase \in {"resolve", "store"} =>
            epoch_file = None \/ keyset = epoch_file \/ keyset.version > epoch_file.version
    /\ phase = "resolve" => rolls > 0 \/ keyset \notin statements
    /\ phase = "store" => keyset \notin statements

\* Where the statements are.
RevokedInv ==
    /\ statements \subseteq served
    /\ revocation_file \subseteq served
    /\ IsFiniteSet(statements)
    /\ IsFiniteSet(revocation_file)
    /\ phase # "down" => revocation_file \subseteq statements
    /\ statements \subseteq revocation_file \cup unsaved \cup Pending
    /\ acked \subseteq revocation_file \cup unsaved \cup Pending
    /\ Pending \subseteq statements

\* The inductive invariant.
KeysetInv == KeysetTypeOK /\ ServedInv /\ PhaseInv /\ RevokedInv /\ NoLateReport

USE KeysetAssumption

\* The epochs the start-up computes.
LEMMA FreshTyped ==
    ASSUME NEW v \in Nat, NEW now \in Nat, NEW m \in Materials
    PROVE  Fresh(v, now, m) \in Epoch /\ Fresh(v, now, m).version = v
  BY DEF Fresh, Epoch

\* The inductive invariant holds before the first start.
LEMMA InitHolds == Init => KeysetInv
<1> SUFFICES ASSUME Init PROVE KeysetInv
  OBVIOUS
<1>1. IsFiniteSet({})
  BY FS_EmptySet
<1> QED BY <1>1 DEF Init, KeysetInv, KeysetTypeOK, ServedInv, PhaseInv, RevokedInv, Pending,
                   NoLateReport

\* Reading the two files at start-up keeps the invariant.
LEMMA BootKeeps ==
    ASSUME KeysetInv, NEW m \in Materials, Boot(m)
    PROVE  KeysetInv'
<1> USE DEF KeysetInv, NoLateReport, Boot, files, history
<1>1. Cardinality(revocation_file) \in Nat
  BY FS_CardinalityType DEF RevokedInv
<1>2. /\ keyset' \in Epoch
      /\ epoch_file = None \/ keyset' = epoch_file \/ keyset'.version > epoch_file.version
  <2>1. CASE epoch_file = None
    BY <2>1, FreshTyped DEF resolve_epoch, KeysetTypeOK
  <2>2. CASE epoch_file # None
    <3>1. epoch_file \in Epoch /\ epoch_file.version \in Nat
      BY <2>2 DEF KeysetTypeOK, Epoch
    <3> QED BY <2>2, <3>1, FreshTyped DEF resolve_epoch, KeysetTypeOK
  <2> QED BY <2>1, <2>2
<1>3. \A a \in Admins : admin[a] = "idle"
  BY DEF KeysetTypeOK
<1>4. Pending = {} /\ Pending' = {}
  BY <1>3 DEF Pending
<1>5. KeysetTypeOK'
  BY <1>1, <1>2, <1>3 DEF KeysetTypeOK
<1>6. ServedInv' /\ PhaseInv' /\ RevokedInv'
  BY <1>1, <1>2, <1>4 DEF ServedInv, PhaseInv, RevokedInv
<1> QED BY <1>5, <1>6

\* A turn of the start-up loop keeps it: a roll gets past every revocation.
LEMMA ResolveKeeps ==
    ASSUME KeysetInv, Resolve
    PROVE  KeysetInv'
<1> USE DEF KeysetInv, NoLateReport, Resolve, files, history
<1>1. \A a \in Admins : admin[a] = "idle"
  BY DEF KeysetTypeOK
<1>2. Pending = {} /\ Pending' = {}
  BY <1>1 DEF Pending
<1>3. CASE rolls = 0 \/ keyset \notin statements
  <2>1. phase' = "store" /\ keyset' = keyset /\ rolls' = rolls /\ keyset \notin statements
    BY <1>3 DEF PhaseInv, KeysetTypeOK
  <2>2. KeysetTypeOK'
    BY <2>1 DEF KeysetTypeOK
  <2> QED BY <1>2, <2>1, <2>2 DEF ServedInv, PhaseInv, RevokedInv
<1>4. CASE ~(rolls = 0 \/ keyset \notin statements)
  <2>1. /\ phase' = "resolve" /\ keyset' = roll_forward(keyset, clock)
        /\ rolls' = rolls - 1 /\ rolls - 1 \in Nat
    BY <1>4 DEF KeysetTypeOK
  <2>2. keyset \in Epoch /\ keyset.version \in Nat /\ keyset.material \in Materials
    BY DEF KeysetTypeOK, Epoch
  <2>3. keyset' \in Epoch /\ keyset'.version = keyset.version + 1
    BY <2>1, <2>2, FreshTyped DEF roll_forward, KeysetTypeOK
  <2>4. keyset \in served
    BY <1>4 DEF RevokedInv
  <2>5. epoch_file \in Epoch /\ epoch_file.version \in Nat /\ keyset = epoch_file
    <3>1. epoch_file \in Epoch /\ epoch_file # None /\ epoch_file.version \in Nat
      BY <2>4 DEF ServedInv, Epoch
    <3> QED BY <2>2, <2>4, <3>1 DEF ServedInv, PhaseInv
  <2>6. \A a \in statements : a.version <= epoch_file.version
    BY <2>5 DEF RevokedInv, ServedInv, KeysetTypeOK, Epoch
  <2>7. keyset' \notin statements
    BY <2>3, <2>5, <2>6
  <2>8. KeysetTypeOK'
    BY <2>1, <2>3 DEF KeysetTypeOK
  <2> QED BY <1>2, <2>1, <2>3, <2>5, <2>7, <2>8 DEF ServedInv, PhaseInv, RevokedInv
<1> QED BY <1>3, <1>4

\* Writing the epoch file and beginning to serve keeps it.
LEMMA StoreKeeps ==
    ASSUME KeysetInv, Store
    PROVE  KeysetInv'
<1> USE DEF KeysetInv, NoLateReport, Store
<1>1. \A a \in Admins : admin[a] = "idle"
  BY DEF KeysetTypeOK
<1>2. Pending = {} /\ Pending' = {}
  BY <1>1 DEF Pending
<1>3. keyset \in Epoch /\ keyset.version \in Nat
  BY DEF KeysetTypeOK, Epoch
<1>4. \A a \in served : a = keyset \/ a.version < keyset.version
  <2> SUFFICES ASSUME NEW a \in served PROVE a = keyset \/ a.version < keyset.version
    OBVIOUS
  <2>1. epoch_file \in Epoch /\ epoch_file # None /\ epoch_file.version \in Nat
    BY DEF ServedInv, Epoch
  <2>2. a \in Epoch /\ a.version \in Nat
    BY DEF KeysetTypeOK, Epoch
  <2> QED BY <1>3, <2>1, <2>2 DEF ServedInv, PhaseInv
<1>5. KeysetTypeOK'
  BY <1>3 DEF KeysetTypeOK
<1>6. ServedInv'
  <2>1. \A a \in served' : a = keyset \/ a.version < keyset.version
    BY <1>4
  <2>2. \A a, b \in served' : a.version = b.version => a = b
    BY <1>3, <1>4 DEF ServedInv
  <2> QED BY <1>3, <2>1, <2>2 DEF ServedInv
<1>7. PhaseInv' /\ RevokedInv'
  BY <1>2 DEF PhaseInv, RevokedInv
<1> QED BY <1>5, <1>6, <1>7

\* Recording a revocation in memory keeps it.
LEMMA RevokeKeeps ==
    ASSUME KeysetInv, NEW a \in Admins, Revoke(a)
    PROVE  KeysetInv'
<1> USE DEF KeysetInv, NoLateReport, Revoke, files
<1>1. keyset \in served /\ keyset \in Epoch
  BY DEF PhaseInv, KeysetTypeOK
<1>2. CASE keyset \in statements
  <2>1. KeysetTypeOK'
    BY <1>1, <1>2 DEF KeysetTypeOK
  <2>2. Pending' = Pending
    BY <1>2 DEF Pending
  <2> QED BY <1>1, <1>2, <2>1, <2>2 DEF ServedInv, PhaseInv, RevokedInv
<1>3. CASE keyset \notin statements
  <2>1. KeysetTypeOK'
    BY <1>1, <1>3 DEF KeysetTypeOK
  <2>2. Pending' = {keyset} /\ Pending \subseteq {keyset}
    BY <1>3 DEF Pending, KeysetTypeOK
  <2>3. IsFiniteSet(statements')
    BY <1>3, FS_AddElement DEF RevokedInv
  <2> QED BY <1>1, <1>3, <2>1, <2>2, <2>3 DEF ServedInv, PhaseInv, RevokedInv
<1> QED BY <1>2, <1>3

\* When a statement is on its way to the file, so is the keyset of the process.
LEMMA PendingIs ==
    ASSUME KeysetInv, NEW a \in Admins, admin[a] = "persist"
    PROVE  Pending = {keyset} /\ phase = "serving" /\ keyset \in Epoch
  BY DEF KeysetInv, KeysetTypeOK, Pending

\* Writing the statements to the file keeps it.
LEMMA PersistKeeps ==
    ASSUME KeysetInv, NEW a \in Admins, Persist(a)
    PROVE  KeysetInv'
<1> USE DEF KeysetInv, NoLateReport, Persist
<1>1. Pending = {keyset} /\ phase = "serving" /\ keyset \in Epoch
  BY PendingIs
<1>2. Pending' \subseteq {keyset}
  BY DEF Pending
<1>3. KeysetTypeOK'
  BY <1>1 DEF KeysetTypeOK
<1> QED BY <1>1, <1>2, <1>3 DEF ServedInv, PhaseInv, RevokedInv

\* A write that fails keeps it: the keyset is then counted as unsaved.
LEMMA PersistFailsKeeps ==
    ASSUME KeysetInv, NEW a \in Admins, PersistFails(a)
    PROVE  KeysetInv'
<1> USE DEF KeysetInv, NoLateReport, PersistFails, files
<1>1. Pending = {keyset} /\ phase = "serving" /\ keyset \in Epoch
  BY PendingIs
<1>2. Pending' \subseteq {keyset}
  BY DEF Pending
<1>3. KeysetTypeOK'
  BY <1>1 DEF KeysetTypeOK
<1> QED BY <1>1, <1>2, <1>3 DEF ServedInv, PhaseInv, RevokedInv

\* Report requests only read.
LEMMA ReaderKeeps ==
    ASSUME KeysetInv, NEW r \in Readers, Report(r) \/ LegacyReport(r) \/ Assemble(r)
    PROVE  KeysetInv'
<1> USE DEF KeysetInv, Report, LegacyReport, Assemble, files, history
<1>1. KeysetTypeOK'
  BY DEF KeysetTypeOK
<1>2. Pending' = Pending
  BY DEF Pending
<1>3. phase = "serving" /\ Settled => keyset \in statements
  BY DEF Settled, RevokedInv
<1>4. NoLateReport'
  BY <1>3 DEF NoLateReport, KeysetTypeOK
<1> QED BY <1>1, <1>2, <1>4 DEF ServedInv, PhaseInv, RevokedInv

\* A crash keeps it: what was on its way to the file is counted as unsaved.
LEMMA CrashKeeps ==
    ASSUME KeysetInv, Crash
    PROVE  KeysetInv'
<1> USE DEF KeysetInv, NoLateReport, Crash, files
<1>1. Pending' = {}
  BY DEF Pending
<1>2. unsaved' = unsaved \cup Pending
  BY DEF Pending
<1>3. Pending \subseteq Epoch
  BY DEF Pending, KeysetTypeOK
<1>4. KeysetTypeOK'
  BY <1>2, <1>3 DEF KeysetTypeOK
<1>5. IsFiniteSet({})
  BY FS_EmptySet
<1> QED BY SMTT(30), <1>1, <1>2, <1>4, <1>5 DEF ServedInv, PhaseInv, RevokedInv

\* Time passing, or nothing happening.
LEMMA IdleKeeps ==
    ASSUME KeysetInv, Tick \/ UNCHANGED vars
    PROVE  KeysetInv'
<1> USE DEF KeysetInv, NoLateReport, Tick, vars, files, history
<1>1. KeysetTypeOK'
  BY DEF KeysetTypeOK
<1>2. Pending' = Pending
  BY DEF Pending
<1> QED BY <1>1, <1>2 DEF ServedInv, PhaseInv, RevokedInv

\* Every step keeps the inductive invariant.
LEMMA NextKeeps == KeysetInv /\ [Next]_vars => KeysetInv'
  BY BootKeeps, ResolveKeeps, StoreKeeps, RevokeKeeps, PersistKeeps, PersistFailsKeeps,
     ReaderKeeps, CrashKeeps, IdleKeeps DEF Next, Start, Serving

\* The inductive invariant holds of every behaviour.
THEOREM KeysetInvariant == Spec => []KeysetInv
<1>1. Init => KeysetInv
  BY InitHolds
<1>2. KeysetInv /\ [Next]_vars => KeysetInv'
  BY NextKeeps
<1> QED BY <1>1, <1>2, PTL DEF Spec

\* The keyset lifecycle is well typed.
THEOREM KeysetTypeCorrect == Spec => []KeysetTypeOK
<1>1. KeysetInv => KeysetTypeOK
  BY DEF KeysetInv
<1> QED BY <1>1, KeysetInvariant, PTL

\* resolve_launcher_epoch never gives two keysets the same version, and never
\* serves a version lower than one served before.
THEOREM VersionsIdentifyKeysets == Spec => []VersionIdentifiesKeyset
<1>1. KeysetInv => VersionIdentifiesKeyset
  <2> SUFFICES ASSUME KeysetInv PROVE VersionIdentifiesKeyset
    OBVIOUS
  <2>1. ASSUME phase = "serving", NEW a \in served PROVE a.version <= keyset.version
    <3>1. a.version \in Nat /\ keyset.version \in Nat /\ keyset = epoch_file
      BY <2>1 DEF KeysetInv, KeysetTypeOK, PhaseInv, Epoch
    <3> QED BY <3>1 DEF KeysetInv, ServedInv
  <2> QED BY <2>1 DEF KeysetInv, ServedInv, VersionIdentifiesKeyset
<1> QED BY <1>1, KeysetInvariant, PTL

\* A revocation that reached the file when it was recorded holds after any
\* number of restarts.
THEOREM RevocationsStick == Spec => []RevocationSticks
<1>1. KeysetInv => RevocationSticks
  BY DEF KeysetInv, PhaseInv, RevokedInv, RevocationSticks
<1> QED BY <1>1, KeysetInvariant, PTL

\* attestation_report_for_domain never reports a keyset whose revocation was
\* acknowledged and saved before the request.
THEOREM NoReportAfterRevocation == Spec => []NoLateReport
<1>1. KeysetInv => NoLateReport
  BY DEF KeysetInv
<1> QED BY <1>1, KeysetInvariant, PTL

\* The gateway never starts serving with a keyset that is revoked: one roll of
\* the start-up loop is always enough.
THEOREM AlwaysStartsUnrevoked == Spec => StartsUnrevoked
<1>1. KeysetInv /\ [Next]_vars =>
        [phase # "serving" /\ phase' = "serving" => keyset' \notin statements']_vars
  <2> SUFFICES ASSUME KeysetInv, Next, phase # "serving", phase' = "serving"
               PROVE  keyset' \notin statements'
    BY DEF vars
  <2>1. Store
    BY SMTT(30) DEF Next, Start, Serving, Tick, Boot, Resolve, Revoke, Persist, PersistFails, Report,
           LegacyReport, Assemble, Crash
  <2> QED BY <2>1 DEF Store, KeysetInv, PhaseInv
<1> QED BY <1>1, KeysetInvariant, PTL DEF Spec, StartsUnrevoked

=============================================================================
