---------------------------- MODULE AciEvidence ----------------------------
(***************************************************************************)
(* The attestation reports ACI services give in a model of their           *)
(* verification, and the operator's policy they are held against.  An      *)
(* honest report binds the verifier's nonce and the generation of the TLS  *)
(* key the service has when it produces it; the others deviate from one in *)
(* a single thing.                                                         *)
(***************************************************************************)
EXTENDS AciReport

CONSTANTS
    Timeout,        \* request_timeout_seconds
    Lifetimes,      \* how long services declare their reports fresh
    MaxRotations,   \* bound on the key rotations of the service
    MaxClock        \* bound on time

Origin == [host |-> {"host"}]

Identity(point) ==
    [algo |-> "secp256k1", key |-> [point |-> point, form |-> "uncompressed"]]

\* The operator's policy accepts one workload by its identity, and any that
\* runs one image.
Policy ==
    CHOOSE policy \in new_policy({<<>>, workload_id(Identity("w1"))}, {"", "image"},
                                 {[point |-> "root", form |-> "uncompressed"]}) : TRUE

\* Keysets with generation `gen` of the service's TLS key: for any domain, and
\* for its host beside another's.
Unscoped(gen) ==
    [identity |-> Identity("w1"),
     tls_public_keys |-> <<[domain |-> {}, spki |-> [gen |-> gen, form |-> "lower"]]>>]

OtherSpki == [gen |-> MaxRotations + 1, form |-> "lower"]

PerDomain(gen) ==
    [identity |-> Identity("w2"),
     tls_public_keys |-> <<[domain |-> {"elsewhere"}, spki |-> OtherSpki],
                           [domain |-> {"HOST."}, spki |-> [gen |-> gen, form |-> "upper"]]>>]

BootEvents ==
    <<[imr |-> 0, digest |-> "d0", event |-> "app-id", payload |-> "firmware"],
      [imr |-> 3, digest |-> "d1", event |-> "app-id", payload |-> "app"],
      [imr |-> 3, digest |-> "d2", event |-> "system-ready", payload |-> ""]>>

Custody(key, root) ==
    [provider |-> "dstack-kms",
     keys |-> <<[role |-> "receipt", public_key |-> key, purpose |-> "receipt",
                 signature_chain |-> <<>>],
                [role |-> "identity", public_key |-> key, purpose |-> "identity",
                 signature_chain |->
                    <<Signature("appkey", <<"identity", [key EXCEPT !.form = "compressed"]>>),
                      Signature(root, <<"dstack-kms-issued", "app",
                                        [point |-> "appkey", form |-> "compressed"]>>)>>]>>]

\* What a service (another instance of this gateway) assembles for `nonce` over
\* its `keyset` at `at`, fresh for `life`.
ReportOver(keyset, nonce, at, life) ==
    [api_version |-> "aci/1", tee_type |-> "tdx", keyset |-> keyset, image_digest |-> {"image"},
     workload_id |-> workload_id(keyset.identity),
     keyset_digest |-> workload_keyset_digest(keyset),
     report_data |-> report_data(keyset, nonce),
     endorsement |-> [algo |-> keyset.identity.algo,
                      value |-> Signature(keyset.identity.key.point,
                                          keyset_endorsement_payload(keyset))],
     fetched_at |-> at, stale_after |-> at + life,
     evidence |->
        [quote |-> {[genuine |-> TRUE, tee |-> "tdx", report_data |-> report_data(keyset, nonce),
                     rtmr3 |-> <<"d1", "d2">>]},
         quote_report_data |-> {report_data(keyset, nonce)},
         event_log |-> {BootEvents},
         key_custody |-> {Custody(keyset.identity.key, "root")},
         downstream_tls_binding |->
            {[domain |-> "host",
              spki |-> keyset.tls_public_keys[Len(keyset.tls_public_keys)].spki]}]]

HonestReports(gen, at) ==
    UNION {{[ReportOver(Unscoped(gen), "this", at, life) EXCEPT !.image_digest = {}],
            ReportOver(PerDomain(gen), "this", at, life)} : life \in Lifetimes}

\* Reports with one thing wrong: another version, identity, keyset or image, a
\* clock ahead, incomplete or mismatching evidence, another key authority, a
\* binding for another host or of no key.
FaultyReports(gen, at) ==
    LET r == ReportOver(PerDomain(gen), "this", at, Timeout + 1)
        q == CHOOSE q \in r.evidence.quote : TRUE
        other == Unscoped(gen)
    IN  {[r EXCEPT !.api_version = "aci/2"],
         [r EXCEPT !.workload_id = workload_id(other.identity)],
         [r EXCEPT !.keyset_digest = workload_keyset_digest(other)],
         [r EXCEPT !.endorsement.algo = "ed25519"],
         [r EXCEPT !.endorsement.value = Signature("w2", keyset_endorsement_payload(other))],
         [r EXCEPT !.fetched_at = @ + Timeout + 1, !.stale_after = @ + Timeout + 1],
         [r EXCEPT !.image_digest = {"older"}],
         [r EXCEPT !.evidence.quote = {}],
         [r EXCEPT !.evidence.quote = {[q EXCEPT !.genuine = FALSE]}],
         [r EXCEPT !.evidence.quote = {[q EXCEPT !.tee = "sgx"]}],
         [r EXCEPT !.evidence.quote = {[q EXCEPT !.report_data = report_data(other, "this")]}],
         [r EXCEPT !.evidence.quote_report_data = {report_data(other, "this")}],
         [r EXCEPT !.evidence.event_log = {}],
         [r EXCEPT !.evidence.event_log = {SubSeq(BootEvents, 1, 2)}],
         [r EXCEPT !.evidence.event_log = {<<BootEvents[3], BootEvents[2]>>},
                   !.evidence.quote = {[q EXCEPT !.rtmr3 = <<"d2", "d1">>]}],
         [r EXCEPT !.evidence.key_custody = {}],
         [r EXCEPT !.evidence.key_custody = {Custody(r.keyset.identity.key, "another")}],
         [r EXCEPT !.evidence.key_custody = {Custody(other.identity.key, "root")}],
         [r EXCEPT !.evidence.downstream_tls_binding =
                {[domain |-> "elsewhere", spki |-> OtherSpki]}],
         [r EXCEPT !.evidence.downstream_tls_binding =
                {[domain |-> "host", spki |-> OtherSpki]}]}

\* Reports that answer an earlier request, of any generation served so far.
EarlierReports(gen) ==
    {ReportOver(PerDomain(g), "earlier", 0, MaxClock + 1) : g \in 0..gen}

Reports(gen, at) == HonestReports(gen, at) \cup FaultyReports(gen, at) \cup EarlierReports(gen)

=============================================================================
