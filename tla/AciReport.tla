----------------------------- MODULE AciReport -----------------------------
(***************************************************************************)
(* The checks an attestation report of an ACI service goes through before  *)
(* its TLS keys are bound to the service's origin                          *)
(* (src/src/aci/verifier/report.rs, aci_service.rs and dstack.rs).         *)
(*                                                                         *)
(* Digests, statements and the event-log register are the values they are  *)
(* computed from; a signature is its signer and the message it signs.  A   *)
(* field that may be absent is a set with at most one member.  A public    *)
(* key is a point and its encoding, a TLS key digest the generation of the *)
(* upstream's key and its spelling.                                        *)
(***************************************************************************)
EXTENDS Naturals, Sequences, SequencesExt

-----------------------------------------------------------------------------
(* Encodings.                                                              *)

\* A digest that is not 64 hex characters ("short") is refused.
normalize_sha256_hex(spki) == IF spki.form = "short" THEN {} ELSE {spki.gen}

\* Domains are compared without case and trailing dot; a name with a path,
\* port, separator or blank in it is refused.
normalize_tls_domain(domain) ==
    CASE domain \in {"host", "HOST."} -> {"host"}
      [] domain = "elsewhere" -> {"elsewhere"}
      [] OTHER -> {}

\* The host of an origin, if it has one that is a domain.
origin_host_domain(origin) == UNION {normalize_tls_domain(host) : host \in origin.host}

compressed_k256_public_key_hex(key) ==
    IF key.point = "none" THEN {} ELSE {[key EXCEPT !.form = "compressed"]}

Signature(by, message) == [by |-> by, message |-> message]

\* Recovering the signer from another message than the signed one gives some
\* other key.
recover_k256_public_key(message, signature) ==
    [point |-> IF signature.message = message THEN signature.by ELSE "other",
     form |-> "compressed"]

workload_id(identity) == <<"workload", identity>>

workload_keyset_digest(keyset) == <<"keyset", keyset>>

report_data(keyset, nonce) ==
    <<workload_id(keyset.identity), workload_keyset_digest(keyset), nonce>>

keyset_endorsement_payload(keyset) == <<"endorsement", workload_keyset_digest(keyset)>>

verify_keyset_endorsement(identity, payload, signature) ==
    signature = Signature(identity.key.point, payload)

-----------------------------------------------------------------------------
(* The operator's policy.                                                  *)

\* The configured lists without their blank entries, or nothing when they accept
\* no workload or no root.
new_policy(workload_ids, image_digests, roots) ==
    LET policy == [accepted_workload_ids |-> workload_ids \ {<<>>},
                   accepted_image_digests |-> image_digests \ {""},
                   accepted_kms_root_public_keys |->
                        UNION {compressed_k256_public_key_hex(key) : key \in roots}]
    IN  IF /\ \A key \in roots : compressed_k256_public_key_hex(key) # {}
           /\ policy.accepted_workload_ids # {} \/ policy.accepted_image_digests # {}
           /\ policy.accepted_kms_root_public_keys # {}
        THEN {policy}
        ELSE {}

accepts(policy, report) ==
    \/ report.workload_id \in policy.accepted_workload_ids
    \/ report.image_digest \cap policy.accepted_image_digests # {}

-----------------------------------------------------------------------------
(* The identity binding.                                                   *)

EndorsedByIdentity(report) ==
    /\ report.endorsement.algo = report.keyset.identity.algo
    /\ verify_keyset_endorsement(report.keyset.identity,
                                 keyset_endorsement_payload(report.keyset),
                                 report.endorsement.value)

validate_aci_report_binding(report, nonce, now) ==
    /\ report.api_version = "aci/1"
    /\ report.workload_id = workload_id(report.keyset.identity)
    /\ report.keyset_digest = workload_keyset_digest(report.keyset)
    /\ report.report_data = report_data(report.keyset, nonce)
    /\ EndorsedByIdentity(report)
    /\ report.fetched_at <= now /\ now < report.stale_after

-----------------------------------------------------------------------------
(* The hardware quote, the boot events and the custody of the identity key. *)

\* Register `imr` after the events: the chain of their digests.
replay_dstack_rtmr(events, imr) ==
    LET measured == SelectSeq(events, LAMBDA e : e.imr = imr)
    IN  [i \in DOMAIN measured |-> measured[i].digest]

\* Bug: events after the system is ready count as well.
AppIdAnywhere(events) ==
    {e.payload : e \in {e \in ToSet(events) : e.imr = 3 /\ e.event = "app-id"}}

\* The payload of the first app-id event before the system is ready, if any.
AppId(events) ==
    LET ready == {i \in DOMAIN events : events[i].imr = 3 /\ events[i].event = "system-ready"}
        ids == {i \in DOMAIN events : /\ events[i].imr = 3 /\ events[i].event = "app-id"
                                      /\ \A j \in ready : i < j}
    IN  {events[i].payload : i \in {i \in ids : \A j \in ids : i <= j}}

\* The attested application of an event log that reproduces the quote's
\* register, which only a TDX quote has.
verify_dstack_event_log_and_app_id(evidence, quote) ==
    UNION {AppId(events) : events \in {events \in evidence.event_log :
        /\ quote.tee = "tdx"
        /\ replay_dstack_rtmr(events, 3) = quote.rtmr3}}

\* The first custody entry of the identity role.
IdentityCustody(custody) ==
    {custody.keys[i] : i \in {i \in DOMAIN custody.keys :
        /\ custody.keys[i].role = "identity"
        /\ \A j \in 1..(i - 1) : custody.keys[j].role # "identity"}}

\* The chain names the key of the report's own identity, leads through an
\* application key of `app_id`, and ends in an accepted root.
verify_dstack_kms_identity_custody(report, app_id, policy) ==
    \E custody \in report.evidence.key_custody :
        /\ custody.provider = "dstack-kms"
        /\ \E identity \in IdentityCustody(custody) :
            /\ identity.public_key = report.keyset.identity.key
            /\ Len(identity.signature_chain) = 2
            /\ \E key \in compressed_k256_public_key_hex(identity.public_key) :
                LET app_key == recover_k256_public_key(<<identity.purpose, key>>,
                                                       identity.signature_chain[1])
                IN  recover_k256_public_key(<<"dstack-kms-issued", app_id, app_key>>,
                                            identity.signature_chain[2])
                        \in policy.accepted_kms_root_public_keys

\* What is checked of the report once the quote's collateral is there.
verify_dcap_quote(report, policy) ==
    \E quote \in report.evidence.quote :
        /\ quote.genuine
        /\ report.tee_type = quote.tee
        /\ report.evidence.quote_report_data \subseteq {quote.report_data}
        /\ quote.report_data = report.report_data
        /\ \E app_id \in verify_dstack_event_log_and_app_id(report.evidence, quote) :
                verify_dstack_kms_identity_custody(report, app_id, policy)

-----------------------------------------------------------------------------
(* The TLS keys.                                                           *)

\* The one binding of the report's own choosing, normalized.
selected_downstream_tls_binding(evidence) ==
    UNION {{[domain |-> d, spki |-> s] : d \in normalize_tls_domain(b.domain),
                                         s \in normalize_sha256_hex(b.spki)}
              : b \in evidence.downstream_tls_binding}

Scoped(key) == key.domain # {}

\* The key digests bound to the origin: all keys when none is for a domain;
\* otherwise the selected one, if it is for the origin's host and the keyset
\* has it there, no unreadable key before it.  Empty: the report is refused.
aci_report_tls_channel_bindings(report, origin) ==
    LET keys == report.keyset.tls_public_keys
        readable(i) == /\ normalize_sha256_hex(keys[i].spki) # {}
                       /\ \A d \in keys[i].domain : normalize_tls_domain(d) # {}
        matches(i, b) == /\ b.spki \in normalize_sha256_hex(keys[i].spki)
                         /\ \E d \in keys[i].domain : b.domain \in normalize_tls_domain(d)
    IN  IF \A i \in DOMAIN keys : ~Scoped(keys[i])
        THEN IF \A i \in DOMAIN keys : readable(i)
             THEN UNION {normalize_sha256_hex(keys[i].spki) : i \in DOMAIN keys}
             ELSE {}
        ELSE {b.spki : b \in {b \in selected_downstream_tls_binding(report.evidence) :
                /\ b.domain \in origin_host_domain(origin)
                /\ \E i \in DOMAIN keys :
                    /\ matches(i, b)
                    /\ \A j \in 1..i : Scoped(keys[j]) => readable(j)}}

=============================================================================
