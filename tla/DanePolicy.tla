----------------------------- MODULE DanePolicy -----------------------------
(* TLSA records against a certificate chain, and the evidence a certificate  *)
(* may carry for itself: hns-dane.  A certificate is a record of what the    *)
(* policy reads from its DER: [name, key, whole, cas, trusted, proofs,       *)
(* chains], where whole says that the DER walks, cas are the intermediates,  *)
(* trusted is the verdict of WebPKI, and proofs and chains are the values of *)
(* its two HIP-17 extensions.  A digest stands for what it is taken of.      *)

EXTENDS Naturals, Sequences, FiniteSets, SequencesExt

CONSTANTS MaxRoots,      \* MAX_STATELESS_DANE_ROOTS
          MaxProofs,     \* MAX_STATELESS_DANE_PROOFS
          DaneNow        \* the second at which certificates are looked at

Ok(value) == [ok |-> TRUE, value |-> value]
Err(error) == [ok |-> FALSE, error |-> error]

Usages == <<"PkixTa", "PkixEe", "DaneTa", "DaneEe">>
Selectors == <<"FullCertificate", "SubjectPublicKeyInfo">>
Matchings == <<"Exact", "Sha256", "Sha512">>

\* TlsaRecord::parse_rdata, on the three leading bytes and the association.
ParseRdata(rdata) ==
    IF rdata.len < 3 THEN Err("ShortRecord")
    ELSE IF rdata.usage \notin 0..3 THEN Err("UnsupportedUsage")
    ELSE IF rdata.selector \notin 0..1 THEN Err("UnsupportedSelector")
    ELSE IF rdata.matching \notin 0..2 THEN Err("UnsupportedMatching")
    ELSE Ok([usage |-> Usages[rdata.usage + 1], selector |-> Selectors[rdata.selector + 1],
             matching |-> Matchings[rdata.matching + 1], association |-> rdata.association])

\* The bytes a record selects and the form in which it holds them.
Selected(record, der, spki) ==
    <<record.matching, IF record.selector = "FullCertificate" THEN der ELSE spki>>
MatchesDer(record, der, spki) == record.association = Selected(record, der, spki)

IsEeUsage(record) == record.usage \in {"PkixEe", "DaneEe"}
IsPkixUsage(record) == record.usage \in {"PkixTa", "PkixEe"}

\* extract_spki_der.
ExtractSpkiDer(cert) == IF cert.whole THEN Ok(cert.key) ELSE Err("MalformedCertificate")

\* record_matches_certificate: an intermediate, whose key is read only if the
\* record selects it.
RecordMatchesCertificate(record, ca) ==
    IF record.selector = "FullCertificate" THEN Ok(MatchesDer(record, ca.name, "empty"))
    ELSE LET spki == ExtractSpkiDer(ca)
         IN  IF spki.ok THEN Ok(MatchesDer(record, ca.name, spki.value)) ELSE spki

\* record_matches_chain: the first intermediate that matches or cannot be read.
RecordMatchesChain(record, cert, spki) ==
    IF IsEeUsage(record) THEN Ok(MatchesDer(record, cert.name, spki))
    ELSE LET verdict(i) == RecordMatchesCertificate(record, cert.cas[i])
             decisive == {i \in 1..Len(cert.cas) : ~verdict(i).ok \/ verdict(i).value}
         IN  IF decisive = {} THEN Ok(FALSE)
             ELSE verdict(CHOOSE i \in decisive : \A j \in decisive : i =< j)

\* evaluate_tlsa_for_chain: records are tried in order; a PKIX match that WebPKI
\* does not support is remembered and passed over.
Passed(record, verdict, webpki) ==
    verdict.ok /\ (~verdict.value \/ (IsPkixUsage(record) /\ webpki # "Valid"))
FirstMatch(records, verdicts, webpki) ==
    LET decisive == {i \in 1..Len(records) : ~Passed(records[i], verdicts[i], webpki)}
        Settled(i) == IF verdicts[i].ok THEN Ok([kind |-> "Matched", usage |-> records[i].usage])
                      ELSE verdicts[i]
    IN  IF decisive # {} THEN Settled(CHOOSE i \in decisive : \A j \in decisive : i =< j)
        ELSE IF \E i \in 1..Len(records) : verdicts[i].value THEN Err("WebPkiFailed")
        ELSE Ok([kind |-> "Failed"])
EvaluateTlsaForChain(records, cert, spki, webpki) ==
    FirstMatch(records, [i \in 1..Len(records) |-> RecordMatchesChain(records[i], cert, spki)],
               webpki)

\* evaluate_no_tlsa_policy.
EvaluateNoTlsaPolicy(mode, webpki) ==
    IF mode = "HnsStrict" THEN Err("MissingRequiredTlsa")
    ELSE IF webpki = "Valid" THEN Ok([kind |-> "WebPkiFallback"])
    ELSE IF webpki = "Invalid" THEN Err("WebPkiFailed")
    ELSE Ok([kind |-> "NoTlsa"])

\* evaluate_policy_with_certificate_chain.
EvaluatePolicy(mode, secure, records, cert, webpki) ==
    LET needsKey == \E i \in 1..Len(records) :
                        records[i].selector = "SubjectPublicKeyInfo" /\ IsEeUsage(records[i])
        With(spki) ==
            IF ~spki.ok THEN spki
            ELSE IF records = << >> THEN EvaluateNoTlsaPolicy(mode, webpki)
            ELSE IF ~secure THEN Err("InsecureTlsa")
            ELSE EvaluateTlsaForChain(records, cert, spki.value, webpki)
    IN  With(IF needsKey THEN ExtractSpkiDer(cert) ELSE Ok("empty"))

------------------------------------------------------------------------------
(* Stateless DANE.  An Urkel extension value is [whole, list], a list of     *)
(* [root, whole, key, kind, proves, value] with value [name, whole, ds]: the *)
(* resource of a name under a root.  A chain value is [whole, records], the  *)
(* records being [owner, type, ...].                                         *)

RecordsFor(records, owner, type) ==
    SelectSeq(records, LAMBDA r : r.owner = owner /\ r.type = type)
RrsigRecordsFor(records, owner, covered) ==
    SelectSeq(records, LAMBDA r : r.owner = owner /\ r.type = "Rrsig" /\ r.covered = covered)

\* _port._tcp.host, and the name a Handshake host ends in.
ServiceName(port, host) == <<"tcp", port, host>>
HnsRootLabel(host) == <<Last(host)>>

\* parse_stateless_urkel_proofs.
ParseStatelessUrkelProofs(value) ==
    IF value.whole /\ Len(value.list) \in 1..MaxProofs THEN Ok(value.list)
    ELSE Err("MalformedCertificateEvidence")

\* parse_rfc9102_authentication_chain.
ParseAuthenticationChain(value) ==
    IF value.whole /\ value.records # << >> THEN Ok(value.records)
    ELSE Err("MalformedCertificateEvidence")

\* A signature by one of the keys over just these records, in its validity period.
SignedBy(rrsigs, keys, rrset) ==
    \E i \in 1..Len(rrsigs) : /\ rrsigs[i].key \in keys
                              /\ rrsigs[i].over = ToSet(rrset)
                              /\ rrsigs[i].from =< DaneNow /\ DaneNow =< rrsigs[i].until

\* validate_direct_dnssec_tlsa_chain.
ValidateDirectChain(rootOwner, service, ds, records) ==
    LET dnskeys == RecordsFor(records, rootOwner, "Dnskey")
        keySigs == RrsigRecordsFor(records, rootOwner, "Dnskey")
        tlsaSigs == RrsigRecordsFor(records, service, "Tlsa")
        keys == {dnskeys[i].key : i \in 1..Len(dnskeys)}
    IN  /\ dnskeys # << >> /\ keySigs # << >> /\ tlsaSigs # << >>
        /\ SignedBy(keySigs, keys \intersect ds, dnskeys)
        /\ SignedBy(tlsaSigs, keys, RecordsFor(records, service, "Tlsa"))

\* extract_name_state_resource_value and the decoding of the resource's DS set.
ResourceDs(rootName, value) ==
    IF value.name # rootName THEN Err("InvalidCertificateEvidence")
    ELSE IF ~value.whole THEN Err("MalformedCertificateEvidence")
    ELSE IF value.ds = {} THEN Err("UnsupportedCertificateEvidence")
    ELSE Ok(value.ds)

Missing == Ok([found |-> FALSE])
Evidence(tlsa) == Ok([found |-> TRUE, records |-> tlsa])

\* The outcome of the loop's body for one proof, or Err("next") to continue.
TryProof(proof, roots, rootName, service, records) ==
    IF proof.root \notin roots THEN Err("next")
    ELSE IF ~proof.whole THEN Err("MalformedCertificateEvidence")
    ELSE IF proof.kind # "Inclusion" \/ proof.key # rootName \/ ~proof.proves THEN Err("next")
    ELSE LET ds == ResourceDs(rootName, proof.value)
             rrset == RecordsFor(records, service, "Tlsa")
             bad == {i \in 1..Len(rrset) : ~ParseRdata(rrset[i].rdata).ok}
         IN  IF ~ds.ok THEN ds
             ELSE IF ~ValidateDirectChain(rootName, service, ds.value, records)
             THEN Err("InvalidCertificateDnssec")
             ELSE IF bad # {} THEN ParseRdata(rrset[CHOOSE i \in bad : \A j \in bad : i =< j].rdata)
             ELSE Evidence([i \in 1..Len(rrset) |-> ParseRdata(rrset[i].rdata).value])

MutantEvaluateStateless(cert, host, port, roots) ==
    IF cert.chains = << >> THEN Missing
    ELSE LET all == cert.chains[1].records
             tlsa == SelectSeq(all, LAMBDA r : r.type = "Tlsa")
             rdata(i) == ParseRdata(tlsa[i].rdata)
         IN  IF tlsa = << >> \/ \E i \in 1..Len(tlsa) : ~rdata(i).ok
             THEN Err("MissingCertificateTlsa")
             ELSE Evidence([i \in 1..Len(tlsa) |-> rdata(i).value])

\* evaluate_stateless_dane_certificate: Missing or the TLSA records that the
\* certificate's own evidence establishes for this host and port.
EvaluateStateless(cert, host, port, roots) ==
    LET service == ServiceName(port, host)
        rootName == HnsRootLabel(host)
        proofs == ParseStatelessUrkelProofs(cert.proofs[1])
        records == ParseAuthenticationChain(cert.chains[1])
        try(i) == TryProof(proofs.value[i], roots, rootName, service, records.value)
        decisive == {i \in 1..Len(proofs.value) : try(i) # Err("next")}
    IN  IF ~cert.whole THEN Err("MalformedCertificate")
        ELSE IF cert.proofs = << >> /\ cert.chains = << >> THEN Missing
        ELSE IF Len(cert.proofs) # 1 \/ Len(cert.chains) # 1
        THEN Err("MalformedCertificateEvidence")
        ELSE IF Cardinality(roots) \notin 1..MaxRoots THEN Err("InvalidCertificateEvidence")
        ELSE IF ~proofs.ok THEN proofs
        ELSE IF ~records.ok THEN records
        ELSE IF RecordsFor(records.value, service, "Tlsa") = << >>
        THEN Err("MissingCertificateTlsa")
        ELSE IF decisive = {} THEN Err("InvalidCertificateEvidence")
        ELSE try(CHOOSE i \in decisive : \A j \in decisive : i =< j)

------------------------------------------------------------------------------
(* A TLS policy is [mode, secure, records, port, stateless, roots].          *)

\* verify_server_cert: the decision for a certificate that host presents, or
\* the error that ends the handshake.
VerifyServerCert(policy, host, cert) ==
    LET webpki == IF cert.trusted THEN "Valid" ELSE "Invalid"
        asked == policy.stateless /\ policy.mode # "IcannWebPki" /\ policy.records = << >>
        Carried(evidence) == evidence.ok /\ evidence.value.found
        Conclude(evidence, verdict) ==
            IF ~evidence.ok THEN evidence
            ELSE IF ~verdict.ok THEN verdict
            ELSE IF verdict.value.kind = "Failed" THEN Err("DaneMismatch")
            ELSE IF ~cert.whole THEN Err("InspectionFailed")
            ELSE IF Carried(evidence) /\ verdict.value.kind = "Matched"
            THEN Ok([kind |-> "StatelessMatched", usage |-> verdict.value.usage])
            ELSE verdict
        Given(evidence) ==
            Conclude(evidence,
                EvaluatePolicy(policy.mode, policy.secure \/ Carried(evidence),
                               IF Carried(evidence) THEN evidence.value.records
                               ELSE policy.records,
                               cert, webpki))
    IN  Given(IF asked THEN EvaluateStateless(cert, host, policy.port, policy.roots) ELSE Missing)
=============================================================================
