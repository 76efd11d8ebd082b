------------------------------- MODULE Dnssec -------------------------------
(***************************************************************************)
(* DNSSEC validation, hns-dnssec: pure functions from record sets and a    *)
(* time to a status.  A name is the sequence of its labels, the leftmost   *)
(* first; labels are numbers whose order is the byte order the code        *)
(* compares with, and Star is the wildcard label.  A record is             *)
(*     [name, type, data]                                                  *)
(* with a data record of its type; rdata that its parser refuses is        *)
(* Malformed.  DNSKEY rdata and NSEC type bit maps are kept as bytes.      *)
(* A signature is ideal: it holds the key that made it (by) and what was   *)
(* signed (over), and verifies exactly under that key and for that text.   *)
(* A digest is ideal too: it is the text that was hashed.                  *)
(***************************************************************************)
EXTENDS Integers, Sequences, SequencesExt

CONSTANTS
    Nsec3Digest(_, _),  \* the iterated SHA-1 of a name with a salt
    MaxIterations,      \* NSEC3_MAX_ITERATIONS
    SupportedAlgorithms \* the signature algorithms verify_rrsig knows

\* Record type codes.
A == 1
Ns == 2
Cname == 5
Soa == 6
Txt == 16
Dname == 39
Ds == 43
Rrsig == 46
Nsec == 47
Dnskey == 48
Nsec3 == 50
Tlsa == 52
Svcb == 64

Star == 0
Malformed == [bad |-> TRUE]
WellFormed(rr) == rr.data # Malformed

\* The outcomes of a validation: DnssecStatus, or an Err.
Secure == "secure"
Insecure == "insecure"
Bogus == "bogus"
Error == "error"

-----------------------------------------------------------------------------
(* Names *)

IsSubdomainOrEqual(name, parent) == IsSuffix(parent, name)
IsStrictSubdomain(name, parent) ==
    IsSuffix(parent, name) /\ Len(name) > Len(parent)

WildcardChild(encloser) == <<Star>> \o encloser

\* The ancestor of the query name with one label more than the encloser.
NextCloserName(query, encloser) ==
    SubSeq(query, Len(query) - Len(encloser), Len(query))

\* canonical_name_cmp: labels compare from the right, the shorter is first.
NameLess(left, right) ==
    LET l == Reverse(left)
        r == Reverse(right)
    IN  \/ IsStrictPrefix(l, r)
        \/ \E i \in 1..Len(l) \cap 1..Len(r) :
              /\ l[i] < r[i]
              /\ \A j \in 1..(i - 1) : l[j] = r[j]

-----------------------------------------------------------------------------
(* Record data: what the rdata parsers and accessors compute *)

\* rdata is flags (2 bytes), protocol, algorithm, public key.
DnskeyParses(rdata) == Len(rdata) >= 4 /\ rdata[3] = 3
IsZoneKey(rdata) == rdata[1] % 2 = 1
KeyAlgorithm(rdata) == rdata[4]

KeyTag(rdata) ==
    LET word(i) == IF i % 2 = 1 THEN rdata[i] * 256 ELSE rdata[i]
        sum == FoldLeft(+, 0, [i \in 1..Len(rdata) |-> word(i)])
    IN  (sum + (sum \div 65536)) % 65536

FromRecord(rr) ==
    /\ WellFormed(rr)
    /\ rr.type = Dnskey => DnskeyParses(rr.data.rdata)

IsValidAt(sig, now) == sig.from <= now /\ now <= sig.until

\* A bit map is a sequence of windows: number, length, then length bytes.
\* WindowAt finds the window at a cursor, NextWindow skips it.
BitMapWindow(map, at) == [number |-> map[at], length |-> map[at + 1], first |-> at + 2]

BitMapCursors[map \in Seq(0..255)] ==
    IF map = <<>> THEN {}
    ELSE IF Len(map) < 2 \/ Len(map) < 2 + map[2] THEN {1}
    ELSE {1} \cup {2 + map[2] + c :
                     c \in BitMapCursors[SubSeq(map, 3 + map[2], Len(map))]}

ValidTypeBitMaps(map) ==
    \A c \in BitMapCursors[map] :
        /\ c + 1 <= Len(map)
        /\ map[c + 1] \in 1..32
        /\ c + 1 + map[c + 1] <= Len(map)
        /\ \A d \in BitMapCursors[map] : d < c => map[d] < map[c]

TypeBitMapsContain(map, code) ==
    \E c \in BitMapCursors[map] :
        LET w == BitMapWindow(map, c)
            byte == (code % 256) \div 8
        IN  /\ w.number = code \div 256
            /\ byte < w.length
            /\ (map[w.first + byte] \div 2^(7 - (code % 8))) % 2 = 1

HasType(nsec, code) == TypeBitMapsContain(nsec.bits, code)

-----------------------------------------------------------------------------
(* Signatures *)

\* canonical_owner: fewer labels than the owner has stand for a wildcard.
CanonicalOwner(name, labels) ==
    IF labels < Len(name)
    THEN <<Star>> \o SubSeq(name, Len(name) - labels + 1, Len(name))
    ELSE name

CanonicalTypes ==
    {A, 28, Ds, Dnskey, Tlsa, Txt, Ns, Cname, Soa, 33, Nsec, Nsec3, Svcb, 65}
CanonicalRdata(rr) == rr.data

\* canonical_rrset refuses a mixed set, a malformed record, and a type whose
\* rdata it cannot put in canonical form.
CanonicalRrset(rrset, sig) ==
    /\ rrset[1].type = sig.covers
    /\ \A i \in 1..Len(rrset) :
          /\ rrset[i].type = rrset[1].type
          /\ sig.labels <= Len(rrset[i].name)
          /\ CanonicalOwner(rrset[i].name, sig.labels)
                 = CanonicalOwner(rrset[1].name, sig.labels)
          /\ rrset[i].type \in CanonicalTypes
          /\ WellFormed(rrset[i])

\* The text that is signed: the signature's own fields and the sorted set.
\* A repeated record is refused.
SignedDataExists(rrset, sig, now) ==
    /\ IsValidAt(sig, now)
    /\ CanonicalRrset(rrset, sig)
    /\ \A i, j \in 1..Len(rrset) :
          i # j => CanonicalRdata(rrset[i]) # CanonicalRdata(rrset[j])

SignedData(rrset, sig) ==
    [head |-> <<sig.covers, sig.alg, sig.labels, sig.from, sig.until, sig.tag>>,
     signer |-> sig.signer,
     owner |-> CanonicalOwner(rrset[1].name, sig.labels),
     rdata |-> {CanonicalRdata(rrset[i]) : i \in 1..Len(rrset)}]

\* parse_rsa_public_key and the key lengths of the other algorithms.
PublicKey(rdata) == SubSeq(rdata, 5, Len(rdata))
RsaKeyParses(key) ==
    /\ key # <<>>
    /\ LET cursor == IF key[1] = 0 THEN 3 ELSE 1
           length == IF key[1] # 0 THEN key[1]
                     ELSE IF Len(key) >= 3 THEN key[2] * 256 + key[3] ELSE 0
       IN  length > 0 /\ cursor + length < Len(key)
EcdsaP256KeyFits(key) == Len(key) = 64
EcdsaP384KeyFits(key) == Len(key) = 96
Ed25519KeyFits(key) == Len(key) = 32
KeyFits(alg, key) ==
    CASE alg \in {5, 7, 8, 10} -> RsaKeyParses(key)
      [] alg = 13 -> EcdsaP256KeyFits(key)
      [] alg = 14 -> EcdsaP384KeyFits(key)
      [] alg = 15 -> Ed25519KeyFits(key)

VerifyRrsig(rrset, sig, rdata, now) ==
    IF ~IsZoneKey(rdata) \/ sig.alg # KeyAlgorithm(rdata) \/ sig.tag # KeyTag(rdata)
    THEN "no"
    ELSE IF sig.alg \notin SupportedAlgorithms \/ ~KeyFits(sig.alg, PublicKey(rdata))
            \/ ~SignedDataExists(rrset, sig, now)
    THEN Error
    ELSE IF sig.by = rdata /\ sig.over = SignedData(rrset, sig) THEN "yes"
    ELSE "no"

\* Any pair of a signature and a key that verifies is enough; an error counts
\* only when none does.
ValidateRrsetSignature(owner, keys, rrset, rrsigs, now) ==
    IF rrset = <<>> THEN Error
    ELSE LET mine == SelectSeq(rrsigs, LAMBDA s :
                         s.type = Rrsig /\ s.name = rrset[1].name)
             dnskeys == SelectSeq(keys, LAMBDA k : k.type = Dnskey)
             covering == {i \in 1..Len(mine) :
                            /\ mine[i].data.covers = rrset[1].type
                            /\ mine[i].data.signer = owner}
             verdicts == {VerifyRrsig(rrset, mine[i].data, dnskeys[j].data.rdata, now) :
                            i \in covering, j \in 1..Len(dnskeys)}
         IN  IF \/ \E i \in 1..Len(mine) : ~FromRecord(mine[i])
                \/ \E j \in 1..Len(dnskeys) : ~FromRecord(dnskeys[j])
             THEN Error
             ELSE IF "yes" \in verdicts THEN Secure
             ELSE IF Error \in verdicts THEN Error
             ELSE Bogus

ValidateDnskeyRrset(owner, keys, rrsigs, now) ==
    ValidateRrsetSignature(owner, keys, keys, rrsigs, now)

\* The digest types ds_digest computes.
DigestTypes == {1, 2, 4}
DsDigest(owner, rdata) == <<owner, rdata>>

VerifyDsDigest(owner, rdata, ds) ==
    IF ~IsZoneKey(rdata) \/ KeyAlgorithm(rdata) # ds.alg \/ KeyTag(rdata) # ds.tag
    THEN "no"
    ELSE IF ds.digest_type \notin DigestTypes THEN Error
    ELSE IF ds.digest = DsDigest(owner, rdata) THEN "yes"
    ELSE "no"

\* The first key and DS that decide, keys in the outer loop.
ValidateDelegationLink(owner, dsset, keyset) ==
    LET dss == SelectSeq(dsset, LAMBDA r : r.type = Ds)
        keys == SelectSeq(keyset, LAMBDA r : r.type = Dnskey)
        pair(i) == VerifyDsDigest(owner,
                       keys[((i - 1) \div Len(dss)) + 1].data.rdata,
                       dss[((i - 1) % Len(dss)) + 1].data)
        decided == {i \in 1..(Len(keys) * Len(dss)) : pair(i) # "no"}
    IN  IF \E i \in 1..Len(dss) : ~FromRecord(dss[i]) THEN Error
        ELSE IF dss = <<>> THEN Insecure
        ELSE IF \E i \in 1..Len(keys) : ~FromRecord(keys[i]) THEN Error
        ELSE IF decided = {} THEN Bogus
        ELSE IF pair(Min(decided)) = "yes" THEN Secure ELSE Error

\* The first status of a sequence of checks that is not Secure, else Secure.
FirstFailure(checks) ==
    LET failed == {i \in 1..Len(checks) : checks[i] # Secure}
    IN  IF failed = {} THEN Secure ELSE checks[Min(failed)]

\* A check, and only if it is secure what follows from it.
Then(status, next) == IF status # Secure THEN status ELSE next

\* z is the key material of one zone: [owner, ds, keys, keysigs].
ValidateSignedRrset(z, rrset, rrsigs, now) ==
    FirstFailure(<<ValidateDelegationLink(z.owner, z.ds, z.keys),
                   ValidateDnskeyRrset(z.owner, z.keys, z.keysigs, now),
                   ValidateRrsetSignature(z.owner, z.keys, rrset, rrsigs, now)>>)

\* validate_dnssec_chain with one link: the child's DS is signed by the parent.
ValidateDnssecChain(parent, child, rrset, rrsigs, now) ==
    FirstFailure(<<ValidateDelegationLink(parent.owner, parent.ds, parent.keys),
                   ValidateDnskeyRrset(parent.owner, parent.keys, parent.keysigs, now),
                   ValidateDelegationLink(child.owner, child.ds, child.keys),
                   ValidateRrsetSignature(parent.owner, parent.keys,
                                          child.ds, child.dssigs, now),
                   ValidateDnskeyRrset(child.owner, child.keys, child.keysigs, now),
                   ValidateRrsetSignature(child.owner, child.keys, rrset, rrsigs, now)>>)

-----------------------------------------------------------------------------
(* Authenticated denial: NSEC *)

NsecCoversName(owner, next, name) ==
    /\ name # owner
    /\ \/ owner = next
       \/ NameLess(owner, next) /\ NameLess(owner, name) /\ NameLess(name, next)
       \/ NameLess(next, owner) /\ (NameLess(owner, name) \/ NameLess(name, next))

NsecParses(rr) == WellFormed(rr) /\ ValidTypeBitMaps(rr.data.bits)

\* Walk the records in order: the first that is malformed or that shows what
\* is asked decides.
FirstShowing(rrset, parses(_), shows(_)) ==
    LET decided == {i \in 1..Len(rrset) : ~parses(rrset[i]) \/ shows(rrset[i])}
    IN  IF decided = {} THEN Bogus
        ELSE IF parses(rrset[Min(decided)]) THEN Secure ELSE Error

ValidateNsecNoData(signer, keys, query, qtype, nsecs, rrsigs, now) ==
    FirstFailure(<<
        ValidateRrsetSignature(signer, keys, nsecs, rrsigs, now),
        FirstShowing(SelectSeq(nsecs, LAMBDA r : r.type = Nsec /\ r.name = query),
                     NsecParses,
                     LAMBDA r : ~HasType(r.data, qtype) /\ ~HasType(r.data, Cname))>>)

ValidateNsecNameRange(signer, keys, query, nsecs, rrsigs, now) ==
    FirstFailure(<<
        ValidateRrsetSignature(signer, keys, nsecs, rrsigs, now),
        FirstShowing(SelectSeq(nsecs, LAMBDA r : r.type = Nsec),
                     NsecParses,
                     LAMBDA r : NsecCoversName(r.name, r.data.next, query))>>)

ValidateNsecNameError(signer, keys, query, encloser, nsecs, rrsigs, now) ==
    IF ~IsStrictSubdomain(query, encloser) \/ nsecs = <<>> THEN Bogus
    ELSE FirstFailure(<<
        ValidateNsecNameRange(signer, keys, query, nsecs, rrsigs, now),
        ValidateNsecNameRange(signer, keys, WildcardChild(encloser), nsecs, rrsigs, now)>>)

-----------------------------------------------------------------------------
(* Authenticated denial: NSEC3 *)

Nsec3Parses(rr) == WellFormed(rr) /\ ValidTypeBitMaps(rr.data.bits)
IsUsable(n) == n.alg = 1 /\ n.flags \in {0, 1}
IsOptOut(n) == n.flags % 2 = 1
SameNsec3Params(m, n) ==
    m.alg = n.alg /\ m.iterations = n.iterations /\ m.salt = n.salt

\* nsec3_hash fails for an iteration count above the limit.
Nsec3Hash(name, n) == Nsec3Digest(name, n.salt)
Nsec3HashFails(n) == n.iterations > MaxIterations

Nsec3CoversHash(owner, next, hash) ==
    /\ hash # owner
    /\ \/ owner = next
       \/ owner < next /\ owner < hash /\ hash < next
       \/ owner > next /\ (owner < hash \/ hash < next)

\* nsec3_owner_hash: the owner is one label, the hash, below the zone.
Nsec3OwnerOk(name, zone) ==
    Len(name) = Len(zone) + 1 /\ Tail(name) = zone

\* parse_nsec3_proofs: an unusable record is skipped, a malformed one or one
\* owned elsewhere is an error.
Nsec3ProofsParse(nsec3s, zone) ==
    \A i \in 1..Len(nsec3s) :
        nsec3s[i].type = Nsec3 =>
            /\ Nsec3Parses(nsec3s[i])
            /\ IsUsable(nsec3s[i].data) => Nsec3OwnerOk(nsec3s[i].name, zone)
Nsec3Proofs(nsec3s) ==
    SelectSeq(nsec3s, LAMBDA r : r.type = Nsec3 /\ IsUsable(r.data))

Nsec3MatchesName(rr, name) == rr.name[1] = Nsec3Hash(name, rr.data)
Nsec3CoversName(rr, name) ==
    Nsec3CoversHash(rr.name[1], rr.data.next, Nsec3Hash(name, rr.data))

\* find_nsec3_*_proof: the first record that shows what is asked, <<>> when none
\* does; a hash that fails on the way ends the search.  The records may have to
\* have the parameters of an earlier proof.
FirstProof(proofs, hits) == IF hits = {} THEN <<>> ELSE <<proofs[Min(hits)]>>
FindNsec3MatchingProof(proofs, name) ==
    FirstProof(proofs, {i \in 1..Len(proofs) :
                          Nsec3HashFails(proofs[i].data) \/ Nsec3MatchesName(proofs[i], name)})
FindNsec3CoveringProof(proofs, name) ==
    FirstProof(proofs, {i \in 1..Len(proofs) :
                          Nsec3HashFails(proofs[i].data) \/ Nsec3CoversName(proofs[i], name)})
Expected(n, proofs) == SelectSeq(proofs, LAMBDA r : SameNsec3Params(n, r.data))

\* The status a found proof gives: none is bogus, one whose hash failed an error.
Found(found) ==
    IF found = <<>> THEN Bogus
    ELSE IF Nsec3HashFails(found[1].data) THEN Error ELSE Secure

\* A proof that was found, and what its record leads to.
WithProof(found, conclude(_)) == Then(Found(found), conclude(found[1].data))

ValidateNsec3RrsetSignature(signer, keys, nsec3s, rrsigs, now) ==
    IF nsec3s = <<>> THEN Bogus
    ELSE Then(ValidateRrsetSignature(signer, keys, nsec3s, rrsigs, now),
              IF Nsec3ProofsParse(nsec3s, signer) THEN Secure ELSE Error)

\* A record at the name is taken to deny every type there.
MutantValidateNsec3NoData(signer, keys, query, qtype, nsec3s, rrsigs, now) ==
    Then(ValidateNsec3RrsetSignature(signer, keys, nsec3s, rrsigs, now),
         LET proofs == Nsec3Proofs(nsec3s)
         IN  Found(FirstProof(proofs, {i \in 1..Len(proofs) :
                 \/ Nsec3HashFails(proofs[i].data)
                 \/ Nsec3MatchesName(proofs[i], query)})))

ValidateNsec3NoData(signer, keys, query, qtype, nsec3s, rrsigs, now) ==
    Then(ValidateNsec3RrsetSignature(signer, keys, nsec3s, rrsigs, now),
         LET proofs == Nsec3Proofs(nsec3s)
         IN  Found(FirstProof(proofs, {i \in 1..Len(proofs) :
                 \/ Nsec3HashFails(proofs[i].data)
                 \/ /\ Nsec3MatchesName(proofs[i], query)
                    /\ ~HasType(proofs[i].data, qtype)
                    /\ ~HasType(proofs[i].data, Cname)})))

MutantClosestIsAuthoritative(n) == ~HasType(n, Dname)

\* closest_nsec3_is_authoritative: not a DNAME and not a delegation point.
ClosestIsAuthoritative(n) ==
    /\ ~HasType(n, Dname)
    /\ HasType(n, Ns) => HasType(n, Soa)

\* validate_nsec3_closest_encloser_proof: the encloser exists, and the name
\* one label below it on the way to the query does not.  Here as in
\* validate_*_name_error's callers the three sets may differ: p is
\* [closest, next, wild], each [set, sigs].
ClosestProof(p, encloser) ==
    FindNsec3MatchingProof(Nsec3Proofs(p.closest.set), encloser)
NextCloserProof(p, query, encloser) ==
    LET closest == ClosestProof(p, encloser)[1].data
    IN  FindNsec3CoveringProof(Expected(closest, Nsec3Proofs(p.next.set)),
                               NextCloserName(query, encloser))

ClosestEncloserStatus(signer, keys, query, encloser, p, now) ==
    LET signed(part) == ValidateNsec3RrsetSignature(signer, keys, part.set, part.sigs, now)
        nextCloser == Then(signed(p.next), Found(NextCloserProof(p, query, encloser)))
    IN  IF ~IsStrictSubdomain(query, encloser) THEN Bogus
        ELSE Then(signed(p.closest),
                  WithProof(ClosestProof(p, encloser),
                            LAMBDA n : IF ClosestIsAuthoritative(n) THEN nextCloser
                                       ELSE Bogus))
NextCloserOptsOut(p, query, encloser) == IsOptOut(NextCloserProof(p, query, encloser)[1].data)

\* The encloser proof and, unless the next closer name lies in an opt-out span,
\* the records for the wildcard at the encloser, from which verdict concludes.
WildcardProofs(p, encloser) ==
    Expected(ClosestProof(p, encloser)[1].data, Nsec3Proofs(p.wild.set))
WithWildcard(signer, keys, query, encloser, p, now, verdict) ==
    Then(ClosestEncloserStatus(signer, keys, query, encloser, p, now),
         IF NextCloserOptsOut(p, query, encloser) THEN Insecure
         ELSE Then(ValidateNsec3RrsetSignature(signer, keys, p.wild.set, p.wild.sigs, now), verdict))

ValidateNsec3NameError(signer, keys, query, encloser, p, now) ==
    WithWildcard(signer, keys, query, encloser, p, now,
        WithProof(FindNsec3CoveringProof(WildcardProofs(p, encloser), WildcardChild(encloser)),
                  LAMBDA n : IF IsOptOut(n) THEN Insecure ELSE Secure))

ValidateNsec3WildcardNoData(signer, keys, query, encloser, qtype, p, now) ==
    WithWildcard(signer, keys, query, encloser, p, now,
        WithProof(FindNsec3MatchingProof(WildcardProofs(p, encloser), WildcardChild(encloser)),
                  LAMBDA n : IF HasType(n, qtype) \/ HasType(n, Cname) THEN Bogus ELSE Secure))

\* A delegation without DS: shown by the record at the name, from which verdict
\* concludes, or by an opt-out span over it.
WithMatching(signer, keys, query, matching, encloser, p, now, verdict) ==
    IF matching.set # <<>>
    THEN Then(ValidateNsec3RrsetSignature(signer, keys, matching.set, matching.sigs, now), verdict)
    ELSE Then(ClosestEncloserStatus(signer, keys, query, encloser, p, now),
              IF NextCloserOptsOut(p, query, encloser) THEN Insecure ELSE Bogus)

ValidateNsec3DsNoData(signer, keys, query, matching, encloser, p, now) ==
    WithMatching(signer, keys, query, matching, encloser, p, now,
        WithProof(FindNsec3MatchingProof(Nsec3Proofs(matching.set), query),
                  LAMBDA n : IF HasType(n, Ds) \/ HasType(n, Cname) THEN Bogus ELSE Secure))

ValidateNsec3UnsignedReferral(signer, keys, query, matching, encloser, p, now) ==
    WithMatching(signer, keys, query, matching, encloser, p, now,
        WithProof(FindNsec3MatchingProof(Nsec3Proofs(matching.set), query),
                  LAMBDA n : IF HasType(n, Ns) /\ ~HasType(n, Ds) /\ ~HasType(n, Soa)
                             THEN Insecure ELSE Bogus))

ValidateNsec3WildcardAnswer(signer, keys, query, encloser, part, now) ==
    IF ~IsStrictSubdomain(query, encloser) THEN Bogus
    ELSE Then(ValidateNsec3RrsetSignature(signer, keys, part.set, part.sigs, now),
              WithProof(FindNsec3CoveringProof(Nsec3Proofs(part.set), NextCloserName(query, encloser)),
                        LAMBDA n : IF IsOptOut(n) THEN Insecure ELSE Secure))
=============================================================================
