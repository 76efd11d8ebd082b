---------------------------- MODULE DenialProofs ----------------------------
(***************************************************************************)
(* The denial validators of hns-dnssec against the zone that is denied      *)
(* from: every choice of records a signed zone publishes, put to the        *)
(* validators as a proof.  A zone is a function from its names to their     *)
(* types; its NSEC chain runs through the names in canonical order, its     *)
(* NSEC3 chain through their hashes and leaves out unsigned delegations     *)
(* when the zone opts out.                                                  *)
(***************************************************************************)
EXTENDS Dnssec, FiniteSets

CONSTANTS
    Apex,           \* the zone's name
    Contents,       \* the zones: functions from names below the apex to types
    Queries,        \* names asked about
    QueryTypes,     \* types asked about
    SignedSet(_)    \* a record with the zone's signature: [set, sigs]

CONSTANTS ZoneKeys, At      \* the zone's key set, the time

VARIABLE instance           \* [zone, optout, query, encloser, type]

\* Names that exist: owners of records and the names above them.
Names(z) == {Apex} \cup
    {n \in UNION {{SubSeq(m, i, Len(m)) : i \in 1..Len(m)} : m \in DOMAIN z} :
        IsStrictSubdomain(n, Apex)}
TypesAt(z, name) ==
    IF name = Apex THEN {Ns, Soa, Dnskey}
    ELSE IF name \in DOMAIN z THEN z[name] ELSE {}
IsDelegation(z, name) == name # Apex /\ Ns \in TypesAt(z, name)
BelowCut(z, name) == \E d \in DOMAIN z : IsDelegation(z, d) /\ IsStrictSubdomain(name, d)

\* The names an NSEC3 chain covers.
Hashed(z, optout) ==
    {n \in Names(z) : ~(optout /\ TypesAt(z, n) = {Ns})}

\* The next member after a value in a cyclic order.
After(x, S, Less(_, _)) ==
    LET above == {y \in S : Less(x, y)}
        least(T) == CHOOSE y \in T : \A w \in T : ~Less(w, y)
    IN  IF above = {} THEN least(S) ELSE least(above)

Bit(types, i) == IF i \in types THEN 2^(7 - (i % 8)) ELSE 0
BitMap(types) ==
    <<0, 9>> \o [b \in 1..9 |->
        FoldLeft(+, 0, [k \in 1..8 |-> Bit(types, (b - 1) * 8 + k - 1)])]

NsecRecord(z, name) ==
    [name |-> name, type |-> Nsec,
     data |-> [next |-> After(name, Names(z), NameLess), bits |-> BitMap(TypesAt(z, name))]]
Nsec3Record(z, optout, name) ==
    LET hashes == {Nsec3Digest(n, 1) : n \in Hashed(z, optout)}
    IN  [name |-> <<Nsec3Digest(name, 1)>> \o Apex, type |-> Nsec3,
         data |-> [alg |-> 1, flags |-> IF optout THEN 1 ELSE 0, iterations |-> 1, salt |-> 1,
                   next |-> After(Nsec3Digest(name, 1), hashes, LAMBDA a, b : a < b),
                   bits |-> BitMap(TypesAt(z, name))]]

DInit ==
    \E z \in Contents, o \in BOOLEAN, q \in Queries, t \in QueryTypes :
        \E i \in 2..Len(q) :
            /\ IsSubdomainOrEqual(SubSeq(q, i, Len(q)), Apex)
            /\ instance = [zone |-> z, optout |-> o, query |-> q,
                           encloser |-> SubSeq(q, i, Len(q)), type |-> t]

-----------------------------------------------------------------------------
(* Verdicts on what the zone publishes *)

Part(c, name) == SignedSet(<<Nsec3Record(c.zone, c.optout, name)>>)
Parts(c) == {Part(c, n) : n \in Hashed(c.zone, c.optout)}
Triples(parts) == [closest : parts, next : parts, wild : parts]
NoInstance == [zone |-> <<>>]
NoPart == [set |-> <<>>, sigs |-> <<>>]
NsecPart(c, name) == SignedSet(<<NsecRecord(c.zone, name)>>)

Absent(c, name) == name \notin Names(c.zone)
Wild(c) == WildcardChild(c.encloser)

\* A denial the validators accept is true of the zone, whatever published
\* records it is put together from: a name that exists, or that may exist in
\* a zone below, is never denied with NSEC3, a type that is there never, and
\* an unsigned delegation is never taken for a signed one's.  In an opt-out
\* span nothing is denied securely.  Conversely a name that neither exists
\* nor matches a wildcard has an NSEC3 proof the validators accept.
DenialSound ==
    instance # NoInstance =>
    LET c == instance
        parts == Parts(c)
        open == Absent(c, c.query) /\ ~BelowCut(c.zone, c.query)
        nameError(p) == ValidateNsec3NameError(Apex, ZoneKeys, c.query, c.encloser, p, At)
        dsNoData(m, p) == ValidateNsec3DsNoData(Apex, ZoneKeys, c.query, m, c.encloser, p, At)
        unsigned(m, p) ==
            ValidateNsec3UnsignedReferral(Apex, ZoneKeys, c.query, m, c.encloser, p, At)
    IN  /\ \A p \in Triples(parts) :
              /\ nameError(p) = Secure => open /\ Absent(c, Wild(c)) /\ ~c.optout
              /\ ValidateNsec3WildcardNoData(Apex, ZoneKeys, c.query, c.encloser,
                                             c.type, p, At) = Secure =>
                    open /\ ~Absent(c, Wild(c)) /\ c.type \notin TypesAt(c.zone, Wild(c))
              /\ unsigned(NoPart, p) = Insecure => Ds \notin TypesAt(c.zone, c.query)
              /\ dsNoData(NoPart, p) # Secure
        /\ \A m \in parts :
              /\ ValidateNsec3NoData(Apex, ZoneKeys, c.query, c.type, m.set, m.sigs, At) = Secure
                    => ~Absent(c, c.query) /\ c.type \notin TypesAt(c.zone, c.query)
              /\ ValidateNsec3WildcardAnswer(Apex, ZoneKeys, c.query, c.encloser, m, At) = Secure
                    => Absent(c, NextCloserName(c.query, c.encloser)) /\ ~c.optout
              /\ LET p == [closest |-> m, next |-> m, wild |-> m]
                 IN  /\ dsNoData(m, p) = Secure => Ds \notin TypesAt(c.zone, c.query)
                     /\ unsigned(m, p) = Insecure => TypesAt(c.zone, c.query) = {Ns}
        /\ \A n \in Names(c.zone) :
              LET m == NsecPart(c, n)
              IN  /\ ValidateNsecNoData(Apex, ZoneKeys, c.query, c.type, m.set, m.sigs, At)
                         = Secure => c.type \notin TypesAt(c.zone, c.query)
                  /\ ValidateNsecNameError(Apex, ZoneKeys, c.query, c.encloser, m.set, m.sigs, At)
                         = Secure => Absent(c, c.query) /\ Absent(c, Wild(c))
        /\ open /\ ~c.optout /\ ~Absent(c, c.encloser) /\ Absent(c, Wild(c))
           /\ Absent(c, NextCloserName(c.query, c.encloser))
           /\ ~IsDelegation(c.zone, c.encloser) =>
              \E p \in Triples(parts) : nameError(p) = Secure
=============================================================================
