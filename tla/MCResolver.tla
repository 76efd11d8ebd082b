----------------------------- MODULE MCResolver -----------------------------
(***************************************************************************)
(* The delegated resolver with two signed zones: the root name's zone <<1>>*)
(* denies with NSEC, its child <<2, 1>> with NSEC3.  Servers 2 and 6 serve *)
(* the parent as it is, 6 the child too; 3 serves the child; 1 and 4 send  *)
(* whatever can be made of published records, forged ones and silence.     *)
(* On its own, two threads that share the relay client ask two questions.  *)
(***************************************************************************)
EXTENDS DelegatedResolver, DenialProofs, RelayExchange

CONSTANTS
    AddedKeys,      \* whether a server may add a key to the zone's key set
    CutDenials      \* whether a server may deny names of the child with the parent's
                    \* NSEC record at the cut

Z == <<1>>
C == <<2, 1>>
ZKey == <<1, 1, 3, 8, 1, 3, 2, 9>>
XKey == <<1, 1, 3, 8, 1, 9, 2, 3>>     \* another key with the same tag
CKey == <<1, 1, 3, 8, 1, 4, 4, 4>>

Rr(name, type, data) == [name |-> name, type |-> type, data |-> data]
SignAt(key, signer, rrset, labels, from, until) ==
    LET base == [covers |-> rrset[1].type, alg |-> KeyAlgorithm(key), labels |-> labels,
                 from |-> from, until |-> until, tag |-> KeyTag(key), signer |-> signer]
    IN  Rr(rrset[1].name, Rrsig,
           [covers |-> base.covers, alg |-> base.alg, labels |-> labels, from |-> from,
            until |-> until, tag |-> base.tag, signer |-> signer, by |-> key,
            over |-> SignedData(rrset, base)])
MCNow == 5
SignLabels(name) == IF name[1] = Star THEN Len(name) - 1 ELSE Len(name)
Sign(key, signer, rrset) == SignAt(key, signer, rrset, SignLabels(rrset[1].name), 0, 9)
KeyOf(zone) == IF zone = Z THEN ZKey ELSE CKey

\* Type bit maps of window 0.
Bits(types) ==
    LET byte(i) == FoldLeft(+, 0, [b \in 1..8 |->
                      IF i * 8 + b - 1 \in types THEN 2^(8 - b) ELSE 0])
    IN  <<0, 9>> \o [i \in 1..9 |-> byte(i - 1)]

DsOf(owner, key) == Rr(owner, Ds, [tag |-> KeyTag(key), alg |-> 8, digest_type |-> 2,
                                   digest |-> DsDigest(owner, key)])
NsName == <<9, 1>>
Binding == Rr(<<99>> \o NsName, Svcb, [form |-> "doh", port |-> 443])
OtherNs == <<4, 1>>
BadBinding == Rr(<<99>> \o OtherNs, Svcb, [form |-> "bad", port |-> 443])

ZPlain ==
    {Rr(Z, A, [ip |-> 7]), Rr(Z, Soa, [serial |-> 1]), Rr(Z, Ns, [to |-> NsName]),
     Rr(Z, Dnskey, [rdata |-> ZKey]), DsOf(C, CKey),
     Rr(<<3, 1>>, Cname, [to |-> <<4, 1>>]), Rr(<<4, 1>>, A, [ip |-> 8]),
     Rr(<<6, 1>>, Cname, [to |-> <<6, 1>>]), Rr(<<0, 7, 1>>, A, [ip |-> 9]),
     Rr(NsName, A, [ip |-> 2]), Binding, BadBinding}
\* Below the cut the parent publishes only the unsigned delegation.
ZTypes(name) == {r.type : r \in {p \in ZPlain : p.name = name}}
                \cup (IF name = C THEN {Ns} ELSE {})
ZOrder == <<Z, C, <<3, 1>>, <<4, 1>>, BadBinding.name, <<6, 1>>, <<0, 7, 1>>, NsName, Binding.name>>
ZNsec(i) == Rr(ZOrder[i], Nsec,
               [next |-> ZOrder[(i % Len(ZOrder)) + 1],
                bits |-> Bits(ZTypes(ZOrder[i]) \cup {Rrsig, Nsec})])
CPlain ==
    {Rr(C, Soa, [serial |-> 2]), Rr(C, Ns, [to |-> <<4, 2, 1>>]),
     Rr(C, Dnskey, [rdata |-> CKey]), Rr(<<3, 2, 1>>, A, [ip |-> 11])}
MCNsec3Digest(name, salt) ==
    CASE name = Z -> 40 [] name = <<3, 1>> -> 10 [] name = <<2, 3, 1>> -> 70
      [] name = <<0, 1>> -> 20 [] name = <<5, 1>> -> 30 [] name = <<4, 3, 1>> -> 80
      [] name = <<0, 3, 1>> -> 90 [] name = C -> 110 [] name = <<3, 2, 1>> -> 150
      [] name = <<8, 2, 1>> -> 120 [] name = <<0, 2, 1>> -> 130 [] OTHER -> 190 + name[1]
CNsec3(name, next) ==
    Rr(<<MCNsec3Digest(name, 1)>> \o C, Nsec3,
       [alg |-> 1, flags |-> 0, iterations |-> 1, salt |-> 1,
        next |-> MCNsec3Digest(next, 1),
        bits |-> Bits({r.type : r \in {p \in CPlain : p.name = name}} \cup {Rrsig})])
MCZones == {[owner |-> Z, records |-> ZPlain \cup {ZNsec(i) : i \in 1..Len(ZOrder)}],
            [owner |-> C, records |-> CPlain \cup {CNsec3(C, <<3, 2, 1>>)}]}

-----------------------------------------------------------------------------
(* What servers send *)

Message(nx, ans, auth, add) ==
    [kind |-> "good", tc |-> FALSE, nx |-> nx, ans |-> ans, auth |-> auth, add |-> add]
WithSig(zone, rrset) == rrset \o <<Sign(KeyOf(zone), zone, rrset)>>
PlainOf(zone) == IF zone = Z THEN ZPlain ELSE CPlain
RrsetAt(zone, name, type) ==
    SetToSeq({r \in PlainOf(zone) : r.name = name /\ r.type = type})

ZNsecAt(P(_)) == LET hits == {i \in 1..Len(ZOrder) : P(i)}
                 IN  IF hits = {} THEN <<>>
                     ELSE WithSig(Z, <<ZNsec(CHOOSE i \in hits : TRUE)>>)
ZCovering(name) == ZNsecAt(LAMBDA i : NsecCoversName(ZOrder[i], ZNsec(i).data.next, name))
CDenial(name) == WithSig(C, <<IF name = <<3, 2, 1>> THEN CNsec3(name, C)
                              ELSE CNsec3(C, <<3, 2, 1>>)>>)

ZAnswer(name, type) ==
    LET rrset == RrsetAt(Z, name, type)
        cname == RrsetAt(Z, name, Cname)
        wild == Rr(name, A, [ip |-> 9])
        expanded == SignAt(ZKey, Z, <<wild>>, 2, 0, 9)
    IN  IF rrset # <<>> THEN Message(FALSE, WithSig(Z, rrset), <<>>, <<>>)
        ELSE IF cname # <<>> THEN Message(FALSE, WithSig(Z, cname), <<>>, <<>>)
        ELSE IF Len(name) = 3 /\ Tail(name) = <<7, 1>> /\ type = A
        THEN Message(FALSE, <<wild, expanded>>, <<>>, <<>>)
        ELSE IF \E i \in 1..Len(ZOrder) : ZOrder[i] = name
        THEN Message(FALSE, <<>>, ZNsecAt(LAMBDA i : ZOrder[i] = name), <<>>)
        ELSE IF ZCovering(name) = ZCovering(<<Star, 1>>)
        THEN Message(TRUE, <<>>, ZCovering(name), <<>>)
        ELSE Message(TRUE, <<>>, ZCovering(name) \o ZCovering(<<Star, 1>>), <<>>)

CAnswer(name, type) ==
    LET rrset == RrsetAt(C, name, type)
        known == \E r \in CPlain : r.name = name
    IN  IF rrset # <<>> THEN Message(FALSE, WithSig(C, rrset), <<>>, <<>>)
        ELSE Message(~known, <<>>, CDenial(name), <<>>)

Referral == Message(FALSE, <<>>,
    <<Rr(C, Ns, [to |-> <<4, 2, 1>>])>> \o WithSig(Z, <<DsOf(C, CKey)>>),
    <<Rr(<<4, 2, 1>>, A, [ip |-> 4]), Rr(<<4, 2, 1>>, A, [ip |-> 3])>>)

InChild(name, type) == IsSuffix(C, name) /\ type # Ds
Honest(ip, name, type) ==
    IF ip = 3 THEN CAnswer(name, type)
    ELSE IF ~InChild(name, type) THEN ZAnswer(name, type)
    ELSE IF ip = 6 THEN CAnswer(name, type)
    ELSE Referral

\* What a server that does not answer as its zone says can make of it.
Forge(rrset, signer) == rrset \o <<Sign(XKey, signer, rrset)>>
ForgedData(name, type) ==
    IF type = Dnskey THEN [rdata |-> XKey]
    ELSE IF type = Ds THEN Malformed
    ELSE IF type = Svcb THEN [form |-> "doh", port |-> 6000]
    ELSE [ip |-> 66]
ForgedKeys == <<Rr(Z, Dnskey, [rdata |-> XKey]), Rr(Z, Dnskey, [rdata |-> ZKey])>>
Late(m) == [m EXCEPT !.ans = [i \in 1..Len(@) |->
               IF @[i].type = Rrsig THEN [@[i] EXCEPT !.data.until = 4] ELSE @[i]]]
Stripped(m) == [m EXCEPT !.ans = RecordsFor(@, IF @ = <<>> THEN <<>> ELSE @[1].name,
                                            IF @ = <<>> THEN 0 ELSE @[1].type)]
Lies(name, type, truth) ==
        {truth, Stripped(truth), Late(truth),
         Message(FALSE, <<>>, <<>>, <<>>),
         Message(FALSE, Forge(<<Rr(name, type, ForgedData(name, type))>>,
                              IF InChild(name, type) THEN C ELSE Z), <<>>, <<>>),
         Message(FALSE, truth.ans \o <<Rr(name, type, ForgedData(name, type))>>, <<>>, <<>>),
         Sent("rcode")}
        \cup (IF type = Dnskey /\ name = Z
              THEN IF AddedKeys THEN {Message(FALSE, Forge(ForgedKeys, Z), <<>>, <<>>)} ELSE {}
              ELSE IF type \in {Dnskey, Ds}
              THEN {Message(FALSE, Forge(<<DsOf(name, XKey)>>, Z), <<>>, <<>>),
                    Message(FALSE, Forge(<<Rr(name, Dnskey, [rdata |-> XKey])>>, name), <<>>, <<>>)}
              ELSE {Referral,
                    Message(FALSE, Forge(<<Rr(name, Cname, [to |-> <<4, 1>>])>>, Z), <<>>, <<>>),
                    Message(FALSE, WithSig(Z, RrsetAt(Z, <<3, 1>>, Cname)), <<>>, <<>>),
                    Message(FALSE, <<>>, <<Rr(C, Ns, [to |-> <<4, 2, 1>>])>>
                                         \o Forge(<<DsOf(C, XKey)>>, Z),
                            <<Rr(<<4, 2, 1>>, A, [ip |-> 4])>>)}
                   \cup {Message(nx, <<>>, ZNsecAt(LAMBDA j : j = i), <<>>) :
                           nx \in BOOLEAN,
                           i \in IF CutDenials \/ ~InChild(name, type) THEN {1, 2, 4} ELSE {1, 4}}
                   \cup {Message(nx, <<>>, CDenial(C), <<>>) : nx \in BOOLEAN})

\* Over UDP an honest answer may be lost or truncated.
SentBy(ip, truth, lies) ==
    LET all == IF ip \in HonestIps THEN {truth} ELSE lies
    IN  [udp |-> IF ip \in HonestIps
                 THEN {truth, Sent("transport"), [truth EXCEPT !.tc = TRUE]} ELSE all,
         tcp |-> all, doh |-> all, relay |-> all]
MCAnswers(ip, name, type) ==
    SentBy(ip, Honest(ip, name, type), Lies(name, type, Honest(6, name, type)))

-----------------------------------------------------------------------------
(* Proofs, set-ups, questions *)

Declare(form) == [form |-> form, ns |-> NsName, port |-> 443]
Root(ips, ds, txt) == [status |-> "ok", records |->
    [owner |-> Z, ns |-> <<[name |-> NsName, ips |-> ips]>>, ds |-> ds, txt |-> txt,
     direct |-> <<Rr(Z, Ns, [to |-> NsName])>>]]
Bare(status) == [status |-> status, records |-> NoDelegation]
MCProofs ==
    {Root(<<1, 2>>, <<DsOf(Z, ZKey)>>, <<>>),
     Root(<<5, 1, 6>>, <<DsOf(Z, ZKey)>>, <<Declare("other"), Declare("doh")>>),
     [Root(<<2>>, <<DsOf(Z, ZKey)>>, <<>>) EXCEPT !.records.ns[1].name = OtherNs],
     Root(<<5>>, <<DsOf(Z, ZKey)>>, <<>>), Root(<<1>>, <<>>, <<Declare("bad")>>),
     Root(<<>>, <<DsOf(Z, ZKey)>>, <<>>),
     Bare("unavailable"), Bare("mismatch"), Bare("notfound"),
     [status |-> "ok", records |-> [NoDelegation EXCEPT !.owner = Z,
                                       !.direct = <<Rr(Z, A, [ip |-> 7])>>]]}
MCNsProofs(name) ==
    {[status |-> "ok", ips |-> <<6>>], [status |-> "error", ips |-> <<>>],
     [status |-> "unavailable", ips |-> <<>>]}
MCConfigs == {[relay |-> FALSE, doh |-> TRUE, prefer |-> FALSE],
              [relay |-> FALSE, doh |-> TRUE, prefer |-> TRUE],
              [relay |-> TRUE, doh |-> FALSE, prefer |-> FALSE]}
Q(name, type) == [name |-> name, type |-> type]
MCCaches == {{}, {<<[ip |-> 6, port |-> 443]>>}}
MCResolvable == {Q(<<3, 1>>, A), Q(Z, Tlsa), Q(<<1, 1>>, A), Q(<<3, 2, 1>>, A),
                 Q(<<3, 2, 1>>, Tlsa), Q(<<5, 7, 1>>, A), Q(C, Soa)}
MCRequests == MCResolvable \cup {Q(<<8, 1>>, A), Q(<<6, 1>>, A), Q(<<8, 2, 1>>, A),
                                 Q(<<4, 1>>, AnyType), Q(Z, Ns)}
CutRequests == {Q(<<3, 2, 1>>, A)}      \* a record of the child, for CutDenials
-----------------------------------------------------------------------------
(* Zones and questions for the denial validators *)

DTypes == {{A}, {Ns}, {Ns, Ds}}
MCContents ==
    UNION {[names -> DTypes] :
             names \in {{}, {<<3, 1>>}, {<<2, 1>>, <<0, 1>>}, {<<2, 3, 1>>}}}
    \cup {(<<0, 3, 1>> :> {A}) @@ (C :> t) : t \in DTypes}
MCQueries == {<<2, 1>>, <<3, 1>>, <<5, 1>>, <<8, 2, 1>>, <<4, 3, 1>>, <<2, 3, 1>>}
MCSignedSet(rrset) == [set |-> rrset, sigs |-> <<Sign(ZKey, Z, rrset)>>]
MCZoneKeys == <<Rr(Z, Dnskey, [rdata |-> ZKey])>>

MCQuestions == <<1, 2>>       \* RelayExchange

VARIABLE focus      \* which part this behaviour is about: "resolve", "denial" or "relay"

MCInit ==
    /\ focus \in {"resolve", "denial", "relay"}
    /\ ExchangeInit
    /\ IF focus = "resolve" THEN Init
       ELSE /\ config = [relay |-> TRUE, doh |-> FALSE, prefer |-> FALSE]
            /\ request = Q(Z, Ns) /\ delegation = NoDelegation /\ phase = "rest"
            /\ todo = <<>> /\ discover = <<>> /\ endpoints = <<>> /\ cache = {}
            /\ run = NoRun /\ last = NoError /\ outcome = Ongoing
    /\ IF focus = "denial" THEN DInit ELSE instance = NoInstance

MCVars == <<vars, focus, instance, exchangeVars>>
MCNext ==
    \/ focus # "relay" /\ Next /\ UNCHANGED <<focus, instance, exchangeVars>>
    \/ focus = "relay" /\ ExchangeNext /\ UNCHANGED <<focus, instance, vars>>

\* The threads of the relay run; the client's mutex need not be fair.
MCFairness ==
    \A t \in Thread : WF_MCVars(focus = "relay" /\ Step(t) /\ UNCHANGED <<focus, instance, vars>>)
MCSpec == MCInit /\ [][MCNext]_MCVars /\ MCFairness

\* Every resolution through the shared relay client ends: no leader, follower or
\* reporter waits for ever.
CallersEnd == focus = "relay" => EveryCallerEnds
=============================================================================
