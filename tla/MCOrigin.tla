------------------------------ MODULE MCOrigin ------------------------------
(* The way to an origin, part by part: the plan the gateway makes, the       *)
(* transport's shared caches with two threads, the bytes of a kept           *)
(* connection, and what a certificate may claim; and, of the loopback proxy, *)
(* the rate limiter with workers whose clock readings overtake each other,   *)
(* the identity store with a hook and a stop, and the rewriting of heads and *)
(* bodies.  focus is the part that moves; the transport has three scenarios  *)
(* of its own.                                                               *)
EXTENDS OriginTransport, OriginPlan, OriginWire, DaneEvidence, IdentityStore, RequestRateLimiter

CONSTANTS Authorities, Statuses, MaxFields, MaxUnits        \* HttpFraming

VARIABLES
    focus,
    stage, route, request, body, forwarded, response, relay, units, origin, outcome

framingVars == <<stage, route, request, body, forwarded, response, relay, units, origin, outcome>>
originVars == <<transportVars, planVars, wireVars, claimVars>>
vars == <<focus, originVars, limiterVars, storeVars, framingVars>>

Site == <<"site">>
Sub == <<"sub", "site">>
Web == <<"www", "com">>
MCClaimHosts == {Site, Sub}
MCHnsHosts == {Site, Sub}

------------------------------------------------------------------------------
Cert(name, key, trusted) ==
    [name |-> name, key |-> key, whole |-> TRUE, cas |-> << >>, trusted |-> trusted,
     proofs |-> << >>, chains |-> << >>]
MCCertOf == [pinned |-> Cert("pinned", "k1", FALSE), public |-> Cert("public", "k2", TRUE)]
MCPresented == (Site :> {"pinned", "public"}) @@ (Sub :> {"public"})

TlsPolicy(mode, records) ==
    [mode |-> mode, secure |-> TRUE, records |-> records, port |-> 443, stateless |-> FALSE,
     roots |-> {}]
Tlsa(u, key) == [usage |-> u, selector |-> "SubjectPublicKeyInfo", matching |-> "Sha256",
                 association |-> <<"Sha256", key>>]
MCPolicyOf == [strict |-> TlsPolicy("HnsStrict", <<Tlsa("DaneEe", "k1")>>),
               dual |-> TlsPolicy("HnsStrict", <<Tlsa("DaneEe", "k1"), Tlsa("PkixEe", "k2")>>),
               compat |-> TlsPolicy("HnsCompatibility", << >>)]

Request(kind, scheme, host, verb, policy) ==
    [kind |-> kind, scheme |-> scheme, host |-> host, addr |-> "ip1", port |-> 443,
     method |-> verb, policy |-> policy, protocol |-> "Http11",
     upgrade |-> kind = "tunnel", valid |-> TRUE]
Strict == Request("fetch", "https", Site, "safe", "strict")
Compat == Request("fetch", "https", Site, "unsafe", "compat")
DualSite == Request("fetch", "https", Site, "safe", "dual")
DualSub == Request("fetch", "https", Sub, "safe", "dual")
Plain == Request("fetch", "http", Site, "safe", "compat")
Upgrade == Request("tunnel", "https", Site, "safe", "strict")
Controlled == Request("controlled", "https", Site, "safe", "compat")
Wrong == {[Strict EXCEPT !.valid = FALSE], [Strict EXCEPT !.upgrade = TRUE],
          [Plain EXCEPT !.protocol = "Http2"]}
MCRequests == {Strict, Compat, DualSite, DualSub, Plain, Upgrade, Controlled} \union Wrong
MCAltSvcHeaders ==
    {[kind |-> "none", list |-> << >>], [kind |-> "clear", list |-> << >>],
     [kind |-> "list", list |-> <<[protocol |-> "Http2", port |-> 443, age |-> 1]>>],
     [kind |-> "list", list |-> <<[protocol |-> "Http3", port |-> 443, age |-> 9],
                                  [protocol |-> "Http2", port |-> 8443, age |-> 9]>>]}

Scenarios == {"sequence", "race", "reuse"}
Threads1 == {CHOOSE t \in Threads : TRUE}
Offered == [sequence |-> {Strict, Compat} \union Wrong, race |-> {Strict, Plain, Upgrade, Controlled},
            reuse |-> {DualSite, DualSub}]
Budget == [sequence |-> 3, race |-> 2, reuse |-> 2]

TransportScenario ==
    /\ TransportNext
    /\ asked' =< Budget[focus] /\ (focus # "sequence" => clock' = 0)
    /\ \A t \in Threads : task'[t].pc # "idle" =>
           task'[t].req \in Offered[focus] /\ (focus = "sequence" => t \in Threads1)

------------------------------------------------------------------------------
Rdata(key) == [len |-> 4, usage |-> 3, selector |-> 1, matching |-> 1, association |-> <<"Sha256", key>>]
Address(owner, ip) == [owner |-> owner, type |-> "A", whole |-> TRUE, ip |-> ip]
Alias(owner, target) == [owner |-> owner, type |-> "Cname", whole |-> TRUE, target |-> target]
Service(priority, port, target) ==
    [owner |-> Site, type |-> "Https", whole |-> TRUE, priority |-> priority, target |-> target,
     mandatory |-> TRUE, alpn |-> {"h2"}, noDefault |-> FALSE, port |-> port]
TlsaAt(port, key) == [owner |-> ServiceName(port, Site), type |-> "Tlsa", rdata |-> Rdata(key)]
Said(secure, records) == [ok |-> TRUE, secure |-> secure, records |-> records]
NoAnswer == [ok |-> FALSE]

PlanRequest(scheme, port, token, tunnel) ==
    [host |-> Site, qname |-> Site, scheme |-> scheme, port |-> port, token |-> token,
     tunnel |-> tunnel]
MCPlanRequests == {PlanRequest("https", 443, "t", FALSE), PlanRequest("wss", 443, "t", TRUE),
                   PlanRequest("http", 443, "t", FALSE), PlanRequest("https", 25, "t", FALSE),
                   PlanRequest("https", 443, "u", FALSE),
                   [PlanRequest("https", 443, "t", FALSE) EXCEPT !.qname = Web],
                   [PlanRequest("https", 443, "t", FALSE) EXCEPT !.host = Web, !.qname = Web]}
MCGatewayConfigs ==
    {[token |-> t, nonPublic |-> FALSE, unsafePorts |-> FALSE, requireSecure |-> s,
      mode |-> "HnsStrict", protocols |-> {"Http11", "Http2", "Http3"}, stateless |-> TRUE]
        : t \in {"t", "none"}, s \in BOOLEAN}

MCAnswers ==
    (<<Site, "any">> :> {NoAnswer, Said(FALSE, << >>), Said(TRUE, << >>),
                         Said(TRUE, <<Address(Site, "pub")>>), Said(TRUE, <<Address(Site, "lan")>>),
                         Said(TRUE, <<Alias(Site, Web), Address(Web, "pub")>>),
                         Said(TRUE, <<Alias(Site, Site)>>),
                         Said(TRUE, <<Address(Web, "pub"), Service(1, 25, << >>)>>),
                         Said(TRUE, <<Address(Site, "pub"), Service(2, 443, << >>), Service(1, 8443, Site)>>)})
    @@ (<<Site, "askA">> :> {NoAnswer, Said(FALSE, <<Address(Site, "pub")>>), Said(TRUE, << >>),
                             Said(TRUE, <<Address(Site, "pub")>>)})
    @@ (<<Site, "askAaaa">> :> {Said(TRUE, << >>), Said(TRUE, <<Address(Site, "pub")>>)})
    @@ (<<Site, "Https">> :> {NoAnswer, Said(FALSE, << >>), Said(TRUE, << >>),
                              Said(TRUE, <<Service(1, 8443, << >>)>>),
                              Said(TRUE, <<Service(1, 25, << >>)>>),
                              Said(TRUE, <<Service(0, 0, << >>)>>)})
    @@ (<<ServiceName(443, Site), "Tlsa">> :> {NoAnswer, Said(TRUE, << >>), Said(TRUE, <<TlsaAt(443, "k1")>>),
                                      Said(FALSE, <<TlsaAt(443, "k1")>>)})
    @@ (<<ServiceName(8443, Site), "Tlsa">> :> {Said(FALSE, << >>), Said(TRUE, <<TlsaAt(8443, "k1"), TlsaAt(443, "k2")>>)})
    @@ (<<ServiceName(25, Site), "Tlsa">> :> {Said(TRUE, << >>)})
    @@ (<<Web, "any">> :> {Said(TRUE, <<Address(Web, "pub")>>)})
    @@ (<<Web, "Https">> :> {NoAnswer})
    @@ (<<ServiceName(443, Web), "Tlsa">> :> {Said(FALSE, << >>)})

------------------------------------------------------------------------------
Reply(infos, version, status, framing, size, close, trailers) ==
    [infos |-> infos, version |-> version, status |-> status, framing |-> framing,
     size |-> size, close |-> close, trailers |-> trailers]
MCWireReplies ==
    {Reply(0, "HTTP/1.1", s, f, n, FALSE, 0) : s \in {200, 204}, f \in {"length", "chunked", "close"},
        n \in {0, 2}}
    \union {Reply(0, v, 200, f, 1, c, 0) : v \in {"HTTP/1.0", "HTTP/1.1"}, f \in {"length", "chunked"},
        c \in BOOLEAN}
    \union {Reply(i, "HTTP/1.1", 200, "chunked", 1, FALSE, t) : i \in 0..2, t \in 0..2}
Field(name, value) == [name |-> name, value |-> value]
MCWireFields ==
    {Field("connection", {v}) : v \in {"close", "x-app", "upgrade", "content-length", "connection", ""}}
    \union {Field(n, {"v"}) : n \in {"upgrade", "host", "content-length", "transfer-encoding",
                                    "proxy-authorization", "x-app", "user-agent", "accept"}}
AnyHead == {HeadToken(v, s, te, cl, FALSE) : v \in {"HTTP/1.1", "HTTP/2"}, s \in {101, 103, 200},
               te \in {<< >>, <<"chunked">>, <<"gzip", "chunked">>}, cl \in {{}, {1}, {1, 2}, {9}}}
Tokens == {Data, LineEnd, Blank, ChunkToken(1), ChunkToken(3), ChunkToken(0), TrailerToken("trailer"),
           HeadToken("HTTP/1.1", 200, << >>, {}, FALSE)}
MCWireStray == {<< >>} \union {<<h, a, b>> : h \in AnyHead, a, b \in Tokens}

------------------------------------------------------------------------------
(* The owner of site holds key kz; a stranger holds ks.                      *)
Tree(root, ds) == [root |-> root, whole |-> TRUE, key |-> Site, kind |-> "Inclusion",
                   proves |-> TRUE, value |-> [name |-> Site, whole |-> TRUE, ds |-> ds]]
ProofPieces == {Tree("r1", {"kz"}), Tree("rx", {"ks"}),
                [Tree("r1", {"ks"}) EXCEPT !.proves = FALSE],
                [Tree("r1", {"ks"}) EXCEPT !.key = <<"stranger">>, !.value.name = <<"stranger">>],
                [Tree("r1", {}) EXCEPT !.kind = "Exclusion"]}
Dnskey(keys) == [i \in DOMAIN keys |-> [owner |-> Site, type |-> "Dnskey", key |-> keys[i]]]
Rrsig(owner, covered, key, over, until) ==
    [owner |-> owner, type |-> "Rrsig", covered |-> covered, key |-> key, over |-> over,
     from |-> 0, until |-> until]
TlsaRr(port, host, key) == [owner |-> ServiceName(port, host), type |-> "Tlsa", rdata |-> Rdata(key)]
OwnTlsa == {TlsaRr(443, Site, "k1")}
OldTlsa == {TlsaRr(443, Site, "k0")}
OwnKeys == ToSet(Dnskey(<<"kz">>))
BothKeys == ToSet(Dnskey(<<"kz", "ks">>))
ChainPieces ==
    {Dnskey(<<"kz">>) \o <<Rrsig(Site, "Dnskey", "kz", OwnKeys, 2)>>,
     Dnskey(<<"kz", "ks">>) \o <<Rrsig(Site, "Dnskey", "ks", BothKeys, 2)>>,
     Dnskey(<<"kz", "ks">>) \o <<Rrsig(Site, "Dnskey", "kz", OwnKeys, 2)>>}
TlsaPieces ==
    {<<TlsaRr(443, Site, "k1"), Rrsig(ServiceName(443, Site), "Tlsa", "kz", OwnTlsa, 2)>>,
     <<TlsaRr(443, Site, "k0"), Rrsig(ServiceName(443, Site), "Tlsa", "kz", OldTlsa, 0)>>,
     <<TlsaRr(443, Site, "ks"), Rrsig(ServiceName(443, Site), "Tlsa", "ks", {TlsaRr(443, Site, "ks")}, 2)>>,
     <<TlsaRr(443, Site, "ks"), Rrsig(ServiceName(443, Site), "Tlsa", "kz", OwnTlsa, 2)>>,
     <<TlsaRr(8443, Site, "ks"), Rrsig(ServiceName(443, Site), "Tlsa", "kz", OwnTlsa, 2)>>, << >>}
MCClaimCerts ==
    {[Cert("c", "k1", FALSE) EXCEPT
        !.proofs = p, !.chains = c]
        : p \in {<< >>} \union {<<[whole |-> w, list |-> l]>> : w \in BOOLEAN,
                      l \in {<<x>> : x \in ProofPieces} \union {<<x, y>> : x, y \in ProofPieces}},
          c \in {<< >>} \union {<<[whole |-> TRUE, records |-> k \o t]>> : k \in ChainPieces, t \in TlsaPieces}}
MCPublished == (ServiceName(443, Site) :> {Rdata("k1")})

------------------------------------------------------------------------------
\* Two valid configurations and two the constructor must refuse.
MCLimitConfigs ==
    {[global |-> 2, perHost |-> 1, window |-> 3, tracked |-> 2],
     [global |-> 2, perHost |-> 2, window |-> 3, tracked |-> 1],
     [global |-> 0, perHost |-> 1, window |-> 3, tracked |-> 1],
     [global |-> 2, perHost |-> 4, window |-> 3, tracked |-> 1]}
MCMaxConfig == [global |-> 3, perHost |-> 3, window |-> 3, tracked |-> 2]

\* Fields that frame a body, manage the connection, are internal, or are not.
MCRequestFields ==
    {Field("content-length", v) : v \in {"0", "2", "bad"}}
    \union {Field("transfer-encoding", v) : v \in {"chunked", "gzip"}}
    \union {Field("connection", v) : v \in {"close", "x-app", "upgrade", "bad token"}}
    \union {Field("upgrade", "websocket"), Field("proxy-authorization", "secret"),
            Field("x-hns-other", "v"), Field("x-app", "v"), Field("expect", "100-continue")}
MCResponseFields ==
    {Field("content-length", v) : v \in {"0", "1", "bad"}}
    \union {Field("connection", v) : v \in {"x-app", "upgrade"}}
    \union {Field("transfer-encoding", "chunked"), Field("upgrade", "websocket"),
            Field("x-hns-security-path", "v"), Field("x-app", "v"), Field("alt-svc", "v")}
Framing == INSTANCE HttpFraming WITH RequestFields <- MCRequestFields, ResponseFields <- MCResponseFields

------------------------------------------------------------------------------
FirstOf(S) == CHOOSE x \in S : TRUE
Init == /\ focus \in Scenarios \union {"plan", "wire", "claim", "limiter", "store", "framing"}
        /\ LimiterInit /\ StoreInit /\ Framing!FramingInit
        /\ focus # "framing" => route = "hns"
        /\ focus # "limiter" => limits.tracked = 1 /\ hashOf = FirstOf([LimitedHosts -> HostKeys])
        /\ TransportInit
        /\ IF focus = "plan" THEN PlanInit
           ELSE config = FirstOf(GatewayConfigs) /\ planStep = "idle" /\ planned = NoPlan /\ given = {}
        /\ IF focus = "wire" THEN WireInit
           ELSE /\ outgoing = NoRequest /\ method = "GET" /\ first = NoReply /\ second = << >> /\ stream = << >>
                /\ phase = "head" /\ reader = NewReader
        /\ IF focus = "claim" THEN ClaimInit
           ELSE /\ claim = [cert |-> MCCertOf.pinned, host |-> Site, port |-> 443]
                /\ verdict = NoVerdict

Next ==
    \/ /\ UNCHANGED <<focus, limiterVars, storeVars, framingVars>>
       /\ \/ focus \in Scenarios /\ TransportScenario /\ UNCHANGED <<planVars, wireVars, claimVars>>
          \/ focus = "plan" /\ PlanNext /\ UNCHANGED <<transportVars, wireVars, claimVars>>
          \/ focus = "wire" /\ WireNext /\ UNCHANGED <<transportVars, planVars, claimVars>>
          \/ focus = "claim" /\ ClaimNext /\ UNCHANGED <<transportVars, planVars, wireVars>>
    \/ /\ UNCHANGED <<focus, originVars>>
       /\ \/ focus = "limiter" /\ LimiterNext /\ UNCHANGED <<storeVars, framingVars>>
          \/ focus = "store" /\ StoreNext /\ UNCHANGED <<limiterVars, framingVars>>
          \/ focus = "framing" /\ Framing!FramingNext /\ UNCHANGED <<limiterVars, storeVars>>

Spec == Init /\ [][Next]_vars

\* No message is read as part of another, on either side of the loopback proxy: a
\* kept connection is reused only in step with its origin (read_chunked_body_to_writer,
\* put_http11_connection), and the heads and bodies that the proxy rewrites say
\* where they end (sanitize_headers and the encoders of response heads): WireSafety
\* of module OriginWire and FramingSafety of module HttpFraming.
MessageFraming == WireSafety /\ Framing!FramingSafety

\* What an origin is trusted by is its own: the plan asks TLSA for the port that
\* is connected to and believes no more than the answer (resolve_origin_request,
\* resolve_tlsa_records), and a stateless certificate is believed only for records
\* that the owner of the name published (evaluate_stateless_dane_certificate):
\* PlanSafety of module OriginPlan and EvidenceGenuine of module DaneEvidence.
TrustedEvidence == PlanSafety /\ EvidenceGenuine
=============================================================================
