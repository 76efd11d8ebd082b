----------------------------- MODULE OriginPlan -----------------------------
(* LocalGateway::resolve_origin_request of hns-gateway: from a request and   *)
(* what the resolver answers, one question at a time, to the request the     *)
(* transport is given.  A record is [owner, type, ...]; a host is a sequence *)
(* of labels.                                                                *)

EXTENDS DanePolicy

CONSTANTS PlanRequests,   \* [host, qname, scheme, port, token, tunnel]
          GatewayConfigs, \* [token, nonPublic, unsafePorts, requireSecure, mode,
                          \*   protocols, stateless]
          HnsHosts,       \* hosts that classify_name takes for Handshake names
          RoutableIps, BlockedPorts,
          Answers,        \* question <<name, type>> -> answers the resolver may give
          MaxCnames       \* MAX_CNAME_CHAIN_LEN

VARIABLES config, planStep, planned, given

planVars == <<config, planStep, planned, given>>

\* The request in the making; given is every answer taken so far.
NoPlan == [req |-> CHOOSE r \in PlanRequests : TRUE, addr |-> "none", port |-> 0, protocol |-> "Http11",
           mode |-> "IcannWebPki", stateless |-> FALSE, secure |-> FALSE, records |-> << >>,
           tlsPort |-> 443, error |-> "none"]

PlanInit == /\ config \in GatewayConfigs
            /\ planStep = "idle" /\ planned = NoPlan /\ given = {}

Refuse(error) == planStep' = "refused" /\ planned' = [planned EXCEPT !.error = error]
Ask(name, type) == IF <<name, type>> \in DOMAIN Answers THEN Answers[<<name, type>>] ELSE {}
Took(name, type, answer) == given' = given \union {[name |-> name, type |-> type, answer |-> answer]}

Supported == IF planned.req.tunnel THEN {"Http11"} ELSE config.protocols
SafePort(port) == config.unsafePorts \/ port \notin BlockedPorts

------------------------------------------------------------------------------
\* authorize, hosts_match and the first validate_origin_port.
StartPlan(req) ==
    /\ planStep = "idle"
    /\ IF config.token # "none" /\ req.token # config.token
       THEN planStep' = "refused" /\ planned' = [NoPlan EXCEPT !.req = req, !.error = "Unauthorized"]
       ELSE IF req.host # req.qname
       THEN planStep' = "refused"
            /\ planned' = [NoPlan EXCEPT !.req = req, !.error = "HostResolutionMismatch"]
       ELSE IF ~SafePort(req.port)
       THEN planStep' = "refused" /\ planned' = [NoPlan EXCEPT !.req = req, !.error = "UnsafePort"]
       ELSE planStep' = "resolve" /\ planned' = [NoPlan EXCEPT !.req = req, !.port = req.port]
    /\ UNCHANGED <<config, given>>

\* cname_target_for_owner: exactly one alias, whose target parses.
CnameTargets(records, owner) ==
    LET aliases == SelectSeq(records, LAMBDA r : r.owner = owner /\ r.type = "Cname")
    IN  IF Len(aliases) = 1 /\ aliases[1].whole THEN {aliases[1].target} ELSE {}

\* resolved_address_for_owner: the address the records give an owner, through
\* at most MaxCnames aliases; "none" if there is none.
ResolvedAddress(records, host) ==
    LET addresses(owner) ==
            SelectSeq(records, LAMBDA r : r.owner = owner /\ r.type \in {"A", "Aaaa"} /\ r.whole)
        owners == {host} \union UNION {CnameTargets(records, records[i].owner) : i \in DOMAIN records}
        find[depth \in 0..(MaxCnames + 1)] ==
            [owner \in owners |->
                IF depth = 0 THEN "none"
                ELSE IF addresses(owner) # << >> THEN addresses(owner)[1].ip
                ELSE IF CnameTargets(records, owner) = {} THEN "none"
                ELSE find[depth - 1][CHOOSE o \in CnameTargets(records, owner) : TRUE]]
    IN  find[MaxCnames + 1][host]

\* validate_origin_address, and where the plan goes from there.
TakeAddress(addr) ==
    IF config.nonPublic \/ addr \in RoutableIps
    THEN /\ planned' = [planned EXCEPT !.addr = addr]
         /\ planStep' = IF planned.req.scheme \in {"https", "wss"} THEN "service" ELSE "check"
    ELSE Refuse("NonPublicOriginAddress")

\* The answer to the request's own question.
ResolveName(answer) ==
    LET addr == ResolvedAddress(answer.records, planned.req.host)
    IN  /\ planStep = "resolve"
        /\ Took(planned.req.qname, "any", answer)
        /\ IF ~answer.ok THEN Refuse("Resolver")
           ELSE IF ~answer.secure THEN Refuse("InsecureResolution")
           ELSE IF addr # "none" THEN TakeAddress(addr)
           ELSE planStep' = "askA" /\ UNCHANGED planned
        /\ UNCHANGED config

\* resolve_origin_address: A, then AAAA.
ResolveOriginAddress(answer) ==
    LET addr == ResolvedAddress(answer.records, planned.req.host)
    IN  /\ planStep \in {"askA", "askAaaa"}
        /\ Took(planned.req.host, IF planStep = "askA" THEN "A" ELSE "Aaaa", answer)
        /\ IF ~answer.ok THEN Refuse("Resolver")
           ELSE IF ~answer.secure THEN Refuse("InsecureResolution")
           ELSE IF addr # "none" THEN TakeAddress(addr)
           ELSE IF planStep = "askA" THEN planStep' = "askAaaa" /\ UNCHANGED planned
           ELSE Refuse("NoResolvedAddress")
        /\ UNCHANGED config

------------------------------------------------------------------------------
\* selected_alpn_protocol.
SelectedAlpn(svc, protocols) ==
    IF "Http3" \in protocols /\ "h3" \in svc.alpn THEN "Http3"
    ELSE IF "Http2" \in protocols /\ "h2" \in svc.alpn THEN "Http2"
    ELSE IF "Http11" \in protocols /\ ("http/1.1" \in svc.alpn \/ ~svc.noDefault) THEN "Http11"
    ELSE "none"

\* selected_https_service with validate_supported_mandatory_params: the first
\* service of the lowest priority that can be used.
SelectedService(records, host, protocols) ==
    LET services == SelectSeq(records, LAMBDA r : r.type = "Https" /\ r.owner = host)
        unsupported(r) == ~r.whole \/ r.priority = 0 \/ r.target \notin {<< >>, host} \/ ~r.mandatory
        usable == {i \in DOMAIN services : SelectedAlpn(services[i], protocols) # "none"}
        best == CHOOSE i \in usable : \A j \in usable \ {i} :
                    \/ services[i].priority < services[j].priority
                    \/ services[i].priority = services[j].priority /\ i < j
    IN  IF services = << >> THEN Ok([found |-> FALSE])
        ELSE IF (\E i \in DOMAIN services : unsupported(services[i])) \/ usable = {}
        THEN Err("UnsupportedSvcb")
        ELSE Ok([found |-> TRUE, port |-> services[best].port,
                 protocol |-> SelectedAlpn(services[best], protocols)])

\* apply_https_service_policy.
Applied(service) ==
    [planned EXCEPT !.port = IF service.found /\ service.port # 0 THEN service.port ELSE @,
                    !.protocol = IF service.found THEN service.protocol ELSE @]

\* domain_trust_mode_for_host, and the service policy of the first answer.
ApplyService ==
    LET mode == IF planned.req.host \in HnsHosts THEN config.mode ELSE "IcannWebPki"
        first == CHOOSE g \in given : g.type = "any"
        service == SelectedService(first.answer.records, planned.req.host, Supported)
    IN  /\ planStep = "service"
        /\ IF ~service.ok THEN Refuse(service.error)
           ELSE /\ planned' = [Applied(service.value) EXCEPT
                      !.mode = mode, !.stateless = config.stateless /\ mode # "IcannWebPki"]
                /\ planStep' = IF service.value.found THEN "tlsa" ELSE "askHttps"
        /\ UNCHANGED <<config, given>>

\* resolve_https_service_policy: a resolver error is no reason to stop.
ResolveService(answer) ==
    LET service == SelectedService(answer.records, planned.req.host, Supported)
    IN  /\ planStep = "askHttps"
        /\ Took(planned.req.host, "Https", answer)
        /\ IF ~answer.ok THEN planStep' = "tlsa" /\ UNCHANGED planned
           ELSE IF config.requireSecure /\ ~answer.secure THEN Refuse("InsecureResolution")
           ELSE IF ~service.ok THEN Refuse(service.error)
           ELSE planStep' = "tlsa" /\ planned' = Applied(service.value)
        /\ UNCHANGED config

\* tlsa_records: every record of the service must parse.
TlsaRecords(records, service) ==
    LET own == SelectSeq(records, LAMBDA r : r.type = "Tlsa" /\ r.owner = service)
        bad == {i \in DOMAIN own : ~ParseRdata(own[i].rdata).ok}
    IN  IF bad # {} THEN Err("Dane") ELSE Ok([i \in DOMAIN own |-> ParseRdata(own[i].rdata).value])

MutantTlsaQuestion == ServiceName(planned.req.port, planned.req.host)
\* tlsa_resolution_request.
TlsaQuestion == ServiceName(planned.port, planned.req.host)

\* resolve_tlsa_records and resolve_native_tlsa_records.
ResolveTlsa(answer) ==
    LET records == TlsaRecords(answer.records, TlsaQuestion)
    IN  /\ planStep = "tlsa"
        /\ Took(TlsaQuestion, "Tlsa", answer)
        /\ IF ~answer.ok THEN Refuse("Resolver")
           ELSE IF ~records.ok THEN Refuse(records.error)
           ELSE IF config.requireSecure /\ ~answer.secure /\ records.value # << >>
           THEN Refuse("InsecureResolution")
           ELSE /\ planned' = [planned EXCEPT !.secure = answer.secure, !.tlsPort = planned.port,
                                              !.records = records.value]
                /\ planStep' = "check"
        /\ UNCHANGED config

\* The last validate_origin_port.
CheckPlan ==
    /\ planStep = "check"
    /\ IF SafePort(planned.port) THEN planStep' = "ready" /\ UNCHANGED planned
       ELSE Refuse("UnsafePort")
    /\ UNCHANGED <<config, given>>

PlanNext ==
    \/ \E req \in PlanRequests : StartPlan(req)
    \/ planStep = "resolve" /\ \E a \in Ask(planned.req.qname, "any") : ResolveName(a)
    \/ planStep \in {"askA", "askAaaa"} /\ \E a \in Ask(planned.req.host, planStep) :
           ResolveOriginAddress(a)
    \/ ApplyService
    \/ planStep = "askHttps" /\ \E a \in Ask(planned.req.host, "Https") : ResolveService(a)
    \/ planStep = "tlsa" /\ \E a \in Ask(TlsaQuestion, "Tlsa") : ResolveTlsa(a)
    \/ CheckPlan

------------------------------------------------------------------------------
Ready == planStep = "ready"
TlsPlan == Ready /\ planned.req.scheme \in {"https", "wss"}

\* The transport is sent only to an address that a secure answer about the
\* request's own host leads to, and, in a gateway with the default policy, one
\* that is routable, at a port a browser may use, wherever the service policy
\* moved it (resolve_origin_request, validate_origin_address).
PlannedTarget ==
    Ready =>
      /\ \E g \in given : /\ g.name = planned.req.host /\ g.answer.ok /\ g.answer.secure
                          /\ \E i \in DOMAIN g.answer.records :
                                 /\ g.answer.records[i].type \in {"A", "Aaaa"}
                                 /\ g.answer.records[i].ip = planned.addr
      /\ ~config.nonPublic => planned.addr \in RoutableIps
      /\ ~config.unsafePorts => planned.port \notin BlockedPorts

\* The certificate policy of a planned connection is that of the port it goes
\* to: the TLSA records are what the resolver said of that very service, they
\* are never used as secure when they are not, and stateless evidence will be
\* judged for the same port (resolve_tlsa_records, service_port).
PlannedPolicy ==
    TlsPlan =>
      /\ planned.tlsPort = planned.port
      /\ \E g \in given :
            /\ g.type = "Tlsa" /\ g.answer.ok
            /\ planned.secure => g.answer.secure
            /\ LET about == SelectSeq(g.answer.records,
                        LAMBDA r : r.type = "Tlsa" /\ r.owner = ServiceName(planned.port, planned.req.host))
               IN  Len(planned.records) = Len(about)
      /\ planned.req.host \in HnsHosts => planned.mode = config.mode

\* The plan of a connection: where it goes and what its certificate must show.
PlanSafety == PlannedTarget /\ PlannedPolicy
=============================================================================
