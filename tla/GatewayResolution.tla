------------------------- MODULE GatewayResolution -------------------------
(***************************************************************************)
(* One gateway request of crate hns-browser-runtime: the stack of          *)
(* resolvers android_gateway_resolver builds for it, the lookups the       *)
(* gateway makes through that stack, and the response with its trace.      *)
(*                                                                         *)
(*   HNS name:   local proof -> direct authoritative DNS -> peer relay     *)
(*                 -> legacy DoH, DNSSEC validated locally                 *)
(*               and, in compatibility mode, a recursive DoH resolver if   *)
(*               the proof itself is missing                               *)
(*   ICANN name: a recursive DoH resolver                                  *)
(*                                                                         *)
(* Fallbacks remember the root for the rest of the request.  Every DNS     *)
(* exchange leaves an event; provenance is read off the events at the end. *)
(* Validation (module Dnssec), the plan (OriginPlan) and the connection    *)
(* (OriginTransport) are choices here.                                     *)
(***************************************************************************)
EXTENDS Naturals, SequencesExt

CONSTANTS
  Requests,   \* entry point, name class, scheme and control headers of the requests considered
  OriginHeads \* header fields origins send, each a sequence of names with a value

VARIABLES
  entry,    \* the entry point: answer in memory, body to a file, upgrade tunnel, and
            \* execute and open_tunnel of the loopback proxy's backend
  class,    \* classify_name of the host
  scheme,
  config,   \* ParsedGatewayHeaders
  step,     \* where Gateway::handle stands
  layer,    \* the resolver at work on the lookup
  tried,    \* protocols the direct resolver has come to; attempts of the relay
  roots,    \* resolvers whose fallback memory holds the root
  marker,   \* FallbackMarker: the first reason
  signed,   \* the resource that delegates has DS records
  events,   \* DnsTraceRecorder, by what is read off it
  bogus,    \* relayed DNS failed local validation in this lookup
  result,   \* outcome of the lookup
  answers,  \* answers the plan rests on
  error,    \* GatewayError
  decision, \* DaneDecision
  body,     \* what the response body holds
  sent,     \* header fields of the origin's response
  response,
  status    \* BrowserProxyStatus shown to the observer

lookup == <<layer, tried, roots, marker, signed, events, bogus>>
request == <<entry, class, scheme, config>>
vars == <<entry, class, scheme, config, step, layer, tried, roots, marker, signed, events, bogus, result,
          answers, error, decision, body, sent, response, status>>

----------------------------------------------------------------------------
(* Configuration *)

DefaultConfig == [ok |-> TRUE, strict |-> FALSE, relay |-> FALSE, legacy |-> TRUE,
                  stateless |-> FALSE, forwarded |-> {}]

\* One line of parse_gateway_headers.  Strict mode can be asked for and not
\* taken back; a security path of the client's own is dropped.
ApplyHeader(c, header) ==
  CASE header = "strict" -> [c EXCEPT !.strict = TRUE]
    [] header \in {"lenient", "path"} -> c
    [] header = "relay" -> [c EXCEPT !.relay = TRUE]
    [] header = "norelay" -> [c EXCEPT !.relay = FALSE]
    [] header = "legacy" -> [c EXCEPT !.legacy = TRUE]
    [] header = "nolegacy" -> [c EXCEPT !.legacy = FALSE]
    [] header = "stateless" -> [c EXCEPT !.stateless = TRUE]
    [] header = "malformed" -> [c EXCEPT !.ok = FALSE]
    [] OTHER -> [c EXCEPT !.forwarded = @ \cup {header}]

ParseGatewayHeaders(headers) == FoldLeft(ApplyHeader, DefaultConfig, headers)

UseLegacyDoh == ~config.strict /\ config.legacy

----------------------------------------------------------------------------
(* Answers, errors and events *)

NoAnswer == [source |-> "none", secure |-> FALSE, found |-> FALSE, proven |-> FALSE]
Answer(source, secure, found, proven) ==
  [source |-> source, secure |-> secure, found |-> found, proven |-> proven]

Pending == [kind |-> "pending", answer |-> NoAnswer, error |-> "none"]
Answered(answer) == [kind |-> "answer", answer |-> answer, error |-> "none"]
Refused(e) == [kind |-> "error", answer |-> NoAnswer, error |-> e]

\* The lookups of resolve_origin_request, and what each one asks for.
Lookups == {"initial", "address", "address6", "service", "tlsa"}
Question == [initial |-> "address", address |-> "address", address6 |-> "address",
             service |-> "service", tlsa |-> "tlsa"]

\* The events of a request: for each question the protocol of the last exchange
\* that went well, and the protocol of the last exchange.
NoEvents == [address |-> "none", service |-> "none", tlsa |-> "none", last |-> "none"]

MutantPush(protocol, ended) ==
  events' = [events EXCEPT ![Question[step]] = IF ended = "ok" /\ @ = "none" THEN protocol ELSE @,
                           !.last = protocol]

\* DnsTraceRecorder::push of a dns_trace_event or a doh_trace_event.
Push(protocol, ended) ==
  events' = [events EXCEPT ![Question[step]] = IF ended = "ok" THEN protocol ELSE @, !.last = protocol]

\* dns_trace_error_status, of the errors a transport returns
ErrorStatus == [DnsTransport |-> "transport_error", InvalidDnsResponse |-> "invalid_response"]

----------------------------------------------------------------------------
(* The stack of resolvers *)

Init ==
  /\ \E r \in Requests :
       /\ entry = r.entry /\ class = r.class /\ scheme = r.scheme
       /\ config = ParseGatewayHeaders(r.headers)
  /\ step = "begin" /\ layer = "none" /\ tried = 0 /\ roots = {} /\ marker = "none"
  /\ signed = FALSE /\ events = NoEvents /\ bogus = FALSE /\ result = Pending
  /\ answers = [initial |-> NoAnswer, address |-> NoAnswer, tlsa |-> NoAnswer]
  /\ error = "none" /\ decision = "none" /\ body = "none"
  /\ sent = <<>> /\ response = [kind |-> "none"] /\ status = [kind |-> "none"]

\* FallbackMarker::mark; reasons are told apart by the resolver that gives them.
Mark(reason) == marker' = IF marker = "none" THEN reason ELSE marker

\* CompositeResolver, then FallbackResolver: a remembered root goes straight to
\* the recursive DoH resolver.
Resolve ==
  /\ step \in Lookups /\ layer = "none" /\ result = Pending
  /\ bogus' = FALSE /\ tried' = 0 /\ signed' = FALSE
  /\ IF class = "icann" THEN layer' = "icann" /\ UNCHANGED marker
     ELSE IF "root" \in roots THEN layer' = "recursive" /\ Mark("root")
     ELSE layer' = "proof" /\ UNCHANGED marker
  /\ UNCHANGED <<request, step, roots, events, result, answers, error, decision, body, sent, response, status>>

Finish(r) == result' = r /\ layer' = "none" /\ tried' = 0

\* doh_fallback_reason, delegated_doh_transport_fallback_reason, delegated_p2p_fallback_allowed
DohFallbackReason == {"ProofUnavailable", "LocalChainNotCurrent", "NoNameserverAddress"}
DelegatedDohReason == {"DnsTransport", "DnsResponseCode", "InvalidDnsResponse", "DnssecFailed"}
P2pFallbackAllowed == {"DnsTransport", "DnsResponseCode", "InvalidDnsResponse", "DnssecFailed"}

\* FallbackResolver::resolve after its primary failed.
RootFailed(e) ==
  IF UseLegacyDoh /\ e \in DohFallbackReason
  THEN /\ roots' = roots \cup {"root"} /\ Mark("root") /\ layer' = "recursive"
       /\ tried' = 0 /\ UNCHANGED result
  ELSE Finish(Refused(e)) /\ UNCHANGED <<roots, marker>>

\* FallbackDelegatedResolver::resolve_delegated after its primary failed.
DelegatedFailed(e) ==
  IF UseLegacyDoh /\ e \in DelegatedDohReason
  THEN /\ roots' = roots \cup {"delegated"} /\ Mark("delegated") /\ layer' = "legacy"
       /\ tried' = 0 /\ UNCHANGED result
  ELSE RootFailed(e)

\* P2pFallbackDelegatedResolver::resolve_delegated after the direct path failed.
DirectFailed(e) ==
  IF config.relay /\ e \in P2pFallbackAllowed
  THEN /\ roots' = roots \cup {"relay"} /\ layer' = "relay" /\ tried' = 0
       /\ UNCHANGED <<marker, result>>
  ELSE DelegatedFailed(e)

\* DelegatingResolver: GatewayProofProvider proves the name (module ProofCache)
\* and its resource answers, delegates, or is of no use.
ProofErrors == {"ProofUnavailable", "LocalChainNotCurrent", "NameNotFound", "ProofNameMismatch",
                "InvalidResource", "NoNameserverAddress"}

ProveName ==
  /\ layer = "proof"
  /\ \/ \E found \in BOOLEAN :
          /\ Finish(Answered(Answer("resource", TRUE, found, TRUE)))
          /\ UNCHANGED <<roots, marker, signed>>
     \/ /\ signed' \in BOOLEAN
        /\ CASE "delegated" \in roots -> layer' = "legacy" /\ Mark("delegated")
             [] "relay" \in roots /\ "delegated" \notin roots -> layer' = "relay" /\ UNCHANGED marker
             [] OTHER -> layer' = "direct" /\ UNCHANGED marker
        /\ UNCHANGED <<roots, tried, result>>
     \/ \E e \in ProofErrors : RootFailed(e) /\ UNCHANGED signed
  /\ UNCHANGED <<request, step, events, bogus, answers, error, decision, body, sent, response, status>>

\* What a response can come to: without DS records nothing is validated, and the
\* answer is taken as insecure.
Exchanged == {"valid", "code", "garbled"} \cup (IF signed THEN {"bogus"} ELSE {})
VerdictError == [bogus |-> "DnssecFailed", code |-> "DnsResponseCode", garbled |-> "InvalidDnsResponse"]

\* What the recorder makes of it: doh_trace_event looks into the response,
\* dns_trace_event does not.
ExchangeStatus(protocol, v) ==
  IF protocol \in {"authoritative_doh", "hns_doh"} /\ v \in {"code", "garbled"}
  THEN "invalid_response" ELSE "ok"

DirectProtocols == <<"authoritative_doh", "udp53", "tcp53">>

\* AuthoritativeDnssecResolver over AndroidAuthoritativeDnsTransport: DoH first,
\* then UDP, then TCP, until an answer validates or there is nothing left.
DirectExchange ==
  /\ layer = "direct"
  /\ \E p \in (tried + 1)..Len(DirectProtocols) :
       \/ \E v \in Exchanged :
            /\ Push(DirectProtocols[p], ExchangeStatus(DirectProtocols[p], v))
            /\ IF v = "valid"
               THEN /\ \E found \in BOOLEAN :
                         Finish(Answered(Answer(DirectProtocols[p], signed, found, TRUE)))
                    /\ UNCHANGED <<roots, marker>>
               ELSE \/ p < Len(DirectProtocols) /\ tried' = p /\ UNCHANGED <<roots, marker, layer, result>>
                    \/ DirectFailed(VerdictError[v])
       \/ \E e \in DOMAIN ErrorStatus :
            /\ Push(DirectProtocols[p], ErrorStatus[e])
            /\ \/ p < Len(DirectProtocols) /\ tried' = p /\ UNCHANGED <<roots, marker, layer, result>>
               \/ DirectFailed(e)
  /\ UNCHANGED <<request, step, signed, bogus, answers, error, decision, body, sent, response, status>>

MutantRelayVerdict(e, retry) == e

\* RelayDnssecRetryDelegatedResolver and relay_dnssec_result: the error that leaves the relay.
RelayVerdict(e, retry) == IF retry \/ e = "DnssecFailed" THEN "RelayDnssecFailed" ELSE e

\* The relay (module RelayExchange): a DNSSEC failure is tried once more.
RelayAttempt ==
  /\ layer = "relay"
  /\ \/ \E v \in Exchanged :
          /\ Push("p2p_dns_relay", ExchangeStatus("p2p_dns_relay", v))
          /\ bogus' = (bogus \/ v = "bogus")
          /\ CASE v = "valid" -> /\ \E found \in BOOLEAN :
                                      Finish(Answered(Answer("p2p_dns_relay", signed, found, TRUE)))
                                 /\ UNCHANGED <<roots, marker>>
               [] v = "bogus" /\ tried = 0 -> tried' = 1 /\ UNCHANGED <<roots, marker, layer, result>>
               [] OTHER -> DelegatedFailed(RelayVerdict(VerdictError[v], tried = 1))
     \/ \E e \in DOMAIN ErrorStatus :
          /\ Push("p2p_dns_relay", ErrorStatus[e])
          /\ DelegatedFailed(RelayVerdict(e, tried = 1))
          /\ UNCHANGED bogus
  /\ UNCHANGED <<request, step, signed, answers, error, decision, body, sent, response, status>>

\* AuthoritativeDnssecResolver over HnsDohDnsTransport: the third party only carries the DNS.
LegacyExchange ==
  /\ layer = "legacy"
  /\ \/ \E v \in Exchanged :
          /\ Push("hns_doh", ExchangeStatus("hns_doh", v))
          /\ IF v = "valid"
             THEN \E found \in BOOLEAN :
                    /\ Finish(Answered(Answer("hns_doh", signed, found, TRUE)))
                    /\ UNCHANGED <<roots, marker>>
             ELSE RootFailed(VerdictError[v])
     \/ \E e \in DOMAIN ErrorStatus : Push("hns_doh", ErrorStatus[e]) /\ RootFailed(e)
  /\ UNCHANGED <<request, step, signed, bogus, answers, error, decision, body, sent, response, status>>

\* fetch_doh_message: the exchange fails, or its HTTP response is not DNS.
FetchFails(protocol) == Push(protocol, "http_error") /\ Finish(Refused("DnsTransport"))

\* doh_answer_from_body: whoever answers is trusted with the AD flag.
RecursiveAnswer(protocol) ==
  \/ /\ Push(protocol, "ok")
     /\ \E secure, found \in BOOLEAN : Finish(Answered(Answer(protocol, secure, found, FALSE)))
  \/ FetchFails(protocol)
  \/ Push(protocol, "invalid_response") /\ \E e \in {"InvalidDnsResponse", "DnsResponseCode"} : Finish(Refused(e))

\* HnsDohResolver::resolve
HnsDohResolver ==
  /\ layer = "recursive" /\ RecursiveAnswer("hns_doh")
  /\ UNCHANGED <<request, step, signed, roots, marker, bogus, answers, error, decision, body, sent, response, status>>

\* IcannDohResolver::resolve
IcannDohResolver ==
  /\ layer = "icann" /\ RecursiveAnswer("icann_doh")
  /\ UNCHANGED <<request, step, signed, roots, marker, bogus, answers, error, decision, body, sent, response, status>>

----------------------------------------------------------------------------
(* Gateway::handle *)

Backend == {"execute", "open_tunnel"}

\* gateway_http_response and its two variants, up to the first lookup: the
\* headers are parsed and the stores opened.
BeginRequest ==
  /\ step = "begin" /\ entry \notin Backend
  /\ \E storage \in BOOLEAN :
       CASE ~config.ok -> step' = "respond" /\ error' = "BadRequest"
         [] config.ok /\ ~storage -> step' = "respond" /\ error' = "Storage"
         [] OTHER -> step' = "initial" /\ UNCHANGED error
  /\ UNCHANGED <<request, lookup, result, answers, decision, body, sent, response, status>>

\* prepare_proxy_gateway: the same for the proxy, which is told of a failure by
\* an error and not by a response.
PrepareProxyGateway ==
  /\ step = "begin" /\ entry \in Backend
  /\ \/ config.ok /\ step' = "initial" /\ UNCHANGED response
     \/ step' = "done" /\ response' = [kind |-> "failed"]
  /\ UNCHANGED <<request, lookup, result, answers, error, decision, body, sent, status>>

Fail(e) == step' = "respond" /\ error' = e
Proceed(to) == step' = to /\ UNCHANGED error

\* resolve_origin_request: what each answer leads to.
UseAnswer ==
  /\ step \in Lookups /\ result # Pending
  /\ LET a == result.answer IN
     /\ answers' = [initial |-> IF step = "initial" THEN a ELSE answers.initial,
                    address |-> IF Question[step] = "address" /\ a.found THEN a ELSE answers.address,
                    tlsa |-> IF step = "tlsa" THEN a ELSE answers.tlsa]
     /\ CASE result.kind = "error" /\ step = "service" -> Proceed("tlsa")
          [] result.kind = "error" /\ step # "service" -> Fail(result.error)
          [] result.kind = "answer" /\ step \in {"initial", "address", "address6"} ->
               IF ~a.secure THEN Fail("InsecureResolution")
               ELSE IF a.found THEN Proceed(IF scheme = "https" THEN "service" ELSE "connect")
               ELSE CASE step = "initial" -> Proceed("address")
                      [] step = "address" -> Proceed("address6")
                      [] OTHER -> Fail("NoResolvedAddress")
          [] result.kind = "answer" /\ step = "service" ->
               IF a.secure THEN Proceed("tlsa") ELSE Fail("InsecureResolution")
          [] OTHER -> IF a.found /\ ~a.secure THEN Fail("InsecureResolution") ELSE Proceed("connect")
  /\ result' = Pending
  /\ UNCHANGED <<request, lookup, decision, body, sent, response, status>>

\* The origin exchange (module OriginTransport), by the decision it ends with.
\* A body that goes to a file is written as it arrives.
Connect ==
  /\ step = "connect"
  /\ \/ \E d \in IF scheme = "http" THEN {"NoTlsa"}
               ELSE {IF answers.tlsa.found THEN "Matched" ELSE "WebPkiFallback"}
                      \cup {s \in {"StatelessMatched"} : class = "hns" /\ config.stateless} :
          /\ decision' = d /\ body' = "origin" /\ Proceed("respond")
          /\ sent' \in IF entry \in Backend THEN OriginHeads ELSE {<<>>}
     \/ \E e \in {"DaneFailed", "Tls", "Io", "MalformedResponse"} :
          /\ Fail(e)
          /\ body' = IF entry = "file" /\ e \in {"Io", "MalformedResponse"} THEN "partial" ELSE body
          /\ UNCHANGED <<decision, sent>>
  /\ UNCHANGED <<request, lookup, result, answers, response, status>>

----------------------------------------------------------------------------
(* The response *)

\* successful_dns_path_for_types: the last exchange that went well.
SuccessfulDnsPath(question) == events[question]

\* security_path_name
SecurityPath ==
  CASE decision = "StatelessMatched" -> "stateless"
    [] decision = "Matched" -> SuccessfulDnsPath("tlsa")
    [] decision = "NoTlsa" /\ scheme = "http" ->
         LET path == SuccessfulDnsPath("address") IN IF path = "icann_doh" THEN "none" ELSE path
    [] OTHER -> "none"

AuthoritativeDns == {"DnsTransport", "DnsResponseCode", "InvalidDnsResponse", "DnssecFailed"}

\* resolution_source_name; udp53 and tcp53 stand for authoritative_dns.
ResolutionSource(resolved) ==
  CASE class = "icann" -> IF events.last = "icann_doh" THEN "icann_doh" ELSE IF resolved THEN "icann_dns" ELSE "unknown"
    [] class = "hns" /\ resolved ->
         LET path == SuccessfulDnsPath("address") IN IF path = "none" THEN "resource" ELSE path
    [] OTHER -> IF events.last # "none" THEN events.last
                ELSE IF error \in AuthoritativeDns THEN "udp53" ELSE "unknown"

\* hns_proof_trace_status; the last case is CachedStatus.
ProofStatus(resolved, cached) ==
  CASE class # "hns" -> "not_applicable"
    [] class = "hns" /\ resolved /\ answers.initial.secure -> "verified"
    [] class = "hns" /\ error = "ProofUnavailable" -> "unavailable"
    [] class = "hns" /\ error = "NameNotFound" -> "not_found"
    [] class = "hns" /\ error = "LocalChainNotCurrent" -> "stale"
    [] class = "hns" /\ error = "ProofNameMismatch" -> "failed"
    [] OTHER -> cached

\* dnssec_trace_status
DnssecStatus(resolved) ==
  CASE error \in {"DnssecFailed", "RelayDnssecFailed"} -> "bogus"
    [] resolved /\ error \notin {"DnssecFailed", "RelayDnssecFailed"} ->
         IF answers.initial.secure THEN "secure" ELSE "unsigned"
    [] OTHER -> "unknown"

\* tlsa_blocked_by: the reason why no TLSA record was looked at.  An origin that
\* could not be reached is reported alike for every transport.
TlsaBlockedBy(e) ==
  CASE e \in {"NameNotFound", "BadRequest", "none"} -> "none"
    [] e \in {"Io", "MalformedResponse"} -> "origin_transport_failed"
    [] OTHER -> e

\* tls_trace_json: whether DANE was evaluated, on what, and with which result.
TlsTrace(resolved) ==
  [tlsa |-> IF decision = "StatelessMatched" THEN "present"
            ELSE IF ~resolved THEN "not_evaluated"
            ELSE IF answers.tlsa.found THEN "present" ELSE "absent",
   secure |-> decision = "StatelessMatched" \/ (resolved /\ answers.tlsa.secure),
   dane |-> CASE decision \in {"Matched", "StatelessMatched"} -> "verified"
              [] decision = "WebPkiFallback" -> "webpki_fallback"
              [] decision = "NoTlsa" -> "no_tlsa"
              [] OTHER -> IF error = "DaneFailed" THEN "failed" ELSE "not_evaluated",
   blockedBy |-> TlsaBlockedBy(error)]

\* resolution_trace_json
ResolutionTrace(resolved, cached) ==
  [mode |-> IF config.strict THEN "strict" ELSE "compatibility",
   proof |-> ProofStatus(resolved, cached),
   source |-> ResolutionSource(resolved),
   dnssec |-> DnssecStatus(resolved),
   tls |-> TlsTrace(resolved),
   fallback |-> marker]

NoTrace == [mode |-> "none"]

\* map_gateway_error: the status of the error page.
MapGatewayError ==
  [e \in {"ProofUnavailable", "LocalChainNotCurrent"} |-> 503]
    @@ [e \in {"NameNotFound"} |-> 404]
    @@ [e \in {"NoNameserverAddress", "DnsTransport", "DnsResponseCode", "InvalidDnsResponse",
               "DnssecFailed", "RelayDnssecFailed", "InvalidResource", "ProofNameMismatch",
               "InsecureResolution", "NoResolvedAddress", "DaneFailed", "Tls", "Io",
               "MalformedResponse"} |-> 502]
    @@ [e \in {"Storage"} |-> 500] @@ [e \in {"BadRequest"} |-> 400]

\* map_gateway_error_for_host words the errors of ICANN hosts differently.
MapGatewayErrorForHost(e) == [status |-> MapGatewayError[e], wording |-> class]

\* resolver_policy, from the marker
ResolverPolicy == IF marker = "none" THEN "none" ELSE "hns-doh-compat"

\* origin_response_head_with_resolver_policy_and_trace
OriginResponse(cached) ==
  [kind |-> "origin", path |-> SecurityPath, policy |-> ResolverPolicy,
   trace |-> ResolutionTrace(TRUE, cached)]

\* upgrade_response_head_with_resolver_policy_and_trace names no security path.
UpgradeResponse(cached) ==
  [kind |-> "origin", path |-> "none", policy |-> ResolverPolicy,
   trace |-> ResolutionTrace(TRUE, cached)]

\* plain_response_with_address_and_optional_trace
PlainResponse(cached) ==
  [kind |-> "plain", page |-> MapGatewayErrorForHost(error), trace |-> ResolutionTrace(FALSE, cached)]

\* plain_response_to_file_with_address_and_optional_trace writes the page over
\* what the origin left in the file.
ErrorBody == "page"

\* hns_cached_proof_trace_status: what reading the cached proof again may show.
CachedStatus == {"verified", "unavailable", "stale", "not_found", "failed", "unknown"}

\* gateway_http_response_with_transport
RespondInMemory ==
  /\ step = "respond" /\ entry = "memory"
  /\ \E cached \in CachedStatus :
       IF error = "none" THEN response' = OriginResponse(cached) /\ UNCHANGED body
       ELSE response' = PlainResponse(cached) /\ body' = ErrorBody
  /\ step' = "done"
  /\ UNCHANGED <<request, lookup, result, answers, error, decision, sent, status>>

\* gateway_http_response_body_to_file_with_transport; an error page that cannot
\* be written to the file is reported to the caller instead.
RespondToFile ==
  /\ step = "respond" /\ entry = "file"
  /\ \E cached \in CachedStatus :
       IF error = "none" THEN response' = OriginResponse(cached) /\ UNCHANGED body
       ELSE \/ response' = PlainResponse(cached) /\ body' = ErrorBody
            \/ response' = [kind |-> "failed"] /\ UNCHANGED body
  /\ step' = "done"
  /\ UNCHANGED <<request, lookup, result, answers, error, decision, sent, status>>

\* gateway_http_upgrade_tunnel_with_transport; the client may be gone.
RespondTunnel ==
  /\ step = "respond" /\ entry = "tunnel"
  /\ \/ \E cached \in CachedStatus :
          IF error = "none" THEN response' = UpgradeResponse(cached) /\ UNCHANGED body
          ELSE response' = PlainResponse(cached) /\ body' = ErrorBody
     \/ response' = [kind |-> "failed"] /\ UNCHANGED body
  /\ step' = "done"
  /\ UNCHANGED <<request, lookup, result, answers, error, decision, sent, status>>

----------------------------------------------------------------------------
(* Responses for the loopback proxy *)

MetadataNames == {"x-hns-security-path", "x-hns-resolver-policy", "x-hns-resolution-trace"}

\* suppressed_origin_response_header, with is_reserved_hns_header
SuppressedOriginHeader(name) ==
  name \in {"connection", "content-length", "transfer-encoding", "trailer"} \cup MetadataNames

\* connection_nominated_response_headers; a field holds one token here.
Nominated(fields) == {fields[i].value : i \in {j \in DOMAIN fields : fields[j].name = "connection"}}

\* sanitize_typed_origin_headers
SanitizeOriginHeaders(fields) ==
  SelectSeq(fields, LAMBDA x : ~SuppressedOriginHeader(x.name) /\ x.name \notin Nominated(fields))

\* sanitize_typed_upgrade_headers
SanitizeUpgradeHeaders(fields) ==
  SelectSeq(SanitizeOriginHeaders(fields), LAMBDA x : x.name # "upgrade")
    \o <<[name |-> "connection", value |-> "upgrade"], [name |-> "upgrade", value |-> "websocket"]>>

\* parse_upgrade_response_head, and the token check of the sanitizers.
UpgradeAccepted(fields) ==
  /\ "upgrade" \in Nominated(fields)
  /\ LET upgrades == SelectSeq(fields, LAMBDA x : x.name = "upgrade")
     IN Len(upgrades) = 1 /\ upgrades[1].value = "websocket"
HeadersAccepted(fields) == "bad token" \notin Nominated(fields)

\* append_runtime_response_metadata; a field without a value is not sent.
Metadata(path, policy, trace) ==
  SelectSeq(<<[name |-> "x-hns-security-path", value |-> path],
              [name |-> "x-hns-resolver-policy", value |-> policy]>>, LAMBDA x : x.value # "none")
    \o <<[name |-> "x-hns-resolution-trace", value |-> trace]>>

Proxied(kind, path, policy, trace, fields) ==
  [kind |-> kind, path |-> path, policy |-> policy, trace |-> trace,
   headers |-> fields \o Metadata(path, policy, trace)]

\* proxy_response_from_gateway
ProxyResponse(cached) ==
  LET trace == ResolutionTrace(TRUE, cached)
  IN Proxied("origin", SecurityPath, ResolverPolicy, trace, SanitizeOriginHeaders(sent))

\* proxy_tunnel_from_gateway
ProxyTunnel(cached) ==
  LET trace == ResolutionTrace(TRUE, cached)
  IN Proxied("origin", "none", ResolverPolicy, trace, SanitizeUpgradeHeaders(sent))

\* proxy_error_response_from_gateway reports no policy, though the trace does.
ProxyErrorResponse(cached) ==
  LET trace == ResolutionTrace(FALSE, cached)
  IN Proxied("plain", "none", "none", trace, <<>>) @@ [page |-> MapGatewayErrorForHost(error)]

\* RuntimeProxyBackend::execute after the gateway.
RespondProxied ==
  /\ step = "respond" /\ entry = "execute"
  /\ \E cached \in CachedStatus :
       IF error # "none" THEN response' = ProxyErrorResponse(cached) /\ body' = ErrorBody
       ELSE IF HeadersAccepted(sent) THEN response' = ProxyResponse(cached) /\ UNCHANGED body
       ELSE response' = [kind |-> "failed"] /\ UNCHANGED body
  /\ step' = "observe"
  /\ UNCHANGED <<request, lookup, result, answers, error, decision, sent, status>>

\* RuntimeProxyBackend::open_tunnel after the gateway.
RespondProxyTunnel ==
  /\ step = "respond" /\ entry = "open_tunnel"
  /\ \E cached \in CachedStatus :
       IF error # "none" THEN response' = ProxyErrorResponse(cached) /\ body' = ErrorBody
       ELSE IF HeadersAccepted(sent) /\ UpgradeAccepted(sent)
       THEN response' = ProxyTunnel(cached) /\ UNCHANGED body
       ELSE response' = [kind |-> "failed"] /\ UNCHANGED body
  /\ step' = "observe"
  /\ UNCHANGED <<request, lookup, result, answers, error, decision, sent, status>>

\* sanitize_response_headers of the proxy: trusted metadata, unless the head is
\* refused for a field that comes twice.
TrustedMetadata(headers) ==
  SelectSeq(headers, LAMBDA x : x.name \in MetadataNames \ Nominated(headers))
MetadataRefused(headers) ==
  \E i, j \in DOMAIN headers : i # j /\ headers[i].name = headers[j].name /\ headers[i].name \in MetadataNames

\* browser_proxy_status_from_metadata: what is missing is reported as none.
ValueOf(metadata, name, missing) ==
  LET found == SelectSeq(metadata, LAMBDA x : x.name = name)
  IN IF found = <<>> THEN missing ELSE found[1].value

ObserveStatus ==
  /\ step = "observe"
  /\ status' = IF response.kind = "failed" \/ MetadataRefused(response.headers) THEN status
               ELSE LET metadata == TrustedMetadata(response.headers)
                    IN [kind |-> "seen", path |-> ValueOf(metadata, "x-hns-security-path", "none"),
                        policy |-> ValueOf(metadata, "x-hns-resolver-policy", "none"),
                        trace |-> ValueOf(metadata, "x-hns-resolution-trace", NoTrace)]
  /\ step' = "done"
  /\ UNCHANGED <<request, lookup, result, answers, error, decision, body, sent, response>>

----------------------------------------------------------------------------

Next ==
  \/ BeginRequest
  \/ PrepareProxyGateway
  \/ Resolve
  \/ ProveName
  \/ DirectExchange
  \/ RelayAttempt
  \/ LegacyExchange
  \/ HnsDohResolver
  \/ IcannDohResolver
  \/ UseAnswer
  \/ Connect
  \/ RespondInMemory
  \/ RespondToFile
  \/ RespondTunnel
  \/ RespondProxied
  \/ RespondProxyTunnel
  \/ ObserveStatus

Spec == Init /\ [][Next]_vars

----------------------------------------------------------------------------
(* Properties *)

\* The options of the request bound where its questions may go: no third-party
\* resolver in strict mode or with legacy DoH off, no relay unless enabled, and
\* no Handshake machinery for an ICANN name.
StaysWithinPolicy ==
  /\ events.last = "hns_doh" => UseLegacyDoh
  /\ events.last = "p2p_dns_relay" => config.relay
  /\ class = "icann" => events.last \in {"none", "icann_doh"}

\* A lookup in which relayed DNS failed local validation is answered by a relay
\* answer that does validate, or not at all: RelayDnssecFailed opens no fallback.
RelayFailureCloses ==
  bogus => /\ layer \notin {"legacy", "recursive"}
           /\ result.kind = "answer" => result.answer.source = "p2p_dns_relay"

\* The security path and the resolution source of a response name the transport
\* that carried the records the connection was made with, although other
\* transports were tried and answered before.  Records of the proven resource
\* itself, which nothing carried, are left out: a resource that changes between
\* two lookups of a request can stop delegating.
PathTruthful ==
  response.kind = "origin" =>
    LET deciding == IF decision = "Matched" THEN answers.tlsa ELSE answers.address
    IN /\ response.path \notin {"none", "stateless"} /\ deciding.source # "resource" =>
            response.path = deciding.source
       /\ answers.address.source # "resource" => response.trace.source = answers.address.source

\* No origin response without secure addresses and secure TLSA records; a trace
\* that says the HNS proof is verified, for a name resolved without one, also
\* says that the DoH fallback was used.
TraceTruthful ==
  response.kind = "origin" =>
    /\ response.trace.dnssec = "secure"
    /\ response.trace.tls.dane = "verified" => response.trace.tls.secure
    /\ response.trace.proof = "verified" /\ ~answers.initial.proven => response.policy = "hns-doh-compat"

\* The body that goes with a response is the one its head describes: an error
\* page never carries what the origin sent before the exchange failed.
BodyMatchesHead ==
  /\ response.kind = "origin" => body = "origin"
  /\ response.kind = "plain" => body = "page"

\* The status shown for a proxied response is the one the runtime gave it: header
\* fields of the origin neither pass for metadata nor make the proxy drop it.
StatusTruthful ==
  status.kind = "seen" =>
    /\ status.path = response.path /\ status.policy = response.policy
    /\ status.trace = response.trace

\* Where a request may take its questions, and what it may conclude from relays that fail.
RouteSafety == StaysWithinPolicy /\ RelayFailureCloses

\* What a request reports about itself is what happened.
ReportSafety == PathTruthful /\ TraceTruthful /\ BodyMatchesHead /\ StatusTruthful
=============================================================================
