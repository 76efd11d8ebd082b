----------------------------- MODULE HttpFraming -----------------------------
(* One request and its response as the loopback proxy reads and rewrites     *)
(* them: hns-loopback-proxy http1.rs, response.rs and the ICANN relay of     *)
(* server.rs.  A head is a sequence of fields; a field's value is one of the *)
(* few values its meaning depends on; a body is its length in units.  Bytes, *)
(* cases and limits of a parser are one choice: the head is malformed.       *)

EXTENDS Naturals, Sequences

CONSTANTS RequestFields,    \* fields a client may send, besides Host
          ResponseFields,   \* fields an origin may send
          Authorities,      \* authorities of targets and Host fields
          Statuses,         \* response statuses an origin may send
          MaxFields,        \* bound: fields of a head, besides Host
          MaxUnits          \* bound: units of a body

VARIABLES
    stage,      \* "idle", "refused", "forwarded", "awaiting", "relaying", "closed"
    route,      \* "hns" (through the backend) or "icann"
    request,    \* the client's head
    body,       \* units of request body read
    forwarded,  \* the head sent on
    response,   \* the origin's head
    relay,      \* the head sent to the client
    units,      \* units of response body sent to the client
    origin,     \* units the origin still sends, and whether it ends its body
    outcome     \* "none", "completed", "failed"

framingVars == <<stage, route, request, body, forwarded, response, relay, units, origin, outcome>>

Empty == [method |-> "GET", status |-> 0, fields |-> << >>]

FramingInit ==
    /\ stage = "idle" /\ route \in {"hns", "icann"}
    /\ request = Empty /\ body = 0 /\ forwarded = Empty
    /\ response = Empty /\ relay = Empty /\ units = 0
    /\ origin = [left |-> 0, ends |-> TRUE] /\ outcome = "none"

Field(n, v) == [name |-> n, value |-> v]
Named(n, fields) == SelectSeq(fields, LAMBDA f : f.name = n)
Has(n, fields) == Named(n, fields) # << >>
FieldNames(fields) == {fields[i].name : i \in DOMAIN fields}

Lengths == 0..MaxUnits
LengthText == <<"0", "1", "2", "3">>
AsLength(text) == CHOOSE n \in Lengths : LengthText[n + 1] = text
IsLength(text) == \E n \in Lengths : LengthText[n + 1] = text

------------------------------------------------------------------------------
(* Requests. *)

\* determine_body_framing: one length or one chunked coding, never both.
DetermineBodyFraming(fields) ==
    LET cl == Named("content-length", fields)
        te == Named("transfer-encoding", fields) IN
    CASE cl = << >> /\ te = << >> -> "none"
      [] Len(cl) = 1 /\ te = << >> /\ IsLength(cl[1].value) -> cl[1].value
      [] cl = << >> /\ Len(te) = 1 /\ te[1].value = "chunked" -> "chunked"
      [] OTHER -> "invalid"

\* parse_request_target and parse_absolute_target: CONNECT only outside a tunnel;
\* inside one, the origin form or an HTTPS target of the same authority.
ParseRequestTarget(target, connected) ==
    CASE target.form = "connect" /\ connected = "" -> target.authority
      [] target.form \in {"http", "https"} /\ connected = "" -> target.authority
      [] target.form = "origin" /\ connected # "" -> connected
      [] target.form = "https" /\ connected # "" /\ target.authority = connected -> connected
      [] OTHER -> "invalid"

\* host_authority: one Host field, which parse_authority and normalize_host accept.
HostAuthority(fields) ==
    LET hosts == Named("host", fields) IN
    CASE hosts = << >> -> "absent"
      [] Len(hosts) = 1 /\ hosts[1].value \in Authorities -> hosts[1].value
      [] OTHER -> "invalid"

\* validated_target: the Host field names the target's authority; only HTTP/1.0
\* may leave it out.
ValidatedTarget(head, connected) ==
    LET expected == ParseRequestTarget(head.target, connected)
        host == HostAuthority(head.fields) IN
    CASE host = expected -> expected
      [] host = "absent" /\ head.version = "1.0" -> expected
      [] OTHER -> "invalid"

HopByHop == {"connection", "keep-alive", "proxy-authenticate", "proxy-authorization",
             "proxy-connection", "te", "trailer", "transfer-encoding", "upgrade"}
ProxyFields == {"proxy-authorization", "proxy-connection", "proxy-authenticate"}
HnsFields == {"x-hns-security-path", "x-hns-other"}

\* connection_nominated_fields: what Connection or Proxy-Connection nominates.
Nominated(fields) ==
    {fields[i].value : i \in {j \in DOMAIN fields :
                                 fields[j].name \in {"connection", "proxy-connection"}}}

NominationsValid(fields) == "bad token" \notin Nominated(fields)

\* The handshake fields of a WebSocket upgrade, in a request or a response.
IsUpgrade(fields) ==
    /\ \E i \in DOMAIN fields : fields[i] = Field("connection", "upgrade")
    /\ Len(Named("upgrade", fields)) = 1
    /\ Named("upgrade", fields)[1].value = "websocket"

\* The fields that go on: not hop-by-hop, proxy, internal or nominated ones.
Sanitized(fields) ==
    SelectSeq(fields, LAMBDA f : f.name \notin HopByHop \union ProxyFields \union HnsFields
                                               \union Nominated(fields))
UpgradeFields == <<Field("connection", "upgrade"), Field("upgrade", "websocket")>>

\* sanitize_forward_headers, and its variant for an upgrade.
SanitizeForwardHeaders(fields) == Sanitized(fields)
SanitizeUpgradeForwardHeaders(fields) == Sanitized(fields) \o UpgradeFields

\* requests_upgrade: either handshake field is enough to try.
RequestsUpgrade(fields) ==
    Has("upgrade", fields) \/ \E i \in DOMAIN fields : fields[i] = Field("connection", "upgrade")

\* build_forward_headers and its upgrade and ICANN variants: the proxy writes its
\* own Host, Content-Length and Expect.
BuildForwardHeaders(fields, authority, upgrade) ==
    LET kept == IF upgrade THEN SanitizeUpgradeForwardHeaders(fields)
                ELSE SanitizeForwardHeaders(fields) IN
    Append(SelectSeq(kept, LAMBDA f : f.name \notin {"host", "content-length", "expect"}),
           Field("host", authority))

\* encode_icann_request; the HNS backend is handed the same fields and the body.
EncodeRequest(fields, length, upgrade) ==
    fields \o (IF upgrade THEN << >> ELSE <<Field("connection", "close")>>)
           \o (IF length = "none" THEN << >> ELSE <<Field("content-length", length)>>)

\* expects_continue accepts one Expect field with one value.
ExpectationMet(fields) ==
    LET expect == Named("expect", fields) IN
    expect = << >> \/ (Len(expect) = 1 /\ expect[1].value = "100-continue")

\* handle_client or handle_connected_http and the request half of the handlers:
\* read_request_body reads what the framing says, of a chunked body any number of
\* units, and the request is forwarded with the length that was read.
ForwardRequest(head, connected) ==
    /\ stage = "idle"
    /\ LET authority == ValidatedTarget(head, connected)
           framing == DetermineBodyFraming(head.fields)
           upgrade == RequestsUpgrade(head.fields)
           refused == \/ authority = "invalid" \/ framing = "invalid"
                      \/ ~NominationsValid(head.fields) \/ ~ExpectationMet(head.fields)
                      \/ /\ upgrade
                         /\ \/ ~IsUpgrade(head.fields) \/ framing \notin {"none", "0"}
                            \/ Has("expect", head.fields) IN
       \/ /\ refused
          /\ stage' = "refused"
          /\ UNCHANGED <<route, request, body, forwarded>>
       \/ /\ ~refused
          /\ \E n \in IF framing = "chunked" THEN Lengths
                      ELSE {IF framing = "none" THEN 0 ELSE AsLength(framing)} :
                /\ body' = n
                /\ request' = [method |-> head.method, status |-> 0, fields |-> head.fields]
                /\ forwarded' = [method |-> head.method, status |-> 0,
                                 fields |-> EncodeRequest(
                                     BuildForwardHeaders(head.fields, authority, upgrade),
                                     IF framing = "none" \/ upgrade THEN "none"
                                     ELSE LengthText[n + 1],
                                     upgrade)]
          /\ stage' = "forwarded"
          /\ UNCHANGED route
    /\ UNCHANGED <<response, relay, units, origin, outcome>>

------------------------------------------------------------------------------
(* Responses. *)

\* response_content_length and response_is_chunked, of the ICANN relay.
ResponseFraming(method, status, fields) ==
    LET framing == DetermineBodyFraming(fields) IN
    CASE framing = "invalid" -> "invalid"
      [] framing # "invalid" /\ status \in {204, 205} /\ framing \notin {"none", "0"} -> "invalid"
      [] framing # "invalid" /\ (method = "HEAD" \/ status \in {204, 205, 304})
            /\ ~(status \in {204, 205} /\ framing \notin {"none", "0"}) -> "no body"
      [] framing = "none" /\ method # "HEAD" /\ status \notin {204, 205, 304} -> "close"
      [] OTHER -> framing

Managed == ProxyFields \union {"connection", "alt-svc", "content-length", "keep-alive", "te",
                               "trailer", "transfer-encoding", "upgrade"}

\* sanitize_response_headers: internal fields become metadata, and a trusted one
\* must not come twice.
SanitizeResponseHeaders(fields) ==
    SelectSeq(fields, LAMBDA f : f.name \notin Managed \union HnsFields \union Nominated(fields))
ResponseFieldsValid(fields) ==
    /\ "bad token" \notin Nominated(fields)
    /\ "x-hns-security-path" \in Nominated(fields)
          \/ Len(Named("x-hns-security-path", fields)) <= 1

\* encode_response_head: the backend's body has a known length.
EncodeResponseHead(status, fields, length) ==
    [method |-> request.method, status |-> status,
     fields |-> SanitizeResponseHeaders(fields) \o <<Field("connection", "close")>>
                \o (IF status \in {204, 205, 304} THEN << >>
                    ELSE <<Field("content-length", LengthText[length + 1])>>)]

MutantEncodeIcannResponseHead(status, fields, framing) ==
    [method |-> request.method, status |-> status,
     fields |-> SanitizeResponseHeaders(fields) \o <<Field("connection", "close")>>
                \o Named("content-length", fields) \o Named("transfer-encoding", fields)]

\* encode_icann_response_head: a chunked body is relayed without its chunks, so
\* its end is the end of the connection.
EncodeIcannResponseHead(status, fields, framing) ==
    [method |-> request.method, status |-> status,
     fields |-> SanitizeResponseHeaders(fields) \o <<Field("connection", "close")>>
                \o (IF IsLength(framing) \/ (framing = "no body" /\ request.method = "HEAD")
                    THEN Named("content-length", fields) ELSE << >>)]

\* encode_upgrade_response_head.
EncodeUpgradeResponseHead(fields) ==
    [method |-> request.method, status |-> 101,
     fields |-> SanitizeResponseHeaders(fields) \o UpgradeFields]

BadGateway ==
    /\ relay' = [method |-> request.method, status |-> 502, fields |-> <<Field("content-length", "0")>>]
    /\ stage' = "closed" /\ outcome' = "failed"
    /\ UNCHANGED <<units, origin>>

Relaying(head, left, ends) ==
    /\ relay' = head
    /\ origin' = [left |-> left, ends |-> ends]
    /\ stage' = "relaying"
    /\ UNCHANGED <<units, outcome>>

\* write_backend_response, also for an upgrade that the origin declined: the
\* backend declares the length it will deliver, and
\* delivers n units before its reader ends.
WriteBackendHead(status, fields) ==
    /\ route = "hns"
    /\ \E declared \in Lengths :
          IF \/ status \notin 200..599 \/ ~ResponseFieldsValid(fields)
             \/ status \in {204, 205, 304} /\ declared # 0
          THEN BadGateway
          ELSE \E n \in 0..declared :
                  Relaying(EncodeResponseHead(status, fields, declared), n, n = declared)

\* relay_icann_response up to the body: read_icann_response_head has skipped the
\* informational heads; a 101 nobody asked for is an error.
RelayIcannResponse(status, fields) ==
    /\ route = "icann" /\ ~RequestsUpgrade(request.fields)
    /\ LET framing == ResponseFraming(request.method, status, fields)
           declared == IF IsLength(framing) THEN AsLength(framing) ELSE MaxUnits IN
       IF status \notin 200..599 \/ framing = "invalid" \/ ~ResponseFieldsValid(fields)
       THEN BadGateway
       ELSE \E n \in 0..declared, ends \in BOOLEAN :
               /\ IsLength(framing) => ends = (n = declared)
               /\ framing = "no body" => n = 0 /\ ends
               /\ Relaying(EncodeIcannResponseHead(status, fields, framing), n, ends)

\* The answer to an upgrade, on either route; ICANN upgrades cannot be declined.
RelayUpgradeHead(status, fields) ==
    /\ RequestsUpgrade(request.fields)
    /\ IF status # 101 \/ ~IsUpgrade(fields) \/ ~ResponseFieldsValid(fields)
       THEN BadGateway
       ELSE Relaying(EncodeUpgradeResponseHead(fields), 0, TRUE)

\* The request is written.  Only its method and whether it is an upgrade matter
\* from here.
RequestSent ==
    /\ stage = "forwarded" /\ stage' = "awaiting"
    /\ request' = [request EXCEPT !.fields = IF RequestsUpgrade(@) THEN UpgradeFields ELSE << >>]
    /\ forwarded' = Empty /\ body' = 0
    /\ UNCHANGED <<route, response, relay, units, origin, outcome>>

OriginAnswers(status, fields) ==
    /\ stage = "awaiting"
    /\ \/ WriteBackendHead(status, fields)
       \/ RelayIcannResponse(status, fields)
       \/ RelayUpgradeHead(status, fields)
    /\ response' = [method |-> request.method, status |-> status, fields |-> fields]
    /\ UNCHANGED <<route, request, forwarded, body>>

\* copy_exact_response, relay_exact_body, relay_chunked_body and
\* relay_close_delimited_body: units pass on until the origin's body ends, which
\* it does properly or by failing.
RelayBody ==
    /\ stage = "relaying" /\ origin.left > 0
    /\ relay.method # "HEAD"
    /\ units' = units + 1
    /\ origin' = [origin EXCEPT !.left = @ - 1]
    /\ UNCHANGED <<stage, route, request, body, forwarded, response, relay, outcome>>

EndBody ==
    /\ stage = "relaying"
    /\ origin.left = 0 \/ relay.method = "HEAD"
    /\ stage' = "closed"
    /\ outcome' = IF origin.ends \/ relay.method = "HEAD" THEN "completed" ELSE "failed"
    /\ UNCHANGED <<route, request, body, forwarded, response, relay, units, origin>>

\* The fields of a head: a few, in any order, with repetitions.
FieldLists(fields) == UNION {[1..n -> fields] : n \in 0..MaxFields}

HostLists == {<< >>} \union {<<Field("host", a)>> : a \in Authorities \union {"unparsable"}}
             \union {<<Field("host", a), Field("host", b)>> : a, b \in Authorities}
Targets == [form : {"connect", "http", "https", "origin", "bad"}, authority : Authorities]

FramingNext ==
    \/ /\ stage = "idle"
       /\ \E fields \in FieldLists(RequestFields), hosts \in HostLists, target \in Targets,
             version \in {"1.0", "1.1"}, method \in {"GET", "HEAD"},
             connected \in Authorities \union {""} :
             /\ target.form # "http" => fields = << >>    \* targets and fields do not interact
             /\ Len(hosts) > 1 => fields = << >>
             /\ ForwardRequest([method |-> method, target |-> target, version |-> version,
                                fields |-> hosts \o fields], connected)
    \/ RequestSent
    \/ /\ stage = "awaiting"
       /\ \E status \in Statuses, fields \in FieldLists(ResponseFields) : OriginAnswers(status, fields)
    \/ RelayBody
    \/ EndBody

------------------------------------------------------------------------------
(* How any HTTP/1.1 party reads a head: the reference the proxy is held to.  *)

\* The framing of a request, when it has exactly one reading.
RfcRequestLength(fields) ==
    IF Has("transfer-encoding", fields) THEN "chunked"
    ELSE IF Has("content-length", fields) THEN Named("content-length", fields)[1].value ELSE "0"

\* What goes on to the origin has one reading, and in that reading the body is the
\* one the proxy read: no field the client sent can shift where the next message
\* begins, name another host, or pass a hop-by-hop, nominated or internal field.
ForwardedUnambiguous ==
    stage = "forwarded" =>
        LET f == forwarded.fields IN
        /\ Len(Named("content-length", f)) <= 1 /\ ~Has("transfer-encoding", f)
        /\ RfcRequestLength(f) = LengthText[body + 1]
        /\ Len(Named("host", f)) = 1
        /\ Named("host", f)[1].value \in Authorities
        /\ Has("host", request.fields) => Named("host", request.fields)[1] = Named("host", f)[1]
        /\ FieldNames(f) \cap (ProxyFields \union HnsFields \union {"te", "keep-alive"}) = {}
        /\ \A n \in Nominated(request.fields) \cap FieldNames(f) :
              n \in {"upgrade", "host", "content-length", "connection"}

\* The client reads as body exactly the units the proxy relayed; it sees a message
\* as complete only if the proxy recorded it so, unless the origin delimited its
\* body by its own end or by chunks, whose loss only the end of stream could tell.
ClientReadsRelay ==
    stage = "closed" =>
        LET f == relay.fields
            cl == Named("content-length", f)
            bodyless == relay.method = "HEAD" \/ relay.status \in {101, 204, 304}
            seen == IF bodyless THEN 0
                    ELSE IF cl = << >> THEN units
                    ELSE IF AsLength(cl[1].value) <= units THEN AsLength(cl[1].value) ELSE units
            whole == bodyless \/ cl = << >> \/ AsLength(cl[1].value) = units IN
        /\ Len(cl) <= 1 /\ ~Has("transfer-encoding", f)
        /\ seen = units
        /\ whole /\ relay.status # 502 /\ outcome = "failed"
              => DetermineBodyFraming(response.fields) \in {"none", "chunked"}
        /\ outcome = "completed" => whole
        /\ FieldNames(f) \cap (HnsFields \union ProxyFields \union {"alt-svc"}) = {}

\* Neither direction of the relay lets one message be read as another.
FramingSafety == ForwardedUnambiguous /\ ClientReadsRelay
=============================================================================
