--------------------------- MODULE LoopbackRequest ---------------------------
(* What a worker of the loopback proxy does with the one request of its      *)
(* client: hns-loopback-proxy server.rs from handle_client to the last byte. *)
(* Every connection is a process; a stop (cancellation, then revocation of   *)
(* the local certificates) may fall between any two of its steps.  What a    *)
(* handler reads from the request, the backend or an origin is chosen when   *)
(* it reads it.  Statuses are the numbers the code writes, "origin" is a     *)
(* head relayed from the origin.                                             *)

EXTENDS Naturals, Sequences, FiniteSets

CONSTANTS Conns,             \* client connections
          HnsInScope,        \* HNS hosts the scope authorizes
          HnsOther,          \* other HNS hosts
          IcannNames,        \* ICANN names that may be forwarded
          SpecialNames,      \* special-use and search-class names
          PublicAddresses,   \* publicly routable IP literals
          PrivateAddresses,  \* all other IP literals
          NoHost,
          MaxBody            \* bound: units of a response body

ASSUME LoopbackRequestAssumption ==
    /\ MaxBody \in Nat \ {0}
    /\ {"none", "backend"} \intersect PublicAddresses = {}

Hosts == HnsInScope \union HnsOther \union IcannNames \union SpecialNames
         \union PublicAddresses \union PrivateAddresses

VARIABLES
    mode,        \* ProxyRoutingMode of this generation
    tokenCancelled,   \* the CancellationToken
    active,      \* the local identity store still signs
    conn         \* one record per connection

requestVars == <<mode, tokenCancelled, active, conn>>

Fresh == [pc |-> "idle", host |-> NoHost, authed |-> FALSE, rated |-> FALSE, cert |-> NoHost,
          main |-> FALSE, upgrade |-> FALSE, contact |-> "none", left |-> 0,
          sent |-> << >>, obs |-> << >>, meta |-> << >>]

RequestInit ==
    /\ mode \in {"ScopedHns", "WholeBrowser"}
    /\ tokenCancelled = FALSE
    /\ active = TRUE
    /\ conn = [c \in Conns |-> Fresh]

------------------------------------------------------------------------------
(* What the handlers are made of: each maps a connection to its next value.  *)

Ends(k) == [k EXCEPT !.pc = "done"]
GoOn(k, pc) == [k EXCEPT !.pc = pc]
Observe(k, phase) == [k EXCEPT !.obs = Append(@, phase)]
Write(k, head) == [k EXCEPT !.sent = Append(@, head)]

\* observe_response_metadata, of which only main-frame observations are kept.
Metadata(k, status) == IF k.main THEN [k EXCEPT !.meta = Append(@, status)] ELSE k

\* The request is counted as accepted; terminal phases follow it in obs.
Accepted(k) == [k EXCEPT !.obs = <<"Accepted">>]

\* reject_routed_request and reject_scoped_request_with_status.
Reject(k, status) == Ends(Write(Metadata(Observe(k, "Rejected"), status), status))
\* A rejection that is only observed, because the client is not answered.
Drop(k) == Ends(Observe(k, "Rejected"))

\* A failed origin: observed, and answered unless the proxy is stopping.
Fail(k, status) ==
    IF tokenCancelled THEN Ends(Observe(k, "BackendFailed"))
    ELSE Ends(Write(Metadata(Observe(k, "BackendFailed"), status), status))

Completed(k) == Ends(Observe(k, "Completed"))

Become(c, k) ==
    /\ conn' = [conn EXCEPT ![c] = k]
    /\ UNCHANGED <<mode, tokenCancelled, active>>

HeadErrors == {"400", "408", "431"}           \* request_error_status of a head
FramingErrors == {"400", "501"}               \* of determine_body_framing
BackendStatuses == {"400", "403", "500", "501", "502", "503"}   \* backend_error_status

------------------------------------------------------------------------------
(* Admission. *)

\* admit_target_host: a scoped generation knows its scope and nothing else.
AdmitTargetHost(h) ==
    IF h \in HnsInScope THEN "hns"
    ELSE IF mode = "WholeBrowser" /\ h \in IcannNames \union PublicAddresses THEN "icann"
    ELSE "rejected"

\* A connection is accepted by the listener.  Foreign peers and late clients are
\* turned away; a head that cannot be read or parsed is answered with its status.
HandleClient(c) ==
    /\ conn[c].pc = "idle"
    /\ \/ Become(c, Ends(conn[c]))
       \/ /\ ~tokenCancelled
          /\ \/ \E status \in HeadErrors : Become(c, Ends(Write(conn[c], status)))
             \/ Become(c, GoOn(conn[c], "auth"))

\* The credentials are checked before the target is interpreted.
Authenticate(c) ==
    /\ conn[c].pc = "auth"
    /\ \/ Become(c, Ends(Write(conn[c], "407")))
       \/ Become(c, GoOn([conn[c] EXCEPT !.authed = TRUE], "target"))

\* validated_target, admit_target_host and the dispatch to the four handlers.
DispatchTarget(c) ==
    /\ conn[c].pc = "target"
    /\ \/ Become(c, Ends(Write(conn[c], "400")))
       \/ \E h \in Hosts :
             \/ /\ AdmitTargetHost(h) = "rejected"
                /\ Become(c, Ends(Write(Observe(conn[c], "Rejected"), "403")))
             \/ /\ AdmitTargetHost(h) # "rejected"
                /\ \E pc \in IF AdmitTargetHost(h) = "hns" THEN {"direct", "connect"}
                             ELSE {"icannHttp", "icannConnect"} :
                      Become(c, GoOn([Accepted(conn[c]) EXCEPT !.host = h], pc))

\* admit_rate; the limiter itself is RequestRateLimiter.
AdmitRate(c, k, pc) ==
    \/ Become(c, Reject(k, "429"))
    \/ Become(c, GoOn([k EXCEPT !.rated = TRUE], pc))

\* handle_direct_http: an upgrade is never a main-frame navigation.
HandleDirectHttp(c) ==
    /\ conn[c].pc = "direct"
    /\ \E up \in BOOLEAN, nav \in BOOLEAN :
          LET k == [conn[c] EXCEPT !.upgrade = up, !.main = nav /\ ~up] IN
          AdmitRate(c, k, IF up THEN "upgrade" ELSE "http")

\* handle_icann_http: HTTPS needs CONNECT, blocked ports are refused.
HandleIcannHttp(c) ==
    /\ conn[c].pc = "icannHttp"
    /\ \/ \E status \in {"400", "403"} : Become(c, Reject(conn[c], status))
       \/ \E up \in BOOLEAN, nav \in BOOLEAN :
             LET k == [conn[c] EXCEPT !.upgrade = up, !.main = nav /\ ~up] IN
             AdmitRate(c, k, IF up THEN "icannUpgrade" ELSE "icannRequest")

------------------------------------------------------------------------------
(* CONNECT to an HNS host: the proxy terminates TLS itself. *)

\* handle_connect up to the rate limiter.
HandleConnect(c) ==
    /\ conn[c].pc = "connect"
    /\ \/ \E status \in {"501", "417", "400"} : Become(c, Reject(conn[c], status))
       \/ tokenCancelled /\ Become(c, Drop(conn[c]))
       \/ ~tokenCancelled /\ AdmitRate(c, conn[c], "identity")

\* The identity store prepares the host's certificate, or the tunnel is refused;
\* then the client is told that the tunnel stands.
PrepareIdentity(c) ==
    /\ conn[c].pc = "identity"
    /\ \/ Become(c, Reject(conn[c], "503"))
       \/ active /\ Become(c, GoOn(Write([conn[c] EXCEPT !.cert = conn[c].host], "200"), "tls"))
       \/ active /\ Become(c, Ends(conn[c]))

\* accept_local_tls: the certificate resolver checks the server name and that the
\* store is active.  The CONNECT is reported as completed; the stream inside the
\* tunnel carries its own heads and reports its own request.
AcceptLocalTls(c) ==
    /\ conn[c].pc = "tls"
    /\ \/ Become(c, Drop(conn[c]))
       \/ /\ ~tokenCancelled /\ active
          /\ Become(c, GoOn([conn[c] EXCEPT !.obs = << >>, !.sent = << >>], "inner"))

\* handle_connected_http: the request inside must be for the tunnel's authority.
HandleConnectedHttp(c) ==
    /\ conn[c].pc = "inner"
    /\ \/ \E status \in HeadErrors : Become(c, Reject(conn[c], status))
       \/ Become(c, Reject(conn[c], "403"))
       \/ \E h \in HnsInScope, up \in BOOLEAN, nav \in BOOLEAN :
             LET k == [Accepted(conn[c]) EXCEPT !.host = h, !.upgrade = up,
                                               !.main = nav /\ ~up] IN
             /\ h = conn[c].host
             /\ Become(c, GoOn(k, IF up THEN "upgrade" ELSE "http"))

------------------------------------------------------------------------------
(* HNS requests. *)

\* handle_admitted_http up to the body: framing, expectation, forward headers.
HandleAdmittedHttp(c) ==
    /\ conn[c].pc = "http"
    /\ \/ \E status \in FramingErrors \union {"413", "417"} :
             Become(c, Reject(conn[c], status))
       \/ Become(c, Ends(conn[c]))
       \/ Become(c, GoOn(Write(conn[c], "100"), "body"))
       \/ Become(c, GoOn(conn[c], "body"))

\* The body is read under a deadline; then the stop is looked at for the last
\* time before the backend is called.
ReadRequestBody(c) ==
    /\ conn[c].pc = "body"
    /\ \/ \E status \in HeadErrors \union {"413"} : Become(c, Reject(conn[c], status))
       \/ Become(c, Drop(conn[c]))
       \/ ~tokenCancelled /\ Become(c, GoOn([conn[c] EXCEPT !.contact = "backend"], "call"))

\* write_backend_response: the head is validated before anything is written, and
\* the metadata of a valid head is observed before it is written.
WriteBackendResponse(c) ==
    \/ Become(c, Fail(conn[c], "502"))
    \/ LET k == Write(Metadata(conn[c], "origin"), "origin") IN
       \/ Become(c, Ends(Metadata(conn[c], "origin")))
       \/ Become(c, Completed(k))
       \/ Become(c, GoOn([k EXCEPT !.left = MaxBody], "copy"))

\* execute_backend.
ExecuteBackend(c) ==
    /\ conn[c].pc = "call"
    /\ \/ \E status \in BackendStatuses : Become(c, Fail(conn[c], status))
       \/ tokenCancelled /\ Become(c, Ends(conn[c]))
       \/ ~tokenCancelled /\ WriteBackendResponse(c)

MutantCopyExactResponse(c) ==
    /\ conn[c].pc = "copy"
    /\ \/ tokenCancelled /\ Become(c, Ends(conn[c]))
       \/ ~tokenCancelled /\ conn[c].left > 0 /\ Become(c, [conn[c] EXCEPT !.left = @ - 1])
       \/ Become(c, Fail(conn[c], "502"))
       \/ conn[c].left = 0 /\ Become(c, Completed(conn[c]))

\* copy_exact_response: the declared length is copied exactly.  A reader that
\* stops short is observed and the connection closed; no second head is written.
CopyExactResponse(c) ==
    /\ conn[c].pc = "copy"
    /\ \/ tokenCancelled /\ conn[c].left > 0 /\ Become(c, Ends(conn[c]))
       \/ ~tokenCancelled /\ conn[c].left > 0 /\ Become(c, [conn[c] EXCEPT !.left = @ - 1])
       \/ conn[c].left > 0 /\ Become(c, Ends(Observe(conn[c], "BackendFailed")))
       \/ conn[c].left > 0 /\ Become(c, Ends(conn[c]))
       \/ conn[c].left = 0 /\ Become(c, Completed(conn[c]))

\* handle_admitted_upgrade.
HandleAdmittedUpgrade(c) ==
    /\ conn[c].pc = "upgrade"
    /\ \/ \E status \in FramingErrors \union {"417"} : Become(c, Reject(conn[c], status))
       \/ Become(c, Drop(conn[c]))
       \/ ~tokenCancelled /\ Become(c, GoOn([conn[c] EXCEPT !.contact = "backend"], "tunnelCall"))

\* execute_backend_tunnel: an origin that declines answers with a response.
ExecuteBackendTunnel(c) ==
    /\ conn[c].pc = "tunnelCall"
    /\ \/ \E status \in BackendStatuses : Become(c, Fail(conn[c], status))
       \/ tokenCancelled /\ Become(c, Ends(conn[c]))
       \/ /\ ~tokenCancelled
          /\ \/ WriteBackendResponse(c)
             \/ Become(c, GoOn(Write(conn[c], "101"), "pump"))

\* pump_tunnel: bytes flow until an end closes, fails, or the proxy stops.
PumpTunnel(c) ==
    /\ conn[c].pc = "pump"
    /\ \/ tokenCancelled /\ Become(c, Ends(conn[c]))
       \/ Become(c, Ends(conn[c]))
       \/ Become(c, Completed(conn[c]))
       \/ Become(c, Ends(Observe(conn[c], "BackendFailed")))

------------------------------------------------------------------------------
(* ICANN requests, forwarded only by whole-browser generations. *)

\* handle_icann_connect up to the dial: the tunnel carries the client's own TLS.
HandleIcannConnect(c) ==
    /\ conn[c].pc = "icannConnect"
    /\ \/ \E status \in {"400", "403", "501"} : Become(c, Reject(conn[c], status))
       \/ AdmitRate(c, conn[c], "dialConnect")

\* handle_icann_request up to the dial.
HandleIcannRequest(c) ==
    /\ conn[c].pc = "icannRequest"
    /\ \/ \E status \in HeadErrors \union FramingErrors \union {"413", "417"} :
             Become(c, Reject(conn[c], status))
       \/ Become(c, Ends(conn[c]))
       \/ ~tokenCancelled /\ Become(c, GoOn(conn[c], "dialRequest"))
       \/ ~tokenCancelled /\ Become(c, GoOn(Write(conn[c], "100"), "dialRequest"))

\* handle_icann_upgrade up to the dial.
HandleIcannUpgrade(c) ==
    /\ conn[c].pc = "icannUpgrade"
    /\ \/ \E status \in FramingErrors : Become(c, Reject(conn[c], status))
       \/ Become(c, Ends(conn[c]))
       \/ ~tokenCancelled /\ Become(c, GoOn(conn[c], "dialUpgrade"))

\* dial_icann connects only to publicly routable addresses of the answer, and to
\* an IP literal itself.
DialTargets(h, resolved) ==
    IF h \in PublicAddresses THEN {h} ELSE resolved \intersect PublicAddresses

AfterDial == [dialConnect |-> "icannTunnel", dialRequest |-> "icannSend", dialUpgrade |-> "icannSend"]

\* dial_icann: resolve, filter, then try the addresses in turn until one answers,
\* the deadline passes or the proxy stops.  contact is the address dialled.
DialIcann(c) ==
    /\ conn[c].pc \in DOMAIN AfterDial
    /\ \/ \E status \in {"502", "503"} : Become(c, Fail(conn[c], status))
       \/ \E resolved \in SUBSET (PublicAddresses \union PrivateAddresses) :
             /\ ~tokenCancelled
             /\ \/ /\ DialTargets(conn[c].host, resolved) = {}
                   /\ Become(c, Fail(conn[c], "403"))
                \/ \E a \in DialTargets(conn[c].host, resolved) :
                      Become(c, GoOn([conn[c] EXCEPT !.contact = a], AfterDial[conn[c].pc]))

\* The rest of handle_icann_connect: the tunnel is observed as completed when it
\* is established, and its end is not observed.
IcannTunnelOpens(c) ==
    /\ conn[c].pc = "icannTunnel"
    /\ \/ Become(c, Ends(conn[c]))
       \/ Become(c, GoOn(Observe(Write(conn[c], "200"), "Completed"), "icannPump"))

IcannPump(c) ==
    /\ conn[c].pc = "icannPump"
    /\ Become(c, Ends(conn[c]))

\* The request goes out; a plain request that cannot be written is answered 502,
\* but the answer is not reported as a main-frame response.
IcannSend(c) ==
    /\ conn[c].pc = "icannSend"
    /\ \/ LET k == Ends(Observe(conn[c], "BackendFailed")) IN
          Become(c, IF tokenCancelled \/ conn[c].upgrade THEN k ELSE Write(k, "502"))
       \/ Become(c, GoOn(conn[c], IF conn[c].upgrade THEN "icannSwitch" ELSE "icannHead"))

\* relay_icann_response up to the body: informational heads are skipped, the head
\* is validated, sanitized and re-encoded before it is written.  A head that
\* cannot be relayed is answered 502 and the failure reported.
RelayIcannHead(c) ==
    /\ conn[c].pc = "icannHead"
    /\ \/ Become(c, Fail(conn[c], "502"))
       \/ LET k == Write(conn[c], "origin") IN
          \/ Become(c, Completed(k))
          \/ Become(c, GoOn([k EXCEPT !.left = MaxBody], "icannBody"))

\* relay_exact_body, relay_chunked_body and relay_close_delimited_body, whose
\* reads fail on a stop.  A body that ends early leaves the head as it was.
RelayIcannBody(c) ==
    /\ conn[c].pc = "icannBody"
    /\ \/ ~tokenCancelled /\ conn[c].left > 0 /\ Become(c, [conn[c] EXCEPT !.left = @ - 1])
       \/ conn[c].left > 0 /\ LET k == Observe(conn[c], "BackendFailed") IN
             Become(c, Ends(IF tokenCancelled THEN k ELSE Metadata(k, "502")))
       \/ conn[c].left = 0 /\ Become(c, Completed(conn[c]))

\* handle_icann_upgrade after the request is sent: only a valid 101 switches.
IcannSwitch(c) ==
    /\ conn[c].pc = "icannSwitch"
    /\ \/ Become(c, Fail(conn[c], "502"))
       \/ Become(c, Ends(conn[c]))
       \/ Become(c, GoOn(Write(conn[c], "101"), "pump"))

------------------------------------------------------------------------------
\* request_stop: the token first, the identity store last.
Cancel ==
    /\ ~tokenCancelled
    /\ tokenCancelled' = TRUE
    /\ UNCHANGED <<mode, active, conn>>

Deactivate ==
    /\ tokenCancelled /\ active
    /\ active' = FALSE
    /\ UNCHANGED <<mode, tokenCancelled, conn>>

Handle(c) ==
    \/ HandleClient(c) \/ Authenticate(c) \/ DispatchTarget(c)
    \/ HandleDirectHttp(c) \/ HandleIcannHttp(c)
    \/ HandleConnect(c) \/ PrepareIdentity(c) \/ AcceptLocalTls(c) \/ HandleConnectedHttp(c)
    \/ HandleAdmittedHttp(c) \/ ReadRequestBody(c) \/ ExecuteBackend(c) \/ CopyExactResponse(c)
    \/ HandleAdmittedUpgrade(c) \/ ExecuteBackendTunnel(c) \/ PumpTunnel(c)
    \/ HandleIcannConnect(c) \/ HandleIcannRequest(c) \/ HandleIcannUpgrade(c) \/ DialIcann(c)
    \/ IcannTunnelOpens(c) \/ IcannPump(c) \/ IcannSend(c) \/ RelayIcannHead(c)
    \/ RelayIcannBody(c) \/ IcannSwitch(c)

RequestNext ==
    \/ \E c \in Conns : Handle(c)
    \/ Cancel
    \/ Deactivate

\* Every socket operation of a handler has a deadline, and a tunnel polls the
\* token, so a worker whose proxy is stopping takes its next step.  An open
\* tunnel of a running proxy may stay open for ever.
RequestFairness ==
    /\ \A c \in Conns : WF_requestVars(tokenCancelled /\ Handle(c))
    /\ WF_requestVars(Deactivate)

RequestSpec == RequestInit /\ [][RequestNext]_requestVars /\ RequestFairness

------------------------------------------------------------------------------
(* Properties. *)

\* The final response heads of a stream, and the reports that end a request.
Final(k) == {i \in DOMAIN k.sent : k.sent[i] # "100"}
Terminal(k) == {i \in DOMAIN k.obs : k.obs[i] # "Accepted"}

\* Nothing leaves the device unless the client proved the generation's secret, the
\* host passed scope and routing mode, the limiter counted the request and, inside
\* a tunnel, the request is for the host the certificate was made for; an ICANN
\* request only ever reaches a public address.
ContactAuthorized ==
    \A c \in Conns : LET k == conn[c] IN
        k.contact # "none" =>
            /\ k.authed /\ k.rated
            /\ k.contact = "backend" => /\ k.host \in HnsInScope
                                        /\ k.cert \in {NoHost, k.host}
            /\ k.contact # "backend" => /\ mode = "WholeBrowser"
                                        /\ k.contact \in PublicAddresses
                                        /\ k.host \notin HnsInScope

\* A client reads one final response head per stream: an error page is never
\* written behind a head that already went out, whatever fails afterwards.
OneResponse == \A c \in Conns : \A i, j \in Final(conn[c]) : i = j

\* Each accepted request is reported with at most one outcome; it is reported as
\* completed only when the whole declared body went to the client.
TruthfulOutcome ==
    \A c \in Conns : LET k == conn[c] IN
        /\ \A i, j \in Terminal(k) : i = j
        /\ k.pc = "done" /\ "Completed" \in {k.obs[i] : i \in DOMAIN k.obs}
              => k.left = 0 /\ \E i \in Final(k) : k.sent[i] \in {"origin", "101", "200"}

\* The browser's security indicator follows the page: a main-frame navigation to
\* an HNS host reports at most one response, and its status is the one sent.
MetadataMatches ==
    \A c \in Conns : LET k == conn[c] IN
        /\ Len(k.meta) <= 1
        /\ k.host \in HnsInScope =>
              \A i \in Final(k), j \in DOMAIN k.meta : k.sent[i] = k.meta[j]

\* What the client, the observer and the network see of one request, with a stop
\* or a failure at any step of its handler.
RequestSafety == ContactAuthorized /\ OneResponse /\ TruthfulOutcome /\ MetadataMatches

\* A stop ends every worker, wherever it is: what the listener's join relies on.
WorkersEnd == tokenCancelled ~> \A c \in Conns : conn[c].pc \in {"idle", "done"}
=============================================================================
