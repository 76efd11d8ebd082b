------------------------------ MODULE MCRuntime ------------------------------
(* The runtime and what embeds it: two runtimes of one directory used from   *)
(* two threads, one gateway request of each kind, and two threads of an      *)
(* application at the C interface and at the Java interface.  focus is the   *)
(* part that moves.                                                          *)
EXTENDS BrowserRuntime, AndroidBridge, IosBridge

CONSTANT Parts      \* the parts a run looks at

VARIABLES
    focus,
    entry, class, scheme, config, step, layer, tried, roots, marker, signed, events, bogus, result, answers,
    error, decision, body, sent, response, status

gatewayVars == <<entry, class, scheme, config, step, layer, tried, roots, marker, signed, events, bogus, result,
                 answers, error, decision, body, sent, response, status>>
MCVars == <<focus, vars, gatewayVars, iosVars, javaVars>>

MCBaseOf == [h \in Handle |-> "dir"]

------------------------------------------------------------------------------
Request(e, c, s, headers) == [entry |-> e, class |-> c, scheme |-> s, headers |-> headers]
MCRequests ==
    {Request("memory", "hns", "https", <<"relay", "stateless">>),
     Request("file", "hns", "http", <<"relay", "path">>),
     Request("memory", "icann", "https", <<"strict">>),
     Request("tunnel", "hns", "https", <<"strict", "lenient", "relay", "cookie">>),
     Request("file", "hns", "https", <<"relay", "norelay", "nolegacy", "legacy">>),
     Request("file", "icann", "http", <<"malformed">>),
     Request("memory", "icann", "http", <<"nolegacy">>),
     Request("execute", "hns", "https", <<"nolegacy", "relay">>),
     Request("open_tunnel", "hns", "https", <<"strict">>),
     Request("execute", "icann", "https", <<"malformed">>)}

Field(name, value) == [name |-> name, value |-> value]
Upgrade == <<Field("connection", "upgrade"), Field("upgrade", "websocket")>>
Forged == Field("x-hns-security-path", "forged")
MCOriginHeads ==
    {Upgrade, <<Field("connection", "bad token")>>,
     <<Field("x-app", "v"), Field("connection", "x-app")>>,
     Upgrade \o <<Forged, Field("connection", "x-hns-security-path")>>,
     <<Field("upgrade", "websocket"), Forged>>}

Gateway == INSTANCE GatewayResolution WITH Requests <- MCRequests, OriginHeads <- MCOriginHeads

------------------------------------------------------------------------------
MCInit ==
    /\ Init /\ Gateway!Init /\ IosInit /\ JavaInit
    /\ focus \in Parts
    /\ focus # "gateway" => entry = "memory" /\ class = "icann" /\ scheme = "http"

MCNext ==
    \/ focus = "calls" /\ Next /\ UNCHANGED <<focus, gatewayVars, iosVars, javaVars>>
    \/ focus = "gateway" /\ Gateway!Next /\ UNCHANGED <<focus, vars, iosVars, javaVars>>
    \/ focus = "ios" /\ IosNext /\ UNCHANGED <<focus, vars, gatewayVars, javaVars>>
    \/ focus = "java" /\ JavaNext /\ UNCHANGED <<focus, vars, gatewayVars, iosVars>>

\* The fairness of module BrowserRuntime; the other parts have none.
MCFairness ==
    \A t \in Caller :
        WF_MCVars(focus = "calls" /\ ~Changing(t) /\ Step(t)
                    /\ UNCHANGED <<focus, gatewayVars, iosVars, javaVars>>)

MCSpec == MCInit /\ [][MCNext]_MCVars /\ MCFairness

------------------------------------------------------------------------------
\* CallsEnd of module BrowserRuntime: every call on a runtime returns, and one of
\* the loopback proxy that is cancelled does so even while the stores are replaced.
CallsReturn == focus = "calls" => CallsEnd

\* RouteSafety and ReportSafety of module GatewayResolution: where the questions
\* of a request may go, and that the response reports what happened.
GatewaySafety == Gateway!RouteSafety /\ Gateway!ReportSafety

\* What both native interfaces hold for the application stays consistent under
\* calls that overlap: the mailboxes of the proxies within their limits and in
\* order, every output buffer counted until it is freed, no token given twice.
OutputSafety == MailboxBounded /\ MailboxFresh /\ BuffersAccounted
=============================================================================
