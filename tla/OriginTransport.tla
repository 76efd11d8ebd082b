--------------------------- MODULE OriginTransport ---------------------------
(* TcpHttpTransport of hns-transport: worker threads that fetch over         *)
(* HTTP/1.1, HTTP/2 and HTTP/3 and share, under one lock, a pool of          *)
(* HTTP/1.1 connections, the certificate verifiers and TLS session stores    *)
(* of each policy, and the Alt-Svc knowledge; each verifier has two further  *)
(* locks, for the handshakes in progress and for the last success per host.  *)
(* Every lock section is a step.  Origins answer, fail or misbehave at will. *)

EXTENDS DanePolicy, FiniteSetsExt

CONSTANTS Threads,
          Requests,       \* what callers ask: [kind, scheme, host, addr, port,
                          \*   method, policy, protocol, upgrade, valid]
          PolicyOf,       \* the TLS policies the requests carry, by name
          Presented,      \* host -> certificates its servers hold, by name
          CertOf,         \* name -> certificate
          AltSvcHeaders,  \* Alt-Svc header values an origin may send
          PoolOrigins,    \* MAX_HTTP11_POOL_ORIGINS
          PoolPerOrigin,  \* MAX_HTTP11_POOL_PER_ORIGIN
          PolicyCache,    \* MAX_TLS_POLICY_CACHE_ENTRIES
          CaptureEntries, \* MAX_TLS_CAPTURE_ENTRIES
          Cooldown,       \* ALT_SVC_FAILURE_COOLDOWN
          MaxAge,         \* MAX_ALT_SVC_AGE_SECS
          MaxRequests,    \* bound: requests in all
          MaxNow          \* bound: the clock

\* A pooled origin keeps at least one connection.
ASSUME PoolAssumption == PoolPerOrigin \in Nat \ {0}

VARIABLES pool,       \* pool key -> idle connections [id, cert, decision]
          verifierOf, \* policy -> number of its verifier
          verifiers,  \* number -> [policy, captures, last]
          storeOf,    \* <<policy, alpn>> -> number of its session store
          stores,     \* number -> sessions <<host, cert>>
          altSvc,     \* <<host, port>> -> [protocol, until]
          blocked,    \* <<host, port>> -> until
          task,       \* per thread: the request in hand
          asked,      \* requests so far
          clock

transportVars == <<pool, verifierOf, verifiers, storeOf, stores, altSvc, blocked, task, asked,
                   clock>>

NoConn == [id |-> 0, cert |-> "none", decision |-> Err("unset")]
Idle == [pc |-> "idle", req |-> CHOOSE r \in Requests : TRUE, protocol |-> "Http11",
         conn |-> NoConn, verifier |-> 0, store |-> 0, sends |-> 0, attempt |-> 0,
         sink |-> << >>, reusable |-> FALSE, result |-> Err("unset")]

TransportInit ==
    /\ pool = << >> /\ verifierOf = << >> /\ verifiers = << >>
    /\ storeOf = << >> /\ stores = << >> /\ altSvc = << >> /\ blocked = << >>
    /\ task = [t \in Threads |-> Idle]
    /\ asked = 0
    /\ clock = 0

------------------------------------------------------------------------------
Without(f, k) == [x \in DOMAIN f \ {k} |-> f[x]]
Only(f, S) == [x \in DOMAIN f \intersect S |-> f[x]]
With(f, k, v) == [x \in DOMAIN f \union {k} |-> IF x = k THEN v ELSE f[x]]
FreshId(used) == CHOOSE n \in 1..(Cardinality(used) + 1) : n \notin used

\* evict_one_if_at_capacity: any entry, hash order being arbitrary.
EvictOneIfAtCapacity(f, capacity) ==
    IF Cardinality(DOMAIN f) < capacity THEN {f} ELSE {Without(f, k) : k \in DOMAIN f}

\* The results of inserting a key: a new one may cost another its place.
Inserted(f, k, v, capacity) ==
    {With(g, k, v) : g \in IF k \in DOMAIN f THEN {f} ELSE EvictOneIfAtCapacity(f, capacity)}

Secured(req) == req.scheme = "https"
SafeRetry(req) == req.method = "safe"
Policy(req) == PolicyOf[req.policy]
Unexpired(f, end(_)) == [k \in {x \in DOMAIN f : end(f[x]) > clock} |-> f[k]]
LiveAltSvc == Unexpired(altSvc, LAMBDA e : e.until)
LiveBlocked == Unexpired(blocked, LAMBDA e : e)
AltSvcKey(req) == <<req.host, req.port>>

Step(t, pc) == task' = [task EXCEPT ![t].pc = pc]
Fail(t, error) == task' = [task EXCEPT ![t].pc = "failed", ![t].result = Err(error)]
At(t, pc) == task[t].pc = pc
\* The caller has the response; it keeps nothing of the transport.
Return(t, result) ==
    task' = [task EXCEPT ![t] = [Idle EXCEPT !.pc = "done", !.req = task[t].req, !.result = result]]

\* tls_validation_key stands for every field of the policy: here its name.
TlsValidationKey(req) == req.policy

MutantPoolKey(req) == <<req.scheme, req.host, req.addr, req.port>>
\* http11_pool_key.
PoolKey(req) == <<req.scheme, req.host, req.addr, req.port, TlsValidationKey(req)>>

\* Numbers in use: by the caches or held by a thread.
LiveVerifiers == Range(verifierOf) \union {task[t].verifier : t \in Threads}
LiveStores == Range(storeOf) \union {task[t].store : t \in Threads}
LiveConns == {task[t].conn.id : t \in Threads}
             \union UNION {{pool[k][i].id : i \in 1..Len(pool[k])} : k \in DOMAIN pool}

------------------------------------------------------------------------------
\* promoted_request: expired entries go, then an unblocked alternative on the
\* same port replaces the protocol of a safe https request.
PromotedProtocol(req) ==
    LET key == AltSvcKey(req)
    IN  IF /\ Secured(req) /\ req.protocol # "Http3" /\ SafeRetry(req)
           /\ key \notin DOMAIN LiveBlocked /\ key \in DOMAIN LiveAltSvc
        THEN LiveAltSvc[key].protocol ELSE req.protocol

\* fetch_unpromoted_to_writer, open_http11_tunnel and the checks of
\* validate_request and validate_tunnel_request: where an attempt starts.
Dispatch(started, req, protocol) ==
    LET supported == \/ req.kind = "fetch" /\ (Secured(req) \/ protocol = "Http11")
                     \/ req.kind = "controlled" /\ req.protocol = "Http11"
                     \/ req.kind = "tunnel"
        refused(error) == [started EXCEPT !.pc = "failed", !.result = Err(error)]
        first == IF req.kind = "fetch" /\ protocol = "Http11" THEN "take" ELSE "connect"
    IN  IF ~supported THEN refused("UnsupportedTransport")
        ELSE IF ~req.valid THEN refused("InvalidRequest")
        ELSE IF req.upgrade # (req.kind = "tunnel") THEN refused("UnsupportedUpgrade")
        ELSE [started EXCEPT !.pc = first, !.protocol = protocol, !.attempt = @ + 1]

\* fetch, fetch_to_writer, open_tunnel and fetch_http11_with_control are called.
Fetch(t, req) ==
    LET promotable == req.kind = "fetch" /\ Secured(req) /\ req.protocol # "Http3"
                      /\ SafeRetry(req)
        protocol == IF req.kind = "fetch" THEN PromotedProtocol(req) ELSE req.protocol
    IN  /\ task[t].pc \in {"idle", "done"}
        /\ asked < MaxRequests
        /\ asked' = asked + 1
        /\ altSvc' = IF promotable THEN LiveAltSvc ELSE altSvc
        /\ blocked' = IF promotable THEN LiveBlocked ELSE blocked
        /\ task' = [task EXCEPT ![t] = Dispatch([Idle EXCEPT !.req = req], req, protocol)]
        /\ UNCHANGED <<pool, verifierOf, verifiers, storeOf, stores, clock>>

\* The pool without the oldest connection of a key; an empty queue goes too.
PoolWithoutHead(key) ==
    IF Len(pool[key]) = 1 THEN Without(pool, key) ELSE [pool EXCEPT ![key] = Tail(@)]

\* take_http11_connection.
TakeHttp11Connection(t) ==
    LET key == PoolKey(task[t].req)
    IN  /\ At(t, "take")
        /\ IF key \in DOMAIN pool
           THEN /\ task' = [task EXCEPT ![t].pc = "pooled", ![t].conn = Head(pool[key])]
                /\ pool' = PoolWithoutHead(key)
           ELSE Step(t, "connect") /\ UNCHANGED pool
        /\ UNCHANGED <<verifierOf, verifiers, storeOf, stores, altSvc, blocked, asked, clock>>

------------------------------------------------------------------------------
\* selected_alt_svc_endpoint: the best usable alternative of a header value, a
\* sequence of [protocol, port, age].
SelectedAltSvcEndpoint(header, port) ==
    LET usable == {a \in ToSet(header) : a.protocol \in {"Http2", "Http3"} /\ a.port = port
                                         /\ a.age > 0}
        best == {a \in usable : a.protocol = "Http3" \/ ~\E b \in usable : b.protocol = "Http3"}
    IN  {[protocol |-> a.protocol, until |-> clock + (IF a.age > MaxAge THEN MaxAge ELSE a.age)]
            : a \in best}

\* record_alt_svc: "none" and "clear" are header values too.
RecordAltSvc(req, header) ==
    LET key == AltSvcKey(req)
        endpoints == SelectedAltSvcEndpoint(header.list, req.port)
    IN  IF ~Secured(req) \/ header.kind = "none" THEN UNCHANGED <<altSvc, blocked>>
        ELSE IF header.kind = "clear"
        THEN altSvc' = Without(altSvc, key) /\ blocked' = Without(blocked, key)
        ELSE IF endpoints = {} THEN UNCHANGED <<altSvc, blocked>>
        ELSE /\ blocked' = LiveBlocked
             /\ IF key \in DOMAIN LiveBlocked THEN altSvc' = LiveAltSvc
                ELSE \E e \in endpoints : altSvc' \in Inserted(LiveAltSvc, key, e, PolicyCache)

\* suppress_alt_svc.
SuppressAltSvc(req) ==
    /\ altSvc' = Without(altSvc, AltSvcKey(req))
    /\ blocked' \in Inserted(LiveBlocked, AltSvcKey(req), clock + Cooldown, PolicyCache)

\* connect, connect_async and resolve_socket_addr_async: a stream or an error.
Connect(t) ==
    /\ At(t, "connect")
    /\ \/ Fail(t, "Io")
       \/ task' = [task EXCEPT ![t].pc = IF Secured(task[t].req) THEN "config" ELSE "exchange",
                               ![t].conn = [NoConn EXCEPT !.id = FreshId(LiveConns)]]
    /\ UNCHANGED <<pool, verifierOf, verifiers, storeOf, stores, altSvc, blocked, asked, clock>>

\* dane_verifier_for.
DaneVerifierFor(t) ==
    LET key == TlsValidationKey(task[t].req)
        new == FreshId(LiveVerifiers)
    IN  /\ At(t, "config")
        /\ IF key \in DOMAIN verifierOf
           THEN /\ task' = [task EXCEPT ![t].pc = "resume", ![t].verifier = verifierOf[key]]
                /\ UNCHANGED <<verifierOf, verifiers>>
           ELSE /\ verifierOf' \in Inserted(verifierOf, key, new, PolicyCache)
                /\ verifiers' = With(Only(verifiers, LiveVerifiers), new,
                       [policy |-> key, captures |-> << >>, last |-> << >>])
                /\ task' = [task EXCEPT ![t].pc = "resume", ![t].verifier = new]
        /\ UNCHANGED <<pool, storeOf, stores, altSvc, blocked, asked, clock>>

\* resumption_for.
ResumptionFor(t) ==
    LET alpn == IF task[t].req.kind = "fetch" THEN task[t].protocol ELSE "Http11"
        key == <<TlsValidationKey(task[t].req), alpn>>
        new == FreshId(LiveStores)
    IN  /\ At(t, "resume")
        /\ IF key \in DOMAIN storeOf
           THEN /\ task' = [task EXCEPT ![t].pc = "begin", ![t].store = storeOf[key]]
                /\ UNCHANGED <<storeOf, stores>>
           ELSE /\ storeOf' \in Inserted(storeOf, key, new, PolicyCache)
                /\ stores' = With(Only(stores, LiveStores), new, {})
                /\ task' = [task EXCEPT ![t].pc = "begin", ![t].store = new]
        /\ UNCHANGED <<pool, verifierOf, verifiers, altSvc, blocked, asked, clock>>

\* begin_handshake.
BeginHandshake(t) ==
    LET v == task[t].verifier
    IN  /\ At(t, "begin")
        /\ \E captures \in Inserted(verifiers[v].captures, t,
                  [host |-> task[t].req.host, decision |-> Err("unset")], CaptureEntries) :
               verifiers' = [verifiers EXCEPT ![v].captures = captures]
        /\ Step(t, "handshake")
        /\ UNCHANGED <<pool, verifierOf, storeOf, stores, altSvc, blocked, asked, clock>>

MutantStoreCapture(v, t, decision) ==
    {[v EXCEPT !.captures = With(v.captures, t, [host |-> << >>, decision |-> decision]),
               !.last = [h \in DOMAIN Presented |-> decision]]}

\* store_capture: the capture keeps the name begin_handshake gave it; one that
\* was evicted meanwhile comes back without a name, and is not remembered.
StoreCapture(v, t, decision) ==
    LET named == t \in DOMAIN v.captures
        capture == [host |-> IF named THEN v.captures[t].host ELSE << >>, decision |-> decision]
        lasts == IF named THEN Inserted(v.last, capture.host, decision, CaptureEntries)
                 ELSE {v.last}
    IN  {[v EXCEPT !.captures = With(v.captures, t, capture), !.last = l] : l \in lasts}

\* The TLS handshake: in full, with the verifier asked about the certificate
\* the server presents, or resumed from a session of the store, without asking
\* it.  A failure surfaces as an I/O or QUIC error.
Handshake(t) ==
    LET req == task[t].req
        v == task[t].verifier
    IN  /\ At(t, "handshake")
        /\ \/ \E cert \in Presented[req.host] :
                  LET verdict == VerifyServerCert(PolicyOf[verifiers[v].policy], req.host,
                                                  CertOf[cert])
                  IN  IF verdict.ok
                      THEN /\ \E after \in StoreCapture(verifiers[v], t, verdict) :
                                  verifiers' = [verifiers EXCEPT ![v] = after]
                           /\ task' = [task EXCEPT ![t].pc = "exchange", ![t].conn.cert = cert]
                      ELSE Fail(t, "Io") /\ UNCHANGED verifiers
           \/ \E session \in stores[task[t].store] :
                  /\ session[1] = req.host
                  /\ task' = [task EXCEPT ![t].pc = "exchange", ![t].conn.cert = session[2]]
                  /\ UNCHANGED verifiers
           \/ Fail(t, IF task[t].protocol = "Http2" THEN "UnsupportedTransport" ELSE "Io")
              /\ UNCHANGED verifiers
        /\ UNCHANGED <<pool, verifierOf, storeOf, stores, altSvc, blocked, asked, clock>>

------------------------------------------------------------------------------
\* The origin's answer fails after some of its body reached the caller's sink.
Broken(t, written, error) ==
    task' = [task EXCEPT ![t].pc = "failed", ![t].sends = @ + 1, ![t].result = Err(error),
                         ![t].sink = @ \o [i \in 1..written |-> task[t].attempt]]
\* It is complete; the connection may be kept.
Answered(t, pc, reusable, result) ==
    task' = [task EXCEPT ![t].pc = pc, ![t].sends = @ + 1, ![t].reusable = reusable,
                         ![t].result = result, ![t].sink = Append(@, task[t].attempt)]
Response(decision, cert) == [ok |-> TRUE, value |-> decision, cert |-> cert]
NoTlsa == Ok([kind |-> "NoTlsa"])

\* send_http11_stream on a pooled connection, and what follows a failure.
SendPooled(t) ==
    LET req == task[t].req
        conn == task[t].conn
    IN  /\ At(t, "pooled")
        /\ \/ \E reusable \in BOOLEAN, header \in AltSvcHeaders :
                  /\ Answered(t, "settle", reusable, Response(conn.decision, conn.cert))
                  /\ RecordAltSvc(req, header)
           \/ \E written \in 0..1 :
                  /\ IF written > 0 \/ ~SafeRetry(req) THEN Broken(t, written, "Io")
                     ELSE task' = [task EXCEPT ![t].pc = "connect", ![t].sends = @ + 1,
                                               ![t].attempt = @ + 1, ![t].conn = NoConn]
                  /\ UNCHANGED <<altSvc, blocked>>
        /\ UNCHANGED <<pool, verifierOf, verifiers, storeOf, stores, asked, clock>>

\* A TLS session ticket may arrive with the answer, or none.
Tickets(t) ==
    \/ UNCHANGED stores
    \/ /\ Secured(task[t].req)
       /\ stores' = [stores EXCEPT
             ![task[t].store] = @ \union {<<task[t].req.host, task[t].conn.cert>>}]
AfterAnswer(t) == IF Secured(task[t].req) THEN "finish" ELSE "settle"
Breaks(t) == \E written \in 0..1, error \in {"Io", "ResponseTooLarge"} :
                 Broken(t, written, error) /\ UNCHANGED <<altSvc, blocked>>

\* The HTTP/1.1 exchange on a new connection, plain, https or controlled.
ExchangeHttp11(t) ==
    LET req == task[t].req
    IN  /\ At(t, "exchange") /\ task[t].protocol = "Http11" /\ req.kind # "tunnel"
        /\ \/ \E reusable \in BOOLEAN, header \in AltSvcHeaders :
                  /\ reusable => req.kind = "fetch"
                  /\ Answered(t, AfterAnswer(t), reusable, Response(NoTlsa, "none"))
                  /\ RecordAltSvc(req, header)
           \/ Breaks(t)
        /\ Tickets(t)
        /\ UNCHANGED <<pool, verifierOf, verifiers, storeOf, asked, clock>>

\* The exchange of a connection that is not kept and whose Alt-Svc is not read.
ExchangeOnce(t) ==
    /\ \/ Answered(t, AfterAnswer(t), FALSE, Response(NoTlsa, "none")) /\ UNCHANGED <<altSvc, blocked>>
       \/ Breaks(t)
    /\ Tickets(t)
    /\ UNCHANGED <<pool, verifierOf, verifiers, storeOf, asked, clock>>

\* fetch_https_http2_to_writer, under one timeout for everything: a timeout, a
\* body of another length than announced or a failed write ends it half-way.
ExchangeHttp2(t) == At(t, "exchange") /\ task[t].protocol = "Http2" /\ ExchangeOnce(t)

\* fetch_https_http3_to_writer, with a timeout for every stage.
ExchangeHttp3(t) == At(t, "exchange") /\ task[t].protocol = "Http3" /\ ExchangeOnce(t)

\* open_plain_http11_tunnel and open_tls_http11_tunnel: the upgrade and its reply.
SendUpgrade(t) == At(t, "exchange") /\ task[t].req.kind = "tunnel" /\ ExchangeOnce(t)

\* finish_handshake: this thread's capture, else the host's last success.
FinishHandshake(t) ==
    LET req == task[t].req
        v == verifiers[task[t].verifier]
        captured == t \in DOMAIN v.captures /\ v.captures[t].decision.ok
        known == captured \/ req.host \in DOMAIN v.last
        decision == IF captured THEN v.captures[t].decision ELSE v.last[req.host]
    IN  /\ At(t, "finish")
        /\ verifiers' = [verifiers EXCEPT ![task[t].verifier].captures = Without(@, t)]
        /\ IF known
           THEN task' = [task EXCEPT
                   ![t].pc = "settle", ![t].conn.decision = decision,
                   ![t].result = Response(decision, task[t].conn.cert)]
           ELSE Fail(t, "Tls")
        /\ UNCHANGED <<pool, verifierOf, storeOf, stores, altSvc, blocked, asked, clock>>

\* put_http11_connection: a new origin may cost another its connections, a
\* full queue its oldest one.
PutHttp11Connection(key, conn) ==
    \E p \in Inserted(pool, key, IF key \in DOMAIN pool THEN pool[key] ELSE << >>, PoolOrigins) :
        LET queue == IF Len(p[key]) >= PoolPerOrigin THEN Tail(p[key]) ELSE p[key]
        IN  pool' = [p EXCEPT ![key] = Append(queue, conn)]

\* The response is complete: the connection goes back to the pool or is closed.
\* The controlled fetch looks at its deadline and its cancellation once more.
Settle(t) ==
    LET conn == IF Secured(task[t].req) THEN task[t].conn
                ELSE [task[t].conn EXCEPT !.decision = NoTlsa]
    IN  /\ At(t, "settle")
        /\ \/ /\ IF task[t].reusable THEN PutHttp11Connection(PoolKey(task[t].req), conn)
                 ELSE UNCHANGED pool
              /\ Return(t, task[t].result)
           \/ task[t].req.kind = "controlled" /\ Fail(t, "Io") /\ UNCHANGED pool
        /\ UNCHANGED <<verifierOf, verifiers, storeOf, stores, altSvc, blocked, asked, clock>>

\* should_retry_alt_svc_fallback and is_alt_svc_fallback_error.
ShouldRetryFallback(t) ==
    /\ task[t].req.kind = "fetch" /\ Secured(task[t].req)
    /\ task[t].protocol # task[t].req.protocol
    /\ task[t].sink = << >>
    /\ SafeRetry(task[t].req)
    /\ task[t].result.error \in {"Io", "UnsupportedTransport"}

\* fetch_to_writer after a failed attempt.
FallBackOrFail(t) ==
    /\ At(t, "failed")
    /\ IF ShouldRetryFallback(t)
       THEN /\ SuppressAltSvc(task[t].req)
            /\ task' = [task EXCEPT ![t] = Dispatch(
                   [@ EXCEPT !.conn = NoConn, !.verifier = 0, !.store = 0], @.req, @.req.protocol)]
       ELSE /\ task' = [task EXCEPT ![t] = Idle]
            /\ UNCHANGED <<altSvc, blocked>>
    /\ UNCHANGED <<pool, verifierOf, verifiers, storeOf, stores, asked, clock>>

Tick == /\ clock < MaxNow /\ clock' = clock + 1
        /\ UNCHANGED <<pool, verifierOf, verifiers, storeOf, stores, altSvc, blocked, task, asked>>

TransportNext ==
    \/ \E t \in Threads :
          \/ task[t].pc \in {"idle", "done"} /\ \E req \in Requests : Fetch(t, req)
          \/ TakeHttp11Connection(t)
          \/ Connect(t) \/ DaneVerifierFor(t) \/ ResumptionFor(t) \/ BeginHandshake(t)
          \/ Handshake(t) \/ SendPooled(t) \/ ExchangeHttp11(t) \/ ExchangeHttp2(t) \/ ExchangeHttp3(t)
          \/ SendUpgrade(t) \/ FinishHandshake(t) \/ Settle(t)
          \/ FallBackOrFail(t)
    \/ Tick

TransportSpec == TransportInit /\ [][TransportNext]_transportVars

------------------------------------------------------------------------------
Completed(t) == At(t, "done") /\ task[t].result.ok

\* Whatever pooling, session resumption, eviction or fallback lie behind it, a
\* response over https came through a connection whose certificate this
\* request's policy accepts for this host (fetch_to_writer, verify_server_cert).
AuthenticatedOrigin ==
    \A t \in Threads :
        Completed(t) /\ Secured(task[t].req) =>
            VerifyServerCert(Policy(task[t].req), task[t].req.host, CertOf[task[t].result.cert]).ok

\* The DANE decision reported with a response was made under the request's own
\* policy, about a certificate of its host: another thread's handshake, another
\* host's or an older policy's never speaks for it (finish_handshake).
DecisionOfPolicy ==
    \A t \in Threads :
        Completed(t) /\ Secured(task[t].req) =>
            task[t].result.value \in {VerifyServerCert(Policy(task[t].req), task[t].req.host, CertOf[c])
                                        : c \in Presented[task[t].req.host]}

\* An unsafe request reaches an origin at most once, and the body a caller gets
\* is of one attempt: the retries on a fresh connection and after Alt-Svc never
\* add to what was written (fetch_https_http11_to_writer, fetch_to_writer).
NoDoubleSend ==
    \A t \in Threads :
        /\ task[t].req.method = "unsafe" => task[t].sends =< 1
        /\ Cardinality(ToSet(task[t].sink)) =< 1

\* A connection serves one request at a time: it is in the pool once or in the
\* hands of one thread (take_http11_connection, put_http11_connection).
ConnectionsExclusive ==
    LET pooled == UNION {{<<k, i>> : i \in 1..Len(pool[k])} : k \in DOMAIN pool}
        number(p) == pool[p[1]][p[2]].id
    IN  /\ \A p, q \in pooled : p # q => number(p) # number(q)
        /\ \A t \in Threads : task[t].conn.id # 0 =>
              /\ \A u \in Threads : u # t => task[u].conn.id # task[t].conn.id
              /\ \A p \in pooled : number(p) # task[t].conn.id

\* What threads that share the transport's caches and connections may rely on.
TransportSafety == DecisionOfPolicy /\ NoDoubleSend /\ ConnectionsExclusive
=============================================================================
