---------------------------- MODULE AndroidBridge ----------------------------
(***************************************************************************)
(* The Java interface of crate android-ffi and NativeBridge.kt above it.   *)
(*                                                                         *)
(* A runtime handle is the address of a box; nothing in the crate knows    *)
(* whether it is still there.  NativeBridge keeps the addresses in a map   *)
(* under a read-write lock: calls hold it for reading, or for writing when *)
(* they had to create the runtime, and closeRuntimes holds it for writing. *)
(* Calls on a proxy take no lock of NativeBridge; they find the proxy in a *)
(* registry of the crate.  A proxy keeps the latest main-frame status of   *)
(* some hosts in a mailbox; a status is read, turned into an array of the  *)
(* virtual machine, and acknowledged by its number.                        *)
(***************************************************************************)
EXTENDS Naturals, Sequences, FiniteSets, FiniteSetsExt, SequencesExt

CONSTANTS
  Thread,       \* threads of the application
  Host,         \* hosts whose pages report a status
  MaxHandle,    \* largest proxy handle, i64::MAX in the code
  MaxProxies,   \* MAX_ANDROID_PROXY_HANDLES
  MaxHosts,     \* MAX_PROXY_STATUS_HOSTS
  MaxTrace,     \* MAX_PROXY_STATUS_RETAINED_TRACE_BYTES
  MaxSequence,  \* largest number of a status, u64::MAX in the code
  MaxRuntimes,  \* bound on the runtimes created
  MaxCalls,     \* bound on the calls made
  MaxObserved   \* bound on the statuses reported

ASSUME AndroidAssumption ==
  /\ {MaxHandle, MaxTrace, MaxRuntimes} \subseteq Nat
  /\ MaxSequence \in Nat \ {0}

VARIABLES
  runtime,      \* runtimeHandles[key] of NativeBridge, 0 for none
  created,      \* boxes made so far; a box is its number
  freed,        \* boxes destroyed
  readers,      \* threads that hold runtimeLifecycleLock for reading
  writer,       \* the threads, one at most, that hold it for writing
  nextHandle,   \* NEXT_PROXY_HANDLE
  proxies,      \* every proxy started so far
  registered,   \* PROXY_HANDLES
  observed,     \* statuses reported so far
  delivered,    \* the latest status delivered, and the one removed for it, by proxy and host
  javaCall,     \* what each thread is at
  calls         \* calls made so far

javaVars == <<runtime, created, freed, readers, writer, nextHandle, proxies, registered,
              observed, delivered, javaCall, calls>>

lockVars == <<readers, writer>>
boxVars == <<runtime, created, freed>>
registryVars == <<nextHandle, registered>>
statusVars == <<observed, delivered>>

Proxy == DOMAIN proxies
JavaIdle == [op |-> "none", stage |-> "idle", runtime |-> 0, proxy |-> 0, host |-> "none",
             pending |-> [sequence |-> 0, seq |-> 0, trace |-> 0], epoch |-> 0, todo |-> {}]

Undelivered == [seq |-> 0, removed |-> 0, wrapped |-> FALSE]

JavaTypes ==
  /\ runtime \in 0..MaxRuntimes /\ created \in 0..MaxRuntimes /\ freed \subseteq 1..created
  /\ readers \subseteq Thread /\ writer \subseteq Thread
  /\ nextHandle \in 1..(MaxHandle + 1) /\ registered \subseteq Proxy
  /\ \A p \in Proxy :
       /\ proxies[p].handle \in 0..MaxHandle /\ proxies[p].next \in 0..MaxSequence
       /\ {proxies[p].active, proxies[p].stopping, proxies[p].stopped} \subseteq BOOLEAN
       /\ DOMAIN proxies[p].latest \subseteq Host
  /\ \A t \in Thread : javaCall[t].runtime \in 0..MaxRuntimes

JavaInit ==
  /\ runtime = 0 /\ created = 0 /\ freed = {} /\ readers = {} /\ writer = {}
  /\ nextHandle = 1 /\ proxies = <<>> /\ registered = {}
  /\ observed = 0 /\ delivered = <<>>
  /\ javaCall = [t \in Thread |-> JavaIdle] /\ calls = 0

----------------------------------------------------------------------------
(* withRuntime and closeRuntimes *)

Enter(t) == javaCall[t].stage = "idle" /\ calls < MaxCalls /\ calls' = calls + 1
At(t, stage) == javaCall[t].stage = stage /\ UNCHANGED calls
GoTo(t, stage) == javaCall' = [javaCall EXCEPT ![t].stage = stage]
JavaReturn(t) == javaCall' = [javaCall EXCEPT ![t] = JavaIdle]

\* A call with a runtime begins by asking for the lock.
WithRuntime(t, op) ==
  /\ Enter(t) /\ javaCall' = [javaCall EXCEPT ![t] = [JavaIdle EXCEPT !.op = op, !.stage = "read"]]
  /\ UNCHANGED <<lockVars, boxVars, proxies, registryVars, statusVars>>

RuntimeSyncOnce(t) == WithRuntime(t, "use")
RuntimeSyncStatus(t) == WithRuntime(t, "use")
RuntimeAddStaticRelayPeer(t) == WithRuntime(t, "use")
RuntimeClearResolverCache(t) == WithRuntime(t, "use")
RuntimeInstallHeaderSnapshot(t) == WithRuntime(t, "use")
RuntimeResetHeadersFromPeers(t) == WithRuntime(t, "use")
RuntimeHnsProofDetails(t) == WithRuntime(t, "use")
RuntimeGatewayHttpResponse(t) == WithRuntime(t, "use")
RuntimeGatewayHttpResponseBodyToFile(t) == WithRuntime(t, "use")
RuntimeStartProxy(t) == WithRuntime(t, "start")

\* The block runs under the read lock when the runtime is there.
FindRuntime(t) ==
  /\ At(t, "read") /\ writer = {}
  /\ IF runtime # 0
     THEN /\ readers' = readers \cup {t}
          /\ javaCall' = [javaCall EXCEPT ![t].runtime = runtime, ![t].stage = javaCall[t].op]
     ELSE GoTo(t, "write") /\ UNCHANGED readers
  /\ UNCHANGED <<writer, boxVars, proxies, registryVars, statusVars>>

\* Otherwise the runtime is looked for again, and created, under the write lock,
\* and the block runs under it too.  A runtime that does not open ends the call.
MakeRuntime(t) ==
  /\ At(t, "write") /\ writer = {} /\ readers = {}
  /\ \/ /\ runtime # 0 /\ writer' = {t}
        /\ javaCall' = [javaCall EXCEPT ![t].runtime = runtime, ![t].stage = javaCall[t].op]
        /\ UNCHANGED boxVars
     \/ /\ runtime = 0 /\ created < MaxRuntimes /\ writer' = {t}
        /\ created' = created + 1 /\ runtime' = created + 1
        /\ javaCall' = [javaCall EXCEPT ![t].runtime = created + 1, ![t].stage = javaCall[t].op]
        /\ UNCHANGED freed
     \/ runtime = 0 /\ JavaReturn(t) /\ UNCHANGED <<writer, boxVars>>
  /\ UNCHANGED <<readers, proxies, registryVars, statusVars>>

\* The lock is released however the block ends.
Unlock(t) == readers' = readers \ {t} /\ writer' = writer \ {t}

\* The runtime does what was asked; its clone of the record outlives the pointer.
UseRuntime(t) ==
  /\ At(t, "use") /\ Unlock(t) /\ JavaReturn(t)
  /\ UNCHANGED <<boxVars, proxies, registryVars, statusVars>>

CloseRuntimes(t) ==
  /\ Enter(t) /\ writer = {} /\ readers = {} /\ writer' = {t}
  /\ javaCall' = [javaCall EXCEPT ![t] = [JavaIdle EXCEPT !.op = "close", !.stage = "drain"]]
  /\ UNCHANGED <<readers, boxVars, proxies, registryVars, statusVars>>

----------------------------------------------------------------------------
(* Starting and stopping proxies *)

\* next_proxy_handle and register_proxy: a proxy that is not registered is
\* dropped, and a drop waits for its workers.
Registers == nextHandle <= MaxHandle /\ Cardinality(registered) < MaxProxies

NewProxy == [handle |-> IF nextHandle <= MaxHandle THEN nextHandle ELSE 0, active |-> TRUE,
             stopping |-> FALSE, stopped |-> FALSE, next |-> 0, epoch |-> 0, retained |-> 0, latest |-> <<>>]

NativeStartProxy(t) ==
  /\ At(t, "start")
  /\ \/ Unlock(t) /\ JavaReturn(t) /\ UNCHANGED <<proxies, registryVars, delivered>>
     \/ /\ proxies' = Append(proxies, NewProxy)
        /\ delivered' = Append(delivered, [x \in Host |-> Undelivered])
        /\ nextHandle' = IF nextHandle <= MaxHandle THEN nextHandle + 1 ELSE nextHandle
        /\ registered' = IF Registers THEN registered \cup {Len(proxies) + 1} ELSE registered
        /\ javaCall' = [javaCall EXCEPT ![t].proxy = Len(proxies) + 1,
                                        ![t].stage = IF Registers THEN "bundle" ELSE "join"]
        /\ UNCHANGED lockVars
  /\ UNCHANGED <<boxVars, observed>>

\* proxy_endpoint_bundle and the array it is copied to; without it the proxy is destroyed.
EndpointBundle(t) ==
  /\ At(t, "bundle")
  /\ \/ Unlock(t) /\ JavaReturn(t)
     \/ GoTo(t, "find") /\ UNCHANGED lockVars
  /\ UNCHANGED <<boxVars, proxies, registryVars, statusVars>>

\* A call on a proxy that the application was given, live or not.
OnProxy(t, op, stage) ==
  /\ Enter(t)
  /\ \E p \in Proxy :
       /\ proxies[p].handle # 0
       /\ javaCall' = [javaCall EXCEPT ![t] = IF p \in registered
                     THEN [JavaIdle EXCEPT !.op = op, !.stage = stage, !.proxy = p] ELSE JavaIdle]
  /\ UNCHANGED <<lockVars, boxVars, proxies, registryVars, statusVars>>

ProxyDestroy(t) == OnProxy(t, "destroy", "find")

\* nativeProxyRequestStop, for the instance the endpoint names.
ProxyRequestStop(t) == OnProxy(t, "stop", "find")

\* The record in hand is deactivated, then asked to stop.
Deactivated(proxy) == [proxy EXCEPT !.active = FALSE, !.retained = 0, !.latest = <<>>]
DeactivateProxy(t) ==
  /\ At(t, "find")
  /\ \/ /\ javaCall[t].op # "start" \/ javaCall[t].proxy \in registered
        /\ proxies' = [proxies EXCEPT ![javaCall[t].proxy] = Deactivated(@)]
        /\ GoTo(t, "request") /\ UNCHANGED lockVars
     \/ /\ javaCall[t].op = "start" /\ javaCall[t].proxy \notin registered
        /\ Unlock(t) /\ JavaReturn(t) /\ UNCHANGED proxies
  /\ UNCHANGED <<boxVars, registryVars, statusVars>>

RequestStop(t) ==
  /\ At(t, "request")
  /\ proxies' = [proxies EXCEPT ![javaCall[t].proxy].stopping = TRUE]
  /\ IF javaCall[t].op = "stop" THEN JavaReturn(t) ELSE GoTo(t, "remove")
  /\ UNCHANGED <<lockVars, boxVars, registryVars, statusVars>>

\* remove_proxy; when another call removed it first, that call waits for it.
RemoveProxy(t) ==
  /\ At(t, "remove")
  /\ IF javaCall[t].proxy \in registered
     THEN registered' = registered \ {javaCall[t].proxy} /\ GoTo(t, "join") /\ UNCHANGED lockVars
     ELSE Unlock(t) /\ JavaReturn(t) /\ UNCHANGED registered
  /\ UNCHANGED <<boxVars, proxies, nextHandle, statusVars>>

\* BrowserProxy::stop, at the end of the call.
JoinProxy(t) ==
  /\ At(t, "join")
  /\ proxies' = [proxies EXCEPT ![javaCall[t].proxy].stopping = TRUE, ![javaCall[t].proxy].stopped = TRUE]
  /\ Unlock(t) /\ JavaReturn(t)
  /\ UNCHANGED <<boxVars, registryVars, statusVars>>

\* destroy_all_proxies empties the registry at once, stops all, then waits for all ...
DrainProxies(t) ==
  /\ At(t, "drain")
  /\ registered' = {} /\ javaCall' = [javaCall EXCEPT ![t].todo = registered, ![t].stage = "stop_all"]
  /\ UNCHANGED <<lockVars, boxVars, proxies, nextHandle, statusVars>>
StopAll(t) ==
  /\ At(t, "stop_all") /\ GoTo(t, "join_all")
  /\ proxies' = [p \in Proxy |-> IF p \in javaCall[t].todo
                                 THEN [Deactivated(proxies[p]) EXCEPT !.stopping = TRUE] ELSE proxies[p]]
  /\ UNCHANGED <<lockVars, boxVars, registryVars, statusVars>>
JoinAll(t) ==
  /\ At(t, "join_all") /\ GoTo(t, "free")
  /\ proxies' = [p \in Proxy |-> IF p \in javaCall[t].todo
                                 THEN [proxies[p] EXCEPT !.stopped = TRUE] ELSE proxies[p]]
  /\ UNCHANGED <<lockVars, boxVars, registryVars, statusVars>>

\* ... and the runtimes follow: nativeRuntimeDestroy.
FreeRuntimes(t) ==
  /\ At(t, "free")
  /\ freed' = freed \cup ({runtime} \ {0}) /\ runtime' = 0 /\ Unlock(t) /\ JavaReturn(t)
  /\ UNCHANGED <<created, proxies, registryVars, statusVars>>

----------------------------------------------------------------------------
(* The mailbox *)

\* Statuses kept within the limits: the oldest go while there are too many
\* hosts or too much trace.  next is the number of the status to come.
Kept(latest, trace) ==
  LET Total(hosts) == MapThenSumSet(LAMBDA x : latest[x].trace, hosts)
      Newest(n) == {x \in DOMAIN latest :
                      Cardinality({y \in DOMAIN latest : latest[y].sequence > latest[x].sequence}) < n}
      Fits(n) == n < MaxHosts /\ Total(Newest(n)) + trace <= MaxTrace
  IN Newest(Max({n \in 0..Cardinality(DOMAIN latest) : n = 0 \/ Fits(n)}))

\* record_status; a trace larger than the mailbox is left out.  At its end the
\* numbering starts again, with an empty mailbox.
Recorded(proxy, x, seq, size) ==
  LET wraps == proxy.next = MaxSequence
      latest == IF wraps THEN <<>> ELSE [y \in DOMAIN proxy.latest \ {x} |-> proxy.latest[y]]
      trace == IF size > MaxTrace THEN 0 ELSE size
      number == IF wraps THEN 1 ELSE proxy.next + 1
      kept == Kept(latest, trace)
      next == [y \in kept \cup {x} |->
                 IF y = x THEN [sequence |-> number, seq |-> seq, trace |-> trace] ELSE latest[y]]
  IN [proxy EXCEPT !.next = number, !.epoch = IF wraps THEN @ + 1 ELSE @, !.latest = next,
                   !.retained = MapThenSumSet(LAMBDA y : next[y].trace, DOMAIN next)]

\* A worker of the proxy reports a main-frame status; seq tells the reports apart.
ObserveStatus(p) ==
  /\ observed < MaxObserved /\ ~proxies[p].stopped /\ proxies[p].active
  /\ observed' = observed + 1
  /\ \E x \in Host, size \in 0..(MaxTrace + 1) :
       proxies' = [proxies EXCEPT ![p] = Recorded(@, x, observed + 1, size)]
  /\ UNCHANGED <<lockVars, boxVars, registryVars, delivered, javaCall, calls>>

\* nativeProxyTakeMainFrameStatus and nativeProxyDiscardMainFrameStatus find the proxy ...
ProxyTakeMainFrameStatus(t) == OnProxy(t, "take", "peek")
ProxyDiscardMainFrameStatus(t) == OnProxy(t, "discard", "peek")

\* ... look at what is pending for the host: peek_matching ...
PeekMatching(t) ==
  /\ At(t, "peek")
  /\ LET proxy == proxies[javaCall[t].proxy]
     IN \E x \in Host :
          IF proxy.active /\ x \in DOMAIN proxy.latest
          THEN javaCall' = [javaCall EXCEPT ![t].host = x, ![t].pending = proxy.latest[x],
                                            ![t].epoch = proxy.epoch, ![t].stage = "acknowledge"]
          ELSE JavaReturn(t)
  /\ UNCHANGED <<lockVars, boxVars, proxies, registryVars, statusVars>>

\* A take first makes the bundle and the array; without them the status stays.
StatusBundleFails(t) ==
  /\ At(t, "acknowledge") /\ javaCall[t].op = "take" /\ JavaReturn(t)
  /\ UNCHANGED <<lockVars, boxVars, proxies, registryVars, statusVars>>

MutantAcknowledges(proxy, x, pending) == proxy.active /\ x \in DOMAIN proxy.latest

\* The status pending for the host is the one that was looked at, by its number.
Acknowledges(proxy, x, pending) ==
  proxy.active /\ x \in DOMAIN proxy.latest /\ proxy.latest[x].sequence = pending.sequence

\* acknowledge_matching: the status is removed and, by a take, delivered.
AcknowledgeMatching(t) ==
  /\ At(t, "acknowledge")
  /\ LET p == javaCall[t].proxy
         proxy == proxies[p]
         x == javaCall[t].host
     IN IF Acknowledges(proxy, x, javaCall[t].pending)
        THEN /\ proxies' = [proxies EXCEPT ![p].retained = @ - proxy.latest[x].trace,
                              ![p].latest = [y \in DOMAIN proxy.latest \ {x} |-> proxy.latest[y]]]
             /\ delivered' = IF javaCall[t].op # "take" THEN delivered
                             ELSE [delivered EXCEPT ![p][x] =
                               [seq |-> javaCall[t].pending.seq, removed |-> proxy.latest[x].seq,
                                wrapped |-> proxy.epoch # javaCall[t].epoch]]
        ELSE UNCHANGED <<proxies, delivered>>
  /\ JavaReturn(t)
  /\ UNCHANGED <<lockVars, boxVars, registryVars, observed>>

\* nativeProxyMatchesLocalCertificate; the certificate is checked in module IdentityStore.
ProxyMatchesLocalCertificate(t) == OnProxy(t, "matches", "matches")
MatchesLocalCertificate(t) ==
  /\ At(t, "matches") /\ JavaReturn(t)
  /\ UNCHANGED <<lockVars, boxVars, proxies, registryVars, statusVars>>

----------------------------------------------------------------------------

JavaNext ==
  \/ \E t \in Thread :
       \/ RuntimeSyncOnce(t) \/ RuntimeSyncStatus(t) \/ RuntimeAddStaticRelayPeer(t)
       \/ RuntimeClearResolverCache(t) \/ RuntimeInstallHeaderSnapshot(t)
       \/ RuntimeResetHeadersFromPeers(t) \/ RuntimeHnsProofDetails(t)
       \/ RuntimeGatewayHttpResponse(t) \/ RuntimeGatewayHttpResponseBodyToFile(t)
       \/ RuntimeStartProxy(t) \/ FindRuntime(t) \/ MakeRuntime(t) \/ UseRuntime(t)
       \/ NativeStartProxy(t) \/ EndpointBundle(t)
       \/ CloseRuntimes(t) \/ DrainProxies(t) \/ StopAll(t) \/ JoinAll(t) \/ FreeRuntimes(t)
       \/ ProxyDestroy(t) \/ ProxyRequestStop(t)
       \/ DeactivateProxy(t) \/ RequestStop(t) \/ RemoveProxy(t) \/ JoinProxy(t)
       \/ ProxyTakeMainFrameStatus(t) \/ ProxyDiscardMainFrameStatus(t)
       \/ PeekMatching(t) \/ StatusBundleFails(t) \/ AcknowledgeMatching(t)
       \/ ProxyMatchesLocalCertificate(t) \/ MatchesLocalCertificate(t)
  \/ \E p \in Proxy : ObserveStatus(p)

JavaSpec == JavaInit /\ [][JavaNext]_javaVars

----------------------------------------------------------------------------
(* What the interface promises *)

\* No call reads the box of a runtime that was destroyed: runtime_from_handle
\* cannot tell, so the lock of NativeBridge has to keep the box until then.
NoUseAfterDestroy ==
  \A t \in Thread : javaCall[t].stage \in {"use", "start"} => javaCall[t].runtime \notin freed

\* A call that holds the proxy and waits for it, or will remove it.
InHand(p) ==
  \E t \in Thread : \/ javaCall[t].proxy = p /\ javaCall[t].stage = "join"
                    \/ p \in javaCall[t].todo /\ javaCall[t].stage \in {"stop_all", "join_all"}

\* Every proxy that is not stopped is in the registry or in the hands of a
\* call that waits for it, so closeRuntimes leaves none behind: when no
\* runtime is left, every proxy is stopped or another call waits for it.
NoProxyLeftBehind ==
  /\ \A p \in Proxy : proxies[p].stopped \/ p \in registered \/ InHand(p)
  /\ (runtime = 0 /\ writer = {}) => \A p \in Proxy : proxies[p].stopped \/ InHand(p)

\* A status is delivered once and never after a newer one of its host, and a
\* take that was overtaken leaves the newer one: what a take removes is what it
\* delivers, unless the numbering started again between the two.
NewestStatusKept ==
  /\ \A p \in Proxy : \A x \in DOMAIN proxies[p].latest : proxies[p].latest[x].seq > delivered[p][x].seq
  /\ \A p \in Proxy, x \in Host : delivered[p][x].wrapped \/ delivered[p][x].seq = delivered[p][x].removed

\* The mailbox counts the traces it keeps and stays within both limits, and a
\* proxy that was stopped keeps none.
MailboxBounded ==
  \A p \in Proxy : LET proxy == proxies[p] IN
    /\ Cardinality(DOMAIN proxy.latest) <= MaxHosts /\ proxy.retained <= MaxTrace
    /\ proxy.retained = MapThenSumSet(LAMBDA x : proxy.latest[x].trace, DOMAIN proxy.latest)
    /\ ~proxy.active => DOMAIN proxy.latest = {}

\* The handles and statuses of the Java interface under concurrent calls.
AndroidSafety == JavaTypes /\ NoUseAfterDestroy /\ NoProxyLeftBehind /\ NewestStatusKept
=============================================================================
