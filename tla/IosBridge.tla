------------------------------ MODULE IosBridge ------------------------------
(***************************************************************************)
(* The C interface of crate ios-ffi, called from any number of threads.    *)
(*                                                                         *)
(* One registry, under one lock, maps handles to runtimes and to proxies.  *)
(* The lock is not held while a runtime is opened, a proxy is started or   *)
(* stopped, or a status is delivered, so each of these calls has to look   *)
(* again at what it saw.  Every proxy has a mailbox the workers of the     *)
(* proxy fill and the application empties, with a lock of its own.  Output *)
(* buffers belong to the application until it frees them; a third lock     *)
(* guards their registry.                                                  *)
(*                                                                         *)
(* Starting and stopping a proxy is in module OwnedListener, what a        *)
(* runtime does in BrowserRuntime; here they are steps that may fail or    *)
(* wait.                                                                   *)
(***************************************************************************)
EXTENDS Naturals, Sequences, FiniteSets, FiniteSetsExt, SequencesExt

CONSTANTS
  IosThread,      \* threads of the application
  IosHost,        \* hosts whose pages report a status
  MaxIosHandle,   \* largest handle, u64::MAX in the code
  MaxIosRuntimes, \* MAX_RUNTIME_HANDLES
  MaxIosProxies,  \* MAX_PROXY_HANDLES
  MaxStatuses,    \* MAX_MAIN_FRAME_STATUSES
  MaxBuffers,     \* MAX_ALLOCATIONS
  MaxBytes,       \* MAX_ALLOCATED_BYTES
  MaxIosCalls,    \* bound on the calls made
  MaxIosObserved  \* bound on the statuses reported

ASSUME IosAssumption == MaxIosHandle \in Nat

VARIABLES
  iosHandle,      \* NEXT_OBJECT_HANDLE
  runtimes,       \* handles of the registered runtimes
  revision,       \* policy revision of the runtime behind each handle
  iosProxies,     \* every proxy started so far
  iosRegistered,  \* those the handle registry holds
  buffers,        \* ALLOCATIONS: the live buffers
  totalBytes,     \* ... and their total size as the registry counts it
  tokens,         \* every buffer handed to the application so far
  iosObserved,    \* statuses reported so far
  taken,          \* the latest status delivered, by proxy and host
  iosCall,        \* what each thread is at
  lastError,      \* LAST_ERROR of each thread
  iosCalls        \* calls made so far

iosVars == <<iosHandle, runtimes, revision, iosProxies, iosRegistered, buffers, totalBytes, tokens,
             iosObserved, taken, iosCall, lastError, iosCalls>>

handleVars == <<iosHandle, runtimes, revision, iosRegistered>>
bufferVars == <<buffers, totalBytes, tokens>>
iosStatusVars == <<iosObserved, taken>>

IosProxy == DOMAIN iosProxies
Codes == {"ok", "invalid", "not_found", "not_ready", "exhausted", "runtime_error",
          "proxy_error", "buffer_error"}
IosIdle == [op |-> "none", stage |-> "idle", runtime |-> 0, proxy |-> 0, revision |-> 0,
            todo |-> <<>>, late |-> FALSE, code |-> "ok"]

IosTypes ==
  /\ iosHandle \in 1..(MaxIosHandle + 1) /\ runtimes \subseteq 1..MaxIosHandle
  /\ iosRegistered \subseteq IosProxy
  /\ \A p \in IosProxy :
       /\ iosProxies[p].runtime \in 1..MaxIosHandle /\ iosProxies[p].handle \in 0..MaxIosHandle
       /\ {iosProxies[p].active, iosProxies[p].accepting,
           iosProxies[p].stopping, iosProxies[p].stopped} \subseteq BOOLEAN
  /\ \A t \in IosThread : iosCall[t].code \in Codes /\ lastError[t] \in Codes

IosInit ==
  /\ iosHandle = 1 /\ runtimes = {} /\ revision = [h \in 1..MaxIosHandle |-> 0]
  /\ iosProxies = <<>> /\ iosRegistered = {}
  /\ buffers = {} /\ totalBytes = 0 /\ tokens = {}
  /\ iosObserved = 0 /\ taken = <<>>
  /\ iosCall = [t \in IosThread |-> IosIdle] /\ lastError = [t \in IosThread |-> "ok"] /\ iosCalls = 0

----------------------------------------------------------------------------
(* Entering and leaving a call *)

\* ffi_call: the error of the thread is that of its latest call; "ok" is none.
IosReturn(t, code) ==
  /\ iosCall' = [iosCall EXCEPT ![t] = [IosIdle EXCEPT !.late = iosCall[t].late]]
  /\ lastError' = [lastError EXCEPT ![t] = code]

IosEnter(t) == iosCall[t].stage = "idle" /\ iosCalls < MaxIosCalls /\ iosCalls' = iosCalls + 1

\* A call that does no more than return, or goes on at a stage.
IosReject(t, code) ==
  /\ iosCall' = [iosCall EXCEPT ![t] = IosIdle]
  /\ lastError' = [lastError EXCEPT ![t] = code]
IosBegin(t, op, stage, runtime, proxy, late) ==
  /\ iosCall' = [iosCall EXCEPT ![t] = [IosIdle EXCEPT !.op = op, !.stage = stage, !.runtime = runtime,
                                                       !.proxy = proxy, !.late = late]]
  /\ lastError' = [lastError EXCEPT ![t] = "ok"]

\* Null pointers, lengths beyond the limits and bytes that are not UTF-8: the
\* call has done nothing yet.  The fields of a policy or of options likewise.
BadInput(t) == IosReject(t, "invalid")
BadFields(t) == IosReject(t, "invalid")

IosAt(t, stage) == iosCall[t].stage = stage /\ UNCHANGED iosCalls
IosGoTo(t, stage) == iosCall' = [iosCall EXCEPT ![t].stage = stage] /\ UNCHANGED lastError

\* Handles an application may pass: any it was given, live or stale, or none.
Passed == 0..(iosHandle - 1)

\* runtime_entry and proxy_entry.
RuntimeEntry(h) == h \in runtimes
ProxyEntry(h) == {p \in iosRegistered : iosProxies[p].handle = h}

----------------------------------------------------------------------------
(* Buffers *)

Bytes(sizes) == MapThenSumSet(LAMBDA i : sizes[i], DOMAIN sizes)

\* The checks of allocate_outputs; empty values take no entry.
Room(sizes) ==
  /\ Cardinality(buffers) + Cardinality({i \in DOMAIN sizes : sizes[i] # 0}) <= MaxBuffers
  /\ totalBytes + Bytes(sizes) <= MaxBytes

\* allocate_outputs, for values of the given sizes, all or none.
AllocateOutputs(sizes) ==
  LET kept == SelectSeq(sizes, LAMBDA n : n # 0)
      new == {[id |-> Cardinality(tokens) + i, len |-> kept[i]] : i \in DOMAIN kept}
  IN /\ buffers' = buffers \cup new /\ tokens' = tokens \cup new
     /\ totalBytes' = totalBytes + Bytes(sizes)

\* Answers with buffers of the given sizes, or with none when there is no room.
Answer(t, sizes) ==
  \/ Room(sizes) /\ AllocateOutputs(sizes) /\ IosReturn(t, "ok")
  \/ ~Room(sizes) /\ IosReturn(t, "exhausted") /\ UNCHANGED bufferVars

\* free_output of a buffer that was handed out, with the length it came with or another.
BufferFree(t) ==
  /\ IosEnter(t)
  /\ \E token \in tokens, n \in {0, 1} :
       LET passed == [token EXCEPT !.len = @ + n]
       IN IF passed \in buffers
          THEN /\ buffers' = buffers \ {passed} /\ totalBytes' = totalBytes - passed.len
               /\ IosReject(t, "ok")
          ELSE IosReject(t, "buffer_error") /\ UNCHANGED <<buffers, totalBytes>>
  /\ UNCHANGED <<handleVars, iosProxies, tokens, iosStatusVars>>

\* hns_browser_last_error keeps the error it reports.
LastError(t) ==
  /\ IosEnter(t)
  /\ LET sizes == <<IF lastError[t] = "ok" THEN 0 ELSE 1>>
     IN \/ /\ Room(sizes) /\ AllocateOutputs(sizes)
           /\ iosCall' = [iosCall EXCEPT ![t] = IosIdle] /\ UNCHANGED lastError
        \/ ~Room(sizes) /\ IosReject(t, "exhausted") /\ UNCHANGED bufferVars
  /\ UNCHANGED <<handleVars, iosProxies, iosStatusVars>>

\* Calls that need no handle: versions, defaults and the reading of names.
Text(t, found) ==
  /\ IosEnter(t)
  /\ \/ BadInput(t) /\ UNCHANGED bufferVars
     \/ found /\ IosReject(t, "not_found") /\ UNCHANGED bufferVars
     \/ Room(<<1>>) /\ AllocateOutputs(<<1>>) /\ IosReject(t, "ok")
     \/ ~Room(<<1>>) /\ IosReject(t, "exhausted") /\ UNCHANGED bufferVars
  /\ UNCHANGED <<handleVars, iosProxies, iosStatusVars>>

CoreVersion(t) == Text(t, FALSE)
DiagnosticsJson(t) == Text(t, FALSE)
CanonicalHost(t) == Text(t, TRUE)
HnsRoot(t) == Text(t, TRUE)

\* classify_name answers with a number, as the defaults are filled in place.
ClassifyName(t) ==
  /\ IosEnter(t) /\ (BadInput(t) \/ IosReject(t, "ok"))
  /\ UNCHANGED <<handleVars, iosProxies, bufferVars, iosStatusVars>>

----------------------------------------------------------------------------
(* Stopping a proxy *)

\* ProxyEntry::request_stop is a sequence of stores, and blocking_stop is it
\* followed by a stop that joins the workers.  A call has a list of both to do.
Stops(ps, join) == {[i \in DOMAIN s |-> [proxy |-> s[i], join |-> join]] : s \in SetToSeqs(ps)}

\* Goes on with the first of todo, or returns the code when nothing is left.
StopFirst(t, todo, code) ==
  IF todo = <<>> THEN IosReturn(t, code)
  ELSE /\ iosCall' = [iosCall EXCEPT ![t].todo = todo, ![t].code = code, ![t].stage = "deactivate"]
       /\ UNCHANGED lastError

Stopped(t) == Head(iosCall[t].todo).proxy
StopStep(t, field, value, next) ==
  /\ iosProxies' = [iosProxies EXCEPT ![Stopped(t)] = [@ EXCEPT ![field] = value]]
  /\ IosGoTo(t, next) /\ UNCHANGED <<handleVars, bufferVars, iosStatusVars>>

Deactivate(t) == IosAt(t, "deactivate") /\ StopStep(t, "active", FALSE, "close")
CloseMailbox(t) == IosAt(t, "close") /\ StopStep(t, "accepting", FALSE, "revoke")
Revoke(t) == IosAt(t, "revoke") /\ StopStep(t, "stopping", TRUE, "clear")

\* The statuses are cleared only when nobody is at the mailbox: try_lock.
ClearMailbox(t) ==
  /\ IosAt(t, "clear")
  /\ iosProxies' = IF iosProxies[Stopped(t)].lock = "free"
                   THEN [iosProxies EXCEPT ![Stopped(t)].box = <<>>] ELSE iosProxies
  /\ IF Head(iosCall[t].todo).join THEN IosGoTo(t, "join")
     ELSE StopFirst(t, Tail(iosCall[t].todo), iosCall[t].code)
  /\ UNCHANGED <<handleVars, bufferVars, iosStatusVars>>

\* BrowserProxy::stop returns once the workers have ended.
Join(t) ==
  /\ IosAt(t, "join") /\ iosProxies[Stopped(t)].lock # "worker"
  /\ iosProxies' = [iosProxies EXCEPT ![Stopped(t)].stopping = TRUE, ![Stopped(t)].stopped = TRUE]
  /\ StopFirst(t, Tail(iosCall[t].todo), iosCall[t].code)
  /\ UNCHANGED <<handleVars, bufferVars, iosStatusVars>>

----------------------------------------------------------------------------
(* Runtimes *)

\* hns_browser_runtime_create: the checks before the runtime is opened.
RuntimeCreate(t) ==
  /\ IosEnter(t)
  /\ \/ BadFields(t)
     \/ Cardinality(runtimes) >= MaxIosRuntimes /\ IosReject(t, "exhausted")
     \/ Cardinality(runtimes) < MaxIosRuntimes /\ IosBegin(t, "create", "open", 0, 0, FALSE)
  /\ UNCHANGED <<handleVars, iosProxies, bufferVars, iosStatusVars>>

\* next_monotonic_id: whether a handle is left.
HandleLeft == iosHandle <= MaxIosHandle

\* The runtime is opened and registered, unless the registry has filled up since.
InsertRuntime(t) ==
  /\ IosAt(t, "open")
  /\ \/ IosReturn(t, "runtime_error") /\ UNCHANGED <<iosHandle, runtimes>>
     \/ ~HandleLeft /\ IosReturn(t, "exhausted") /\ UNCHANGED <<iosHandle, runtimes>>
     \/ /\ HandleLeft /\ iosHandle' = iosHandle + 1
        /\ IF Cardinality(runtimes) < MaxIosRuntimes
           THEN runtimes' = runtimes \cup {iosHandle} /\ IosReturn(t, "ok")
           ELSE UNCHANGED runtimes /\ IosReturn(t, "exhausted")
  /\ UNCHANGED <<revision, iosRegistered, iosProxies, bufferVars, iosStatusVars>>

Owned(h) == {p \in iosRegistered : iosProxies[p].runtime = h}

\* hns_browser_runtime_destroy takes the runtime and its proxies out of the
\* registry, then asks every proxy to stop, then waits for each.
RuntimeDestroy(t) ==
  /\ IosEnter(t)
  /\ \E h \in Passed :
       IF RuntimeEntry(h)
       THEN \E first \in Stops(Owned(h), FALSE), then \in Stops(Owned(h), TRUE) :
              /\ runtimes' = runtimes \ {h} /\ iosRegistered' = iosRegistered \ Owned(h)
              /\ IF first = <<>> THEN IosReject(t, "ok")
                 ELSE /\ iosCall' = [iosCall EXCEPT ![t] = [IosIdle EXCEPT !.op = "destroy", !.runtime = h,
                                      !.todo = first \o then, !.stage = "deactivate"]]
                      /\ lastError' = [lastError EXCEPT ![t] = "ok"]
       ELSE IosReject(t, "not_found") /\ UNCHANGED <<runtimes, iosRegistered>>
  /\ UNCHANGED <<iosHandle, revision, iosProxies, bufferVars, iosStatusVars>>

\* hns_browser_runtime_set_policy: validate_policy and policy_from_fields, then the runtime.
IosSetPolicy(t) ==
  /\ IosEnter(t)
  /\ \/ BadFields(t)
     \/ \E h \in Passed : IF RuntimeEntry(h) THEN IosBegin(t, "policy", "publish", h, 0, FALSE)
                          ELSE IosReject(t, "not_found")
  /\ UNCHANGED <<handleVars, iosProxies, bufferVars, iosStatusVars>>

\* The new policy, and the proxies that were started under an older one, under one lock.
PublishPolicy(t) ==
  /\ IosAt(t, "publish")
  /\ LET h == iosCall[t].runtime
     IN \/ h \notin runtimes /\ IosReturn(t, "not_found") /\ UNCHANGED revision
        \/ h \in runtimes /\ IosReturn(t, "runtime_error") /\ UNCHANGED revision
        \/ /\ h \in runtimes /\ revision' = [revision EXCEPT ![h] = @ + 1]
           /\ \E todo \in Stops(Owned(h), FALSE) : StopFirst(t, todo, "ok")
  /\ UNCHANGED <<iosHandle, runtimes, iosRegistered, iosProxies, bufferVars, iosStatusVars>>

\* runtime_status_json, for the calls that answer with a document: the runtime
\* is kept for the length of the call, even when its handle is destroyed.
StatusJson(t) ==
  /\ IosEnter(t)
  /\ \/ BadInput(t)
     \/ \E h \in Passed : IF RuntimeEntry(h) THEN IosBegin(t, "json", "operate", h, 0, FALSE)
                          ELSE IosReject(t, "not_found")
  /\ UNCHANGED <<handleVars, iosProxies, bufferVars, iosStatusVars>>

IosSyncOnce(t) == StatusJson(t)
IosSyncStatus(t) == StatusJson(t)
IosAddStaticRelayPeer(t) == StatusJson(t)
IosClearResolverCache(t) == StatusJson(t)
IosInstallHeaderSnapshot(t) == StatusJson(t)
IosResetHeadersFromPeers(t) == StatusJson(t)
IosProofDetails(t) == StatusJson(t)

Operate(t) ==
  /\ IosAt(t, "operate")
  /\ \/ IosReturn(t, "runtime_error") /\ UNCHANGED bufferVars
     \/ Answer(t, <<2>>)
  /\ UNCHANGED <<handleVars, iosProxies, iosStatusVars>>

----------------------------------------------------------------------------
(* Proxies *)

\* A registered proxy of the runtime that may still serve.
HasActive(h) == \E p \in Owned(h) : iosProxies[p].active /\ ~iosProxies[p].stopped

\* hns_browser_proxy_start: the checks before the proxy is started.
ProxyStart(t) ==
  /\ IosEnter(t)
  /\ \E h \in Passed :
       \/ ~RuntimeEntry(h) /\ IosReject(t, "not_found")
       \/ RuntimeEntry(h) /\ Cardinality(iosRegistered) >= MaxIosProxies /\ IosReject(t, "exhausted")
       \/ RuntimeEntry(h) /\ HasActive(h) /\ IosReject(t, "proxy_error")
       \/ /\ RuntimeEntry(h) /\ Cardinality(iosRegistered) < MaxIosProxies /\ ~HasActive(h)
          /\ \/ BadInput(t)
             \/ IosBegin(t, "start", "start", h, 0, FALSE)
  /\ UNCHANGED <<handleVars, iosProxies, bufferVars, iosStatusVars>>

\* The revision is read, then the proxy is started; a proxy nobody keeps is stopped when dropped.
IosStartProxy(t) ==
  /\ IosAt(t, "start")
  /\ LET h == iosCall[t].runtime
         p == Len(iosProxies) + 1
     IN \/ IosReturn(t, "proxy_error") /\ UNCHANGED <<iosProxies, taken, iosHandle>>
        \/ /\ iosProxies' = Append(iosProxies, [runtime |-> h, handle |-> IF HandleLeft THEN iosHandle ELSE 0,
                              revision |-> revision[h], active |-> TRUE, accepting |-> TRUE,
                              stopping |-> FALSE, stopped |-> FALSE, box |-> <<>>, lock |-> "free"])
           /\ taken' = Append(taken, [x \in IosHost |-> 0])
           /\ iosHandle' = IF HandleLeft THEN iosHandle + 1 ELSE iosHandle
           /\ iosCall' = [iosCall EXCEPT ![t].proxy = p, ![t].revision = revision[h],
                                         ![t].stage = IF HandleLeft THEN "insert" ELSE "join",
                                         ![t].todo = <<[proxy |-> p, join |-> TRUE]>>, ![t].code = "exhausted"]
           /\ UNCHANGED lastError
  /\ UNCHANGED <<runtimes, revision, iosRegistered, bufferVars, iosObserved>>

MutantInsertion(t) ==
  CASE iosCall[t].runtime \notin runtimes -> "not_found"
    [] Cardinality(iosRegistered) >= MaxIosProxies -> "exhausted"
    [] OTHER -> "ok"

\* What has changed since the checks, looked at again under the registry lock.
Insertion(t) ==
  CASE iosCall[t].runtime \notin runtimes -> "not_found"
    [] iosCall[t].runtime \in runtimes /\ revision[iosCall[t].runtime] # iosCall[t].revision -> "proxy_error"
    [] Cardinality(iosRegistered) >= MaxIosProxies -> "exhausted"
    [] HasActive(iosCall[t].runtime) -> "proxy_error"
    [] OTHER -> "ok"

InsertProxy(t) ==
  /\ IosAt(t, "insert")
  /\ LET code == Insertion(t)
     IN IF code = "ok"
        THEN iosRegistered' = iosRegistered \cup {iosCall[t].proxy} /\ IosReturn(t, "ok")
        ELSE StopFirst(t, iosCall[t].todo, code) /\ UNCHANGED iosRegistered
  /\ UNCHANGED <<iosHandle, runtimes, revision, iosProxies, bufferVars, iosStatusVars>>

\* hns_browser_proxy_request_stop and hns_browser_proxy_destroy.
StopCall(t, op, join) ==
  /\ IosEnter(t)
  /\ \E h \in Passed :
       IF ProxyEntry(h) = {} THEN IosReject(t, "not_found") /\ UNCHANGED iosRegistered
       ELSE \E p \in ProxyEntry(h) :
              /\ iosRegistered' = IF join THEN iosRegistered \ {p} ELSE iosRegistered
              /\ iosCall' = [iosCall EXCEPT ![t] = [IosIdle EXCEPT !.op = op, !.stage = "deactivate", !.proxy = p,
                                                                   !.todo = <<[proxy |-> p, join |-> join]>>]]
              /\ lastError' = [lastError EXCEPT ![t] = "ok"]
  /\ UNCHANGED <<iosHandle, runtimes, revision, iosProxies, bufferVars, iosStatusVars>>

IosProxyRequestStop(t) == StopCall(t, "stop", FALSE)
IosProxyDestroy(t) == StopCall(t, "destroy", TRUE)

\* The calls that ask a proxy something find it first; late says it was stopped by then.
Query(t, op) ==
  /\ IosEnter(t)
  /\ \/ BadInput(t)
     \/ \E h \in Passed :
             IF ProxyEntry(h) = {} THEN IosReject(t, "not_found")
             ELSE \E p \in ProxyEntry(h) :
                 IosBegin(t, op, "active", iosProxies[p].runtime, p, ~iosProxies[p].active \/ iosProxies[p].stopping)
  /\ UNCHANGED <<handleVars, iosProxies, bufferVars, iosStatusVars>>

ProxyEndpoint(t) == Query(t, "endpoint")
MatchesInstance(t) == Query(t, "matches")
MatchesAuthenticationChallenge(t) == Query(t, "matches")
IosMatchesLocalCertificate(t) == Query(t, "matches")
TakeMainFrameStatus(t) == Query(t, "take")

Active(p) == iosProxies[p].active /\ ~iosProxies[p].stopping /\ ~iosProxies[p].stopped

\* ensure_active; whether the instance, challenge or certificate matches is not
\* told apart, only that the proxy answers.
EnsureActive(t) ==
  /\ IosAt(t, "active")
  /\ IF Active(iosCall[t].proxy)
     THEN IF iosCall[t].op = "matches" THEN IosReturn(t, "ok") ELSE IosGoTo(t, iosCall[t].op)
     ELSE IosReturn(t, "not_found")
  /\ UNCHANGED <<handleVars, iosProxies, bufferVars, iosStatusVars>>

\* The session, realm, user name and password leave together or not at all.
Endpoint(t) ==
  /\ IosAt(t, "endpoint") /\ Answer(t, <<1, 1, 1, 1>>)
  /\ UNCHANGED <<handleVars, iosProxies, iosStatusVars>>

----------------------------------------------------------------------------
(* The mailbox *)

\* observe_status by a worker of the proxy, up to the second look at accepting.
IosObserveStatus(p) ==
  /\ iosObserved < MaxIosObserved /\ ~iosProxies[p].stopped
  /\ iosProxies[p].accepting /\ iosProxies[p].lock = "free"
  /\ iosProxies' = [iosProxies EXCEPT ![p].lock = "worker"]
  /\ UNCHANGED <<handleVars, bufferVars, iosStatusVars, iosCall, lastError, iosCalls>>

MutantQueued(box, status) == Append(IF Len(box) = MaxStatuses THEN Tail(box) ELSE box, status)

\* The status replaces that of the same host; the oldest makes room.
Queued(box, status) ==
  LET others == SelectSeq(box, LAMBDA s : s.host # status.host)
      full == IF Len(others) = MaxStatuses THEN Tail(others) ELSE others
  IN Append(full, status)

\* ... and the status is queued, even when the proxy is stopped meanwhile.
QueueStatus(p) ==
  /\ iosProxies[p].lock = "worker"
  /\ iosObserved' = iosObserved + 1
  /\ \E x \in IosHost :
       iosProxies' = [iosProxies EXCEPT ![p].lock = "free",
                                        ![p].box = Queued(@, [host |-> x, seq |-> iosObserved + 1])]
  /\ UNCHANGED <<handleVars, bufferVars, taken, iosCall, lastError, iosCalls>>

\* take_main_frame_status takes the lock of the mailbox ...
LockMailbox(t) ==
  /\ IosAt(t, "take") /\ iosProxies[iosCall[t].proxy].lock = "free"
  /\ iosProxies' = [iosProxies EXCEPT ![iosCall[t].proxy].lock = t]
  /\ IosGoTo(t, "remove") /\ UNCHANGED <<handleVars, bufferVars, iosStatusVars>>

\* ... and delivers the latest status of the host, which stays when there is no room for the answer.
TakeStatus(t) ==
  /\ IosAt(t, "remove")
  /\ LET p == iosCall[t].proxy
         box == iosProxies[p].box
     IN \E x \in IosHost, trace \in {0, 1} :
          LET found == {i \in DOMAIN box : box[i].host = x}
              sizes == <<1, trace>>
          IN \/ /\ found = {} /\ IosReturn(t, "not_ready")
                /\ iosProxies' = [iosProxies EXCEPT ![p].lock = "free"] /\ UNCHANGED <<bufferVars, taken>>
             \/ /\ found # {} /\ ~Room(sizes) /\ IosReturn(t, "exhausted")
                /\ iosProxies' = [iosProxies EXCEPT ![p].lock = "free"] /\ UNCHANGED <<bufferVars, taken>>
             \/ /\ found # {} /\ Room(sizes) /\ AllocateOutputs(sizes) /\ IosReturn(t, "ok")
                /\ iosProxies' = [iosProxies EXCEPT ![p].lock = "free",
                                                    ![p].box = SelectSeq(@, LAMBDA s : s.host # x)]
                /\ taken' = [taken EXCEPT ![p][x] = box[Max(found)].seq]
  /\ UNCHANGED <<handleVars, iosObserved>>

----------------------------------------------------------------------------

Stop(t) == Deactivate(t) \/ CloseMailbox(t) \/ Revoke(t) \/ ClearMailbox(t) \/ Join(t)
Proceed(t) ==
  \/ Stop(t) \/ InsertRuntime(t) \/ PublishPolicy(t) \/ Operate(t) \/ IosStartProxy(t) \/ InsertProxy(t)
  \/ EnsureActive(t) \/ Endpoint(t) \/ LockMailbox(t) \/ TakeStatus(t)

IosNext ==
  \/ \E t \in IosThread :
       \/ Proceed(t)
       \/ RuntimeCreate(t) \/ RuntimeDestroy(t) \/ IosSetPolicy(t) \/ ProxyStart(t)
       \/ IosProxyRequestStop(t) \/ IosProxyDestroy(t)
       \/ ProxyEndpoint(t) \/ TakeMainFrameStatus(t)
       \/ MatchesInstance(t) \/ MatchesAuthenticationChallenge(t) \/ IosMatchesLocalCertificate(t)
       \/ IosSyncOnce(t) \/ IosSyncStatus(t) \/ IosAddStaticRelayPeer(t) \/ IosClearResolverCache(t)
       \/ IosInstallHeaderSnapshot(t) \/ IosResetHeadersFromPeers(t) \/ IosProofDetails(t)
       \/ CoreVersion(t) \/ DiagnosticsJson(t) \/ CanonicalHost(t) \/ HnsRoot(t) \/ ClassifyName(t)
       \/ BufferFree(t) \/ LastError(t)
  \/ \E p \in IosProxy : IosObserveStatus(p) \/ QueueStatus(p)

IosSpec == IosInit /\ [][IosNext]_iosVars

----------------------------------------------------------------------------
(* What the interface promises *)

\* A call under way that is about to stop the proxy.
BeingStopped(p) ==
  \E t \in IosThread : iosCall[t].stage # "idle" /\ \E i \in DOMAIN iosCall[t].todo : iosCall[t].todo[i].proxy = p

\* No proxy goes on serving under a policy the application replaced: a proxy
\* of the registry that may serve was started under the revision in force, or
\* the call that replaced the policy has not returned and is about to stop it.
NoStalePolicy ==
  \A p \in iosRegistered :
    (iosProxies[p].active /\ revision[iosProxies[p].runtime] # iosProxies[p].revision) => BeingStopped(p)

\* A runtime has one serving proxy at most, however many calls start one.
OneActiveProxy ==
  \A p, q \in iosRegistered :
    (iosProxies[p].runtime = iosProxies[q].runtime /\ Active(p) /\ Active(q)) => p = q

\* Every proxy that is not stopped can be reached: the registry holds it and
\* its runtime, or a call under way registers it or waits for its end.
NoOrphanProxy ==
  \A p \in IosProxy :
    \/ iosProxies[p].stopped
    \/ p \in iosRegistered /\ iosProxies[p].runtime \in runtimes
    \/ BeingStopped(p)

\* A question put to a proxy after it was stopped is refused, whatever the
\* mailbox still holds because a worker was at it when it was to be cleared.
StoppedIsSilent ==
  \A t \in IosThread : (iosCall[t].stage = "idle" /\ iosCall[t].late) => lastError[t] # "ok"

\* The mailbox holds one status of a host at most, newer than any delivered.
MailboxFresh ==
  \A p \in IosProxy : LET box == iosProxies[p].box IN
    /\ Len(box) <= MaxStatuses
    /\ \A i \in DOMAIN box : box[i].host \in IosHost /\ box[i].seq > taken[p][box[i].host]
    /\ \A i, j \in DOMAIN box : box[i].host = box[j].host => i = j

\* The registry of buffers counts what it holds, within its limits, and never
\* hands out the token of another buffer.
BuffersAccounted ==
  /\ totalBytes = MapThenSumSet(LAMBDA b : b.len, buffers)
  /\ totalBytes \in 0..MaxBytes /\ Cardinality(buffers) <= MaxBuffers
  /\ \A b, c \in tokens : b.id = c.id => b = c

\* The handles of the C interface under concurrent calls.
IosSafety == IosTypes /\ NoStalePolicy /\ OneActiveProxy /\ NoOrphanProxy /\ StoppedIsSilent
=============================================================================
