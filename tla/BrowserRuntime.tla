--------------------------- MODULE BrowserRuntime ---------------------------
(***************************************************************************)
(* The operations of BrowserRuntime (crate hns-browser-runtime), called    *)
(* from any number of threads on runtimes that may share a directory.      *)
(*                                                                         *)
(* Runtimes of one directory share a RuntimeCoordination, found through a  *)
(* registry of weak references.  It holds three locks, always taken in the *)
(* order sync, maintenance, peer state.  Operations that replace the       *)
(* stores take the maintenance lock for writing; those that use them take  *)
(* it for reading.  A request that brings its own policy also holds the    *)
(* operation lock of its runtime, from before the policy is set until the  *)
(* response is there.  Requests of the loopback proxy do not.              *)
(*                                                                         *)
(* What an operation does with the stores is in modules HeaderSync,        *)
(* ProofCache and GatewayResolution; here it is a step that may fail.      *)
(***************************************************************************)
EXTENDS Naturals, Sequences, FiniteSets

CONSTANTS
  Handle,        \* runtimes the embedding application holds
  BaseOf,        \* the storage directory of each handle
  Caller,        \* threads; each makes one call
  Policies,      \* policies a caller may ask for
  RefusedPolicies,       \* policies whose resolver address does not parse
  Initial,       \* the policy a runtime is opened with
  MaxOpens,      \* bound on the runtimes opened
  MaxGeneration, \* largest proxy generation, u64::MAX in the code
  Nobody         \* no caller

ASSUME BrowserRuntimeAssumption ==
  /\ MaxOpens \in Nat /\ MaxGeneration \in Nat
  /\ Initial \in Policies \ RefusedPolicies
  /\ Nobody \notin Caller

VARIABLES
  handle,        \* the runtime behind each handle, 0 for none
  inner,         \* RuntimeInner of every runtime opened so far
  coordination,  \* the locks of every RuntimeCoordination
  registry,      \* RUNTIME_COORDINATION: directory to weak reference, 0 for none
  call           \* what each caller is at

vars == <<handle, inner, coordination, registry, call>>

Runtime == 1..Len(inner)
Unlocked == [sync |-> Nobody, readers |-> {}, writer |-> Nobody, peers |-> Nobody]
Idle == [op |-> "none", runtime |-> 0, stage |-> "idle", locks |-> <<>>, policy |-> Initial,
         used |-> Initial, cancelled |-> FALSE, seen |-> FALSE, session |-> Nobody, generation |-> 0]

\* Operations that differ only in what they do with the stores have one name:
\* change replaces them, read reads them, book rewrites the peer book.
GatewayOps == {"request", "proxied"}
Ops == GatewayOps \cup {"none", "change", "read", "book", "policy", "start"}

TypeOK ==
  /\ handle \in [Handle -> 0..MaxOpens]
  /\ Len(inner) \in 0..MaxOpens
  /\ \A r \in Runtime :
       /\ inner[r].base \in {BaseOf[h] : h \in Handle} /\ inner[r].coordination \in Runtime
       /\ inner[r].policy \in Policies \ RefusedPolicies /\ inner[r].revision \in Nat
       /\ inner[r].generation \in 0..MaxGeneration /\ inner[r].operation \in Caller \cup {Nobody}
  /\ DOMAIN coordination = Runtime
  /\ \A c \in Runtime :
       /\ coordination[c].sync \in Caller \cup {Nobody} /\ coordination[c].readers \subseteq Caller
       /\ coordination[c].writer \in Caller \cup {Nobody} /\ coordination[c].peers \in Caller \cup {Nobody}
  /\ \A b \in DOMAIN registry : registry[b] \in 0..MaxOpens
  /\ \A t \in Caller : call[t].op \in Ops /\ call[t].used \in Policies

Init ==
  /\ handle = [h \in Handle |-> 0] /\ inner = <<>> /\ coordination = <<>>
  /\ registry = [b \in {BaseOf[h] : h \in Handle} |-> 0]
  /\ call = [t \in Caller |-> Idle]

----------------------------------------------------------------------------
(* Opening and dropping runtimes *)

\* A runtime lives while a handle or a call holds it, and its coordination with it.
Alive(r) == (\E h \in Handle : handle[h] = r)
              \/ \E t \in Caller : call[t].runtime = r /\ call[t].stage \notin {"idle", "done"}
StrongCount(c) == Cardinality({r \in Runtime : Alive(r) /\ inner[r].coordination = c})

MutantRuntimeCoordination(base) ==
  IF registry[base] # 0 /\ \E h \in Handle : handle[h] = registry[base]
  THEN registry[base] ELSE Len(inner) + 1

\* runtime_coordination: the live coordination of the directory, or a new one.
RuntimeCoordination(base) ==
  IF registry[base] # 0 /\ StrongCount(registry[base]) # 0
  THEN registry[base] ELSE Len(inner) + 1

\* BrowserRuntime::open, with an initial policy that parses.
Open(h) ==
  /\ handle[h] = 0 /\ Len(inner) < MaxOpens
  /\ LET base == BaseOf[h]
         c == RuntimeCoordination(base)
     IN /\ inner' = Append(inner, [base |-> base, coordination |-> c, policy |-> Initial, revision |-> 0,
                                   session |-> Nobody, generation |-> 0, operation |-> Nobody])
        /\ registry' = [registry EXCEPT ![base] = c]
  /\ coordination' = Append(coordination, Unlocked)
  /\ handle' = [handle EXCEPT ![h] = Len(inner) + 1]
  /\ UNCHANGED call

\* The application lets go of a runtime; calls under way keep it.
Drop(h) ==
  /\ handle[h] # 0
  /\ handle' = [handle EXCEPT ![h] = 0]
  /\ UNCHANGED <<inner, coordination, registry, call>>

----------------------------------------------------------------------------
(* Calls *)

\* A caller takes up an operation; locks are those it takes first, in order.
Call(t, op, stage, locks, policy) ==
  /\ call[t].stage = "idle"
  /\ \E h \in Handle :
       /\ handle[h] # 0
       /\ call' = [call EXCEPT ![t] = [Idle EXCEPT !.op = op, !.runtime = handle[h], !.stage = stage,
                                                   !.locks = locks, !.policy = policy]]
  /\ UNCHANGED <<handle, inner, coordination, registry>>

SyncOnce(t) == Call(t, "book", "lock", <<"sync", "read", "peers">>, Initial)
SyncStatus(t) == Call(t, "read", "lock", <<"read">>, Initial)
ProofDetails(t) == Call(t, "read", "lock", <<"read">>, Initial)
ClearResolverCache(t) == Call(t, "change", "lock", <<"sync", "write">>, Initial)
InstallHeaderSnapshot(t) == Call(t, "change", "lock", <<"sync", "write">>, Initial)
ResetHeadersFromPeers(t) == Call(t, "change", "lock", <<"sync", "write">>, Initial)
SetPolicy(t) == \E p \in Policies : Call(t, "policy", "policy", <<>>, p)

\* add_static_relay_peer probes the peer before it takes any lock.
AddStaticRelayPeer(t) ==
  \/ Call(t, "book", "lock", <<"sync", "read", "peers">>, Initial)
  \/ Call(t, "book", "failed", <<>>, Initial)

\* raw_gateway_request: an oversized body, a bad port or bad headers are
\* answered before the runtime is entered.
RawGatewayRequest(t) ==
  \/ \E p \in Policies : Call(t, "request", "policy", <<"read">>, p)
  \/ Call(t, "request", "failed", <<>>, Initial)

RawGatewayRequestBodyToFile(t) ==
  \/ \E p \in Policies : Call(t, "request", "policy", <<"read">>, p)
  \/ Call(t, "request", "failed", <<>>, Initial)

\* RuntimeProxyBackend::execute and open_tunnel, for a request of the loopback proxy.
Execute(t) == Call(t, "proxied", "maintenance", <<>>, Initial)
OpenTunnel(t) == Call(t, "proxied", "maintenance", <<>>, Initial)

\* start_whole_browser_proxy_with_policy_and_observer, or start_proxy_with_observer,
\* which asks for no policy and does not take the operation lock.
StartProxyWithPolicy(t) == \E p \in Policies : Call(t, "start", "policy", <<>>, p)
StartProxy(t) == Call(t, "start", "generation", <<>>, Initial)

C(t) == inner[call[t].runtime].coordination
Stage(t, stage) == call' = [call EXCEPT ![t].stage = stage]

\* Guards dropped when a call returns.
Release(t) ==
  /\ coordination' = [c \in DOMAIN coordination |->
       [sync |-> IF coordination[c].sync = t THEN Nobody ELSE coordination[c].sync,
        readers |-> coordination[c].readers \ {t},
        writer |-> IF coordination[c].writer = t THEN Nobody ELSE coordination[c].writer,
        peers |-> IF coordination[c].peers = t THEN Nobody ELSE coordination[c].peers]]
  /\ inner' = [r \in DOMAIN inner |->
       [inner[r] EXCEPT !.operation = IF @ = t THEN Nobody ELSE @]]

\* Of what a call returns, only the identity of a proxy is kept.
Return(t, outcome) ==
  /\ Release(t)
  /\ call' = [call EXCEPT ![t] =
       IF outcome = "proxy" THEN [@ EXCEPT !.stage = "done"] ELSE [Idle EXCEPT !.stage = "done"]]
  /\ UNCHANGED <<handle, registry>>

\* A call that failed before it took a lock.
Reject(t) == call[t].stage = "failed" /\ Return(t, "error")

\* with_policy_operation: the operation lock, and the policy if it differs.
\* set_policy always sets it, and takes a refused one no further.
WithPolicyOperation(t) ==
  /\ call[t].stage = "policy" /\ inner[call[t].runtime].operation = Nobody
  /\ LET r == call[t].runtime
         same == call[t].op # "policy" /\ inner[r].policy = call[t].policy
     IN IF ~same /\ call[t].policy \in RefusedPolicies THEN Return(t, "error")
        ELSE /\ inner' = [inner EXCEPT ![r] =
                  [inner[r] EXCEPT !.revision = IF same THEN @ ELSE @ + 1,
                                   !.operation = t, !.policy = call[t].policy]]
             /\ Stage(t, IF call[t].op = "start" THEN "generation"
                         ELSE IF call[t].op = "policy" THEN "work" ELSE "lock")
             /\ UNCHANGED <<handle, coordination, registry>>

\* The next lock of an operation, as soon as it is free.
Lock(t) ==
  /\ call[t].stage = "lock" /\ call[t].locks # <<>>
  /\ LET lock == Head(call[t].locks)
         c == coordination[C(t)]
     IN CASE lock = "sync" -> c.sync = Nobody /\ coordination' = [coordination EXCEPT ![C(t)].sync = t]
          [] lock = "read" -> /\ c.writer = Nobody
                              /\ coordination' = [coordination EXCEPT ![C(t)].readers = @ \cup {t}]
          [] lock = "write" -> /\ c.writer = Nobody /\ c.readers = {}
                               /\ coordination' = [coordination EXCEPT ![C(t)].writer = t]
          [] lock = "peers" -> /\ c.peers = Nobody
                               /\ coordination' = [coordination EXCEPT ![C(t)].peers = t]
  /\ call' = [call EXCEPT ![t].locks = Tail(@),
                          ![t].stage = IF Len(call[t].locks) > 1 THEN "lock"
                                       ELSE IF call[t].op \in GatewayOps THEN "prepare" ELSE "work"]
  /\ UNCHANGED <<handle, inner, registry>>

\* The listener stops: the token of a request is cancelled.
Cancel(t) ==
  /\ call[t].op = "proxied" /\ call[t].stage # "done" /\ ~call[t].cancelled
  /\ call' = [call EXCEPT ![t].cancelled = TRUE]
  /\ UNCHANGED <<handle, inner, coordination, registry>>

MutantAcquireProxyMaintenance(t) ==
  /\ call[t].stage = "maintenance"
  /\ coordination[C(t)].writer = Nobody
  /\ coordination' = [coordination EXCEPT ![C(t)].readers = @ \cup {t}]
  /\ Stage(t, "prepare") /\ UNCHANGED <<handle, inner, registry>>

\* acquire_proxy_maintenance: try_read in a loop that a cancellation ends.
AcquireProxyMaintenance(t) ==
  /\ call[t].stage = "maintenance"
  /\ IF call[t].cancelled THEN Return(t, "cancelled")
     ELSE /\ coordination[C(t)].writer = Nobody
          /\ coordination' = [coordination EXCEPT ![C(t)].readers = @ \cup {t}]
          /\ Stage(t, "prepare") /\ UNCHANGED <<handle, inner, registry>>

\* gateway_header_text: the policy as it is now goes with the request; the
\* resource cache may not open.
Prepare(t) ==
  /\ call[t].stage = "prepare"
  /\ \/ /\ call' = [call EXCEPT ![t].used = inner[call[t].runtime].policy, ![t].stage = "check"]
        /\ UNCHANGED <<handle, inner, coordination, registry>>
     \/ Return(t, "error")

\* The checks of the token before and after the gateway is called.
Check(t) ==
  /\ call[t].stage \in {"check", "answered"}
  /\ IF call[t].cancelled THEN Return(t, "cancelled")
     ELSE IF call[t].stage = "check" THEN Stage(t, "work") /\ UNCHANGED <<handle, inner, coordination, registry>>
     ELSE Return(t, "response")

\* The gateway needs the peer book for a live proof or for the relay.
LockPeers(t) ==
  /\ call[t].op \in GatewayOps /\ call[t].stage = "work" /\ ~call[t].seen
  /\ coordination[C(t)].peers = Nobody
  /\ coordination' = [coordination EXCEPT ![C(t)].peers = t]
  /\ call' = [call EXCEPT ![t].stage = "peers", ![t].seen = TRUE]
  /\ UNCHANGED <<handle, inner, registry>>

UnlockPeers(t) ==
  /\ call[t].stage = "peers"
  /\ coordination' = [coordination EXCEPT ![C(t)].peers = Nobody]
  /\ Stage(t, "work")
  /\ UNCHANGED <<handle, inner, registry>>

\* The operation proper comes to its end.
Work(t) ==
  /\ call[t].stage = "work"
  /\ IF call[t].op \in GatewayOps
     THEN Stage(t, "answered") /\ UNCHANGED <<handle, inner, coordination, registry>>
     ELSE \E outcome \in {"status", "error"} : Return(t, outcome)

\* fetch_update with checked_add
NextGeneration(t) ==
  /\ call[t].stage = "generation"
  /\ LET r == call[t].runtime IN
     IF inner[r].generation = MaxGeneration THEN Return(t, "exhausted")
     ELSE /\ inner' = [inner EXCEPT ![r].generation = @ + 1]
          /\ call' = [call EXCEPT ![t].stage = "session", ![t].generation = inner[r].generation + 1]
          /\ UNCHANGED <<handle, coordination, registry>>

\* The session identifier: the one there, or a random one of its own, which is
\* called by the name of the caller that generated it and may fail to be ...
ReadSession(t) ==
  /\ call[t].stage = "session"
  /\ LET session == inner[call[t].runtime].session IN
     \/ /\ call' = [call EXCEPT ![t].stage = "init",
                                ![t].session = IF session # Nobody THEN session ELSE t]
        /\ UNCHANGED <<handle, inner, coordination, registry>>
     \/ session = Nobody /\ Return(t, "error")

\* ... unless another thread was faster (get_or_init).
InitSession(t) ==
  /\ call[t].stage = "init"
  /\ LET r == call[t].runtime
         session == IF inner[r].session = Nobody THEN call[t].session ELSE inner[r].session
     IN /\ inner' = [inner EXCEPT ![r].session = session]
        /\ call' = [call EXCEPT ![t].stage = "running", ![t].session = session]
  /\ UNCHANGED <<handle, coordination, registry>>

\* RunningProxy::start (module OwnedListener).
Start(t) == call[t].stage = "running" /\ \E outcome \in {"proxy", "error"} : Return(t, outcome)

----------------------------------------------------------------------------

Begin(t) ==
  \/ SyncOnce(t)
  \/ SyncStatus(t)
  \/ ProofDetails(t)
  \/ ClearResolverCache(t)
  \/ InstallHeaderSnapshot(t)
  \/ ResetHeadersFromPeers(t)
  \/ SetPolicy(t)
  \/ AddStaticRelayPeer(t)
  \/ RawGatewayRequest(t)
  \/ RawGatewayRequestBodyToFile(t)
  \/ Execute(t)
  \/ OpenTunnel(t)
  \/ StartProxyWithPolicy(t)
  \/ StartProxy(t)

Step(t) ==
  \/ Reject(t)
  \/ WithPolicyOperation(t)
  \/ Lock(t)
  \/ AcquireProxyMaintenance(t)
  \/ Prepare(t)
  \/ Check(t)
  \/ LockPeers(t)
  \/ UnlockPeers(t)
  \/ Work(t)
  \/ NextGeneration(t)
  \/ ReadSession(t)
  \/ InitSession(t)
  \/ Start(t)

Next ==
  \/ \E h \in Handle : Open(h) \/ Drop(h)
  \/ \E t \in Caller : Begin(t) \/ Cancel(t) \/ Step(t)

\* Threads run, except that replacing the stores may take for ever: it reads a
\* snapshot of any size.  A lock need not be fair, for each caller takes it once.
Changing(t) == call[t].op = "change" /\ call[t].stage = "work"
Fairness == \A t \in Caller : WF_vars(~Changing(t) /\ Step(t))

Spec == Init /\ [][Next]_vars /\ Fairness

----------------------------------------------------------------------------
(* Properties *)

InUse(t) == call[t].stage \in {"prepare", "check", "work", "peers", "answered"}
UsesStores(t) == InUse(t) /\ call[t].op # "policy"
SameBase(t, u) == inner[call[t].runtime].base = inner[call[u].runtime].base

\* While clear_resolver_cache, install_header_snapshot or
\* reset_headers_from_peers replaces the stores of a directory, nobody else
\* uses them, through whichever runtime and however often it was reopened.
StoresUndisturbed ==
  \A t, u \in Caller : t # u /\ UsesStores(t) /\ UsesStores(u) /\ SameBase(t, u) =>
    call[t].op # "change"

\* The peer book of a directory has one user at a time: a sync, the addition of
\* a static peer, or a request that fetches a proof or asks the relay.
PeerBookExclusive ==
  LET AtBook(t) == \/ call[t].stage = "peers"
                   \/ call[t].stage = "work" /\ call[t].op = "book"
  IN \A t, u \in Caller : t # u /\ AtBook(t) /\ AtBook(u) => ~SameBase(t, u)

\* A request that brings a policy is prepared and answered under that policy,
\* although others set theirs on the same runtime (with_policy_operation).
RequestPolicy ==
  \A t \in Caller : call[t].op = "request" /\ call[t].stage \in {"check", "work", "peers", "answered"} =>
    call[t].used = call[t].policy /\ inner[call[t].runtime].policy = call[t].policy

\* Proxies of one runtime share its session and differ in generation, so that a
\* stopped proxy is never taken for its successor.
ProxyIdentities ==
  LET Started(t) == call[t].op = "start" /\ call[t].stage \in {"running", "done"} /\ call[t].session # Nobody
  IN \A t, u \in Caller : t # u /\ Started(t) /\ Started(u) =>
       /\ <<call[t].session, call[t].generation>> # <<call[u].session, call[u].generation>>
       /\ call[t].runtime = call[u].runtime => call[t].session = call[u].session

\* What concurrent calls on runtimes of one directory can rely on.
RuntimeSafety == TypeOK /\ StoresUndisturbed /\ PeerBookExclusive /\ RequestPolicy /\ ProxyIdentities

\* Every call returns, if the operations that replace the stores do: the locks
\* are taken in one order.  A proxy request that is cancelled while it waits for
\* such an operation returns all the same (acquire_proxy_maintenance).  A caller
\* makes one call, so that calls which all return leave nobody at one for good.
CallsEnd ==
  /\ (\A t \in Caller : []<>(~Changing(t))) => <>[](\A t \in Caller : call[t].stage \in {"idle", "done"})
  /\ <>[](\A t \in Caller : ~(call[t].stage = "maintenance" /\ call[t].cancelled))
=============================================================================
