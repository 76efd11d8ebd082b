------------------------- MODULE ProxyCoordinator --------------------------
(***************************************************************************)
(* BrowserProxyCoordinator, one per Activity generation, over the shared   *)
(* OverrideQueue: HNS navigations wait until a local proxy for their scope *)
(* has been started on the lifecycle worker and the WebView override       *)
(* points to it.                                                           *)
(*                                                                         *)
(* All handlers run on the main thread, each as one step; the worker is a  *)
(* single thread shared by all coordinators.  Neither executor ever        *)
(* rejects work.  A coordinator waits for one callback at a time and no    *)
(* other callback of that kind is outstanding, so the operation ids that   *)
(* the code compares never differ and are left out.  publishedAvailable    *)
(* and routingSnapshot.binding always agree with publishedBinding.         *)
(***************************************************************************)
EXTENDS OverrideQueue, FiniteSetsExt

CONSTANTS
  Host,       \* canonical HNS hosts
  Inside,     \* Inside[s]: the hosts of scope s (scopeContainsHost)
  Mode,       \* the other settings of a RustBrowserProxyConfig
  MaxCalls,   \* bound: calls of the Activities
  MaxFaults   \* bound: failed starts and platform calls

Config == [scope : Host, mode : Mode]
Direct == "direct"   \* target of a navigation that is not HNS
Target == Host \cup {Direct}
Load == [target : Target, route : {"direct", "compat", "proxy"}]

ASSUME ScopeAssumption ==
  /\ Inside \in [Host -> SUBSET Host]
  /\ \A h \in Host : h \in Inside[h]
  /\ \A s, h \in Host : h \in Inside[s] => Inside[h] \subseteq Inside[s]
  /\ Direct \notin Host

\* null of the code
ASSUME NoneAssumption ==
  None \notin Operation \cup Config \cup Host \cup {Direct} \cup Load

VARIABLES
  co,       \* the coordinators
  proxies,  \* the proxies started so far: owner and configuration
  stopped,  \* proxies told to stop
  joined,   \* proxies joined and destroyed
  worker,   \* tasks of the lifecycle worker
  loaded,   \* the last page load: target, route and override at that time
  calls, faults

vars == <<claims, running, posted, co, proxies, stopped, joined, worker, loaded, calls, faults>>

Idle == [kind |-> "idle", config |-> None, revision |-> 0, epoch |-> 0, proxy |-> NoProxy]

\* ask: the operation a handler ends with; load: the page it loads.
NewCoordinator ==
  [op |-> Idle, enabled |-> FALSE, ready |-> FALSE, destroyed |-> FALSE, gate |-> FALSE,
   desired |-> None, revision |-> 0, epoch |-> 0, failed |-> -1, installed |-> FALSE,
   active |-> NoProxy, candidate |-> NoProxy, published |-> NoProxy, challenge |-> NoProxy,
   compat |-> None, status |-> FALSE, nav |-> None,
   retired |-> {}, settled |-> {}, ask |-> "none", load |-> None]

Init ==
  /\ QueueInit
  /\ co = [o \in Owner |-> NewCoordinator]
  /\ proxies = <<>>
  /\ stopped = {} /\ joined = {}
  /\ worker = <<>>
  /\ loaded = None
  /\ calls = 0 /\ faults = 0

----------------------------------------------------------------------------
(***************************************************************************)
(* Bindings                                                                *)
(***************************************************************************)

\* isCompatibleWith
Compatible(config, desired) ==
  /\ desired # None
  /\ config.mode = desired.mode /\ desired.scope \in Inside[config.scope]

Covers(p, host) == host \in Inside[proxies[p].config.scope]

\* publishAvailability and publishCompatibilityScope
Publish(c, p) == [c EXCEPT !.published = IF c.gate THEN NoProxy ELSE p, !.compat = None]
PublishCompat(c, scope) ==
  IF c.published = NoProxy /\ ~c.gate THEN [c EXCEPT !.compat = scope] ELSE c

Unpublish(c, p) ==
  IF c.published = p THEN [Publish(c, NoProxy) EXCEPT !.status = FALSE] ELSE c

Retire(c, p) == [c EXCEPT !.retired = @ \cup {p}]

ClearChallenge(c, p) == IF c.challenge = p THEN [c EXCEPT !.challenge = NoProxy] ELSE c

DropActive(c) ==
  IF c.active = NoProxy THEN c
  ELSE Retire(Unpublish([c EXCEPT !.active = NoProxy], c.active), c.active)

DropCandidate(c) ==
  IF c.candidate = NoProxy THEN c
  ELSE Retire(ClearChallenge([c EXCEPT !.candidate = NoProxy], c.candidate), c.candidate)

RevokeIncompatible(c) ==
  LET Bad(p) == p # NoProxy /\ ~Compatible(proxies[p].config, c.desired)
      d == IF Bad(c.active) THEN DropActive(c) ELSE c
  IN  IF Bad(c.candidate) THEN DropCandidate(d) ELSE d

RevokePublished(c) ==
  PublishCompat([Publish(DropCandidate(DropActive(c)), NoProxy) EXCEPT !.status = FALSE], None)

\* deliverPendingNavigation
Deliver(c, p) ==
  LET Loaded(route, status) ==
        [c EXCEPT !.nav = None, !.status = status, !.load = [target |-> c.nav, route |-> route]]
  IN  IF c.gate \/ c.nav = None THEN c
      ELSE CASE c.nav = Direct ->
                  IF c.desired = None /\ ~c.installed /\ p = NoProxy
                  THEN Loaded("direct", FALSE) ELSE c
             [] c.nav \in Host /\ p = NoProxy ->
                  IF c.desired # None /\ c.failed = c.revision /\ ~c.installed
                  THEN Loaded("compat", FALSE) ELSE c
             [] c.nav \in Host /\ p # NoProxy ->
                  IF p = c.published /\ Covers(p, c.nav) THEN Loaded("proxy", TRUE) ELSE c

----------------------------------------------------------------------------
(***************************************************************************)
(* reconcile                                                               *)
(***************************************************************************)

Begin(c, kind) ==
  [c EXCEPT !.ask = kind,
            !.op = [kind |-> kind, config |-> c.desired, revision |-> c.revision,
                    epoch |-> c.epoch, proxy |-> NoProxy]]

\* No proxy is active: clear what is left, then load directly or start a proxy.
WithoutActive(c) ==
  CASE c.installed -> Begin(c, "clear")
    [] ~c.installed /\ c.desired = None -> Deliver(Publish(c, NoProxy), NoProxy)
    [] ~c.installed /\ c.desired # None /\ c.failed = c.revision ->
         Deliver(PublishCompat(Publish(c, NoProxy), c.desired.scope), NoProxy)
    [] OTHER -> IF c.retired = c.settled THEN Begin(c, "start") ELSE c

Withdrawn(c) == LET d == RevokePublished(c) IN IF d.installed THEN Begin(d, "clear") ELSE d

Reconcile(c) ==
  LET d == RevokeIncompatible(c)
  IN  CASE d.op # Idle -> d
        [] d.op = Idle /\ (d.gate \/ d.destroyed \/ ~d.enabled) -> Withdrawn(d)
        [] d.op = Idle /\ ~(d.gate \/ d.destroyed \/ ~d.enabled) /\ ~d.ready -> Begin(d, "acquire")
        [] OTHER -> IF d.active # NoProxy /\ d.installed
                    THEN Deliver(Publish(d, d.active), d.active)
                    ELSE WithoutActive(DropActive(d))

(***************************************************************************)
(* The end of a handler of o that has brought its coordinator to c: stop   *)
(* the retired proxies and hand them to the worker, release the claim if   *)
(* the Activity is leaving, begin the operation asked for.  A claim first  *)
(* withdraws the owner it displaces (withdrawForOwnershipRevocation).      *)
(* base: the callbacks that remain to be handled.                          *)
(***************************************************************************)
Task(kind, o, p, config) == [kind |-> kind, owner |-> o, proxy |-> p, config |-> config]

Callback(o, kind, p) == [to |-> o, kind |-> kind, ok |-> TRUE, proxy |-> p]

Commit(o, c, leaving, base) ==
  LET retiring == c.retired \ co[o].retired
      Join(p)  == Task("join", o, p, None)
      gone     == IF c.ask = "acquire" THEN Displaced(o) ELSE {}
      Revoked(d) == [d EXCEPT !.gate = TRUE, !.published = NoProxy, !.challenge = NoProxy,
                              !.compat = None]
      revoked  == [i \in 1..Cardinality(gone) |-> Callback(SetToSeq(gone)[i], "revoked", NoProxy)]
  IN  /\ co' = [p \in Owner |-> CASE p = o -> [c EXCEPT !.ask = "none", !.load = None]
                                  [] p # o /\ p \in gone -> Revoked(co[p])
                                  [] OTHER -> co[p]]
      /\ worker' = worker \o SetToSeq({Join(p) : p \in retiring})
                          \o (IF c.ask = "start" THEN <<Task("start", o, NoProxy, c.op.config)>>
                                                 ELSE <<>>)
      /\ stopped' = (stopped \cup retiring \cup {co[p].published : p \in gone}
                              \cup {co[p].challenge : p \in gone}) \ {NoProxy}
      /\ loaded' = IF c.load = None THEN loaded
                   ELSE [target |-> c.load.target, route |-> c.load.route, proxy |-> c.published,
                         override |-> override, stopped |-> c.published \in stopped]
      /\ CASE c.ask = "acquire" -> Claim(o)
           [] leaving -> Release(o)
           [] OTHER -> UNCHANGED claims
      /\ IF c.ask \in {"acquire", "apply", "clear"}
         THEN Submit([kind |-> c.ask, owner |-> o, proxy |-> c.op.proxy],
                     IF c.ask = "acquire" THEN Generation(o) ELSE latest, base \o revoked)
         ELSE posted' = base /\ UNCHANGED running
      /\ UNCHANGED <<proxies, joined>>

----------------------------------------------------------------------------
(***************************************************************************)
(* Calls of the Activity                                                   *)
(***************************************************************************)

\* compatibleInFlightConfig, or the requested configuration
Effective(c, requested) ==
  LET known == <<IF c.active # NoProxy THEN proxies[c.active].config ELSE None,
                 IF c.candidate # NoProxy THEN proxies[c.candidate].config ELSE None,
                 IF c.op.kind = "start" THEN c.op.config ELSE None,
                 c.desired>>
      fits  == {i \in DOMAIN known : known[i] # None /\ Compatible(known[i], requested)}
  IN  IF fits = {} THEN requested ELSE known[Min(fits)]

Desire(c, config) ==
  PublishCompat([c EXCEPT !.desired = config, !.revision = @ + 1, !.failed = -1], None)

UpdateDesired(c, requested, retry) ==
  IF requested = None
  THEN LET d == IF c.desired = None THEN PublishCompat(c, None) ELSE Desire(c, None)
       IN  RevokeIncompatible([d EXCEPT !.nav = IF @ \in Host THEN None ELSE @])
  ELSE LET new == Effective(c, requested)
           d   == CASE c.desired # new -> Desire(c, new)
                    [] c.desired = new /\ retry /\ c.failed = c.revision ->
                         PublishCompat([c EXCEPT !.failed = -1], None)
                    [] OTHER -> c
       IN  RevokeIncompatible([d EXCEPT !.nav = IF @ \in Inside[new.scope] THEN @ ELSE None])

Calling(o) ==
  /\ ~co[o].destroyed /\ calls < MaxCalls
  /\ calls' = calls + 1
  /\ UNCHANGED faults

Resume(o) ==
  /\ Calling(o)
  /\ \E config \in Config \cup {None} :
       LET c == [co[o] EXCEPT !.ready = IF co[o].enabled THEN @ ELSE FALSE, !.enabled = TRUE]
       IN  Commit(o, Reconcile(UpdateDesired(c, config, FALSE)), FALSE, posted)

Ensure(o) ==
  /\ Calling(o)
  /\ \E config \in Config \cup {None} :
       Commit(o, Reconcile(UpdateDesired(co[o], config, FALSE)), FALSE, posted)

\* The target of an HNS navigation is the host its configuration is scoped to.
Navigate(o) ==
  /\ Calling(o)
  /\ \E config \in Config \cup {None} :
       LET c == IF config # None /\ co[o].status
                THEN [DropActive(co[o]) EXCEPT !.status = FALSE] ELSE co[o]
           d == UpdateDesired(c, config, TRUE)
           target == IF config = None THEN Direct ELSE config.scope
       IN  Commit(o, Reconcile([d EXCEPT !.nav = target]), FALSE, posted)

Suspend(o) ==
  /\ Calling(o)
  /\ LET c == [co[o] EXCEPT !.enabled = FALSE, !.ready = FALSE, !.epoch = @ + 1]
     IN  Commit(o, Reconcile(RevokePublished(c)), TRUE, posted)

Destroy(o) ==
  /\ Calling(o)
  /\ LET c == [co[o] EXCEPT !.destroyed = TRUE, !.enabled = FALSE, !.ready = FALSE,
                             !.epoch = @ + 1, !.nav = None]
     IN  Commit(o, Reconcile(RevokePublished(Desire(c, None))), TRUE, posted)

TakeMainFrameStatus(o) ==
  /\ co[o].status /\ co[o].published # NoProxy
  /\ co' = [co EXCEPT ![o].status = FALSE]
  /\ UNCHANGED <<claims, running, posted, proxies, stopped, joined, worker, loaded, calls, faults>>

----------------------------------------------------------------------------
(***************************************************************************)
(* Callbacks                                                               *)
(***************************************************************************)

Ended(o) == [co[o] EXCEPT !.op = Idle]

\* isCurrent of the operation that has ended
IsCurrent(o) ==
  LET c == co[o]
  IN  /\ ~c.destroyed /\ c.enabled /\ ~c.gate
      /\ c.revision = c.op.revision /\ c.epoch = c.op.epoch
      /\ IF c.op.kind = "start" THEN c.desired = c.op.config
                                ELSE Compatible(c.op.config, c.desired)

Callbacks(kind) == posted # <<>> /\ Head(posted).kind = kind /\ UNCHANGED <<calls, faults>>

OnAcquired ==
  /\ Callbacks("acquire")
  /\ LET m == Head(posted)
         o == m.to
         c == Ended(o)
         same == c.epoch = co[o].op.epoch
         d == CASE m.ok /\ same /\ c.enabled /\ ~c.destroyed /\ ~c.gate ->
                     [c EXCEPT !.ready = TRUE]
                [] ~m.ok /\ same ->
                     PublishCompat(Publish([c EXCEPT !.enabled = FALSE, !.nav = None], NoProxy), None)
                [] OTHER -> c
     IN  Commit(o, Reconcile(d), FALSE, Tail(posted))

OnCleared ==
  /\ Callbacks("clear")
  /\ LET m == Head(posted)
         c == Ended(m.to)
         d == IF m.ok THEN Reconcile([c EXCEPT !.installed = FALSE])
              ELSE Publish([c EXCEPT !.enabled = FALSE, !.ready = FALSE, !.nav = None], NoProxy)
     IN  Commit(m.to, d, FALSE, Tail(posted))

OnOwnershipRevoked ==
  /\ Callbacks("revoked")
  /\ LET o == Head(posted).to
         c == [co[o] EXCEPT !.enabled = FALSE, !.ready = FALSE, !.epoch = @ + 1, !.nav = None,
                            !.failed = -1]
     IN  Commit(o, IF co[o].destroyed THEN co[o] ELSE Reconcile(RevokePublished(c)), FALSE,
                Tail(posted))

\* Mutant: a proxy that comes too late is dropped without being retired.
MutantDropsLateProxy ==
  /\ Callbacks("start")
  /\ LET m == Head(posted)
         o == m.to
         c == Ended(o)
         d == CASE m.proxy = NoProxy ->
                     Reconcile([c EXCEPT !.failed = IF IsCurrent(o) THEN c.revision ELSE @])
                [] m.proxy # NoProxy /\ ~IsCurrent(o) -> Reconcile(c)
                [] m.proxy # NoProxy /\ IsCurrent(o) ->
                     [c EXCEPT !.candidate = m.proxy, !.challenge = m.proxy, !.ask = "apply",
                               !.op = [co[o].op EXCEPT !.kind = "apply", !.proxy = m.proxy]]
     IN  Commit(o, d, FALSE, Tail(posted))

OnProxyStarted ==
  /\ Callbacks("start")
  /\ LET m == Head(posted)
         o == m.to
         c == Ended(o)
         d == CASE m.proxy = NoProxy ->
                     Reconcile([c EXCEPT !.failed = IF IsCurrent(o) THEN c.revision ELSE @])
                [] m.proxy # NoProxy /\ ~IsCurrent(o) -> Reconcile(Retire(c, m.proxy))
                [] m.proxy # NoProxy /\ IsCurrent(o) ->
                     [c EXCEPT !.candidate = m.proxy, !.challenge = m.proxy, !.ask = "apply",
                               !.op = [co[o].op EXCEPT !.kind = "apply", !.proxy = m.proxy]]
     IN  Commit(o, d, FALSE, Tail(posted))

OnProxyApplied ==
  /\ Callbacks("apply")
  /\ LET m == Head(posted)
         o == m.to
         still == co[o].candidate = m.proxy
         c == ClearChallenge([Ended(o) EXCEPT !.installed = TRUE,
                                              !.candidate = IF still THEN NoProxy ELSE @], m.proxy)
         d == IF still THEN Retire(c, m.proxy) ELSE c
         e == [d EXCEPT !.failed = IF ~m.ok /\ IsCurrent(o) THEN c.revision ELSE @]
     IN  Commit(o, IF still /\ m.ok /\ IsCurrent(o)
                   THEN Deliver([Publish(c, m.proxy) EXCEPT !.active = m.proxy], m.proxy)
                   ELSE Reconcile(Publish(e, NoProxy)), FALSE, Tail(posted))

\* Mutant: what waited for the retirement is not taken up again.
MutantNoReconcile ==
  /\ Callbacks("join")
  /\ LET m == Head(posted)
     IN  Commit(m.to, [co[m.to] EXCEPT !.settled = @ \cup {m.proxy}], FALSE, Tail(posted))

RetirementComplete ==
  /\ Callbacks("join")
  /\ LET m == Head(posted)
     IN  Commit(m.to, Reconcile([co[m.to] EXCEPT !.settled = @ \cup {m.proxy}]), FALSE, Tail(posted))

----------------------------------------------------------------------------
(***************************************************************************)
(* The lifecycle worker and the platform                                   *)
(***************************************************************************)

WorkerTask(kind) ==
  /\ worker # <<>> /\ Head(worker).kind = kind
  /\ worker' = Tail(worker)
  /\ UNCHANGED <<claims, running, co, stopped, loaded, calls>>

StartProxy ==
  /\ WorkerTask("start")
  /\ proxies' = Append(proxies, [owner |-> Head(worker).owner, config |-> Head(worker).config])
  /\ posted' = Append(posted, Callback(Head(worker).owner, "start", Len(proxies')))
  /\ UNCHANGED <<joined, faults>>

StartFails ==
  /\ WorkerTask("start")
  /\ faults < MaxFaults /\ faults' = faults + 1
  /\ posted' = Append(posted, Callback(Head(worker).owner, "start", NoProxy))
  /\ UNCHANGED <<joined, proxies>>

JoinProxy ==
  /\ WorkerTask("join")
  /\ joined' = joined \cup {Head(worker).proxy}
  /\ posted' = Append(posted, Callback(Head(worker).owner, "join", Head(worker).proxy))
  /\ UNCHANGED <<proxies, faults>>

Platform ==
  /\ \/ PlatformDone /\ UNCHANGED faults
     \/ PlatformThrows /\ faults < MaxFaults /\ faults' = faults + 1
  /\ UNCHANGED <<co, proxies, stopped, joined, worker, loaded, calls>>

MainCallback == \/ OnAcquired \/ OnCleared \/ OnOwnershipRevoked \/ OnProxyStarted
                \/ OnProxyApplied \/ RetirementComplete

LifecycleWorker == StartProxy \/ StartFails \/ JoinProxy

Next ==
  \/ \E o \in Owner : \/ Resume(o) \/ Ensure(o) \/ Navigate(o) \/ Suspend(o) \/ Destroy(o)
                      \/ TakeMainFrameStatus(o)
  \/ MainCallback \/ LifecycleWorker \/ Platform

\* The main looper and the worker run what is queued, and the platform answers: weak
\* fairness, with the conditions under which the three actions are enabled written out.
Fairness ==
  /\ []<>(posted = <<>>) \/ []<><<MainCallback>>_vars
  /\ []<>(worker = <<>>) \/ []<><<LifecycleWorker>>_vars
  /\ []<>(current = None) \/ []<><<Platform>>_vars

Spec == Init /\ [][Next]_vars /\ Fairness

----------------------------------------------------------------------------
(***************************************************************************)
(* Properties                                                              *)
(***************************************************************************)

TypeOK ==
  /\ latest \in 0..Owners /\ activeOwner \in 0..Owners /\ claimed \in 0..Owners
  /\ listening \subseteq Owner
  /\ pending \in Seq(Operation) /\ current \in Operation \cup {None}
  /\ override \subseteq 0..Len(proxies)
  /\ proxies \in Seq([owner : Owner, config : Config])
  /\ joined \subseteq stopped /\ stopped \subseteq DOMAIN proxies

\* Whatever the platform may be using belongs to activeOwner: an Activity of an older
\* generation neither sets nor clears the override of a newer one.
OverrideOwned ==
  \A p \in override \ {NoProxy} : p \in DOMAIN proxies /\ proxies[p].owner = activeOwner

\* A route, an authentication challenge or a certificate is only vouched for while the
\* override certainly points to that proxy and the proxy has not been told to stop.
PublishedInForce ==
  \A o \in Owner :
    /\ co[o].published # NoProxy => override = {co[o].published} /\ co[o].published \notin stopped
    /\ co[o].challenge # NoProxy => co[o].challenge \notin stopped

\* A page is loaded directly, or through the interceptor, only when certainly no override
\* is installed by any Activity, and through a proxy only when that proxy serves.
LoadsAsRouted ==
  loaded # None =>
    IF loaded.route = "proxy" THEN loaded.override = {loaded.proxy} /\ ~loaded.stopped
                              ELSE loaded.override = {NoProxy}

\* An Activity starts a proxy only after it has joined all its earlier ones
\* (retirementsInFlight).
OwnJoinsFirst ==
  [][StartProxy => \A p \in DOMAIN proxies : proxies[p].owner = Head(worker).owner => p \in joined]_vars

\* A navigation that waits is loaded or dropped in the end, unless its coordinator has
\* been disabled.
NavigationEnds ==
  \A o \in Owner : co[o].nav # None ~> co[o].nav = None \/ ~co[o].enabled \/ co[o].gate

\* Every proxy is joined in the end, except one that serves the front Activity: late starts,
\* refused applies and displaced Activities leave none behind (retire).
ProxiesEnd == <>[](\A p \in DOMAIN proxies : p \in joined \/ \E o \in Owner : co[o].published = p)

\* The override, the vouched proxies and the loads of all Activities agree.
RoutingSafety == TypeOK /\ OverrideOwned /\ PublishedInForce /\ LoadsAsRouted

\* Waiting navigations and abandoned proxies of all Activities come to an end.
ProxyProgress == NavigationEnds /\ ProxiesEnd
============================================================================
