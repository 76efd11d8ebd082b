----------------------- MODULE ProxyCoordinatorProofs -----------------------
(***************************************************************************)
(* The proofs about ProxyCoordinator: for any number of Activities, hosts  *)
(* and scopes, with or without a platform that can override proxies, what  *)
(* is vouched for and what is loaded agree with the override.              *)
(*                                                                         *)
(* The inductive invariant IInv has three parts.  CoordInv says of each    *)
(* coordinator which proxies it holds (HandsOf), what its active proxy     *)
(* (ActiveOf), its operation (OpOf) and its readiness (RightsOf) entitle   *)
(* it to.  QueueInv says whose the override is.  FlightInv says that every *)
(* operation is in exactly one place (waiting, with the platform or the    *)
(* worker, or in a callback), that a callback still means what it meant    *)
(* when it was posted, and that no proxy is lost.                          *)
(*                                                                         *)
(* A handler is taken apart into the callback it pops (PopFlight), what it *)
(* does to its coordinator (Moves), reconcile (Turn), and its end          *)
(* (CommitKeeps), so that each handler's own lemma is short.               *)
(***************************************************************************)
EXTENDS ProxyCoordinator, SequenceTheorems, FiniteSetTheorems, FunctionTheorems, WellFoundedInduction, TLAPS

Op == [kind : {"idle", "acquire", "start", "apply", "clear"}, config : Config \cup {None},
       revision : Nat, epoch : Nat, proxy : Nat]
Coordinator ==
  [op : Op, enabled : BOOLEAN, ready : BOOLEAN, destroyed : BOOLEAN, gate : BOOLEAN,
   desired : Config \cup {None}, revision : Nat, epoch : Nat, failed : Int, installed : BOOLEAN,
   active : Nat, candidate : Nat, published : Nat, challenge : Nat, compat : Host \cup {None},
   status : BOOLEAN, nav : Target \cup {None}, retired : SUBSET Nat, settled : SUBSET Nat,
   ask : {"none", "acquire", "start", "apply", "clear"}, load : Load \cup {None}]
Message == [to : Owner, kind : {"acquire", "apply", "clear", "start", "join", "revoked"},
            ok : BOOLEAN, proxy : Nat]
Proxy == [owner : Owner, config : Config]
Job == [kind : {"start", "join"}, owner : Owner, proxy : Nat, config : Config \cup {None}]

----------------------------------------------------------------------------
\* The invariant

Mine(o, p) == p \in DOMAIN proxies /\ proxies[p].owner = o

\* o is the front Activity and still has its claim.
Claimed(o) == CanOverride => latest = o /\ claimed = o /\ o \in listening

\* The override was cleared for o, and has been o's if anybody's since.
Entitled(o) == CanOverride => o <= latest /\ (o = latest => activeOwner \in {NoOwner, o})

Serves(o, p) == CanOverride /\ activeOwner = o /\ override = {p}

\* The operation that has begun was not overtaken by a suspension or a newer owner.
Same(c) == c.op.epoch = c.epoch /\ ~c.gate

\* Whose proxies are where.
HandsOf(o, c) ==
  /\ c.active # NoProxy => Mine(o, c.active) /\ c.active \notin c.retired /\ c.op = Idle
  /\ c.candidate # NoProxy => /\ Mine(o, c.candidate) /\ c.candidate \notin c.retired
                              /\ c.op.kind = "apply" /\ c.op.proxy = c.candidate
  /\ \A p \in c.retired : Mine(o, p)
  /\ c.settled \subseteq c.retired /\ c.settled \subseteq joined
  /\ c.challenge # NoProxy => c.challenge = c.candidate /\ ~c.gate
  /\ c.published # NoProxy => c.published = c.active /\ ~c.gate
  /\ \A p \in stopped : Mine(o, p) => p \in c.retired \/ c.gate

ActiveOf(o, c) ==
  c.active # NoProxy =>
    /\ c.enabled /\ c.ready /\ ~c.destroyed /\ c.installed
    /\ ~c.gate => Serves(o, c.active)

OpOf(o, c) ==
  /\ c.op.kind = "idle" => c.op = Idle
  /\ c.op.epoch <= c.epoch
  /\ c.op.kind = "start" => /\ c.retired = c.settled /\ c.op.config \in Config
  /\ c.op.kind = "apply" => /\ Mine(o, c.op.proxy) /\ c.op.proxy \in c.retired \cup {c.candidate}
  /\ c.op.kind \in {"start", "apply"} => Entitled(o) /\ (Same(c) => Claimed(o) /\ c.enabled /\ c.ready)
  /\ c.op.kind = "acquire" /\ c.ask # "acquire" /\ Same(c) =>
        Claimed(o) \/ (CanOverride /\ o < latest)

RightsOf(o, c) ==
  /\ c.ready => Entitled(o)
  /\ c.ready /\ ~c.gate => Claimed(o)
  /\ activeOwner = o => c.installed \/ c.op.kind = "apply"

Core(o, c) == c \in Coordinator /\ HandsOf(o, c) /\ OpOf(o, c) /\ RightsOf(o, c)
Rest(o, c) == Core(o, c) /\ ActiveOf(o, c) /\ c.ask = "none" /\ c.load = None
CoordInv == co = [o \in Owner |-> co[o]] /\ \A o \in Owner : Rest(o, co[o])

\* The override and its owner.
Using(l, a, s) ==
  /\ l \in 0..Owners /\ a \in 0..l
  /\ s # {} /\ s \subseteq Nat /\ (a = NoOwner => s = {NoProxy})
  /\ \A p \in s \ {NoProxy} : Mine(a, p)

\* What the platform is busy with, and what it may be using.
QueueInv ==
  /\ Using(latest, activeOwner, override) /\ claimed \in 0..Owners /\ listening \subseteq Owner
  /\ ~CanOverride => latest = 0 /\ current = None
  /\ current = None => pending = <<>>
  /\ current # None =>
       /\ current \in Operation
       /\ current.kind \in {"apply", "clear"} => activeOwner = current.owner
       /\ current.kind = "acquire" => activeOwner < current.owner /\ current.owner <= latest

\* Every operation is in one place: waiting, with the platform, or in a callback.
Asking == {"acquire", "apply", "clear", "start"}
Fits(op, c) == op.kind = c.op.kind /\ op.proxy = c.op.proxy
PendingOf(cs, ps) ==
  /\ pending \in Seq(Operation)
  /\ \A i \in DOMAIN pending : Fits(pending[i], cs[pending[i].owner])
  /\ \A i, j \in DOMAIN pending : pending[i].owner = pending[j].owner => i = j
  /\ \A i \in DOMAIN pending : \A j \in DOMAIN ps :
       ps[j].kind \in Asking => ps[j].to # pending[i].owner
CurrentOf(cs, ps) ==
  current # None =>
    /\ Fits(current, cs[current.owner])
    /\ \A i \in DOMAIN pending : pending[i].owner # current.owner
    /\ \A i \in DOMAIN ps : ps[i].kind \in Asking => ps[i].to # current.owner
StartOf(ps) ==
  /\ \A i, j \in DOMAIN worker :
       worker[i].kind = "start" /\ worker[j].kind = "start" /\ worker[i].owner = worker[j].owner => i = j
  /\ \A i \in DOMAIN worker : \A j \in DOMAIN ps :
       worker[i].kind = "start" /\ ps[j].kind = "start" => worker[i].owner # ps[j].to

MessageOf(m, c) ==
  /\ m.kind \in Asking => m.kind = c.op.kind
  /\ m.kind = "acquire" /\ m.ok => Entitled(m.to) /\ (Same(c) => Claimed(m.to))
  /\ m.kind = "apply" => m.proxy = c.op.proxy /\ (m.ok /\ Same(c) => Serves(m.to, m.proxy))
  /\ m.kind = "clear" /\ m.ok => activeOwner # m.to
  /\ m.kind = "start" /\ m.proxy # NoProxy => Mine(m.to, m.proxy) /\ m.proxy \notin c.retired
  /\ m.kind = "join" => m.proxy \in c.retired /\ m.proxy \in joined
  /\ m.kind = "revoked" => c.gate
PostedOf(cs, ps) ==
  /\ ps \in Seq(Message)
  /\ \A i \in DOMAIN ps : MessageOf(ps[i], cs[ps[i].to])
  /\ \A i, j \in DOMAIN ps :
       ps[i].kind \in Asking /\ ps[j].kind \in Asking /\ ps[i].to = ps[j].to => i = j

JobOf(k, c) ==
  /\ k.kind = "start" => c.op.kind = "start" /\ k.config = c.op.config
  /\ k.kind = "join" => k.proxy \in c.retired /\ k.proxy \in stopped
WorkerOf(cs) == worker \in Seq(Job) /\ \A i \in DOMAIN worker : JobOf(worker[i], cs[worker[i].owner])

\* Every proxy was retired, is in use, or is about to be handed over; late is one that the
\* running handler has in hand.
Known(p, c, o, ps) ==
  \/ p \in c.retired \cup {c.active, c.candidate}
  \/ \E i \in DOMAIN ps : ps[i].kind = "start" /\ ps[i].to = o /\ ps[i].proxy = p
KnownOf(cs, ps, late) ==
  \A p \in DOMAIN proxies : p = late \/ Known(p, cs[proxies[p].owner], proxies[p].owner, ps)

ProxiesInv ==
  /\ proxies \in Seq(Proxy)
  /\ joined \subseteq stopped /\ stopped \subseteq DOMAIN proxies

FlightInv(cs, ps, late) ==
  /\ PendingOf(cs, ps) /\ CurrentOf(cs, ps) /\ StartOf(ps) /\ PostedOf(cs, ps) /\ WorkerOf(cs)
  /\ KnownOf(cs, ps, late)

IInv == CoordInv /\ QueueInv /\ ProxiesInv /\ LoadsAsRouted /\ FlightInv(co, posted, NoProxy)

----------------------------------------------------------------------------
\* Coordinators: what the helpers of the handlers change

\* e is c after dropping proxies, at most; fields that no invariant is about may differ.
Kept(c, e) ==
  /\ e.op = c.op /\ e.enabled = c.enabled /\ e.ready = c.ready /\ e.destroyed = c.destroyed
  /\ e.gate = c.gate /\ e.epoch = c.epoch /\ e.installed = c.installed
  /\ e.settled = c.settled /\ e.ask = c.ask /\ e.load = c.load
Trim(o, c, e) ==
  /\ e \in Coordinator /\ HandsOf(o, e) /\ Kept(c, e)
  /\ c.retired \subseteq e.retired /\ e.retired \subseteq c.retired \cup ({c.active, c.candidate} \ {NoProxy})
  /\ e.active = c.active \/ (e.active = NoProxy /\ c.active \in e.retired)
  /\ e.candidate = c.candidate \/ (e.candidate = NoProxy /\ c.candidate \in e.retired)

\* The proxies of c are those of e.
SameHands(c, e) ==
  /\ e.active = c.active /\ e.candidate = c.candidate /\ e.published = c.published
  /\ e.challenge = c.challenge /\ e.retired = c.retired

LEMMA TrimAll ==
  ASSUME NEW o, NEW c \in Coordinator, NEW e \in Coordinator, HandsOf(o, c), Kept(c, e), SameHands(c, e)
  PROVE  Trim(o, c, e)
BY DEF Trim, Kept, SameHands, HandsOf

LEMMA TrimSelf ==
  ASSUME NEW o, NEW c \in Coordinator, HandsOf(o, c)
  PROVE  Trim(o, c, c)
BY TrimAll DEF Kept, SameHands

LEMMA TrimTwice ==
  ASSUME NEW o, NEW c, NEW d, NEW e, Trim(o, c, d), Trim(o, d, e)
  PROVE  Trim(o, c, e)
BY DEF Trim, Kept

\* Dropping proxies keeps what is known of a coordinator.
LEMMA TrimKeeps ==
  ASSUME NEW o, NEW c, NEW e, Core(o, c), Trim(o, c, e)
  PROVE  Core(o, e) /\ (ActiveOf(o, c) => ActiveOf(o, e))
<1>1. c.op.kind = "start" => e.retired = c.retired BY DEF Core, Trim, HandsOf, Idle
<1>2. OpOf(o, e)
  <2>1. c.op.kind = "apply" => c.op.proxy \in e.retired \cup {e.candidate}
    BY DEF Core, Trim, OpOf, HandsOf
  <2>2. QED BY <1>1, <2>1 DEF Core, Trim, Kept, OpOf, Same
<1>3. RightsOf(o, e) BY DEF Core, Trim, Kept, RightsOf
<1>4. ActiveOf(o, c) => ActiveOf(o, e) BY DEF Trim, Kept, ActiveOf
<1>5. QED BY <1>2, <1>3, <1>4 DEF Core, Trim

LEMMA PublishTrims ==
  ASSUME NEW o, NEW c \in Coordinator, HandsOf(o, c), NEW p \in {NoProxy, c.active}
  PROVE  Trim(o, c, Publish(c, p)) /\ Publish(c, p).published \in {NoProxy, p}
<1>0. PICK v : v = IF c.gate THEN NoProxy ELSE p OBVIOUS
<1>1. PICK e : e = [c EXCEPT !.published = v, !.compat = None] OBVIOUS
<1>a. v \in Nat BY <1>0 DEF NoProxy, Coordinator
<1>2. e \in Coordinator BY <1>1, <1>a DEF Coordinator
<1>3. Kept(c, e) BY <1>1 DEF Coordinator, Kept
<1>4. /\ e.active = c.active /\ e.candidate = c.candidate /\ e.challenge = c.challenge
      /\ e.retired = c.retired /\ e.published = v
  BY <1>1 DEF Coordinator
<1>5. HandsOf(o, e) BY <1>0, <1>3, <1>4 DEF HandsOf, Kept, Coordinator
<1>6. Publish(c, p) = e BY <1>0, <1>1 DEF Publish
<1>7. QED BY <1>0, <1>2, <1>3, <1>4, <1>5, <1>6 DEF Trim

LEMMA PublishCompatTrims ==
  ASSUME NEW o, NEW c \in Coordinator, HandsOf(o, c), NEW scope \in Host \cup {None}
  PROVE  Trim(o, c, PublishCompat(c, scope)) /\ SameHands(c, PublishCompat(c, scope))
         /\ PublishCompat(c, scope).desired = c.desired
<1>1. PICK e : e = [c EXCEPT !.compat = scope] OBVIOUS
<1>2. e \in Coordinator BY <1>1 DEF Coordinator
<1>3. Kept(c, e) /\ SameHands(c, e) /\ e.desired = c.desired BY <1>1 DEF Coordinator, Kept, SameHands
<1>4. PublishCompat(c, scope) \in {c, e} BY <1>1 DEF PublishCompat
<1>5. QED BY <1>2, <1>3, <1>4, TrimAll DEF Kept, SameHands

\* A proxy that is dropped is no longer published, and is retired.
LEMMA DropActiveTrims ==
  ASSUME NEW o, NEW c \in Coordinator, HandsOf(o, c)
  PROVE  /\ Trim(o, c, DropActive(c)) /\ DropActive(c).active = NoProxy
         /\ DropActive(c).candidate = c.candidate /\ DropActive(c).desired = c.desired
<1>1. CASE c.active = NoProxy
  BY <1>1, TrimSelf DEF DropActive
<1>2. CASE c.active # NoProxy
  <2>1. PICK a : a = [c EXCEPT !.active = NoProxy] OBVIOUS
  <2>2. a \in Coordinator BY <2>1 DEF Coordinator, NoProxy
  <2>3. /\ Kept(c, a) /\ a.candidate = c.candidate /\ a.challenge = c.challenge
        /\ a.retired = c.retired /\ a.published = c.published /\ a.active = NoProxy
        /\ a.desired = c.desired
    BY <2>1 DEF Coordinator, Kept
  <2>4. PICK b : b = Unpublish(a, c.active) OBVIOUS
  <2>5. /\ b \in Coordinator /\ Kept(c, b) /\ b.candidate = c.candidate /\ b.challenge = c.challenge
        /\ b.retired = c.retired /\ b.published \in {NoProxy, c.published} \ {c.active}
        /\ b.active = NoProxy /\ b.desired = c.desired
    <3>1. CASE c.published # c.active
      BY <3>1, <2>2, <2>3, <2>4 DEF Unpublish
    <3>2. CASE c.published = c.active
      <4>0. PICK v : v = IF a.gate THEN NoProxy ELSE NoProxy OBVIOUS
      <4>1. PICK f : f = [a EXCEPT !.published = NoProxy, !.compat = None] OBVIOUS
      <4>2. /\ f \in Coordinator /\ Kept(a, f) /\ f.candidate = a.candidate /\ f.challenge = a.challenge
            /\ f.retired = a.retired /\ f.published = NoProxy /\ f.active = a.active
            /\ f.desired = a.desired
        BY <2>2, <4>1 DEF Coordinator, Kept, NoProxy
      <4>3. PICK g : g = [f EXCEPT !.status = FALSE] OBVIOUS
      <4>4. /\ g \in Coordinator /\ Kept(f, g) /\ g.candidate = f.candidate /\ g.challenge = f.challenge
            /\ g.retired = f.retired /\ g.published = NoProxy /\ g.active = f.active
            /\ g.desired = f.desired
        BY <4>2, <4>3 DEF Coordinator, Kept
      <4>5. b = g BY <2>3, <2>4, <3>2, <4>1, <4>3 DEF Unpublish, Publish
      <4>6. QED BY <1>2, <2>3, <4>2, <4>4, <4>5 DEF Kept
    <3>3. QED BY <3>1, <3>2
  <2>6. PICK e : e = [b EXCEPT !.retired = @ \cup {c.active}] OBVIOUS
  <2>7. DropActive(c) = e BY <1>2, <2>1, <2>4, <2>6 DEF DropActive, Retire
  <2>8. /\ e \in Coordinator /\ Kept(b, e) /\ e.candidate = b.candidate /\ e.challenge = b.challenge
        /\ e.retired = b.retired \cup {c.active} /\ e.published = b.published /\ e.active = b.active
        /\ e.desired = b.desired
    BY <2>5, <2>6 DEF Coordinator, Kept
  <2>9. HandsOf(o, e)
    BY <1>2, <2>5, <2>8 DEF HandsOf, Kept, Coordinator, Idle
  <2>10. QED BY <1>2, <2>5, <2>7, <2>8, <2>9 DEF Trim, Kept
<1>3. QED BY <1>1, <1>2

LEMMA DropCandidateTrims ==
  ASSUME NEW o, NEW c \in Coordinator, HandsOf(o, c)
  PROVE  /\ Trim(o, c, DropCandidate(c)) /\ DropCandidate(c).candidate = NoProxy
         /\ DropCandidate(c).active = c.active /\ DropCandidate(c).desired = c.desired
<1>1. CASE c.candidate = NoProxy
  BY <1>1, TrimSelf DEF DropCandidate
<1>2. CASE c.candidate # NoProxy
  <2>1. PICK a : a = [c EXCEPT !.candidate = NoProxy] OBVIOUS
  <2>2. /\ a \in Coordinator /\ Kept(c, a) /\ a.candidate = NoProxy /\ a.challenge = c.challenge
        /\ a.retired = c.retired /\ a.published = c.published /\ a.active = c.active
        /\ a.desired = c.desired
    BY <2>1 DEF Coordinator, Kept, NoProxy
  <2>3. PICK b : b = ClearChallenge(a, c.candidate) OBVIOUS
  <2>4. /\ b \in Coordinator /\ Kept(a, b) /\ b.candidate = NoProxy
        /\ b.challenge \in {NoProxy, c.challenge} \ {c.candidate}
        /\ b.retired = c.retired /\ b.published = c.published /\ b.active = c.active
        /\ b.desired = c.desired
    <3>1. CASE a.challenge # c.candidate BY <2>2, <2>3, <3>1 DEF ClearChallenge, Kept
    <3>2. CASE a.challenge = c.candidate
      <4>1. b = [a EXCEPT !.challenge = NoProxy] BY <2>3, <3>2 DEF ClearChallenge
      <4>2. QED BY <1>2, <2>2, <4>1 DEF Coordinator, Kept, NoProxy
    <3>3. QED BY <3>1, <3>2
  <2>6. PICK e : e = [b EXCEPT !.retired = @ \cup {c.candidate}] OBVIOUS
  <2>7. DropCandidate(c) = e BY <1>2, <2>1, <2>3, <2>6 DEF DropCandidate, Retire
  <2>8. /\ e \in Coordinator /\ Kept(b, e) /\ e.candidate = b.candidate /\ e.challenge = b.challenge
        /\ e.retired = b.retired \cup {c.candidate} /\ e.published = b.published
        /\ e.active = b.active /\ e.desired = b.desired
    BY <2>4, <2>6 DEF Coordinator, Kept
  <2>9. HandsOf(o, e)
    BY <1>2, <2>2, <2>4, <2>8 DEF HandsOf, Kept, Coordinator, Idle
  <2>10. QED BY <1>2, <2>2, <2>4, <2>7, <2>8, <2>9 DEF Trim, Kept
<1>3. QED BY <1>1, <1>2

LEMMA RevokeIncompatibleTrims ==
  ASSUME NEW o, NEW c \in Coordinator, HandsOf(o, c)
  PROVE  Trim(o, c, RevokeIncompatible(c)) /\ RevokeIncompatible(c).desired = c.desired
<1>1. PICK d : d \in {c, DropActive(c)} /\ RevokeIncompatible(c) \in {d, DropCandidate(d)}
  BY DEF RevokeIncompatible
<1>2. Trim(o, c, d) /\ d.desired = c.desired BY <1>1, TrimSelf, DropActiveTrims
<1>3. d \in Coordinator /\ HandsOf(o, d) BY <1>2 DEF Trim
<1>4. Trim(o, d, DropCandidate(d)) /\ DropCandidate(d).desired = d.desired BY <1>3, DropCandidateTrims
<1>5. QED BY <1>1, <1>2, <1>4, TrimTwice

LEMMA RevokePublishedTrims ==
  ASSUME NEW o, NEW c \in Coordinator, HandsOf(o, c)
  PROVE  /\ Trim(o, c, RevokePublished(c)) /\ RevokePublished(c).active = NoProxy
         /\ RevokePublished(c).candidate = NoProxy
<1>1. PICK a : a = DropActive(c) OBVIOUS
<1>2. Trim(o, c, a) /\ a.active = NoProxy BY <1>1, DropActiveTrims
<1>3. PICK b : b = DropCandidate(a) OBVIOUS
<1>4. Trim(o, a, b) /\ b.active = NoProxy /\ b.candidate = NoProxy
  BY <1>2, <1>3, DropCandidateTrims DEF Trim
<1>5. PICK d : d = Publish(b, NoProxy) OBVIOUS
<1>6. Trim(o, b, d) BY <1>4, <1>5, PublishTrims DEF Trim
<1>7. d.active = NoProxy /\ d.candidate = NoProxy BY <1>4, <1>6 DEF Trim
<1>8. PICK e : e = [d EXCEPT !.status = FALSE] OBVIOUS
<1>9. e \in Coordinator /\ Kept(d, e) /\ SameHands(d, e)
  BY <1>6, <1>8 DEF Trim, Coordinator, Kept, SameHands
<1>10. Trim(o, d, e) BY <1>6, <1>9, TrimAll DEF Trim
<1>11. PICK f : f = PublishCompat(e, None) OBVIOUS
<1>12. Trim(o, e, f) BY <1>10, <1>11, PublishCompatTrims DEF Trim
<1>13. SameHands(e, f) BY <1>10, <1>11, PublishCompatTrims DEF Trim
<1>14. RevokePublished(c) = f BY <1>1, <1>3, <1>5, <1>8, <1>11 DEF RevokePublished
<1>15. Trim(o, c, f) BY <1>2, <1>4, <1>6, <1>10, <1>12, TrimTwice
<1>16. QED BY <1>7, <1>9, <1>13, <1>14, <1>15 DEF SameHands

----------------------------------------------------------------------------
\* reconcile

Fixed(c, e) ==
  /\ e.enabled = c.enabled /\ e.ready = c.ready /\ e.destroyed = c.destroyed
  /\ e.gate = c.gate /\ e.epoch = c.epoch /\ e.installed = c.installed /\ e.settled = c.settled
Grown(c, e) ==
  /\ c.retired \subseteq e.retired /\ e.retired \subseteq c.retired \cup ({c.active, c.candidate} \ {NoProxy})
  /\ e.active = c.active \/ (e.active = NoProxy /\ c.active \in e.retired)
  /\ e.candidate = c.candidate \/ (e.candidate = NoProxy /\ c.candidate \in e.retired)

\* The handler ends by beginning an operation.
Begun(e) ==
  /\ e.ask \in {"acquire", "clear", "start"} /\ e.load = None /\ e.active = NoProxy
  /\ e.op.kind = e.ask /\ e.op.epoch = e.epoch /\ e.op.proxy = NoProxy
  /\ e.ask \in {"acquire", "start"} => e.enabled /\ ~e.gate
  /\ e.ask = "acquire" => ~e.ready

\* The handler ends with a page load.
Loadable(o, e) ==
  /\ e.load \in Load
  /\ e.load.route = "proxy" => Serves(o, e.published) /\ e.published \notin stopped
  /\ e.load.route # "proxy" => override = {NoProxy}

Sound(o, c) == Core(o, c) /\ ActiveOf(o, c)
Quiet(o, c) == Sound(o, c) /\ c.ask = "none" /\ c.load = None

Turn(o, c, e) ==
  /\ Sound(o, e) /\ Fixed(c, e) /\ Grown(c, e)
  /\ e.ask = "none" => e.op = c.op
  /\ e.ask # "none" => c.op = Idle /\ Begun(e)
  /\ e.load # None => Loadable(o, e)

LEMMA TrimIsQuiet ==
  ASSUME NEW o, NEW c, NEW d, Quiet(o, c), Trim(o, c, d)
  PROVE  Quiet(o, d) /\ Turn(o, c, d)
<1>1. Core(o, d) /\ ActiveOf(o, d) BY TrimKeeps DEF Quiet, Sound
<1>2. d.ask = "none" /\ d.load = None /\ d.op = c.op BY DEF Quiet, Trim, Kept
<1>3. Fixed(c, d) /\ Grown(c, d) BY DEF Trim, Kept, Fixed, Grown
<1>4. QED BY <1>1, <1>2, <1>3 DEF Quiet, Sound, Turn

LEMMA TrimTurns ==
  ASSUME NEW o, NEW c, NEW d, NEW e, Trim(o, c, d), Turn(o, d, e)
  PROVE  Turn(o, c, e)
<1>1. Fixed(c, e) BY DEF Trim, Kept, Turn, Fixed
<1>2. Grown(c, e) BY DEF Trim, Turn, Grown
<1>3. d.op = c.op BY DEF Trim, Kept
<1>4. QED BY <1>1, <1>2, <1>3 DEF Turn

LEMMA BeginTurns ==
  ASSUME NEW o, NEW c, Quiet(o, c), c.op = Idle, c.active = NoProxy,
         NEW kind \in {"acquire", "clear", "start"},
         kind \in {"acquire", "start"} => c.enabled /\ ~c.gate,
         kind = "acquire" => ~c.ready,
         kind = "start" => c.ready /\ c.retired = c.settled /\ c.desired \in Config
  PROVE  Turn(o, c, Begin(c, kind))
<1>1. PICK p : p = [kind |-> kind, config |-> c.desired, revision |-> c.revision,
                    epoch |-> c.epoch, proxy |-> NoProxy]
  OBVIOUS
<1>2. PICK e : e = [c EXCEPT !.ask = kind, !.op = p] OBVIOUS
<1>3. c \in Coordinator BY DEF Quiet, Sound, Core
<1>4. p \in Op BY <1>1, <1>3 DEF Op, Coordinator, NoProxy
<1>5. e \in Coordinator BY <1>2, <1>3, <1>4 DEF Coordinator
<1>6. Fixed(c, e) /\ e.ask = kind /\ e.op = p /\ e.load = c.load BY <1>2, <1>3 DEF Coordinator, Fixed
<1>7. SameHands(c, e) /\ e.desired = c.desired BY <1>2, <1>3 DEF Coordinator, SameHands
<1>8. c.candidate = NoProxy BY DEF Quiet, Sound, Core, HandsOf, Idle
<1>9. HandsOf(o, e) BY <1>6, <1>7, <1>8 DEF Quiet, Sound, Core, HandsOf, Fixed, SameHands
<1>10. OpOf(o, e)
  <2>1. c.ready => Entitled(o) /\ (~c.gate => Claimed(o)) BY DEF Quiet, Sound, Core, RightsOf
  <2>2. QED BY <1>1, <1>3, <1>6, <1>7, <2>1 DEF OpOf, Fixed, SameHands, Idle, Same, Coordinator
<1>11. RightsOf(o, e)
  <2>1. activeOwner = o => c.installed BY DEF Quiet, Sound, Core, RightsOf, Idle
  <2>2. QED BY <1>6, <2>1 DEF Quiet, Sound, Core, RightsOf, Fixed
<1>12. ActiveOf(o, e) BY <1>7 DEF ActiveOf, SameHands
<1>13. Begun(e) BY <1>1, <1>6, <1>7 DEF Begun, Fixed, SameHands, Quiet
<1>14. Grown(c, e) BY <1>7 DEF SameHands, Grown
<1>15. Begin(c, kind) = e BY <1>1, <1>2 DEF Begin
<1>16. e.load = None BY <1>6 DEF Quiet
<1>17. QED BY <1>5, <1>6, <1>9, <1>10, <1>11, <1>12, <1>13, <1>14, <1>15, <1>16
           DEF Turn, Sound, Core

\* Without its own override, and with the claim, an Activity knows that there is none.
LEMMA NoOverride ==
  ASSUME NEW o \in Owner, NEW c, Sound(o, c), QueueInv, c.op = Idle, c.ready, ~c.gate, ~c.installed
  PROVE  override = {NoProxy}
<1>1. Entitled(o) /\ Claimed(o) /\ activeOwner # o BY DEF Sound, Core, RightsOf, Idle
<1>2. activeOwner = NoOwner
  <2>1. CASE CanOverride BY <1>1, <2>1 DEF Entitled, Claimed
  <2>2. CASE ~CanOverride BY <2>2 DEF QueueInv, Using, NoOwner
  <2>3. QED BY <2>1, <2>2
<1>3. QED BY <1>2 DEF QueueInv, Using

\* A page is loaded by the binding that was published for it, or with none installed.
LEMMA DeliverLoads ==
  ASSUME NEW o \in Owner, NEW c, Quiet(o, c), QueueInv, NEW p,
         p # NoProxy => c.active = p,
         p = NoProxy /\ ~c.installed => c.op = Idle /\ c.ready
  PROVE  Turn(o, c, Deliver(c, p))
<1> DEFINE Loaded(route, status) ==
      [c EXCEPT !.nav = None, !.status = status, !.load = [target |-> c.nav, route |-> route]]
<1>1. c \in Coordinator BY DEF Quiet, Sound, Core
<1>2. ASSUME NEW route \in {"direct", "compat", "proxy"}, NEW status \in BOOLEAN,
             c.nav \in Target, ~c.gate,
             route = "proxy" => p # NoProxy /\ p = c.published,
             route # "proxy" => p = NoProxy /\ ~c.installed
      PROVE  Turn(o, c, Loaded(route, status))
  <2>1. PICK l : l = [target |-> c.nav, route |-> route] OBVIOUS
  <2>2. l \in Load BY <1>2, <2>1 DEF Load
  <2>3. PICK e : e = [c EXCEPT !.nav = None, !.status = status, !.load = l] OBVIOUS
  <2>4. e \in Coordinator BY <1>1, <1>2, <2>2, <2>3 DEF Coordinator
  <2>5. Fixed(c, e) /\ e.op = c.op /\ e.ask = c.ask /\ e.load = l
    BY <1>1, <2>3 DEF Coordinator, Fixed
  <2>6. SameHands(c, e) BY <1>1, <2>3 DEF Coordinator, SameHands
  <2>7. Sound(o, e)
    <3>1. HandsOf(o, e) BY <2>5, <2>6 DEF Quiet, Sound, Core, HandsOf, Fixed, SameHands
    <3>2. OpOf(o, e) BY <2>5, <2>6 DEF Quiet, Sound, Core, OpOf, Fixed, SameHands, Same
    <3>3. RightsOf(o, e) BY <2>5 DEF Quiet, Sound, Core, RightsOf, Fixed
    <3>4. ActiveOf(o, e) BY <2>5, <2>6 DEF Quiet, Sound, ActiveOf, Fixed, SameHands
    <3>5. QED BY <2>4, <3>1, <3>2, <3>3, <3>4 DEF Sound, Core
  <2>8. route = "proxy" => Serves(o, c.published) /\ c.published \notin stopped
    <3>1. route = "proxy" => c.published = c.active /\ c.active # NoProxy BY <1>2
    <3>2. c.active # NoProxy => /\ Serves(o, c.active) /\ Mine(o, c.active)
                                /\ c.active \notin c.retired
      BY <1>2 DEF Quiet, Sound, ActiveOf, Core, HandsOf
    <3>3. c.active # NoProxy => c.active \notin stopped
      BY <1>2, <3>2 DEF Quiet, Sound, Core, HandsOf
    <3>4. QED BY <3>1, <3>2, <3>3
  <2>9. route # "proxy" => override = {NoProxy}
    BY <1>2, NoOverride DEF Quiet
  <2>10. Loadable(o, e) BY <2>1, <2>2, <2>5, <2>6, <2>8, <2>9 DEF Loadable, SameHands
  <2>11. Grown(c, e) BY <2>6 DEF SameHands, Grown
  <2>12. Loaded(route, status) = e BY <2>1, <2>3
  <2>13. QED BY <2>5, <2>7, <2>10, <2>11, <2>12 DEF Turn, Quiet
<1>3. Turn(o, c, c) BY DEF Turn, Quiet, Fixed, Grown
<1>4. Host \subseteq Target /\ Direct \in Target /\ Direct \notin Host
  BY ScopeAssumption DEF Target
<1>5. CASE c.gate \/ c.nav = None BY <1>3, <1>5 DEF Deliver
<1>6. ASSUME ~c.gate, c.nav # None PROVE Turn(o, c, Deliver(c, p))
  <2>1. c.nav \in Host \cup {Direct} BY <1>1, <1>6 DEF Coordinator, Target
  <2>2. CASE c.nav = Direct
    <3>1. Deliver(c, p) = IF c.desired = None /\ ~c.installed /\ p = NoProxy
                          THEN Loaded("direct", FALSE) ELSE c
      BY <1>4, <1>6, <2>2 DEF Deliver
    <3>2. QED BY <1>2, <1>3, <1>4, <1>6, <2>2, <3>1
  <2>3. CASE c.nav \in Host /\ p = NoProxy
    <3>1. Deliver(c, p) = IF c.desired # None /\ c.failed = c.revision /\ ~c.installed
                          THEN Loaded("compat", FALSE) ELSE c
      BY <1>4, <1>6, <2>3 DEF Deliver
    <3>2. QED BY <1>2, <1>3, <1>4, <1>6, <2>3, <3>1
  <2>4. CASE c.nav \in Host /\ p # NoProxy
    <3>1. Deliver(c, p) = IF p = c.published /\ Covers(p, c.nav) THEN Loaded("proxy", TRUE) ELSE c
      BY <1>4, <1>6, <2>4 DEF Deliver
    <3>2. QED BY <1>2, <1>3, <1>4, <1>6, <2>4, <3>1
  <2>5. QED BY <2>1, <2>2, <2>3, <2>4
<1>7. QED BY <1>5, <1>6

LEMMA WithoutActiveTurns ==
  ASSUME NEW o \in Owner, NEW c, Quiet(o, c), QueueInv, c.op = Idle, c.active = NoProxy,
         c.ready, c.enabled, ~c.gate
  PROVE  Turn(o, c, WithoutActive(c))
<1>1. c \in Coordinator /\ HandsOf(o, c) BY DEF Quiet, Sound, Core
<1>2. ASSUME NEW d, Trim(o, c, d), ~c.installed PROVE Turn(o, c, Deliver(d, NoProxy))
  <2>1. Quiet(o, d) BY <1>2, TrimIsQuiet
  <2>2. d.op = Idle /\ d.ready BY <1>2 DEF Trim, Kept
  <2>3. Turn(o, d, Deliver(d, NoProxy)) BY <2>1, <2>2, DeliverLoads
  <2>4. QED BY <1>2, <2>3, TrimTurns
<1>3. Trim(o, c, Publish(c, NoProxy)) BY <1>1, PublishTrims
<1>4. c.desired \in Config \cup {None} BY <1>1 DEF Coordinator
<1>5. CASE c.installed
  BY <1>5, BeginTurns DEF WithoutActive
<1>6. CASE ~c.installed /\ c.desired = None
  <2>1. WithoutActive(c) = Deliver(Publish(c, NoProxy), NoProxy) BY <1>6 DEF WithoutActive
  <2>2. QED BY <1>2, <1>3, <1>6, <2>1
<1>7. CASE ~c.installed /\ c.desired # None /\ c.failed = c.revision
  <2>1. PICK d : d = Publish(c, NoProxy) OBVIOUS
  <2>2. c.desired.scope \in Host BY <1>4, <1>7 DEF Config
  <2>3. PICK e : e = PublishCompat(d, c.desired.scope) OBVIOUS
  <2>4. Trim(o, d, e) BY <1>3, <2>1, <2>2, <2>3, PublishCompatTrims DEF Trim
  <2>5. Trim(o, c, e) BY <1>3, <2>1, <2>4, TrimTwice
  <2>6. WithoutActive(c) = Deliver(e, NoProxy) BY <1>7, <2>1, <2>3 DEF WithoutActive
  <2>7. QED BY <1>2, <1>7, <2>5, <2>6
<1>8. CASE ~c.installed /\ c.desired # None /\ c.failed # c.revision
  <2>1. WithoutActive(c) = IF c.retired = c.settled THEN Begin(c, "start") ELSE c
    BY <1>8 DEF WithoutActive
  <2>2. Turn(o, c, c) BY <1>1, TrimSelf, TrimIsQuiet
  <2>3. c.retired = c.settled => Turn(o, c, Begin(c, "start"))
    BY <1>4, <1>8, BeginTurns
  <2>4. QED BY <2>1, <2>2, <2>3
<1>9. QED BY <1>5, <1>6, <1>7, <1>8

LEMMA ReconcileTurns ==
  ASSUME NEW o \in Owner, NEW c, Quiet(o, c), QueueInv
  PROVE  Turn(o, c, Reconcile(c))
<1>1. c \in Coordinator /\ HandsOf(o, c) BY DEF Quiet, Sound, Core
<1>2. PICK d : d = RevokeIncompatible(c) OBVIOUS
<1>3. Trim(o, c, d) BY <1>1, <1>2, RevokeIncompatibleTrims
<1>4. Quiet(o, d) /\ Turn(o, c, d) BY <1>3, TrimIsQuiet
<1>5. d \in Coordinator /\ HandsOf(o, d) BY <1>3 DEF Trim
<1>6. SUFFICES ASSUME d.op = Idle PROVE Turn(o, d, Reconcile(c))
  <2>1. CASE d.op = Idle BY <1>3, <1>6, <2>1, TrimTurns
  <2>2. CASE d.op # Idle BY <1>2, <1>4, <2>2 DEF Reconcile
  <2>3. QED BY <2>1, <2>2
<1>7. CASE d.gate \/ d.destroyed \/ ~d.enabled
  <2>1. Reconcile(c) = Withdrawn(d) BY <1>2, <1>6, <1>7 DEF Reconcile
  <2>2. PICK e : e = RevokePublished(d) OBVIOUS
  <2>3. Trim(o, d, e) /\ e.active = NoProxy BY <1>5, <2>2, RevokePublishedTrims
  <2>4. Quiet(o, e) /\ Turn(o, d, e) BY <1>4, <2>3, TrimIsQuiet
  <2>5. e.op = Idle BY <1>6, <2>3 DEF Trim, Kept
  <2>6. Turn(o, d, Begin(e, "clear")) BY <2>3, <2>4, <2>5, BeginTurns, TrimTurns
  <2>7. QED BY <2>1, <2>2, <2>4, <2>6 DEF Withdrawn
<1>8. CASE ~(d.gate \/ d.destroyed \/ ~d.enabled) /\ ~d.ready
  <2>1. Reconcile(c) = Begin(d, "acquire") BY <1>2, <1>6, <1>8 DEF Reconcile
  <2>2. d.active = NoProxy BY <1>4, <1>8 DEF Quiet, Sound, ActiveOf
  <2>3. QED BY <1>4, <1>6, <1>8, <2>1, <2>2, BeginTurns
<1>9. CASE ~(d.gate \/ d.destroyed \/ ~d.enabled) /\ d.ready
  <2>1. Reconcile(c) = IF d.active # NoProxy /\ d.installed
                       THEN Deliver(Publish(d, d.active), d.active)
                       ELSE WithoutActive(DropActive(d))
    BY <1>2, <1>6, <1>9 DEF Reconcile
  <2>2. CASE d.active # NoProxy /\ d.installed
    <3>1. PICK e : e = Publish(d, d.active) OBVIOUS
    <3>2. Trim(o, d, e) BY <1>5, <3>1, PublishTrims
    <3>3. e.active = d.active
      <4>1. d.active \notin e.retired
        <5>1. \/ e.active = d.active
              \/ e.active = NoProxy /\ d.active \in e.retired
          BY <3>2 DEF Trim
        <5>2. PICK v : e = [d EXCEPT !.published = v, !.compat = None] BY <3>1 DEF Publish
        <5>3. e.retired = d.retired BY <1>5, <5>2 DEF Coordinator
        <5>4. QED BY <1>5, <2>2, <5>3 DEF HandsOf
      <4>2. QED BY <3>2, <4>1 DEF Trim
    <3>4. Quiet(o, e) BY <1>4, <3>2, TrimIsQuiet
    <3>5. Turn(o, e, Deliver(e, d.active)) BY <2>2, <3>3, <3>4, DeliverLoads
    <3>6. QED BY <2>1, <2>2, <3>1, <3>2, <3>5, TrimTurns
  <2>3. CASE ~(d.active # NoProxy /\ d.installed)
    <3>1. PICK e : e = DropActive(d) OBVIOUS
    <3>2. Trim(o, d, e) /\ e.active = NoProxy BY <1>5, <3>1, DropActiveTrims
    <3>3. Quiet(o, e) BY <1>4, <3>2, TrimIsQuiet
    <3>4. e.op = Idle /\ e.ready /\ e.enabled /\ ~e.gate BY <1>6, <1>9, <3>2 DEF Trim, Kept
    <3>5. Turn(o, e, WithoutActive(e)) BY <3>2, <3>3, <3>4, WithoutActiveTurns
    <3>6. QED BY <2>1, <2>3, <3>1, <3>2, <3>5, TrimTurns
  <2>4. QED BY <2>2, <2>3
<1>10. QED BY <1>7, <1>8, <1>9

----------------------------------------------------------------------------
\* Calls of the Activity

LEMMA EffectiveConfig ==
  ASSUME NEW o, NEW c, Sound(o, c), ProxiesInv, NEW requested \in Config
  PROVE  Effective(c, requested) \in Config
<1> DEFINE known == <<IF c.active # NoProxy THEN proxies[c.active].config ELSE None,
                      IF c.candidate # NoProxy THEN proxies[c.candidate].config ELSE None,
                      IF c.op.kind = "start" THEN c.op.config ELSE None,
                      c.desired>>
           fits == {i \in DOMAIN known : known[i] # None /\ Compatible(known[i], requested)}
<1>1. c.desired \in Config \cup {None} BY DEF Sound, Core, Coordinator
<1>2. c.op.kind = "start" => c.op.config \in Config BY DEF Sound, Core, OpOf
<1>3. \A p \in DOMAIN proxies : proxies[p].config \in Config
  <2>1. \A p \in DOMAIN proxies : proxies[p] \in Proxy BY DEF ProxiesInv
  <2>2. QED BY <2>1 DEF Proxy
<1>4. c.active # NoProxy => proxies[c.active].config \in Config
  BY <1>3 DEF Sound, Core, HandsOf, Mine
<1>5. c.candidate # NoProxy => proxies[c.candidate].config \in Config
  BY <1>3 DEF Sound, Core, HandsOf, Mine
<1>6. DOMAIN known = 1..4 OBVIOUS
<1>7. \A i \in 1..4 : known[i] \in Config \cup {None} BY <1>1, <1>2, <1>4, <1>5
<1>8. Effective(c, requested) = IF fits = {} THEN requested ELSE known[Min(fits)]
  BY DEF Effective
<1> HIDE DEF known
<1>9. ASSUME fits # {} PROVE Min(fits) \in fits
  <2>1. fits \subseteq 1..4 BY <1>6
  <2> HIDE DEF fits
  <2>2. \E x \in fits : \A y \in fits : x <= y
    <3>1. PICK x : x \in fits BY <1>9
    <3>2. CASE 1 \in fits BY <2>1, <3>2
    <3>3. CASE 1 \notin fits /\ 2 \in fits BY <2>1, <3>3
    <3>4. CASE 1 \notin fits /\ 2 \notin fits /\ 3 \in fits BY <2>1, <3>4
    <3>5. CASE 1 \notin fits /\ 2 \notin fits /\ 3 \notin fits
      <4>1. \A y \in fits : y = 4 BY <2>1, <3>5
      <4>2. QED BY <3>1, <4>1
    <3>6. QED BY <3>2, <3>3, <3>4, <3>5
  <2>3. QED BY <2>2 DEF Min
<1>10. QED BY <1>6, <1>7, <1>8, <1>9

\* The fields that no invariant relates to another.
Minor(c, e) == e \in Coordinator /\ Kept(c, e) /\ SameHands(c, e)

LEMMA MinorTrims ==
  ASSUME NEW o, NEW c \in Coordinator, HandsOf(o, c), NEW e, Minor(c, e)
  PROVE  Trim(o, c, e)
BY TrimAll DEF Minor

LEMMA MinorTwice ==
  ASSUME NEW c, NEW d, NEW e, Minor(c, d), Minor(d, e)
  PROVE  Minor(c, e)
BY DEF Minor, Kept, SameHands

LEMMA PublishCompatMinor ==
  ASSUME NEW c \in Coordinator, NEW scope \in Host \cup {None}
  PROVE  Minor(c, PublishCompat(c, scope)) /\ PublishCompat(c, scope).desired = c.desired
<1>1. PICK e : e = [c EXCEPT !.compat = scope] OBVIOUS
<1>2. e \in Coordinator BY <1>1 DEF Coordinator
<1>3. Kept(c, e) /\ SameHands(c, e) /\ e.desired = c.desired BY <1>1 DEF Coordinator, Kept, SameHands
<1>4. PublishCompat(c, scope) \in {c, e} BY <1>1 DEF PublishCompat
<1>5. QED BY <1>2, <1>3, <1>4 DEF Minor, Kept, SameHands

LEMMA DesireMinor ==
  ASSUME NEW c \in Coordinator, NEW config \in Config \cup {None}
  PROVE  Minor(c, Desire(c, config)) /\ Desire(c, config).desired = config
<1>1. PICK e : e = [c EXCEPT !.desired = config, !.revision = @ + 1, !.failed = -1] OBVIOUS
<1>2. e \in Coordinator
  <2>1. PICK r : r = c.revision + 1 OBVIOUS
  <2>2. r \in Nat BY <2>1 DEF Coordinator
  <2>3. PICK n : n = -1 OBVIOUS
  <2>4. n \in Int BY <2>3
  <2>5. PICK f : f = [c EXCEPT !.desired = config, !.revision = r, !.failed = n] OBVIOUS
  <2>6. f \in Coordinator BY <2>2, <2>4, <2>5 DEF Coordinator
  <2>7. f = e BY <1>1, <2>1, <2>3, <2>5
  <2>8. QED BY <2>6, <2>7
<1>3. Kept(c, e) /\ SameHands(c, e) /\ e.desired = config
  BY <1>1 DEF Coordinator, Kept, SameHands
<1>4. Minor(c, e) BY <1>2, <1>3 DEF Minor
<1>5. Desire(c, config) = PublishCompat(e, None) BY <1>1 DEF Desire
<1>6. QED BY <1>2, <1>3, <1>4, <1>5, PublishCompatMinor, MinorTwice

LEMMA NavMinor ==
  ASSUME NEW c \in Coordinator, NEW nav \in Target \cup {None}
  PROVE  Minor(c, [c EXCEPT !.nav = nav]) /\ [c EXCEPT !.nav = nav].desired = c.desired
<1>1. PICK e : e = [c EXCEPT !.nav = nav] OBVIOUS
<1>2. e \in Coordinator BY <1>1 DEF Coordinator
<1>3. Kept(c, e) /\ SameHands(c, e) /\ e.desired = c.desired BY <1>1 DEF Coordinator, Kept, SameHands
<1>4. QED BY <1>1, <1>2, <1>3 DEF Minor

\* What updateDesiredConfig changes comes down to dropping proxies.
LEMMA UpdateDesiredTrims ==
  ASSUME NEW o, NEW c, Quiet(o, c), ProxiesInv, NEW requested \in Config \cup {None},
         NEW retry \in BOOLEAN
  PROVE  Trim(o, c, UpdateDesired(c, requested, retry))
<1>1. c \in Coordinator /\ HandsOf(o, c) BY DEF Quiet, Sound, Core
<1>2. ASSUME NEW d, Minor(c, d), NEW nav \in Target \cup {None}
      PROVE  Trim(o, c, RevokeIncompatible([d EXCEPT !.nav = nav]))
  <2>1. PICK e : e = [d EXCEPT !.nav = nav] OBVIOUS
  <2>2. Minor(c, e) BY <1>2, <2>1, NavMinor, MinorTwice DEF Minor
  <2>3. Trim(o, c, e) BY <1>1, <2>2, MinorTrims
  <2>4. Trim(o, e, RevokeIncompatible(e)) BY <2>3, RevokeIncompatibleTrims DEF Trim
  <2>5. QED BY <2>1, <2>3, <2>4, TrimTwice
<1>3. Minor(c, c) BY <1>1 DEF Minor, Kept, SameHands
<1>4. CASE requested = None
  <2>1. PICK d : d = IF c.desired = None THEN PublishCompat(c, None) ELSE Desire(c, None) OBVIOUS
  <2>2. Minor(c, d) BY <1>1, <2>1, PublishCompatMinor, DesireMinor
  <2>3. d \in Coordinator BY <2>2 DEF Minor
  <2>4. PICK nav : nav = IF d.nav \in Host THEN None ELSE d.nav OBVIOUS
  <2>5. nav \in Target \cup {None} BY <2>3, <2>4 DEF Coordinator
  <2>6. UpdateDesired(c, requested, retry) = RevokeIncompatible([d EXCEPT !.nav = nav])
    BY <1>4, <2>1, <2>4 DEF UpdateDesired
  <2>7. QED BY <1>2, <2>2, <2>5, <2>6
<1>5. CASE requested # None
  <2>1. PICK new : new = Effective(c, requested) OBVIOUS
  <2>2. new \in Config BY <1>5, <2>1, EffectiveConfig DEF Quiet
  <2>3. PICK d : d = CASE c.desired # new -> Desire(c, new)
                       [] c.desired = new /\ retry /\ c.failed = c.revision ->
                            PublishCompat([c EXCEPT !.failed = -1], None)
                       [] OTHER -> c
    OBVIOUS
  <2>4. Minor(c, d)
    <3>1. CASE c.desired # new BY <1>1, <2>2, <2>3, <3>1, DesireMinor
    <3>2. CASE c.desired = new /\ retry /\ c.failed = c.revision
      <4>1. PICK e : e = [c EXCEPT !.failed = -1] OBVIOUS
      <4>2. e \in Coordinator BY <1>1, <4>1 DEF Coordinator
      <4>3. Minor(c, e) BY <1>1, <4>1, <4>2 DEF Coordinator, Minor, Kept, SameHands
      <4>4. d = PublishCompat(e, None) BY <2>3, <3>2, <4>1
      <4>5. QED BY <4>2, <4>3, <4>4, PublishCompatMinor, MinorTwice
    <3>3. CASE c.desired = new /\ ~(retry /\ c.failed = c.revision)
      BY <1>3, <2>3, <3>3
    <3>4. QED BY <3>1, <3>2, <3>3
  <2>5. d \in Coordinator BY <2>4 DEF Minor
  <2>6. PICK nav : nav = IF d.nav \in Inside[new.scope] THEN d.nav ELSE None OBVIOUS
  <2>7. nav \in Target \cup {None} BY <2>5, <2>6 DEF Coordinator
  <2>8. UpdateDesired(c, requested, retry) = RevokeIncompatible([d EXCEPT !.nav = nav])
    BY <1>5, <2>1, <2>3, <2>6 DEF UpdateDesired
  <2>9. QED BY <1>2, <2>4, <2>7, <2>8
<1>6. QED BY <1>4, <1>5

----------------------------------------------------------------------------
\* What is under way when coordinators change

Free(o, ps) ==
  /\ \A i \in DOMAIN pending : pending[i].owner # o
  /\ current # None => current.owner # o
  /\ \A i \in DOMAIN worker : worker[i].kind = "start" => worker[i].owner # o
  /\ \A i \in DOMAIN ps : ps[i].kind \in Asking => ps[i].to # o

\* c becomes e without losing a proxy, and its operation only changes when it has ended.
Moves(o, c, e, ps) ==
  /\ c \in Coordinator /\ e \in Coordinator /\ OpOf(o, c)
  /\ c.retired \subseteq e.retired
  /\ {c.active, c.candidate} \ {NoProxy} \subseteq e.retired \cup {e.active, e.candidate}
  /\ c.gate => e.gate
  /\ c.epoch <= e.epoch
  /\ Free(o, ps) \/ (e.op = c.op /\ (c.op.kind = "start" => e.retired = c.retired))

LEMMA TailFacts ==
  ASSUME NEW S, NEW s \in Seq(S), s # <<>>
  PROVE  /\ Tail(s) \in Seq(S) /\ Head(s) = s[1] /\ 1 \in DOMAIN s /\ Head(s) \in S
         /\ \A i \in DOMAIN Tail(s) : i + 1 \in DOMAIN s /\ i + 1 # 1 /\ Tail(s)[i] = s[i + 1]
         /\ \A j \in DOMAIN s : j # 1 => j - 1 \in DOMAIN Tail(s) /\ Tail(s)[j - 1] = s[j]
         /\ \A i \in DOMAIN Tail(s) : i \in Nat
OBVIOUS

LEMMA PopFlight ==
  ASSUME posted # <<>>, FlightInv(co, posted, NoProxy), ProxiesInv, NEW late,
         Head(posted).kind = "start" => late = Head(posted).proxy
  PROVE  /\ FlightInv(co, Tail(posted), late)
         /\ Head(posted) \in Message /\ Head(posted).to \in Owner
         /\ MessageOf(Head(posted), co[Head(posted).to])
         /\ Head(posted).kind \in Asking => Free(Head(posted).to, Tail(posted))
<1> DEFINE ps == Tail(posted)
<1>1. posted \in Seq(Message) BY DEF FlightInv, PostedOf
<1>2. /\ ps \in Seq(Message) /\ Head(posted) = posted[1] /\ 1 \in DOMAIN posted
      /\ Head(posted) \in Message
  BY <1>1, TailFacts
<1>3. \A i \in DOMAIN ps : i + 1 \in DOMAIN posted /\ i + 1 # 1 /\ ps[i] = posted[i + 1]
  BY <1>1, TailFacts
<1>4. \A j \in DOMAIN posted : j # 1 => j - 1 \in DOMAIN ps /\ ps[j - 1] = posted[j]
  BY <1>1, TailFacts
<1>5. \A i \in DOMAIN ps : i \in Nat BY <1>1, TailFacts
<1> HIDE DEF ps
<1>6. PendingOf(co, ps) BY <1>3 DEF FlightInv, PendingOf
<1>7. CurrentOf(co, ps) BY <1>3 DEF FlightInv, CurrentOf
<1>8. StartOf(ps) BY <1>3 DEF FlightInv, StartOf
<1>9. PostedOf(co, ps)
  <2>1. \A i \in DOMAIN ps : MessageOf(ps[i], co[ps[i].to]) BY <1>3 DEF FlightInv, PostedOf
  <2>2. ASSUME NEW i \in DOMAIN ps, NEW j \in DOMAIN ps,
               ps[i].kind \in Asking, ps[j].kind \in Asking, ps[i].to = ps[j].to
        PROVE  i = j
    <3>1. i + 1 = j + 1 BY <1>3, <2>2 DEF FlightInv, PostedOf
    <3>2. QED BY <1>5, <3>1
  <2>3. QED BY <1>2, <2>1, <2>2 DEF PostedOf
<1>10. KnownOf(co, ps, late)
  <2>1. SUFFICES ASSUME NEW p \in DOMAIN proxies, p # late
                 PROVE  Known(p, co[proxies[p].owner], proxies[p].owner, ps)
    BY DEF KnownOf
  <2>2. p = NoProxy \/ Known(p, co[proxies[p].owner], proxies[p].owner, posted)
    BY DEF FlightInv, KnownOf
  <2>3. CASE p = NoProxy
    <3>1. \A x \in DOMAIN proxies : x # 0 BY DEF ProxiesInv
    <3>2. QED BY <2>3, <3>1 DEF NoProxy
  <2>4. CASE Known(p, co[proxies[p].owner], proxies[p].owner, posted)
    <3>1. ASSUME NEW i \in DOMAIN posted, posted[i].kind = "start", posted[i].to = proxies[p].owner,
                 posted[i].proxy = p
          PROVE  Known(p, co[proxies[p].owner], proxies[p].owner, ps)
      <4>1. i # 1 BY <1>2, <2>1, <3>1
      <4>2. QED BY <1>4, <3>1, <4>1 DEF Known
    <3>2. QED BY <2>4, <3>1 DEF Known
  <2>5. QED BY <2>2, <2>3, <2>4
<1>11. WorkerOf(co) BY DEF FlightInv
<1>12. FlightInv(co, ps, late) BY <1>6, <1>7, <1>8, <1>9, <1>10, <1>11 DEF FlightInv
<1>13. MessageOf(Head(posted), co[Head(posted).to]) BY <1>2 DEF FlightInv, PostedOf
<1>14. ASSUME Head(posted).kind \in Asking PROVE Free(Head(posted).to, ps)
  <2>1. \A i \in DOMAIN ps : ps[i].kind \in Asking => ps[i].to # Head(posted).to
    BY <1>2, <1>3, <1>14 DEF FlightInv, PostedOf
  <2>2. /\ \A i \in DOMAIN pending : pending[i].owner # Head(posted).to
        /\ current # None => current.owner # Head(posted).to
    BY <1>2, <1>14 DEF FlightInv, PendingOf, CurrentOf
  <2>3. ASSUME NEW i \in DOMAIN worker, worker[i].kind = "start", worker[i].owner = Head(posted).to
        PROVE  FALSE
    <3>1. co[Head(posted).to].op.kind = "start" BY <1>11, <2>3 DEF WorkerOf, JobOf
    <3>2. Head(posted).kind = "start" BY <1>13, <1>14, <3>1 DEF MessageOf
    <3>3. QED BY <1>2, <2>3, <3>2 DEF FlightInv, StartOf
  <2>4. QED BY <2>1, <2>2, <2>3 DEF Free
<1>15. Head(posted).to \in Owner BY <1>2 DEF Message
<1>16. QED BY <1>2, <1>12, <1>13, <1>14, <1>15 DEF ps

LEMMA FreeWhenIdle ==
  ASSUME NEW o \in Owner, NEW ps, NEW late, FlightInv(co, ps, late), QueueInv, co[o].op = Idle
  PROVE  Free(o, ps)
<1>1. co[o].op.kind = "idle" BY DEF Idle
<1>2. \A i \in DOMAIN pending : pending[i] \in Operation
  BY DEF FlightInv, PendingOf
<1>3. \A i \in DOMAIN pending : pending[i].owner # o
  <2>1. \A i \in DOMAIN pending : pending[i].kind \in {"acquire", "apply", "clear"}
    BY <1>2 DEF Operation
  <2>2. QED BY <1>1, <2>1 DEF FlightInv, PendingOf, Fits
<1>4. current # None => current.owner # o
  <2>1. current # None => current.kind \in {"acquire", "apply", "clear"} BY DEF QueueInv, Operation
  <2>2. QED BY <1>1, <2>1 DEF FlightInv, CurrentOf, Fits
<1>5. \A i \in DOMAIN worker : worker[i].kind = "start" => worker[i].owner # o
  BY <1>1 DEF FlightInv, WorkerOf, JobOf
<1>6. \A i \in DOMAIN ps : ps[i].kind \in Asking => ps[i].to # o
  BY <1>1 DEF FlightInv, PostedOf, MessageOf, Asking
<1>7. QED BY <1>3, <1>4, <1>5, <1>6 DEF Free

LEMMA FlightMoves ==
  ASSUME NEW cs, NEW ps, NEW late, FlightInv(co, ps, late), QueueInv, ProxiesInv,
         \A p \in Owner : Moves(p, co[p], cs[p], ps),
         late \in DOMAIN proxies => late \in cs[proxies[late].owner].retired
                                             \cup {cs[proxies[late].owner].candidate}
  PROVE  FlightInv(cs, ps, NoProxy)
<1>1. \A i \in DOMAIN pending : pending[i].owner \in Owner
  <2>1. \A i \in DOMAIN pending : pending[i] \in Operation BY DEF FlightInv, PendingOf
  <2>2. QED BY <2>1 DEF Operation
<1>2. PendingOf(cs, ps)
  <2>1. ASSUME NEW i \in DOMAIN pending PROVE Fits(pending[i], cs[pending[i].owner])
    <3>1. ~Free(pending[i].owner, ps) BY DEF Free
    <3>2. cs[pending[i].owner].op = co[pending[i].owner].op BY <1>1, <3>1 DEF Moves
    <3>3. QED BY <3>2 DEF FlightInv, PendingOf, Fits
  <2>2. QED BY <2>1 DEF FlightInv, PendingOf
<1>3. CurrentOf(cs, ps)
  <2>1. ASSUME current # None PROVE Fits(current, cs[current.owner])
    <3>1. ~Free(current.owner, ps) BY <2>1 DEF Free
    <3>2. current.owner \in Owner BY <2>1 DEF QueueInv, Operation
    <3>3. cs[current.owner].op = co[current.owner].op BY <3>1, <3>2 DEF Moves
    <3>4. QED BY <2>1, <3>3 DEF FlightInv, CurrentOf, Fits
  <2>2. QED BY <2>1 DEF FlightInv, CurrentOf
<1>4. PostedOf(cs, ps)
  <2>1. ASSUME NEW i \in DOMAIN ps PROVE MessageOf(ps[i], cs[ps[i].to])
    <3>1. PICK m : m = ps[i] OBVIOUS
    <3>2. m \in Message BY <3>1 DEF FlightInv, PostedOf
    <3>3. PICK p \in Owner : p = m.to BY <3>2 DEF Message
    <3>4. MessageOf(m, co[p]) BY <3>1, <3>3 DEF FlightInv, PostedOf
    <3>5. Moves(p, co[p], cs[p], ps) OBVIOUS
    <3>6. CASE m.kind \notin Asking
      <4>1. m.kind \in {"join", "revoked"} BY <3>2, <3>6 DEF Message, Asking
      <4>2. MessageOf(m, cs[p]) BY <3>4, <3>5, <4>1 DEF MessageOf, Moves, Asking
      <4>3. QED BY <3>1, <3>3, <4>2
    <3>7. CASE m.kind \in Asking
      <4>1. /\ cs[p].op = co[p].op
            /\ co[p].gate => cs[p].gate
            /\ co[p].op.kind = "start" => cs[p].retired = co[p].retired
        BY <3>1, <3>3, <3>5, <3>7 DEF Moves, Free
      <4>2. Same(cs[p]) => Same(co[p])
        <5>1. /\ co[p].epoch \in Nat /\ cs[p].epoch \in Nat /\ co[p].op.epoch \in Nat
              /\ co[p].gate \in BOOLEAN /\ cs[p].gate \in BOOLEAN
          BY <3>5 DEF Moves, Coordinator, Op
        <5>2. co[p].op.epoch <= co[p].epoch /\ co[p].epoch <= cs[p].epoch
          BY <3>5 DEF Moves, OpOf
        <5>3. QED BY <3>5, <4>1, <5>1, <5>2 DEF Same, Moves
      <4>3. MessageOf(m, cs[p]) BY <3>4, <3>7, <4>1, <4>2 DEF MessageOf, Asking
      <4>4. QED BY <3>1, <3>3, <4>3
    <3>8. QED BY <3>6, <3>7
  <2>2. QED BY <2>1 DEF FlightInv, PostedOf
<1>5. WorkerOf(cs)
  <2>1. ASSUME NEW i \in DOMAIN worker PROVE JobOf(worker[i], cs[worker[i].owner])
    <3>1. PICK k : k = worker[i] OBVIOUS
    <3>2. k \in Job BY <3>1 DEF FlightInv, WorkerOf
    <3>3. PICK p \in Owner : p = k.owner BY <3>2 DEF Job
    <3>4. JobOf(k, co[p]) BY <3>1, <3>3 DEF FlightInv, WorkerOf
    <3>5. Moves(p, co[p], cs[p], ps) OBVIOUS
    <3>6. k.kind = "start" => cs[p].op = co[p].op
      BY <3>1, <3>3, <3>5 DEF Moves, Free
    <3>7. JobOf(k, cs[p]) BY <3>4, <3>5, <3>6 DEF JobOf, Moves
    <3>8. QED BY <3>1, <3>3, <3>7
  <2>2. QED BY <2>1 DEF FlightInv, WorkerOf
<1>6. KnownOf(cs, ps, NoProxy)
  <2>1. SUFFICES ASSUME NEW p \in DOMAIN proxies, p # NoProxy
                 PROVE  Known(p, cs[proxies[p].owner], proxies[p].owner, ps)
    BY DEF KnownOf
  <2>2. PICK q : q = proxies[p].owner OBVIOUS
  <2>3. q \in Owner
    <3>1. \A x \in DOMAIN proxies : proxies[x] \in Proxy BY DEF ProxiesInv
    <3>2. QED BY <2>2, <3>1 DEF Proxy
  <2>4. p = late \/ Known(p, co[q], q, ps) BY <2>2 DEF FlightInv, KnownOf
  <2>5. CASE p = late BY <2>2, <2>5 DEF Known
  <2>6. CASE Known(p, co[q], q, ps)
    <3>1. Moves(q, co[q], cs[q], ps) BY <2>3
    <3>2. QED BY <2>1, <2>2, <2>6, <3>1 DEF Known, Moves
  <2>7. QED BY <2>4, <2>5, <2>6
<1>7. StartOf(ps) BY DEF FlightInv
<1>8. QED BY <1>2, <1>3, <1>4, <1>5, <1>6, <1>7 DEF FlightInv

\* A handler's last step, reconcile, only begins an operation when none is under way.
LEMMA TurnMoves ==
  ASSUME NEW o \in Owner, NEW d, NEW e, NEW ps, NEW late,
         FlightInv(co, ps, late), QueueInv, Moves(o, co[o], d, ps), Sound(o, d), Turn(o, d, e)
  PROVE  Moves(o, co[o], e, ps) /\ (e.ask # "none" => Free(o, ps))
<1>1. e.ask # "none" => Free(o, ps)
  <2>1. SUFFICES ASSUME e.ask # "none", ~Free(o, ps) PROVE FALSE OBVIOUS
  <2>2. d.op = Idle /\ co[o].op = d.op BY <2>1 DEF Turn, Moves
  <2>3. QED BY <2>1, <2>2, FreeWhenIdle
<1>2. ASSUME ~Free(o, ps)
      PROVE  e.op = co[o].op /\ (co[o].op.kind = "start" => e.retired = co[o].retired)
  <2>1. d.op = co[o].op /\ (co[o].op.kind = "start" => d.retired = co[o].retired)
    BY <1>2 DEF Moves
  <2>2. e.op = d.op BY <1>1, <1>2 DEF Turn
  <2>3. d.op.kind = "start" => d.active = NoProxy /\ d.candidate = NoProxy
    BY DEF Sound, Core, HandsOf, Idle
  <2>4. d.op.kind = "start" => e.retired = d.retired BY <2>3 DEF Turn, Grown
  <2>5. QED BY <2>1, <2>2, <2>4
<1>3. e \in Coordinator BY DEF Turn, Sound, Core
<1>4. co[o].retired \subseteq e.retired BY DEF Moves, Turn, Grown
<1>5. {co[o].active, co[o].candidate} \ {NoProxy} \subseteq e.retired \cup {e.active, e.candidate}
  BY DEF Moves, Turn, Grown
<1>6. QED BY <1>1, <1>2, <1>3, <1>4, <1>5 DEF Moves, Turn, Fixed

----------------------------------------------------------------------------
\* Running the queue

LEMMA LeastNumber ==
  ASSUME NEW S, S \subseteq Nat, S # {}
  PROVE  \E n \in S : \A m \in S : n <= m
<1>1. PICK R : R = OpToRel(<, Nat) OBVIOUS
<1>2. \A x, y \in Nat : <<y, x>> \in R <=> y < x BY <1>1 DEF OpToRel
<1>3. IsWellFoundedOn(R, Nat) BY <1>1, NatLessThanWellFounded, Zenon
<1>4. PICK n \in S : \A m \in S : <<m, n>> \notin R BY <1>3, WFMin
<1>5. ASSUME NEW m \in S PROVE n <= m
  <2>1. m \in Nat /\ n \in Nat OBVIOUS
  <2>2. ~(m < n) BY <1>2, <1>4, <2>1, Zenon
  <2>3. QED BY <2>1, <2>2
<1>6. QED BY <1>5

\* What Run does: the first n - 1 operations are answered, the n-th asks the platform.
Ran(ops, generation, active, settings, base, n, r) ==
  /\ r \in Seq(Message) /\ DOMAIN r = 1..(n - 1) /\ posted' = base \o r
  /\ \A i \in 1..(n - 1) : /\ i \in DOMAIN ops /\ r[i] = InlineReply(ops[i], generation)
                           /\ ~NeedsPlatform(ops[i], generation, active)
  /\ pending' \in Seq(Operation)
  /\ \A i \in DOMAIN pending' : n + i \in DOMAIN ops /\ pending'[i] = ops[n + i] /\ i \in Nat \ {0}
  /\ \/ /\ n \in DOMAIN ops /\ current' = ops[n] /\ NeedsPlatform(ops[n], generation, active)
        /\ activeOwner' = (IF ops[n].kind = "apply" THEN ops[n].owner ELSE active)
        /\ override' = settings \cup {Setting(ops[n])}
     \/ /\ n = Len(ops) + 1 /\ current' = None /\ pending' = <<>>
        /\ activeOwner' = active /\ override' = settings

LEMMA InlineMessage ==
  ASSUME NEW op \in Operation, NEW generation
  PROVE  InlineReply(op, generation) \in Message
<1>1. op.kind \in {"acquire", "apply", "clear"} /\ op.owner \in Owner /\ op.proxy \in Nat
  BY DEF Operation
<1>2. ASSUME NEW ok \in BOOLEAN PROVE Reply(op, ok) \in Message BY <1>1 DEF Reply, Message
<1>3. CASE op.kind = "acquire"
  <2>1. InlineReply(op, generation) = Reply(op, op.owner = generation) BY <1>3 DEF InlineReply
  <2>2. QED BY <1>2, <2>1
<1>4. CASE op.kind = "apply" BY <1>2, <1>4 DEF InlineReply
<1>5. CASE op.kind = "clear" BY <1>2, <1>5 DEF InlineReply
<1>6. QED BY <1>1, <1>3, <1>4, <1>5

LEMMA RunRan ==
  ASSUME NEW ops \in Seq(Operation), NEW generation, NEW active, NEW settings, NEW base,
         Run(ops, generation, active, settings, base)
  PROVE  \E n \in 1..(Len(ops) + 1) : \E r : Ran(ops, generation, active, settings, base, n, r)
<1> DEFINE Asks == {i \in DOMAIN ops : NeedsPlatform(ops[i], generation, active)}
           n == IF Asks = {} THEN Len(ops) + 1 ELSE CHOOSE i \in Asks : \A j \in Asks : i <= j
           next == IF Asks = {} THEN None ELSE ops[n]
<1>1. DOMAIN ops = 1..Len(ops) /\ Len(ops) \in Nat /\ \A i \in DOMAIN ops : ops[i] \in Operation
  OBVIOUS
<1>2. Asks = {} => n = Len(ops) + 1 OBVIOUS
<1>3. Asks # {} => n \in Asks /\ \A j \in Asks : n <= j
  <2>1. SUFFICES ASSUME Asks # {} PROVE \E i \in Asks : \A j \in Asks : i <= j OBVIOUS
  <2>2. Asks \subseteq Nat BY <1>1
  <2>3. QED BY <2>1, <2>2, LeastNumber
<1>4. \A i \in Asks : i \in DOMAIN ops /\ NeedsPlatform(ops[i], generation, active) OBVIOUS
<1>5. \A i \in DOMAIN ops : i \notin Asks => ~NeedsPlatform(ops[i], generation, active) OBVIOUS
<1> HIDE DEF Asks
<1>6. PICK r : r = [i \in 1..(n - 1) |-> InlineReply(ops[i], generation)] OBVIOUS
<1>7. /\ posted' = base \o r
      /\ current' = next
      /\ pending' = SubSeq(ops, n + 1, Len(ops))
      /\ activeOwner' = IF next # None /\ next.kind = "apply" THEN next.owner ELSE active
      /\ override' = IF next = None THEN settings ELSE settings \cup {Setting(next)}
  BY <1>6 DEF Run, Asks
<1>8. (Asks = {} => next = None) /\ (Asks # {} => next = ops[n]) OBVIOUS
<1> HIDE DEF n, next
<1>9. n \in 1..(Len(ops) + 1) BY <1>1, <1>2, <1>3, <1>4
<1>10. \A i \in 1..(n - 1) : i \in DOMAIN ops /\ ~NeedsPlatform(ops[i], generation, active)
  BY <1>1, <1>3, <1>5, <1>9
<1>11. r \in Seq(Message) /\ DOMAIN r = 1..(n - 1)
  <2>1. \A i \in 1..(n - 1) : r[i] \in Message BY <1>1, <1>6, <1>10, InlineMessage
  <2>2. n - 1 \in Nat BY <1>1, <1>9
  <2>3. DOMAIN r = 1..(n - 1) BY <1>6
  <2>4. r \in [1..(n - 1) -> Message] BY <1>6, <2>1
  <2>5. QED BY <2>2, <2>3, <2>4
<1>12. \A i \in 1..(n - 1) : r[i] = InlineReply(ops[i], generation) BY <1>6
<1>13. PICK q : q = SubSeq(ops, n + 1, Len(ops)) OBVIOUS
<1>14. /\ q \in Seq(Operation)
       /\ \A i \in DOMAIN q : n + i \in DOMAIN ops /\ q[i] = ops[n + i] /\ i \in Nat \ {0}
  <2>1. \A i \in (n + 1)..Len(ops) : ops[i] \in Operation BY <1>1, <1>9
  <2>2. n + 1 \in Int /\ Len(ops) \in Int BY <1>1, <1>9
  <2>3. q \in Seq(Operation) BY <1>13, <2>1, <2>2, SubSeqProperties
  <2>4. Len(q) = IF n + 1 <= Len(ops) THEN Len(ops) - (n + 1) + 1 ELSE 0
    BY <1>13, <2>1, <2>2, SubSeqProperties
  <2>5. DOMAIN q = 1..Len(q) BY <2>3
  <2>6. ASSUME NEW i \in DOMAIN q
        PROVE  n + i \in DOMAIN ops /\ q[i] = ops[n + i] /\ i \in Nat \ {0}
    <3>0. i \in 1..Len(q) /\ Len(q) \in Nat /\ n \in Nat BY <1>9, <2>3, <2>5
    <3>a. n + 1 <= Len(ops)
      <4>1. SUFFICES ASSUME ~(n + 1 <= Len(ops)) PROVE FALSE OBVIOUS
      <4>2. Len(q) = 0 BY <2>4, <4>1
      <4>3. QED BY <3>0, <4>2
    <3>1. i \in 1..(Len(ops) - n) BY <1>1, <2>4, <3>0, <3>a
    <3>2. q[i] = ops[(n + 1) + i - 1] BY <1>1, <1>9, <1>13, <3>1
    <3>3. (n + 1) + i - 1 = n + i BY <1>9, <3>1
    <3>4. n + i \in DOMAIN ops BY <1>1, <1>9, <3>1
    <3>5. QED BY <3>1, <3>2, <3>3, <3>4
  <2>7. QED BY <2>3, <2>6
<1>15. pending' = q BY <1>7, <1>13
<1>16. CASE Asks = {}
  <2>1. n = Len(ops) + 1 /\ current' = None /\ activeOwner' = active /\ override' = settings
    BY <1>2, <1>7, <1>8, <1>16
  <2>2. q = <<>>
    <3>1. q = SubSeq(ops, Len(ops) + 1 + 1, Len(ops)) BY <1>13, <2>1
    <3>2. QED BY <1>1, <3>1, SubSeqEmpty
  <2>3. QED BY <1>7, <1>9, <1>10, <1>11, <1>12, <1>14, <1>15, <2>1, <2>2 DEF Ran
<1>17. CASE Asks # {}
  <2>1. n \in DOMAIN ops /\ NeedsPlatform(ops[n], generation, active) BY <1>3, <1>4, <1>17
  <2>2. ops[n] # None BY <1>1, <2>1, NoneAssumption
  <2>3. next = ops[n] BY <1>8, <1>17
  <2>4. /\ current' = ops[n]
        /\ activeOwner' = (IF ops[n].kind = "apply" THEN ops[n].owner ELSE active)
        /\ override' = settings \cup {Setting(ops[n])}
    BY <1>7, <2>2, <2>3
  <2>5. QED BY <1>7, <1>9, <1>10, <1>11, <1>12, <1>14, <1>15, <2>1, <2>4 DEF Ran
<1>18. QED BY <1>16, <1>17

\* The platform is asked by the owner of the override or by the front Activity.
LEMMA Starts ==
  ASSUME NEW l, NEW a, NEW s, Using(l, a, s), NEW op \in Operation, NeedsPlatform(op, l, a),
         op.kind = "apply" => Mine(op.owner, op.proxy) /\ (op.owner = l => a \in {NoOwner, op.owner})
  PROVE  /\ Using(l, IF op.kind = "apply" THEN op.owner ELSE a, s \cup {Setting(op)})
         /\ op.kind = "clear" => a = op.owner
         /\ op.kind = "acquire" => a < op.owner /\ op.owner <= l
<1>1. op.kind \in {"acquire", "apply", "clear"} /\ op.owner \in Owner /\ op.proxy \in Nat
  BY DEF Operation
<1>2. l \in 0..Owners /\ a \in 0..l /\ Owners \in Nat BY OwnersAssumption DEF Using
<1>3. CASE op.kind = "acquire"
  <2>1. op.owner = l /\ a # op.owner BY <1>3 DEF NeedsPlatform
  <2>2. a # NoOwner BY <1>3 DEF NeedsPlatform
  <2>3. Setting(op) = NoProxy BY <1>3 DEF Setting
  <2>4. QED BY <1>2, <1>3, <2>1, <2>2, <2>3 DEF Using, NoProxy
<1>4. CASE op.kind = "clear"
  <2>1. a = op.owner /\ a # NoOwner BY <1>1, <1>4, OwnersAssumption DEF NeedsPlatform, Owner, NoOwner
  <2>2. Setting(op) = NoProxy BY <1>4 DEF Setting
  <2>3. QED BY <1>4, <2>1, <2>2 DEF Using, NoProxy
<1>5. CASE op.kind = "apply"
  <2>1. op.owner = l /\ a \in {NoOwner, op.owner} BY <1>5 DEF NeedsPlatform
  <2>2. Setting(op) = op.proxy /\ Mine(op.owner, op.proxy) BY <1>5 DEF Setting
  <2>3. op.owner # NoOwner BY <1>1, OwnersAssumption DEF Owner, NoOwner
  <2>4. a = NoOwner => s \subseteq {NoProxy} BY DEF Using
  <2>5. \A p \in (s \cup {Setting(op)}) \ {NoProxy} : Mine(op.owner, p)
    BY <2>1, <2>2, <2>4 DEF Using
  <2>6. Using(l, op.owner, s \cup {Setting(op)})
    <3>1. op.owner \in 0..l BY <1>2, <2>1
    <3>2. s \cup {Setting(op)} # {} /\ s \cup {Setting(op)} \subseteq Nat
      BY <1>1, <2>2 DEF Using
    <3>3. QED BY <1>2, <2>3, <2>5, <3>1, <3>2 DEF Using
  <2>7. QED BY <1>5, <2>6
<1>6. QED BY <1>1, <1>3, <1>4, <1>5

----------------------------------------------------------------------------
\* What lasts while the queue, the worker and other Activities make their steps

Lasting(p, c) ==
  /\ latest <= latest'
  /\ Entitled(p) => Entitled(p)'
  /\ Claimed(p) /\ ((c.ready /\ ~c.gate) \/ (Same(c) /\ c.op.kind # "clear")) => Claimed(p)'
  /\ activeOwner' = p => activeOwner = p \/ c.op.kind = "apply"
  /\ \A x \in DOMAIN proxies : x \in DOMAIN proxies' /\ proxies'[x] = proxies[x]
  /\ joined \subseteq joined'
  /\ \A x \in stopped' : Mine(p, x)' => (x \in stopped /\ Mine(p, x)) \/ x \in c.retired \/ c.gate

LEMMA MineLasts ==
  ASSUME NEW p, NEW c, Lasting(p, c), NEW x, Mine(p, x)
  PROVE  Mine(p, x)'
BY DEF Lasting, Mine

LEMMA SoundLasts ==
  ASSUME NEW p \in Owner, NEW c, Sound(p, c), Lasting(p, c), QueueInv, latest' \in Int,
         c.active # NoProxy /\ ~c.gate /\ Serves(p, c.active) => Serves(p, c.active)'
  PROVE  Sound(p, c)'
<1>1. \A x : Mine(p, x) => Mine(p, x)' BY MineLasts
<1>2. HandsOf(p, c)'
  <2>1. c.settled \subseteq joined' BY DEF Sound, Core, HandsOf, Lasting
  <2>2. \A x \in stopped' : Mine(p, x)' => x \in c.retired \/ c.gate
    BY DEF Sound, Core, HandsOf, Lasting
  <2>3. QED BY <1>1, <2>1, <2>2 DEF Sound, Core, HandsOf
<1>3. OpOf(p, c)'
  <2>1. c.op.kind \in {"start", "apply"} => Entitled(p)' /\ (Same(c) => Claimed(p)')
    BY DEF Sound, Core, OpOf, Lasting
  <2>2. c.op.kind = "acquire" /\ c.ask # "acquire" /\ Same(c) =>
          Claimed(p)' \/ (CanOverride /\ p < latest')
    <3>1. latest \in Int /\ p \in Int BY OwnersAssumption DEF QueueInv, Using, Owner
    <3>2. QED BY <3>1 DEF Sound, Core, OpOf, Lasting
  <2>3. c.op.kind = "apply" => Mine(p, c.op.proxy)' BY <1>1 DEF Sound, Core, OpOf
  <2>4. QED BY <2>1, <2>2, <2>3 DEF Sound, Core, OpOf, Same
<1>4. RightsOf(p, c)'
  BY DEF Sound, Core, RightsOf, Lasting
<1>5. ActiveOf(p, c)' BY DEF Sound, ActiveOf
<1>6. c \in Coordinator BY DEF Sound, Core
<1>7. QED BY <1>2, <1>3, <1>4, <1>5, <1>6 DEF Sound, Core, Coordinator

LEMMA MessageLasts ==
  ASSUME NEW m, NEW c, MessageOf(m, c), Lasting(m.to, c),
         m.kind = "apply" /\ m.ok /\ Same(c) /\ Serves(m.to, m.proxy) => Serves(m.to, m.proxy)'
  PROVE  MessageOf(m, c)'
<1>1. m.kind = "start" /\ m.proxy # NoProxy => Mine(m.to, m.proxy)' BY MineLasts DEF MessageOf
<1>2. m.kind = "clear" /\ m.ok => activeOwner' # m.to BY DEF MessageOf, Lasting, Asking
<1>3. m.kind = "join" => m.proxy \in joined' BY DEF MessageOf, Lasting
<1>4. m.kind = "acquire" /\ m.ok => Entitled(m.to)' /\ (Same(c) => Claimed(m.to)')
  BY DEF MessageOf, Lasting, Asking
<1>5. QED BY <1>1, <1>2, <1>3, <1>4 DEF MessageOf, Same

\* Nothing runs while the front Activity serves.
LEMMA ServingIsQuiet ==
  ASSUME QueueInv, NEW p \in Owner, NEW x, Claimed(p), Serves(p, x),
         current # None => current.owner # p
  PROVE  current = None /\ pending = <<>>
<1>1. current # None => current.owner \in Owner /\ current.kind \in {"acquire", "apply", "clear"}
  BY DEF QueueInv, Operation
<1>2. p = latest /\ p = activeOwner BY DEF Claimed, Serves
<1>3. latest \in Int /\ activeOwner \in Int BY OwnersAssumption DEF QueueInv, Using
<1>4. current = None
  <2>1. SUFFICES ASSUME current # None PROVE FALSE OBVIOUS
  <2>2. current.owner \in Int BY <1>1, <2>1, OwnersAssumption DEF Owner
  <2>3. QED BY <1>1, <1>2, <1>3, <2>1, <2>2 DEF QueueInv
<1>5. QED BY <1>4 DEF QueueInv

LEMMA ConcatFacts ==
  ASSUME NEW S, NEW s \in Seq(S), NEW t \in Seq(S)
  PROVE  /\ s \o t \in Seq(S)
         /\ \A k \in DOMAIN (s \o t) : \/ k \in DOMAIN s /\ (s \o t)[k] = s[k]
                                       \/ /\ k \notin DOMAIN s /\ k - Len(s) \in DOMAIN t
                                          /\ (s \o t)[k] = t[k - Len(s)] /\ k \in Int /\ Len(s) \in Int
         /\ \A k \in DOMAIN s : k \in DOMAIN (s \o t) /\ (s \o t)[k] = s[k]
<1>1. /\ s \o t \in Seq(S) /\ Len(s \o t) = Len(s) + Len(t)
      /\ \A k \in 1..(Len(s) + Len(t)) :
           (s \o t)[k] = IF k <= Len(s) THEN s[k] ELSE t[k - Len(s)]
  BY ConcatProperties
<1>2. Len(s) \in Nat /\ Len(t) \in Nat /\ DOMAIN s = 1..Len(s) /\ DOMAIN t = 1..Len(t) OBVIOUS
<1>3. DOMAIN (s \o t) = 1..(Len(s) + Len(t)) BY <1>1
<1>4. QED BY <1>1, <1>2, <1>3

LEMMA PostedGrows ==
  ASSUME NEW cs, NEW s, NEW t, PostedOf(cs, s)', PostedOf(cs, t)',
         \A i \in DOMAIN s : \A j \in DOMAIN t :
           s[i].kind \in Asking /\ t[j].kind \in Asking => s[i].to # t[j].to
  PROVE  PostedOf(cs, s \o t)'
<1>1. s \in Seq(Message) /\ t \in Seq(Message)
  BY DEF PostedOf, Message, Owner
<1>2. PICK u : u = s \o t OBVIOUS
<1>3. /\ u \in Seq(Message)
      /\ \A k \in DOMAIN u : \/ k \in DOMAIN s /\ u[k] = s[k]
                             \/ /\ k \notin DOMAIN s /\ k - Len(s) \in DOMAIN t
                                /\ u[k] = t[k - Len(s)] /\ k \in Int /\ Len(s) \in Int
  BY <1>1, <1>2, ConcatFacts
<1>4. \A k \in DOMAIN u : MessageOf(u[k], cs[u[k].to])' BY <1>3 DEF PostedOf
<1>5. ASSUME NEW i \in DOMAIN u, NEW j \in DOMAIN u,
             u[i].kind \in Asking, u[j].kind \in Asking, u[i].to = u[j].to
      PROVE  i = j
  <2>1. \A k, l \in DOMAIN s : s[k].kind \in Asking /\ s[l].kind \in Asking /\ s[k].to = s[l].to => k = l
    BY DEF PostedOf, Asking
  <2>2. \A k, l \in DOMAIN t : t[k].kind \in Asking /\ t[l].kind \in Asking /\ t[k].to = t[l].to => k = l
    BY DEF PostedOf, Asking
  <2>3. CASE i \in DOMAIN s BY <1>3, <1>5, <2>1, <2>3
  <2>4. CASE i \notin DOMAIN s /\ j \in DOMAIN s BY <1>3, <1>5, <2>4
  <2>5. CASE i \notin DOMAIN s /\ j \notin DOMAIN s
    <3>1. i - Len(s) = j - Len(s) BY <1>3, <1>5, <2>2, <2>5
    <3>2. QED BY <1>3, <2>5, <3>1
  <2>6. QED BY <2>3, <2>4, <2>5
<1>6. PostedOf(cs, u)' BY <1>3, <1>4, <1>5 DEF PostedOf, Message, Owner, Asking
<1>7. QED BY <1>2, <1>6

----------------------------------------------------------------------------
\* The platform

LEMMA CoIs ==
  ASSUME IInv, NEW o \in Owner
  PROVE  /\ Rest(o, co[o]) /\ Sound(o, co[o]) /\ Quiet(o, co[o]) /\ co[o] \in Coordinator
         /\ HandsOf(o, co[o]) /\ OpOf(o, co[o]) /\ RightsOf(o, co[o]) /\ ActiveOf(o, co[o])
<1>1. Rest(o, co[o]) BY DEF IInv, CoordInv
<1>2. QED BY <1>1 DEF Rest, Core, Sound, Quiet

\* An operation that waits, or that the platform is busy with, is the one its owner began.
LEMMA OperationOf ==
  ASSUME IInv, NEW op \in Operation, Fits(op, co[op.owner])
  PROVE  /\ op.owner \in Owner /\ op.kind \in {"acquire", "apply", "clear"} /\ op.proxy \in Nat
         /\ op.kind = co[op.owner].op.kind
         /\ op.kind = "apply" => Mine(op.owner, op.proxy) /\ Entitled(op.owner)
                                 /\ (Same(co[op.owner]) => Claimed(op.owner))
         /\ op.kind = "acquire" /\ Same(co[op.owner]) =>
              Claimed(op.owner) \/ (CanOverride /\ op.owner < latest)
<1>1. op.owner \in Owner /\ op.kind \in {"acquire", "apply", "clear"} /\ op.proxy \in Nat
  BY DEF Operation
<1>2. OpOf(op.owner, co[op.owner]) /\ co[op.owner].ask = "none" BY <1>1, CoIs DEF Rest
<1>3. QED BY <1>1, <1>2 DEF OpOf, Fits

LEMMA PlatformRuns ==
  ASSUME IInv, current # None, NEW ok \in BOOLEAN,
         NEW active \in {NoOwner, activeOwner}, NEW settings, Using(latest, active, settings),
         Run(pending, latest, active, settings, Append(posted, Reply(current, ok))),
         UNCHANGED claims, UNCHANGED <<co, proxies, stopped, joined, worker, loaded>>,
         ok /\ current.kind = "acquire" => current.owner = latest /\ active = NoOwner,
         ok /\ current.kind = "clear" => active = NoOwner,
         ok /\ current.kind = "apply" => /\ current.owner = latest /\ active = current.owner
                                         /\ settings = {current.proxy}
  PROVE  IInv'
<1>1. /\ latest' = latest /\ claimed' = claimed /\ listening' = listening /\ co' = co
      /\ proxies' = proxies /\ stopped' = stopped /\ joined' = joined /\ worker' = worker
      /\ loaded' = loaded
  BY DEF claims
<1>2. FlightInv(co, posted, NoProxy) /\ QueueInv /\ CoordInv /\ ProxiesInv BY DEF IInv
<1>3. /\ pending \in Seq(Operation) /\ posted \in Seq(Message)
      /\ \A i \in DOMAIN pending : pending[i] \in Operation /\ Fits(pending[i], co[pending[i].owner])
      /\ \A i, j \in DOMAIN pending : pending[i].owner = pending[j].owner => i = j
      /\ \A i \in DOMAIN pending : \A j \in DOMAIN posted :
           posted[j].kind \in Asking => posted[j].to # pending[i].owner
  BY <1>2 DEF FlightInv, PendingOf, PostedOf
<1>4. /\ current \in Operation /\ Fits(current, co[current.owner])
      /\ \A i \in DOMAIN pending : pending[i].owner # current.owner
      /\ \A i \in DOMAIN posted : posted[i].kind \in Asking => posted[i].to # current.owner
  BY <1>2 DEF FlightInv, CurrentOf, QueueInv
<1>5. PICK base : base = Append(posted, Reply(current, ok)) OBVIOUS
<1>p. PICK n \in 1..(Len(pending) + 1) : \E r : Ran(pending, latest, active, settings, base, n, r)
  BY <1>3, <1>5, RunRan
<1>6. PICK r : Ran(pending, latest, active, settings, base, n, r)
  BY <1>p
<1>7. DOMAIN pending = 1..Len(pending) /\ Len(pending) \in Nat /\ n \in Nat BY <1>3
<1>8. /\ r \in Seq(Message) /\ DOMAIN r = 1..(n - 1) /\ posted' = base \o r
      /\ \A i \in 1..(n - 1) : /\ i \in DOMAIN pending /\ r[i] = InlineReply(pending[i], latest)
                               /\ ~NeedsPlatform(pending[i], latest, active)
      /\ pending' \in Seq(Operation)
      /\ \A i \in DOMAIN pending' : /\ n + i \in DOMAIN pending /\ pending'[i] = pending[n + i]
                                    /\ i \in Nat \ {0}
  BY <1>6 DEF Ran
<1>9. \/ /\ n \in DOMAIN pending /\ current' = pending[n]
         /\ NeedsPlatform(pending[n], latest, active)
         /\ activeOwner' = (IF pending[n].kind = "apply" THEN pending[n].owner ELSE active)
         /\ override' = settings \cup {Setting(pending[n])}
      \/ /\ n = Len(pending) + 1 /\ current' = None /\ pending' = <<>>
         /\ activeOwner' = active /\ override' = settings
  BY <1>6 DEF Ran
<1>10. \A i \in DOMAIN pending :
         /\ pending[i].owner \in Owner /\ pending[i].kind \in {"acquire", "apply", "clear"}
         /\ pending[i].kind = "apply" =>
              /\ Mine(pending[i].owner, pending[i].proxy) /\ Entitled(pending[i].owner)
              /\ NeedsPlatform(pending[i], latest, active) => pending[i].owner = latest
         /\ pending[i].kind = "apply" /\ pending[i].owner = latest => active \in {NoOwner, latest}
  <2>1. ASSUME NEW i \in DOMAIN pending, pending[i].kind = "apply"
        PROVE  /\ NeedsPlatform(pending[i], latest, active) => pending[i].owner = latest
               /\ pending[i].owner = latest => active \in {NoOwner, latest}
    <3>1. Entitled(pending[i].owner) BY <1>3, <2>1, OperationOf
    <3>2. CASE CanOverride BY <2>1, <3>1, <3>2 DEF NeedsPlatform, Entitled
    <3>3. CASE ~CanOverride BY <1>2, <3>3 DEF QueueInv
    <3>4. QED BY <3>2, <3>3, OwnersAssumption
  <2>2. QED BY <1>3, <2>1, OperationOf
\* The new setting
<1>11. /\ Using(latest, activeOwner', override')
       /\ current' # None => /\ current'.kind \in {"apply", "clear"} => activeOwner' = current'.owner
                             /\ current'.kind = "acquire" => /\ activeOwner' < current'.owner
                                                             /\ current'.owner <= latest
  <2>1. CASE n = Len(pending) + 1 BY <1>7, <1>9, <2>1
  <2>2. CASE n \in DOMAIN pending
    <3>1. PICK op \in Operation : op = pending[n] BY <1>3, <2>2
    <3>2. /\ current' = op /\ NeedsPlatform(op, latest, active)
          /\ activeOwner' = (IF op.kind = "apply" THEN op.owner ELSE active)
          /\ override' = settings \cup {Setting(op)}
      BY <1>7, <1>9, <2>2, <3>1
    <3>3. op.kind = "apply" => Mine(op.owner, op.proxy) /\ (op.owner = latest => active \in {NoOwner, op.owner})
      BY <1>10, <2>2, <3>1
    <3>4. /\ Using(latest, IF op.kind = "apply" THEN op.owner ELSE active, settings \cup {Setting(op)})
          /\ op.kind = "clear" => active = op.owner
          /\ op.kind = "acquire" => active < op.owner /\ op.owner <= latest
      BY <3>2, <3>3, Starts
    <3>5. QED BY <3>2, <3>4
  <2>3. QED BY <1>7, <2>1, <2>2
<1>12. Using(latest, activeOwner, override)'
  BY <1>1, <1>11 DEF Using, Mine, NoProxy, NoOwner
<1>13. QueueInv'
  <2>1. current' # None => current' \in Operation BY <1>3, <1>7, <1>9
  <2>2. current' = None => pending' = <<>>
    BY <1>3, <1>9, NoneAssumption
  <2>3. CanOverride BY <1>2 DEF QueueInv
  <2>4. QED BY <1>1, <1>2, <1>11, <1>12, <2>1, <2>2, <2>3 DEF QueueInv, Operation, Owner
\* What the others know
<1>14. activeOwner' = active \/ (activeOwner' = latest /\ \E i \in DOMAIN pending :
         pending[i].owner = activeOwner' /\ pending[i].kind = "apply" /\ i = n)
  <2>1. CASE n = Len(pending) + 1 BY <1>7, <1>9, <2>1
  <2>2. CASE n \in DOMAIN pending BY <1>7, <1>9, <1>10, <2>2
  <2>3. QED BY <1>7, <2>1, <2>2
<1>15. ASSUME NEW p \in Owner PROVE Lasting(p, co[p])
  <2>1. Entitled(p) => Entitled(p)' BY <1>1, <1>14 DEF Entitled
  <2>2. Claimed(p) => Claimed(p)' BY <1>1 DEF Claimed
  <2>3. activeOwner' = p => activeOwner = p \/ co[p].op.kind = "apply"
    <3>1. p # NoOwner BY OwnersAssumption DEF Owner, NoOwner
    <3>2. QED BY <1>3, <1>14, <3>1 DEF Fits
  <2>4. latest <= latest' BY <1>1, <1>2, OwnersAssumption DEF QueueInv, Using
  <2>5. \A x \in stopped' : Mine(p, x)' => x \in stopped /\ Mine(p, x) BY <1>1 DEF Mine
  <2>6. QED BY <1>1, <2>1, <2>2, <2>3, <2>4, <2>5 DEF Lasting
<1>16. ASSUME NEW p \in Owner, NEW x, Claimed(p), Serves(p, x), current.owner # p PROVE FALSE
  BY <1>2, <1>16, ServingIsQuiet
<1>17. CoordInv'
  <2>1. ASSUME NEW p \in Owner PROVE Rest(p, co[p])'
    <3>1. PICK c : c = co[p] OBVIOUS
    <3>2. Rest(p, c) /\ Sound(p, c) BY <3>1, CoIs
    <3>3. ~(c.active # NoProxy /\ ~c.gate /\ Serves(p, c.active))
      <4>1. SUFFICES ASSUME c.active # NoProxy, ~c.gate, Serves(p, c.active) PROVE FALSE OBVIOUS
      <4>2. Claimed(p) /\ c.op = Idle BY <3>2, <4>1 DEF Sound, Core, HandsOf, ActiveOf, RightsOf
      <4>3. current.owner # p
        <5>1. current.kind # "idle" BY <1>4 DEF Operation
        <5>2. QED BY <1>4, <3>1, <4>2, <5>1 DEF Fits, Idle
      <4>4. QED BY <1>16, <4>1, <4>2, <4>3
    <3>4. latest' \in Int BY <1>1, <1>2, OwnersAssumption DEF QueueInv, Using
    <3>5. Lasting(p, c) BY <1>15, <3>1
    <3>6. Sound(p, c)' BY <1>2, <3>2, <3>3, <3>4, <3>5, SoundLasts
    <3>7. Rest(p, c)' BY <3>2, <3>6 DEF Rest, Sound
    <3>8. QED BY <1>1, <3>1, <3>7
  <2>2. QED BY <1>1, <1>2, <2>1 DEF CoordInv, Owner
\* What is under way
<1>18. PICK cs, ps : cs = co /\ ps = posted OBVIOUS
<1>19. PICK m : m = Reply(current, ok) OBVIOUS
<1>20. /\ m \in Message /\ m.kind = current.kind /\ m.to = current.owner /\ m.ok = ok
       /\ m.proxy = current.proxy /\ m.kind \in {"acquire", "apply", "clear"}
  BY <1>4, <1>19 DEF Reply, Message, Operation
<1>21. base = posted \o <<m>> /\ <<m>> \in Seq(Message) BY <1>3, <1>5, <1>19, <1>20
<1>22. PostedOf(cs, ps)'
  <2>1. ASSUME NEW i \in DOMAIN ps PROVE MessageOf(ps[i], cs[ps[i].to])'
    <3>1. PICK q : q = ps[i] OBVIOUS
    <3>2. q \in Message /\ MessageOf(q, cs[q.to])
      BY <1>2, <1>18, <3>1 DEF FlightInv, PostedOf
    <3>3. q.to \in Owner BY <3>2 DEF Message
    <3>4. ASSUME q.kind = "apply", q.ok, Same(cs[q.to]), Serves(q.to, q.proxy) PROVE FALSE
      <4>1. q.kind = cs[q.to].op.kind BY <3>2, <3>4 DEF MessageOf, Asking
      <4>2. Claimed(q.to) BY <1>18, <3>3, <3>4, <4>1, CoIs DEF OpOf
      <4>3. current.owner # q.to BY <1>4, <1>18, <3>1, <3>4 DEF Asking
      <4>4. QED BY <1>16, <3>3, <3>4, <4>2, <4>3
    <3>5. Lasting(q.to, cs[q.to]) BY <1>15, <1>18, <3>3
    <3>6. MessageOf(q, cs[q.to])' BY <3>2, <3>4, <3>5, MessageLasts
    <3>7. QED BY <3>1, <3>6
  <2>2. ps \in Seq(Message) BY <1>3, <1>18
  <2>3. \A i, j \in DOMAIN ps : ps[i].kind \in Asking /\ ps[j].kind \in Asking /\ ps[i].to = ps[j].to => i = j
    BY <1>2, <1>18 DEF FlightInv, PostedOf
  <2>4. QED BY <2>1, <2>2, <2>3 DEF PostedOf, Message, Owner, Asking
<1>23. MessageOf(m, cs[m.to])'
  <2>1. PICK c : c = cs[m.to] OBVIOUS
  <2>2. m.kind = c.op.kind /\ m.proxy = c.op.proxy BY <1>4, <1>18, <1>20, <2>1 DEF Fits
  <2>3. /\ m.to \in Owner
        /\ m.kind = "apply" => Mine(m.to, m.proxy) /\ Entitled(m.to) /\ (Same(c) => Claimed(m.to))
        /\ m.kind = "acquire" /\ Same(c) => Claimed(m.to) \/ (CanOverride /\ m.to < latest)
    BY <1>4, <1>18, <1>20, <2>1, OperationOf
  <2>4. m.kind = "acquire" /\ m.ok => Entitled(m.to)' /\ (Same(c) => Claimed(m.to)')
    <3>1. SUFFICES ASSUME m.kind = "acquire", m.ok
                   PROVE  Entitled(m.to)' /\ (Same(c) => Claimed(m.to)')
      OBVIOUS
    <3>2. m.to = latest /\ active = NoOwner BY <1>20, <3>1
    <3>3. latest \in Int BY <1>2, OwnersAssumption DEF QueueInv, Using
    <3>4. Entitled(m.to)' BY <1>1, <1>14, <3>2, <3>3 DEF Entitled
    <3>5. Same(c) => Claimed(m.to) BY <2>3, <3>1, <3>2, <3>3
    <3>6. QED BY <1>1, <3>4, <3>5 DEF Claimed
  <2>5. m.kind = "clear" /\ m.ok => activeOwner' # m.to
    <3>1. SUFFICES ASSUME m.kind = "clear", m.ok PROVE activeOwner' # m.to OBVIOUS
    <3>2. active = NoOwner BY <1>20, <3>1
    <3>3. m.to # NoOwner BY <2>3, OwnersAssumption DEF Owner, NoOwner
    <3>4. QED BY <1>4, <1>14, <1>20, <3>2, <3>3
  <2>6. m.kind = "apply" /\ m.ok /\ Same(c) => Serves(m.to, m.proxy)'
    <3>1. SUFFICES ASSUME m.kind = "apply", m.ok PROVE Serves(m.to, m.proxy)' OBVIOUS
    <3>2. m.to = latest /\ active = m.to /\ settings = {m.proxy} BY <1>20, <3>1
    <3>3. n \notin DOMAIN pending
      <4>1. SUFFICES ASSUME n \in DOMAIN pending PROVE FALSE OBVIOUS
      <4>2. NeedsPlatform(pending[n], latest, active) BY <1>7, <1>9, <4>1
      <4>3. pending[n].owner # latest BY <1>4, <1>20, <3>2, <4>1
      <4>4. QED BY <1>10, <3>2, <4>1, <4>2, <4>3 DEF NeedsPlatform
    <3>4. activeOwner' = m.to /\ override' = {m.proxy} BY <1>9, <3>2, <3>3
    <3>5. CanOverride BY <1>2 DEF QueueInv
    <3>6. QED BY <3>4, <3>5 DEF Serves
  <2>7. MessageOf(m, c)' BY <1>20, <2>2, <2>4, <2>5, <2>6 DEF MessageOf, Same
  <2>8. QED BY <2>1, <2>7
<1>24. PostedOf(cs, <<m>>)'
  <2>1. \A i \in DOMAIN <<m>> : i = 1 /\ <<m>>[i] = m OBVIOUS
  <2>2. QED BY <1>21, <1>23, <2>1 DEF PostedOf, Message, Owner
<1>25. PostedOf(cs, base)'
  <2>1. \A i \in DOMAIN ps : \A j \in DOMAIN <<m>> :
          ps[i].kind \in Asking /\ <<m>>[j].kind \in Asking => ps[i].to # <<m>>[j].to
    BY <1>4, <1>18, <1>20
  <2>2. PostedOf(cs, ps \o <<m>>)' BY <1>22, <1>24, <2>1, PostedGrows
  <2>3. QED BY <1>18, <1>21, <2>2
<1>26. \A i \in 1..(n - 1) :
         /\ i \in DOMAIN pending
         /\ r[i].to = pending[i].owner /\ r[i].kind = pending[i].kind /\ r[i].proxy = pending[i].proxy
         /\ pending[i].kind = "acquire" => r[i].ok = (pending[i].owner = latest)
         /\ pending[i].kind = "apply" => r[i].ok = FALSE
  <2>1. ASSUME NEW i \in 1..(n - 1)
        PROVE  /\ i \in DOMAIN pending
               /\ r[i].to = pending[i].owner /\ r[i].kind = pending[i].kind
               /\ r[i].proxy = pending[i].proxy
               /\ pending[i].kind = "acquire" => r[i].ok = (pending[i].owner = latest)
               /\ pending[i].kind = "apply" => r[i].ok = FALSE
    <3>1. PICK op : op = pending[i] OBVIOUS
    <3>2. PICK v : v = CASE op.kind = "acquire" -> op.owner = latest
                         [] op.kind = "apply"   -> FALSE
                         [] op.kind = "clear"   -> TRUE
      OBVIOUS
    <3>3. (op.kind = "acquire" => v = (op.owner = latest)) /\ (op.kind = "apply" => v = FALSE) BY <3>2
    <3>4. i \in DOMAIN pending /\ r[i] = Reply(op, v) BY <1>8, <3>1, <3>2 DEF InlineReply
    <3>5. r[i].to = op.owner /\ r[i].kind = op.kind /\ r[i].proxy = op.proxy /\ r[i].ok = v
      BY <3>4 DEF Reply
    <3>6. QED BY <3>1, <3>3, <3>4, <3>5
  <2>2. QED BY <2>1
<1>27. PostedOf(cs, r)'
  <2>1. ASSUME NEW i \in DOMAIN r PROVE MessageOf(r[i], cs[r[i].to])'
    <3>1. PICK q, op : q = r[i] /\ op = pending[i] OBVIOUS
    <3>2. PICK c : c = cs[q.to] OBVIOUS
    <3>3. i \in DOMAIN pending /\ i \in 1..(n - 1) BY <1>8, <1>26
    <3>4. /\ q.to = op.owner /\ q.kind = op.kind /\ q.proxy = op.proxy
          /\ op \in Operation /\ Fits(op, co[op.owner]) /\ ~NeedsPlatform(op, latest, active)
      BY <1>3, <1>8, <1>26, <3>1, <3>3
    <3>5. /\ op.kind = "acquire" => q.ok = (op.owner = latest)
          /\ op.kind = "apply" => q.ok = FALSE
      BY <1>26, <3>1, <3>3
    <3>6. /\ q.to \in Owner /\ q.kind \in {"acquire", "apply", "clear"} /\ q.kind = c.op.kind
          /\ q.proxy = c.op.proxy
          /\ q.kind = "acquire" /\ Same(c) => Claimed(q.to) \/ (CanOverride /\ q.to < latest)
      BY <1>18, <3>2, <3>4, OperationOf DEF Fits
    <3>7. ASSUME q.kind = "acquire", q.ok PROVE Entitled(q.to)' /\ (Same(c) => Claimed(q.to)')
      <4>1. q.to = latest BY <3>4, <3>5, <3>7
      <4>2. active \in {NoOwner, latest} BY <3>4, <3>7, <4>1 DEF NeedsPlatform
      <4>3. latest \in Int BY <1>2, OwnersAssumption DEF QueueInv, Using
      <4>4. Entitled(q.to)' BY <1>1, <1>14, <4>1, <4>2, <4>3 DEF Entitled
      <4>5. Same(c) => Claimed(q.to) BY <3>6, <3>7, <4>1, <4>3
      <4>6. QED BY <1>1, <4>4, <4>5 DEF Claimed
    <3>8. ASSUME q.kind = "clear" PROVE activeOwner' # q.to
      <4>1. active # q.to BY <3>4, <3>8 DEF NeedsPlatform
      <4>2. \A j \in DOMAIN pending : pending[j].kind = "apply" => pending[j].owner # q.to
        BY <1>3, <3>1, <3>3, <3>4, <3>8
      <4>3. QED BY <1>14, <4>1, <4>2
    <3>9. MessageOf(q, c)' BY <3>4, <3>5, <3>6, <3>7, <3>8 DEF MessageOf, Same
    <3>10. QED BY <3>1, <3>2, <3>9
  <2>2. ASSUME NEW i \in DOMAIN r, NEW j \in DOMAIN r, r[i].to = r[j].to PROVE i = j
    <3>1. i \in 1..(n - 1) /\ j \in 1..(n - 1) BY <1>8
    <3>2. /\ i \in DOMAIN pending /\ r[i].to = pending[i].owner
          /\ j \in DOMAIN pending /\ r[j].to = pending[j].owner
      BY <1>26, <3>1
    <3>3. QED BY <1>3, <2>2, <3>2
  <2>3. QED BY <1>8, <2>1, <2>2 DEF PostedOf, Message, Owner, Asking
\* Callbacks of an operation go to the owner whose operation ended.
<1>28. \A i \in DOMAIN base : base[i].kind \in Asking =>
         base[i].to = current.owner \/ \E j \in DOMAIN posted : /\ posted[j].kind \in Asking
                                                             /\ posted[j].to = base[i].to
  <2>1. \A i \in DOMAIN base : i \in DOMAIN posted \/ base[i] = m
    BY <1>3, <1>5, <1>19
  <2>2. \A i \in DOMAIN posted : base[i] = posted[i] BY <1>3, <1>5
  <2>3. QED BY <1>20, <2>1, <2>2
<1>29. \A i \in DOMAIN base : base[i].kind \in Asking =>
         \A j \in DOMAIN pending : base[i].to # pending[j].owner
  BY <1>3, <1>4, <1>28
<1>30. PICK all : all = base \o r OBVIOUS
<1>31. base \in Seq(Message) BY <1>3, <1>21, ConcatProperties
<1>32. \A k \in DOMAIN all :
         \/ k \in DOMAIN base /\ all[k] = base[k]
         \/ k - Len(base) \in DOMAIN r /\ all[k] = r[k - Len(base)]
  BY <1>8, <1>30, <1>31, ConcatFacts
<1>33. PostedOf(cs, all)'
  <2>1. ASSUME NEW i \in DOMAIN base, NEW j \in DOMAIN r, base[i].kind \in Asking
        PROVE  base[i].to # r[j].to
    <3>1. j \in 1..(n - 1) BY <1>8
    <3>2. j \in DOMAIN pending /\ r[j].to = pending[j].owner BY <1>26, <3>1
    <3>3. QED BY <1>29, <2>1, <3>2
  <2>2. PostedOf(cs, base \o r)' BY <1>25, <1>27, <2>1, PostedGrows
  <2>3. QED BY <1>30, <2>2
<1>34. \A k \in DOMAIN all : all[k].kind \in Asking =>
         \A j \in DOMAIN pending : j \notin 1..(n - 1) => all[k].to # pending[j].owner
  <2>1. ASSUME NEW k \in DOMAIN all, all[k].kind \in Asking,
               NEW j \in DOMAIN pending, j \notin 1..(n - 1)
        PROVE  all[k].to # pending[j].owner
    <3>1. CASE k \in DOMAIN base /\ all[k] = base[k] BY <1>29, <2>1, <3>1
    <3>2. CASE k - Len(base) \in DOMAIN r /\ all[k] = r[k - Len(base)]
      <4>1. PICK i : i = k - Len(base) OBVIOUS
      <4>2. i \in 1..(n - 1) /\ all[k] = r[i] BY <1>8, <3>2, <4>1
      <4>3. i \in DOMAIN pending /\ r[i].to = pending[i].owner BY <1>26, <4>2
      <4>4. QED BY <1>3, <2>1, <4>2, <4>3
    <3>3. QED BY <1>32, <3>1, <3>2
  <2>2. QED BY <2>1
<1>35. PendingOf(co, posted)'
  <2>1. PICK q : q = pending' OBVIOUS
  <2>2. /\ q \in Seq(Operation)
        /\ \A i \in DOMAIN q : /\ n + i \in DOMAIN pending /\ q[i] = pending[n + i]
                              /\ i \in Nat \ {0} /\ n + i \notin 1..(n - 1)
    BY <1>7, <1>8, <2>1
  <2>3. \A i \in DOMAIN q : Fits(q[i], cs[q[i].owner]) BY <1>3, <1>18, <2>2
  <2>4. ASSUME NEW i \in DOMAIN q, NEW j \in DOMAIN q, q[i].owner = q[j].owner PROVE i = j
    <3>1. n + i = n + j BY <1>3, <2>2, <2>4
    <3>2. QED BY <1>7, <2>2, <3>1
  <2>5. \A i \in DOMAIN q : \A j \in DOMAIN all : all[j].kind \in Asking => all[j].to # q[i].owner
    BY <1>34, <2>2
  <2>6. co' = cs /\ posted' = all /\ pending' = q BY <1>1, <1>8, <1>18, <1>30, <2>1
  <2>7. QED BY <2>2, <2>3, <2>4, <2>5, <2>6 DEF PendingOf, Operation, Owner, Asking, Fits
<1>36. CurrentOf(co, posted)'
  <2>1. CASE n = Len(pending) + 1
    <3>1. current' = None BY <1>7, <1>9, <2>1
    <3>2. QED BY <3>1 DEF CurrentOf
  <2>2. CASE n \in DOMAIN pending
    <3>1. PICK op : op = pending[n] OBVIOUS
    <3>2. current' = op BY <1>7, <1>9, <2>2, <3>1
    <3>3. Fits(op, cs[op.owner]) BY <1>3, <1>18, <2>2, <3>1
    <3>4. ASSUME NEW i \in DOMAIN pending' PROVE pending'[i].owner # op.owner
      <4>1. n + i # n BY <1>7, <1>8
      <4>2. QED BY <1>3, <1>8, <2>2, <3>1, <4>1
    <3>5. \A i \in DOMAIN all : all[i].kind \in Asking => all[i].to # op.owner
      BY <1>7, <1>34, <2>2, <3>1
    <3>6. co' = cs /\ posted' = all BY <1>1, <1>8, <1>18, <1>30
    <3>7. QED BY <3>2, <3>3, <3>4, <3>5, <3>6 DEF CurrentOf, Asking, Fits
  <2>3. QED BY <1>7, <2>1, <2>2
<1>37. StartOf(posted)'
  <2>1. ASSUME NEW i \in DOMAIN worker, NEW j \in DOMAIN all,
               worker[i].kind = "start", all[j].kind = "start"
        PROVE  worker[i].owner # all[j].to
    <3>1. ASSUME NEW k \in DOMAIN r PROVE r[k].kind # "start"
      BY <1>8, <1>10, <1>26
    <3>2. all[j] = base[j] /\ j \in DOMAIN base BY <1>32, <2>1, <3>1
    <3>3. j \in DOMAIN posted /\ base[j] = posted[j] BY <1>3, <1>5, <1>19, <1>20, <2>1, <3>2
    <3>4. QED BY <1>2, <2>1, <3>2, <3>3 DEF FlightInv, StartOf
  <2>2. worker' = worker /\ posted' = all BY <1>1, <1>8, <1>30
  <2>3. QED BY <1>2, <2>1, <2>2 DEF FlightInv, StartOf
<1>38. PostedOf(co, posted)'
  BY <1>1, <1>8, <1>18, <1>30, <1>33
<1>39. WorkerOf(co)' BY <1>1, <1>2 DEF FlightInv, WorkerOf, JobOf, Job, Owner
<1>40. KnownOf(co, posted, NoProxy)'
  <2>1. \A i \in DOMAIN posted : i \in DOMAIN all /\ all[i] = posted[i]
    <3>1. \A i \in DOMAIN posted : i \in DOMAIN base /\ base[i] = posted[i] BY <1>3, <1>5
    <3>2. \A i \in DOMAIN base : i \in DOMAIN all /\ all[i] = base[i]
      BY <1>8, <1>30, <1>31, ConcatFacts
    <3>3. QED BY <3>1, <3>2
  <2>2. \A p \in DOMAIN proxies : p = NoProxy \/ Known(p, co[proxies[p].owner], proxies[p].owner, all)
    BY <1>2, <2>1 DEF FlightInv, KnownOf, Known
  <2>3. posted' = all /\ co' = co /\ proxies' = proxies BY <1>1, <1>8, <1>30
  <2>4. QED BY <2>2, <2>3 DEF KnownOf, Known
<1>41. FlightInv(co, posted, NoProxy)' BY <1>35, <1>36, <1>37, <1>38, <1>39, <1>40 DEF FlightInv
<1>42. ProxiesInv' BY <1>1, <1>2 DEF ProxiesInv, Proxy, Owner, Config
<1>43. LoadsAsRouted' BY <1>1 DEF IInv, LoadsAsRouted
<1>44. QED BY <1>13, <1>17, <1>41, <1>42, <1>43 DEF IInv

LEMMA PlatformDoneKeeps ==
  ASSUME IInv, PlatformDone, UNCHANGED <<co, proxies, stopped, joined, worker, loaded>>
  PROVE  IInv'
<1>1. PICK active : active = IF current.kind = "apply" THEN activeOwner ELSE NoOwner OBVIOUS
<1>2. PICK settings : settings = {Setting(current)} OBVIOUS
<1>3. PICK ok \in BOOLEAN : ok = (current.kind = "clear" \/ current.owner = latest) OBVIOUS
<1>4. /\ current # None /\ UNCHANGED claims
      /\ Run(pending, latest, active, settings, Append(posted, Reply(current, ok)))
  BY <1>1, <1>2, <1>3 DEF PlatformDone
<1>5. QueueInv /\ FlightInv(co, posted, NoProxy) BY DEF IInv
<1>6. /\ current \in Operation /\ Fits(current, co[current.owner])
      /\ current.kind = "apply" => activeOwner = current.owner
  BY <1>4, <1>5 DEF QueueInv, FlightInv, CurrentOf
<1>7. /\ current.kind \in {"acquire", "apply", "clear"} /\ current.proxy \in Nat
      /\ current.kind = "apply" => Mine(current.owner, current.proxy)
  BY <1>6, OperationOf
<1>8. Using(latest, active, settings)
  <2>1. CASE current.kind = "apply"
    <3>1. active = current.owner /\ settings = {current.proxy} /\ active = activeOwner
      BY <1>1, <1>2, <1>6, <2>1 DEF Setting
    <3>2. active # NoOwner
      <4>1. current.owner \in Owner BY <1>6, OperationOf
      <4>2. QED BY <3>1, <4>1, OwnersAssumption DEF Owner, NoOwner
    <3>3. QED BY <1>5, <1>7, <2>1, <3>1, <3>2 DEF QueueInv, Using
  <2>2. CASE current.kind # "apply"
    <3>1. active = NoOwner /\ settings = {NoProxy} BY <1>1, <1>2, <2>2 DEF Setting
    <3>2. QED BY <1>5, <3>1, OwnersAssumption DEF QueueInv, Using, NoOwner, NoProxy
  <2>3. QED BY <2>1, <2>2
<1>9. QED
  <2>1. active \in {NoOwner, activeOwner} BY <1>1
  <2>2. current.kind # "apply" => active = NoOwner BY <1>1
  <2>3. current.kind = "apply" => active = current.owner /\ settings = {current.proxy}
    BY <1>1, <1>2, <1>6 DEF Setting
  <2>4. ok /\ current.kind # "clear" => current.owner = latest BY <1>3
  <2>5. QED BY <1>4, <1>8, <2>1, <2>2, <2>3, <2>4, PlatformRuns

LEMMA PlatformThrowsKeeps ==
  ASSUME IInv, PlatformThrows, UNCHANGED <<co, proxies, stopped, joined, worker, loaded>>
  PROVE  IInv'
<1>1. /\ current # None /\ UNCHANGED claims
      /\ Run(pending, latest, activeOwner, override, Append(posted, Reply(current, FALSE)))
  BY DEF PlatformThrows
<1>2. Using(latest, activeOwner, override) BY DEF IInv, QueueInv
<1>3. QED BY <1>1, <1>2, PlatformRuns

----------------------------------------------------------------------------
\* The lifecycle worker

LEMMA AppendFacts ==
  ASSUME NEW S, NEW s \in Seq(S), NEW e \in S
  PROVE  /\ Append(s, e) \in Seq(S) /\ Append(s, e) = s \o <<e>> /\ <<e>> \in Seq(S)
         /\ \A k \in DOMAIN Append(s, e) : k \in DOMAIN s \/ k = Len(s) + 1
         /\ \A k \in DOMAIN s : k \in DOMAIN Append(s, e) /\ Append(s, e)[k] = s[k] /\ k # Len(s) + 1
         /\ Len(s) + 1 \in DOMAIN Append(s, e) /\ Append(s, e)[Len(s) + 1] = e
OBVIOUS

\* A task of the worker ends with one callback.
LEMMA WorkerRuns ==
  ASSUME IInv, worker # <<>>, worker' = Tail(worker), NEW m \in Message, posted' = Append(posted, m),
         UNCHANGED <<claims, running, co, stopped, loaded>>,
         m.kind \in {"start", "join"},
         m.kind = "start" => Head(worker).kind = "start" /\ Head(worker).owner = m.to,
         \A x \in DOMAIN proxies : x \in DOMAIN proxies' /\ proxies'[x] = proxies[x],
         \A x \in DOMAIN proxies' : x \in DOMAIN proxies \/ (/\ m.kind = "start" /\ m.proxy = x
                                                            /\ proxies'[x].owner = m.to),
         joined \subseteq joined', ProxiesInv', MessageOf(m, co[m.to])'
  PROVE  IInv'
<1>1. /\ latest' = latest /\ claimed' = claimed /\ listening' = listening /\ co' = co
      /\ stopped' = stopped /\ loaded' = loaded /\ pending' = pending /\ current' = current
      /\ activeOwner' = activeOwner /\ override' = override
  BY DEF claims, running
<1>2. FlightInv(co, posted, NoProxy) /\ QueueInv /\ CoordInv /\ ProxiesInv BY DEF IInv
<1>3. \A p, x : Mine(p, x) => Mine(p, x)' BY DEF Mine
<1>4. Using(latest, activeOwner, override)'
  BY <1>1, <1>2, <1>3 DEF QueueInv, Using
<1>5. QueueInv' BY <1>1, <1>2, <1>4 DEF QueueInv, Owner, Operation
<1>6. ASSUME NEW p \in Owner PROVE Lasting(p, co[p])
  <2>1. \A x \in stopped' : Mine(p, x)' => x \in stopped /\ Mine(p, x)
    BY <1>1, <1>2 DEF ProxiesInv, Mine
  <2>2. latest <= latest' BY <1>1, <1>2, OwnersAssumption DEF QueueInv, Using
  <2>3. QED BY <1>1, <2>1, <2>2 DEF Lasting, Entitled, Claimed
<1>7. \A p, x : Serves(p, x) => Serves(p, x)' BY <1>1 DEF Serves
<1>8. CoordInv'
  <2>1. ASSUME NEW p \in Owner PROVE Rest(p, co[p])'
    <3>1. PICK c : c = co[p] OBVIOUS
    <3>2. Rest(p, c) /\ Sound(p, c) BY <3>1, CoIs
    <3>3. latest' \in Int BY <1>1, <1>2, OwnersAssumption DEF QueueInv, Using
    <3>4. Lasting(p, c) BY <1>6, <3>1
    <3>5. Sound(p, c)' BY <1>2, <1>7, <3>2, <3>3, <3>4, SoundLasts
    <3>6. Rest(p, c)' BY <3>2, <3>5 DEF Rest, Sound
    <3>7. QED BY <1>1, <3>1, <3>6
  <2>2. QED BY <1>1, <1>2, <2>1 DEF CoordInv, Owner
<1>9. posted \in Seq(Message) /\ worker \in Seq(Job) /\ pending \in Seq(Operation)
  BY <1>2 DEF FlightInv, PostedOf, WorkerOf, PendingOf
<1>10. PICK cs, ps : cs = co /\ ps = posted OBVIOUS
<1>11. PostedOf(cs, ps)'
  <2>1. ASSUME NEW i \in DOMAIN ps PROVE MessageOf(ps[i], cs[ps[i].to])'
    <3>1. PICK q : q = ps[i] OBVIOUS
    <3>2. q \in Message /\ MessageOf(q, cs[q.to])
      BY <1>2, <1>10, <3>1 DEF FlightInv, PostedOf
    <3>3. Lasting(q.to, cs[q.to]) BY <1>6, <1>10, <3>2 DEF Message
    <3>4. MessageOf(q, cs[q.to])' BY <1>7, <3>2, <3>3, MessageLasts
    <3>5. QED BY <3>1, <3>4
  <2>2. ps \in Seq(Message) BY <1>9, <1>10
  <2>3. \A i, j \in DOMAIN ps : ps[i].kind \in Asking /\ ps[j].kind \in Asking /\ ps[i].to = ps[j].to => i = j
    BY <1>2, <1>10 DEF FlightInv, PostedOf
  <2>4. QED BY <2>1, <2>2, <2>3 DEF PostedOf, Message, Owner, Asking
\* The operation that ends is the only one of its owner.
<1>12. /\ 1 \in DOMAIN worker /\ Head(worker) = worker[1] /\ Head(worker) \in Job
       /\ \A i \in DOMAIN Tail(worker) : /\ i + 1 \in DOMAIN worker /\ i + 1 # 1
                                         /\ Tail(worker)[i] = worker[i + 1] /\ i \in Nat
       /\ Tail(worker) \in Seq(Job)
  BY <1>9, TailFacts
<1>13. m.kind = "start" => co[m.to].op.kind = "start"
  BY <1>2, <1>12 DEF FlightInv, WorkerOf, JobOf
<1>14. m.kind = "start" => /\ \A i \in DOMAIN pending : pending[i].owner # m.to
                           /\ current # None => current.owner # m.to
  <2>1. \A i \in DOMAIN pending : pending[i].kind # "start"
    <3>1. \A i \in DOMAIN pending : pending[i] \in Operation BY <1>9
    <3>2. QED BY <3>1 DEF Operation
  <2>2. current # None => current.kind # "start" BY <1>2 DEF QueueInv, Operation
  <2>3. QED BY <1>2, <1>13, <2>1, <2>2 DEF FlightInv, PendingOf, CurrentOf, Fits
<1>15. m.kind = "start" => \A i \in DOMAIN ps : ps[i].kind \in Asking => ps[i].to # m.to
  <2>1. SUFFICES ASSUME m.kind = "start", NEW i \in DOMAIN ps, ps[i].kind \in Asking, ps[i].to = m.to
                 PROVE  FALSE
    OBVIOUS
  <2>2. ps[i].kind = "start" BY <1>2, <1>10, <1>13, <2>1 DEF FlightInv, PostedOf, MessageOf
  <2>3. QED BY <1>2, <1>10, <1>12, <2>1, <2>2 DEF FlightInv, StartOf
<1>16. m.kind # "start" => m.kind \notin Asking BY DEF Asking
<1>17. PICK all : all = ps \o <<m>> OBVIOUS
<1>18. /\ posted' = all /\ <<m>> \in Seq(Message)
       /\ \A k \in DOMAIN all : (k \in DOMAIN ps /\ all[k] = ps[k]) \/ all[k] = m
       /\ \A k \in DOMAIN ps : k \in DOMAIN all /\ all[k] = ps[k]
       /\ \E k \in DOMAIN all : all[k] = m
  BY <1>9, <1>10, <1>17, AppendFacts
<1>19. PostedOf(cs, all)'
  <2>1. MessageOf(m, cs[m.to])' BY <1>1, <1>10
  <2>2. \A i \in DOMAIN <<m>> : i = 1 /\ <<m>>[i] = m OBVIOUS
  <2>3. PostedOf(cs, <<m>>)' BY <1>18, <2>1, <2>2 DEF PostedOf, Message, Owner
  <2>4. \A i \in DOMAIN ps : \A j \in DOMAIN <<m>> :
          ps[i].kind \in Asking /\ <<m>>[j].kind \in Asking => ps[i].to # <<m>>[j].to
    BY <1>15, <1>16, <2>2
  <2>5. QED BY <1>11, <1>17, <2>3, <2>4, PostedGrows
<1>20. PendingOf(co, posted)'
  <2>1. \A i \in DOMAIN pending : \A j \in DOMAIN all :
          all[j].kind \in Asking => all[j].to # pending[i].owner
    BY <1>2, <1>10, <1>14, <1>16, <1>18 DEF FlightInv, PendingOf
  <2>2. QED BY <1>1, <1>2, <1>18, <2>1 DEF FlightInv, PendingOf, Operation, Owner, Asking, Fits
<1>21. CurrentOf(co, posted)'
  <2>1. current # None => \A j \in DOMAIN all : all[j].kind \in Asking => all[j].to # current.owner
    BY <1>2, <1>10, <1>14, <1>16, <1>18 DEF FlightInv, CurrentOf
  <2>2. QED BY <1>1, <1>2, <1>18, <2>1 DEF FlightInv, CurrentOf, Asking, Fits
<1>22. StartOf(posted)'
  <2>1. PICK w : w = Tail(worker) OBVIOUS
  <2>2. \A i \in DOMAIN w : i + 1 \in DOMAIN worker /\ i + 1 # 1 /\ w[i] = worker[i + 1] /\ i \in Nat
    BY <1>12, <2>1
  <2>3. ASSUME NEW i \in DOMAIN w, NEW j \in DOMAIN w,
               w[i].kind = "start", w[j].kind = "start", w[i].owner = w[j].owner
        PROVE  i = j
    <3>1. i + 1 = j + 1 BY <1>2, <2>2, <2>3 DEF FlightInv, StartOf
    <3>2. QED BY <2>2, <3>1
  <2>4. ASSUME NEW i \in DOMAIN w, NEW j \in DOMAIN all, w[i].kind = "start", all[j].kind = "start"
        PROVE  w[i].owner # all[j].to
    <3>1. CASE all[j] = m
      <4>1. worker[1].kind = "start" /\ worker[1].owner = m.to BY <1>12, <2>4, <3>1
      <4>2. QED BY <1>2, <1>12, <2>2, <2>4, <3>1, <4>1 DEF FlightInv, StartOf
    <3>2. CASE j \in DOMAIN ps /\ all[j] = ps[j]
      BY <1>2, <1>10, <2>2, <2>4, <3>2 DEF FlightInv, StartOf
    <3>3. QED BY <1>18, <3>1, <3>2
  <2>5. worker' = w BY <2>1
  <2>6. QED BY <1>18, <2>3, <2>4, <2>5 DEF StartOf
<1>23. PostedOf(co, posted)' BY <1>1, <1>10, <1>18, <1>19
<1>24. WorkerOf(co)'
  <2>1. PICK w : w = Tail(worker) OBVIOUS
  <2>2. w \in Seq(Job) /\ \A i \in DOMAIN w : i + 1 \in DOMAIN worker /\ w[i] = worker[i + 1]
    BY <1>12, <2>1
  <2>3. \A i \in DOMAIN w : JobOf(w[i], cs[w[i].owner]) BY <1>2, <1>10, <2>2 DEF FlightInv, WorkerOf
  <2>4. worker' = w /\ stopped' = stopped /\ co' = cs BY <1>1, <1>10, <2>1
  <2>5. QED BY <2>2, <2>3, <2>4 DEF WorkerOf, JobOf, Job, Owner
<1>25. KnownOf(co, posted, NoProxy)'
  <2>1. SUFFICES ASSUME NEW x \in DOMAIN proxies', x # NoProxy
                 PROVE  Known(x, cs[proxies'[x].owner], proxies'[x].owner, all)
    BY <1>1, <1>10, <1>18 DEF KnownOf, Known
  <2>2. CASE x \in DOMAIN proxies
    <3>1. proxies'[x] = proxies[x] BY <2>2
    <3>2. Known(x, cs[proxies[x].owner], proxies[x].owner, ps)
      BY <1>2, <1>10, <2>1, <2>2 DEF FlightInv, KnownOf
    <3>3. QED BY <1>18, <3>1, <3>2 DEF Known
  <2>3. CASE x \notin DOMAIN proxies
    <3>1. m.kind = "start" /\ m.proxy = x /\ proxies'[x].owner = m.to BY <2>1, <2>3
    <3>2. QED BY <1>18, <3>1 DEF Known
  <2>4. QED BY <2>2, <2>3
<1>26. FlightInv(co, posted, NoProxy)' BY <1>20, <1>21, <1>22, <1>23, <1>24, <1>25 DEF FlightInv
<1>27. LoadsAsRouted' BY <1>1 DEF IInv, LoadsAsRouted
<1>28. QED BY <1>5, <1>8, <1>26, <1>27 DEF IInv

LEMMA WorkerHead ==
  ASSUME IInv, NEW kind, WorkerTask(kind)
  PROVE  /\ worker # <<>> /\ worker' = Tail(worker) /\ Head(worker).kind = kind
         /\ UNCHANGED <<claims, running, co, stopped, loaded>>
         /\ Head(worker) \in Job /\ Head(worker).owner \in Owner
         /\ JobOf(Head(worker), co[Head(worker).owner])
         /\ posted \in Seq(Message) /\ co' = co
<1>1. worker \in Seq(Job) /\ posted \in Seq(Message) /\ \A i \in DOMAIN worker : JobOf(worker[i], co[worker[i].owner])
  BY DEF IInv, FlightInv, WorkerOf, PostedOf
<1>2. worker # <<>> /\ Head(worker).kind = kind BY DEF WorkerTask
<1>3. Head(worker) = worker[1] /\ 1 \in DOMAIN worker /\ Head(worker) \in Job BY <1>1, <1>2, TailFacts
<1>4. Head(worker).owner \in Owner BY <1>3 DEF Job
<1>5. QED BY <1>1, <1>2, <1>3, <1>4 DEF WorkerTask

LEMMA StartProxyKeeps ==
  ASSUME IInv, StartProxy
  PROVE  IInv'
<1>1. WorkerTask("start") BY DEF StartProxy
<1>2. PICK k : k = Head(worker) OBVIOUS
<1>3. /\ worker # <<>> /\ worker' = Tail(worker) /\ k.kind = "start"
      /\ UNCHANGED <<claims, running, co, stopped, loaded>>
      /\ k \in Job /\ k.owner \in Owner /\ JobOf(k, co[k.owner]) /\ posted \in Seq(Message) /\ co' = co
  BY <1>1, <1>2, WorkerHead
<1>4. k.config \in Config
  BY <1>3, CoIs DEF JobOf, OpOf
<1>5. PICK x : x = [owner |-> k.owner, config |-> k.config] OBVIOUS
<1>6. x \in Proxy /\ x.owner = k.owner BY <1>3, <1>4, <1>5 DEF Proxy
<1>7. ProxiesInv BY DEF IInv
<1>8. proxies \in Seq(Proxy) /\ proxies' = Append(proxies, x) /\ joined' = joined
  BY <1>2, <1>5, <1>7 DEF StartProxy, ProxiesInv
<1>9. /\ proxies' \in Seq(Proxy) /\ Len(proxies') = Len(proxies) + 1
      /\ \A i \in DOMAIN proxies : i \in DOMAIN proxies' /\ proxies'[i] = proxies[i] /\ i # Len(proxies) + 1
      /\ \A i \in DOMAIN proxies' : i \in DOMAIN proxies \/ i = Len(proxies) + 1
      /\ Len(proxies) + 1 \in DOMAIN proxies' /\ proxies'[Len(proxies) + 1] = x
      /\ Len(proxies) + 1 \in Nat
  BY <1>6, <1>8, AppendFacts
<1>10. PICK n : n = Len(proxies) + 1 OBVIOUS
<1>11. PICK m : m = Callback(k.owner, "start", n) OBVIOUS
<1>12. m \in Message /\ m.kind = "start" /\ m.to = k.owner /\ m.proxy = n
  BY <1>3, <1>9, <1>10, <1>11 DEF Callback, Message
<1>13. posted' = Append(posted, m) BY <1>2, <1>9, <1>10, <1>11 DEF StartProxy
<1>14. ProxiesInv'
  <2>1. DOMAIN proxies \subseteq DOMAIN proxies' BY <1>9
  <2>2. stopped' = stopped BY <1>3
  <2>3. QED BY <1>7, <1>8, <1>9, <2>1, <2>2 DEF ProxiesInv, Proxy, Owner, Config
<1>15. MessageOf(m, co[m.to])'
  <2>1. co[m.to].op.kind = "start" BY <1>3, <1>12 DEF JobOf
  <2>2. n \notin co[m.to].retired
    <3>1. \A p \in co[m.to].retired : p \in DOMAIN proxies BY <1>3, <1>12, CoIs DEF HandsOf, Mine
    <3>2. QED BY <1>9, <1>10, <3>1
  <2>3. Mine(m.to, n)' BY <1>6, <1>9, <1>10, <1>12 DEF Mine
  <2>4. QED BY <1>3, <1>12, <2>1, <2>2, <2>3 DEF MessageOf, Asking
<1>16. QED BY <1>2, <1>3, <1>6, <1>8, <1>9, <1>10, <1>12, <1>13, <1>14, <1>15, WorkerRuns

LEMMA StartFailsKeeps ==
  ASSUME IInv, StartFails
  PROVE  IInv'
<1>1. WorkerTask("start") BY DEF StartFails
<1>2. PICK k : k = Head(worker) OBVIOUS
<1>3. /\ worker # <<>> /\ worker' = Tail(worker) /\ k.kind = "start"
      /\ UNCHANGED <<claims, running, co, stopped, loaded>>
      /\ k \in Job /\ k.owner \in Owner /\ JobOf(k, co[k.owner]) /\ posted \in Seq(Message) /\ co' = co
  BY <1>1, <1>2, WorkerHead
<1>4. PICK m : m = Callback(k.owner, "start", NoProxy) OBVIOUS
<1>5. m \in Message /\ m.kind = "start" /\ m.to = k.owner /\ m.proxy = NoProxy
  BY <1>3, <1>4 DEF Callback, Message, NoProxy
<1>6. posted' = Append(posted, m) /\ joined' = joined /\ proxies' = proxies
  BY <1>2, <1>4 DEF StartFails
<1>7. ProxiesInv' BY <1>3, <1>6 DEF IInv, ProxiesInv, Proxy, Owner, Config
<1>8. MessageOf(m, co[m.to])' BY <1>3, <1>5 DEF JobOf, MessageOf, Asking
<1>9. QED BY <1>2, <1>3, <1>5, <1>6, <1>7, <1>8, WorkerRuns

LEMMA JoinProxyKeeps ==
  ASSUME IInv, JoinProxy
  PROVE  IInv'
<1>1. WorkerTask("join") BY DEF JoinProxy
<1>2. PICK k : k = Head(worker) OBVIOUS
<1>3. /\ worker # <<>> /\ worker' = Tail(worker) /\ k.kind = "join"
      /\ UNCHANGED <<claims, running, co, stopped, loaded>>
      /\ k \in Job /\ k.owner \in Owner /\ JobOf(k, co[k.owner]) /\ posted \in Seq(Message) /\ co' = co
  BY <1>1, <1>2, WorkerHead
<1>4. PICK m : m = Callback(k.owner, "join", k.proxy) OBVIOUS
<1>5. m \in Message /\ m.kind = "join" /\ m.to = k.owner /\ m.proxy = k.proxy
  BY <1>3, <1>4 DEF Callback, Message, Job
<1>6. posted' = Append(posted, m) /\ joined' = joined \cup {k.proxy} /\ proxies' = proxies
  BY <1>2, <1>4 DEF JoinProxy
<1>7. k.proxy \in stopped /\ k.proxy \in co[k.owner].retired BY <1>3 DEF JobOf
<1>8. ProxiesInv' BY <1>3, <1>6, <1>7 DEF IInv, ProxiesInv, Proxy, Owner, Config
<1>9. MessageOf(m, co[m.to])' BY <1>3, <1>5, <1>6, <1>7 DEF MessageOf, Asking
<1>10. QED BY <1>2, <1>3, <1>5, <1>6, <1>8, <1>9, WorkerRuns

----------------------------------------------------------------------------
\* The end of a handler

\* The platform need not be asked: the operation is answered at once.
Answers(op, generation, base) ==
  /\ UNCHANGED running
  /\ \E ok \in BOOLEAN :
       /\ posted' = base \o <<Reply(op, ok)>>
       /\ op.kind = "apply" => ~ok
       /\ CanOverride => /\ ~NeedsPlatform(op, generation, activeOwner)
                         /\ op.kind = "acquire" => ok = (op.owner = generation)
Begins(op, generation, base) ==
  /\ CanOverride /\ current = None /\ NeedsPlatform(op, generation, activeOwner)
  /\ posted' = base /\ current' = op /\ pending' = <<>>
  /\ activeOwner' = (IF op.kind = "apply" THEN op.owner ELSE activeOwner)
  /\ override' = override \cup {Setting(op)}
Waits(op, base) ==
  /\ current # None /\ pending' = Append(pending, op) /\ posted' = base
  /\ current' = current /\ activeOwner' = activeOwner /\ override' = override

LEMMA SubmitCases ==
  ASSUME QueueInv, pending \in Seq(Operation), NEW op \in Operation, NEW generation,
         NEW base \in Seq(Message), Submit(op, generation, base)
  PROVE  Answers(op, generation, base) \/ Begins(op, generation, base) \/ Waits(op, base)
<1>1. CASE ~CanOverride
  <2>1. PICK ok \in BOOLEAN : ok = (op.kind # "apply") OBVIOUS
  <2>2. posted' = Append(base, Reply(op, ok)) /\ UNCHANGED running BY <1>1, <2>1 DEF Submit
  <2>3. PICK m : m = Reply(op, ok) OBVIOUS
  <2>4. m \in Message BY <2>3 DEF Reply, Message, Operation
  <2>5. Append(base, m) = base \o <<m>> BY <2>4, AppendFacts
  <2>6. QED BY <1>1, <2>1, <2>2, <2>3, <2>5 DEF Answers
<1>2. CASE CanOverride /\ current # None
  BY <1>2 DEF Submit, Waits
<1>3. CASE CanOverride /\ current = None
  <2>1. PICK ops : ops = <<op>> OBVIOUS
  <2>2. ops \in Seq(Operation) /\ Len(ops) = 1 /\ DOMAIN ops = 1..1 /\ ops[1] = op BY <2>1
  <2>3. Run(ops, generation, activeOwner, override, base) BY <1>3, <2>1 DEF Submit
  <2>p. PICK n \in 1..(Len(ops) + 1) : \E r : Ran(ops, generation, activeOwner, override, base, n, r)
    BY <2>2, <2>3, RunRan
  <2>4. PICK r : Ran(ops, generation, activeOwner, override, base, n, r)
    BY <2>p
  <2>5. /\ r \in Seq(Message) /\ DOMAIN r = 1..(n - 1) /\ posted' = base \o r
        /\ \A i \in 1..(n - 1) : /\ i \in DOMAIN ops /\ r[i] = InlineReply(ops[i], generation)
                                 /\ ~NeedsPlatform(ops[i], generation, activeOwner)
        /\ pending' \in Seq(Operation)
        /\ \A i \in DOMAIN pending' : n + i \in DOMAIN ops /\ i \in Nat \ {0}
    BY <2>4 DEF Ran
  <2>6. \/ /\ n \in DOMAIN ops /\ current' = ops[n] /\ NeedsPlatform(ops[n], generation, activeOwner)
           /\ activeOwner' = (IF ops[n].kind = "apply" THEN ops[n].owner ELSE activeOwner)
           /\ override' = override \cup {Setting(ops[n])}
        \/ /\ n = Len(ops) + 1 /\ current' = None /\ pending' = <<>>
           /\ activeOwner' = activeOwner /\ override' = override
    BY <2>4 DEF Ran
  <2>7. n = 1 \/ n = 2 BY <2>2
  <2>8. CASE n = 1
    <3>1. r = <<>> BY <2>5, <2>8
    <3>2. base \o r = base BY <3>1, ConcatEmptySeq
    <3>3. pending' = <<>>
      <4>1. \A i \in DOMAIN pending' : FALSE BY <2>2, <2>5, <2>8
      <4>2. PICK q : q = pending' OBVIOUS
      <4>3. q \in Seq(Operation) /\ \A i \in DOMAIN q : FALSE BY <2>5, <4>1, <4>2
      <4>4. Len(q) = 0 BY <4>3
      <4>5. q = <<>> BY <4>3, <4>4
      <4>6. QED BY <4>2, <4>5
    <3>4. QED BY <1>3, <2>2, <2>5, <2>6, <2>8, <3>2, <3>3 DEF Begins
  <2>9. CASE n = 2
    <3>1. r[1] = InlineReply(op, generation) /\ ~NeedsPlatform(op, generation, activeOwner)
      BY <2>2, <2>5, <2>9
    <3>2. r = <<r[1]>>
      <4>1. Len(r) = 1 BY <2>5, <2>9
      <4>2. PICK x : x = r[1] OBVIOUS
      <4>3. x \in Message
        <5>1. 1 \in 1..Len(r) BY <4>1
        <5>2. r \in Seq(Message) BY <2>5
        <5>3. r[1] \in Message BY <5>1, <5>2, ElementOfSeq
        <5>4. QED BY <4>2, <5>3
      <4>4. PICK t : t = <<x>> OBVIOUS
      <4>5. t \in Seq(Message) /\ Len(t) = 1 /\ t[1] = x BY <4>3, <4>4
      <4>6. \A i \in 1..Len(r) : r[i] = t[i] BY <4>1, <4>2, <4>5
      <4>7. r = t BY <2>5, <4>1, <4>5, <4>6, SeqEqual
      <4>8. QED BY <4>2, <4>4, <4>7
    <3>3. \E ok \in BOOLEAN : /\ r[1] = Reply(op, ok)
                              /\ op.kind = "apply" => ~ok
                              /\ op.kind = "acquire" => ok = (op.owner = generation)
      <4>1. op.kind \in {"acquire", "apply", "clear"} BY DEF Operation
      <4>2. CASE op.kind = "acquire"
        <5>1. PICK v \in BOOLEAN : v = (op.owner = generation) OBVIOUS
        <5>2. InlineReply(op, generation) = Reply(op, v) BY <4>2, <5>1 DEF InlineReply
        <5>3. QED BY <3>1, <4>2, <5>1, <5>2
      <4>3. CASE op.kind = "apply"
        <5>1. InlineReply(op, generation) = Reply(op, FALSE) BY <4>3 DEF InlineReply
        <5>2. QED BY <3>1, <4>3, <5>1
      <4>4. CASE op.kind = "clear"
        <5>1. InlineReply(op, generation) = Reply(op, TRUE) BY <4>4 DEF InlineReply
        <5>2. QED BY <3>1, <4>4, <5>1
      <4>5. QED BY <4>1, <4>2, <4>3, <4>4
    <3>4. UNCHANGED running
      <4>1. current' = None /\ pending' = <<>> /\ activeOwner' = activeOwner /\ override' = override
        BY <2>2, <2>6, <2>9
      <4>2. pending = <<>> BY <1>3 DEF QueueInv
      <4>3. QED BY <1>3, <4>1, <4>2 DEF running
    <3>5. QED BY <2>5, <3>1, <3>2, <3>3, <3>4 DEF Answers
  <2>10. QED BY <2>7, <2>8, <2>9
<1>4. QED BY <1>1, <1>2, <1>3

LEMMA SetToSeqElements ==
  ASSUME NEW S, IsFiniteSet(S)
  PROVE  SetToSeq(S) \in Seq(S) /\ DOMAIN SetToSeq(S) = 1..Cardinality(S)
<1>1. Cardinality(S) \in Nat /\ ExistsBijection(1..Cardinality(S), S) BY FS_CardinalityType
<1>2. PICK n \in Nat : n = Cardinality(S) BY <1>1
<1>3. \E f \in [1..n -> S] : IsInjective(f)
  BY <1>1, <1>2 DEF ExistsBijection, Bijection, Injection
<1>4. SetToSeq(S) \in [1..n -> S] BY <1>2, <1>3 DEF SetToSeq
<1>5. QED BY <1>2, <1>4

LEMMA JoinsAreJobs ==
  ASSUME NEW o \in Owner, NEW R, R \subseteq DOMAIN proxies, ProxiesInv
  PROVE  /\ SetToSeq({Task("join", o, p, None) : p \in R}) \in Seq(Job)
         /\ \A i \in DOMAIN SetToSeq({Task("join", o, p, None) : p \in R}) :
              \E x \in R : SetToSeq({Task("join", o, p, None) : p \in R})[i] = Task("join", o, x, None)
<1> DEFINE T == {Task("join", o, p, None) : p \in R}
<1>1. DOMAIN proxies = 1..Len(proxies) /\ Len(proxies) \in Nat BY DEF ProxiesInv
<1>2. IsFiniteSet(R)
  <2>1. PICK n \in Nat : n = Len(proxies) BY <1>1
  <2>2. IsFiniteSet(1..n) BY FS_Interval
  <2>3. R \in SUBSET (1..n) BY <1>1, <2>1
  <2>4. QED BY <2>2, <2>3, FS_Subset
<1>3. PICK f : f = [p \in R |-> Task("join", o, p, None)] OBVIOUS
<1>4. f \in Surjection(R, T) BY <1>3 DEF Surjection
<1>5. IsFiniteSet(T) BY <1>2, <1>4, FS_Surjection
<1>6. T \subseteq Job
  <2>1. \A p \in R : p \in Nat BY <1>1
  <2>2. QED BY <2>1 DEF Task, Job
<1>7. PICK s : s = SetToSeq(T) OBVIOUS
<1>8. s \in Seq(T) BY <1>5, <1>7, SetToSeqElements
<1>9. s \in Seq(Job) BY <1>6, <1>8, SeqMonotonic
<1>10. \A i \in DOMAIN s : s[i] \in T BY <1>8
<1>11. QED BY <1>7, <1>9, <1>10

\* One task to start a proxy at a time for each owner.
Alone(w) ==
  \A i, j \in DOMAIN w : w[i].kind = "start" /\ w[j].kind = "start" /\ w[i].owner = w[j].owner => i = j

LEMMA AloneGrows ==
  ASSUME NEW s \in Seq(Job), NEW t \in Seq(Job), Alone(s), Alone(t),
         \A i \in DOMAIN s : \A j \in DOMAIN t :
           s[i].kind = "start" /\ t[j].kind = "start" => s[i].owner # t[j].owner
  PROVE  Alone(s \o t)
<1>1. PICK u : u = s \o t OBVIOUS
<1>2. \A k \in DOMAIN u : \/ k \in DOMAIN s /\ u[k] = s[k]
                          \/ /\ k \notin DOMAIN s /\ k - Len(s) \in DOMAIN t
                             /\ u[k] = t[k - Len(s)] /\ k \in Int /\ Len(s) \in Int
  BY <1>1, ConcatFacts
<1>3. ASSUME NEW i \in DOMAIN u, NEW j \in DOMAIN u,
             u[i].kind = "start", u[j].kind = "start", u[i].owner = u[j].owner
      PROVE  i = j
  <2>1. CASE i \in DOMAIN s BY <1>2, <1>3, <2>1 DEF Alone
  <2>2. CASE i \notin DOMAIN s /\ j \in DOMAIN s BY <1>2, <1>3, <2>2
  <2>3. CASE i \notin DOMAIN s /\ j \notin DOMAIN s
    <3>1. i - Len(s) = j - Len(s) BY <1>2, <1>3, <2>3 DEF Alone
    <3>2. QED BY <1>2, <2>3, <3>1
  <2>4. QED BY <2>1, <2>2, <2>3
<1>4. QED BY <1>1, <1>3 DEF Alone

\* A handler of o may end with its coordinator brought to e.
Asked(e) ==
  /\ e.ask \in Asking /\ e.op.kind = e.ask /\ e.load = None /\ e.active = NoProxy
  /\ e.ask = "acquire" => ~e.ready
Left(e) ==
  ~e.ready /\ e.ask \in {"none", "clear"} /\ (e.op.kind # "clear" => ~Same(e))
Ends(o, e, leaving, base, late) ==
  /\ Sound(o, e) /\ Moves(o, co[o], e, base) /\ FlightInv(co, base, late)
  /\ late \in DOMAIN proxies => late \in e.retired \cup {e.candidate} /\ proxies[late].owner = o
  /\ e.ask # "none" => Asked(e) /\ Free(o, base)
  /\ e.load # None => Loadable(o, e)
  /\ leaving => Left(e)

\* The displaced owner, if any, is the one that had the claim.
LEMMA DisplacedIs ==
  ASSUME QueueInv, NEW o \in Owner
  PROVE  /\ Displaced(o) \subseteq Owner /\ o \notin Displaced(o)
         /\ IsFiniteSet(Displaced(o)) /\ Cardinality(Displaced(o)) \in Nat
         /\ \A p \in Displaced(o) : CanOverride /\ o > latest /\ Generation(o) = o
         /\ \A p \in Owner : CanOverride /\ Claimed(p) /\ Generation(o) > latest /\ p # o => p \in Displaced(o)
         /\ Generation(o) \in 0..Owners /\ latest <= Generation(o)
         /\ Generation(o) > latest => CanOverride /\ o > latest /\ Generation(o) = o
         /\ CanOverride => o <= Generation(o)
         /\ ~CanOverride => Generation(o) = latest
<1>1. latest \in 0..Owners /\ o \in 1..Owners /\ Owners \in Nat
  BY OwnersAssumption DEF QueueInv, Using, Owner
<1>2. /\ Generation(o) \in 0..Owners /\ latest <= Generation(o)
      /\ Generation(o) > latest => CanOverride /\ o > latest /\ Generation(o) = o
      /\ CanOverride => o <= Generation(o)
      /\ ~CanOverride => Generation(o) = latest
  BY <1>1 DEF Generation
<1>3. Displaced(o) \subseteq {claimed} \cap Owner /\ o \notin Displaced(o)
  BY DEF QueueInv, Displaced
<1>4. IsFiniteSet(Displaced(o))
  <2>1. IsFiniteSet({claimed}) BY FS_Singleton
  <2>2. Displaced(o) \in SUBSET {claimed} BY <1>3
  <2>3. QED BY <2>1, <2>2, FS_Subset
<1>5. Cardinality(Displaced(o)) \in Nat BY <1>4, FS_CardinalityType
<1>6. \A p \in Displaced(o) : Generation(o) > latest BY DEF Displaced
<1>7. \A p \in Owner : CanOverride /\ Claimed(p) /\ Generation(o) > latest /\ p # o => p \in Displaced(o)
  BY DEF Displaced, Claimed
<1>8. QED BY <1>2, <1>3, <1>4, <1>5, <1>6, <1>7

\* What the owner that ends its handler asks for does not disturb the one that serves.
LEMMA Undisturbed ==
  ASSUME QueueInv, NEW o \in Owner, NEW p \in Owner, p # o, NEW x, Claimed(p), Serves(p, x),
         NEW op \in Operation, op.owner = o, NEW generation, NEW base,
         Answers(op, generation, base) \/ Begins(op, generation, base) \/ Waits(op, base),
         \/ op.kind = "acquire" /\ generation = Generation(o) /\ p \notin Displaced(o)
         \/ op.kind \in {"apply", "clear"} /\ generation = latest
  PROVE  Serves(p, x)'
<1>1. CASE Answers(op, generation, base) BY <1>1 DEF Answers, running, Serves
<1>2. CASE Waits(op, base) BY <1>2 DEF Waits, Serves
<1>3. CASE Begins(op, generation, base)
  <2>1. CanOverride /\ latest = p /\ activeOwner = p BY DEF Claimed, Serves
  <2>2. NeedsPlatform(op, generation, activeOwner) BY <1>3 DEF Begins
  <2>3. CASE op.kind = "acquire"
    <3>1. o = Generation(o) BY <2>2, <2>3 DEF NeedsPlatform
    <3>2. latest \in Int /\ o \in Int /\ o >= latest
      BY <3>1, DisplacedIs, OwnersAssumption DEF QueueInv, Using, Owner
    <3>3. Generation(o) > latest BY <2>1, <3>1, <3>2
    <3>4. QED BY <2>1, <2>3, <3>3, DisplacedIs
  <2>4. CASE op.kind = "apply" BY <2>1, <2>2, <2>4 DEF NeedsPlatform
  <2>5. CASE op.kind = "clear" BY <2>1, <2>2, <2>5 DEF NeedsPlatform
  <2>6. QED BY <2>3, <2>4, <2>5 DEF Operation
<1>4. QED BY <1>1, <1>2, <1>3

\* The coordinators after the handler.
After(o, e, p) ==
  CASE p = o -> [e EXCEPT !.ask = "none", !.load = None]
    [] p # o /\ p \in (IF e.ask = "acquire" THEN Displaced(o) ELSE {}) ->
         [co[p] EXCEPT !.gate = TRUE, !.published = NoProxy, !.challenge = NoProxy, !.compat = None]
    [] OTHER -> co[p]

\* The same coordinator, except for what the handler asked for.
SameCo(c, e) ==
  /\ e.op = c.op /\ e.enabled = c.enabled /\ e.ready = c.ready /\ e.destroyed = c.destroyed
  /\ e.epoch = c.epoch /\ e.installed = c.installed /\ e.settled = c.settled
  /\ e.active = c.active /\ e.candidate = c.candidate /\ e.retired = c.retired

LEMMA AfterOwn ==
  ASSUME NEW o \in Owner, NEW e \in Coordinator
  PROVE  /\ After(o, e, o) \in Coordinator /\ SameCo(e, After(o, e, o))
         /\ After(o, e, o).ask = "none" /\ After(o, e, o).load = None
         /\ After(o, e, o).gate = e.gate /\ SameHands(e, After(o, e, o))
<1>1. PICK d : d = [e EXCEPT !.ask = "none", !.load = None] OBVIOUS
<1>2. d \in Coordinator BY <1>1 DEF Coordinator
<1>3. /\ SameCo(e, d) /\ d.ask = "none" /\ d.load = None /\ d.gate = e.gate /\ SameHands(e, d)
  BY <1>1 DEF Coordinator, SameCo, SameHands
<1>4. After(o, e, o) = d BY <1>1 DEF After
<1>5. QED BY <1>2, <1>3, <1>4

LEMMA AfterOther ==
  ASSUME IInv, NEW o \in Owner, NEW e, NEW p \in Owner, p # o
  PROVE  /\ After(o, e, p) \in Coordinator /\ SameCo(co[p], After(o, e, p))
         /\ After(o, e, p).ask = "none" /\ After(o, e, p).load = None
         /\ co[p].gate => After(o, e, p).gate
         /\ Sound(p, After(o, e, p))
         /\ After(o, e, p) = co[p] \/ After(o, e, p).gate
         /\ e.ask = "acquire" /\ p \in Displaced(o) => After(o, e, p).gate
         /\ ~(e.ask = "acquire" /\ p \in Displaced(o)) => After(o, e, p) = co[p]
<1>1. /\ Rest(p, co[p]) /\ Sound(p, co[p]) /\ co[p] \in Coordinator /\ HandsOf(p, co[p])
      /\ OpOf(p, co[p]) /\ RightsOf(p, co[p])
  BY CoIs
<1>2. PICK c : c = co[p] OBVIOUS
<1>3. PICK d : d = [c EXCEPT !.gate = TRUE, !.published = NoProxy, !.challenge = NoProxy, !.compat = None]
  OBVIOUS
<1>4. d \in Coordinator BY <1>1, <1>2, <1>3 DEF Coordinator, NoProxy
<1>5. /\ SameCo(c, d) /\ d.ask = c.ask /\ d.load = c.load /\ d.gate /\ d.published = NoProxy
      /\ d.challenge = NoProxy
  BY <1>1, <1>2, <1>3 DEF Coordinator, SameCo
<1>6. Sound(p, d)
  <2>1. HandsOf(p, d) BY <1>1, <1>2, <1>5 DEF HandsOf, SameCo
  <2>2. OpOf(p, d) BY <1>1, <1>2, <1>5 DEF OpOf, SameCo, Same
  <2>3. RightsOf(p, d) BY <1>1, <1>2, <1>5 DEF RightsOf, SameCo
  <2>4. ActiveOf(p, d) BY <1>1, <1>2, <1>5 DEF Sound, ActiveOf, SameCo
  <2>5. QED BY <1>4, <2>1, <2>2, <2>3, <2>4 DEF Sound, Core
<1>7. CASE e.ask = "acquire" /\ p \in Displaced(o)
  <2>1. After(o, e, p) = d BY <1>2, <1>3, <1>7 DEF After
  <2>2. QED BY <1>1, <1>2, <1>4, <1>5, <1>6, <1>7, <2>1 DEF Rest
<1>8. CASE ~(e.ask = "acquire" /\ p \in Displaced(o))
  <2>1. After(o, e, p) = co[p] BY <1>8 DEF After
  <2>2. QED BY <1>1, <1>8, <2>1 DEF Rest, SameCo
<1>9. QED BY <1>7, <1>8

\* The claims and the override after the handler.
CommitRights(o, e, leaving, posts) ==
  /\ e.ask = "acquire" => Claim(o)
  /\ e.ask # "acquire" /\ leaving => Release(o)
  /\ e.ask # "acquire" /\ ~leaving => UNCHANGED claims
  /\ IF e.ask \in {"acquire", "apply", "clear"}
     THEN \E op \in Operation : \E generation :
            /\ op.owner = o /\ op.kind = e.ask /\ op.proxy = e.op.proxy
            /\ generation = (IF e.ask = "acquire" THEN Generation(o) ELSE latest)
            /\ \/ Answers(op, generation, posts) \/ Begins(op, generation, posts) \/ Waits(op, posts)
     ELSE posted' = posts /\ UNCHANGED running

\* The tasks for the worker.
CommitTasks(o, e) ==
  \E J, S \in Seq(Job) :
    /\ worker' = (worker \o J) \o S
    /\ \A i \in DOMAIN J : \E p \in e.retired \ co[o].retired : J[i] = Task("join", o, p, None)
    /\ e.ask = "start" => S = <<Task("start", o, NoProxy, e.op.config)>>
    /\ e.ask # "start" => S = <<>>

\* The proxies told to stop.
CommitStops(o, e) ==
  \A p \in stopped' :
    \/ p \in stopped
    \/ p \in e.retired
    \/ e.ask = "acquire" /\ \E q \in Displaced(o) : p # NoProxy /\ p \in {co[q].published, co[q].challenge}

\* The page loaded.
CommitLoads(e) ==
  \/ e.load = None /\ loaded' = loaded
  \/ /\ e.load # None
     /\ loaded' = [target |-> e.load.target, route |-> e.load.route, proxy |-> e.published,
                   override |-> override, stopped |-> e.published \in stopped]

LEMMA CommitActs ==
  ASSUME IInv, NEW o \in Owner, NEW e \in Coordinator, NEW leaving \in BOOLEAN, NEW base \in Seq(Message),
         Commit(o, e, leaving, base),
         HandsOf(o, e), leaving => e.ask # "acquire"
  PROVE  /\ co' = [p \in Owner |-> After(o, e, p)]
         /\ CommitTasks(o, e) /\ CommitStops(o, e) /\ CommitLoads(e)
         /\ stopped \subseteq stopped' /\ e.retired \ co[o].retired \subseteq stopped'
         /\ proxies' = proxies /\ joined' = joined
         /\ \E revoked \in Seq(Message) :
              /\ \A i \in DOMAIN revoked :
                   e.ask = "acquire" /\ revoked[i].to \in Displaced(o) /\ revoked[i].kind = "revoked"
              /\ CommitRights(o, e, leaving, base \o revoked)
<1> DEFINE retiring == e.retired \ co[o].retired
           Join(p) == Task("join", o, p, None)
           gone == IF e.ask = "acquire" THEN Displaced(o) ELSE {}
<1>1. QueueInv /\ ProxiesInv /\ FlightInv(co, posted, NoProxy) BY DEF IInv
<1>2. /\ gone \subseteq Owner /\ IsFiniteSet(gone) /\ Cardinality(gone) \in Nat
  <2>1. IsFiniteSet({}) /\ Cardinality({}) = 0 BY FS_EmptySet
  <2>2. QED BY <1>1, <2>1, DisplacedIs
<1>3. co' = [p \in Owner |-> After(o, e, p)]
  BY DEF Commit, After
<1>4. PICK S : S = IF e.ask = "start" THEN <<Task("start", o, NoProxy, e.op.config)>> ELSE <<>> OBVIOUS
<1>5. S \in Seq(Job)
  <2>1. CASE e.ask = "start"
    <3>1. e.op.config \in Config \cup {None} BY DEF Coordinator, Op
    <3>2. PICK t : t = Task("start", o, NoProxy, e.op.config) OBVIOUS
    <3>3. t \in Job BY <3>1, <3>2 DEF Task, Job, NoProxy
    <3>4. QED BY <1>4, <2>1, <3>2, <3>3
  <2>2. CASE e.ask # "start" BY <1>4, <2>2
  <2>3. QED BY <2>1, <2>2
<1>6. PICK J : J = SetToSeq({Task("join", o, p, None) : p \in retiring}) OBVIOUS
<1>7. /\ J \in Seq(Job)
      /\ \A i \in DOMAIN J : \E p \in e.retired \ co[o].retired : J[i] = Task("join", o, p, None)
  <2>1. retiring \subseteq DOMAIN proxies
    BY DEF HandsOf, Mine
  <2>2. PICK R : R = retiring OBVIOUS
  <2>3. /\ SetToSeq({Task("join", o, p, None) : p \in R}) \in Seq(Job)
        /\ \A i \in DOMAIN SetToSeq({Task("join", o, p, None) : p \in R}) :
             \E x \in R : SetToSeq({Task("join", o, p, None) : p \in R})[i] = Task("join", o, x, None)
    BY <1>1, <2>1, <2>2, JoinsAreJobs
  <2>4. J = SetToSeq({Task("join", o, p, None) : p \in R}) BY <1>6, <2>2
  <2>5. QED BY <2>2, <2>3, <2>4
<1>8. worker' = (worker \o J) \o S BY <1>4, <1>6 DEF Commit
<1>9. /\ CommitStops(o, e)
      /\ stopped \subseteq stopped' /\ e.retired \ co[o].retired \subseteq stopped'
  <2>1. stopped' = (stopped \cup retiring \cup {co[p].published : p \in gone}
                            \cup {co[p].challenge : p \in gone}) \ {NoProxy}
    BY DEF Commit
  <2>2. NoProxy \notin stopped /\ NoProxy \notin retiring
    <3>1. NoProxy \notin DOMAIN proxies BY <1>1 DEF ProxiesInv, NoProxy
    <3>2. QED BY <1>1, <3>1 DEF ProxiesInv, HandsOf, Mine
  <2>3. QED BY <2>1, <2>2 DEF CommitStops
<1>10. CommitLoads(e) BY DEF Commit, CommitLoads
<1>11. proxies' = proxies /\ joined' = joined BY DEF Commit
<1>12. PICK revoked : revoked = [i \in 1..Cardinality(gone) |-> Callback(SetToSeq(gone)[i], "revoked", NoProxy)]
  OBVIOUS
<1>13. /\ revoked \in Seq(Message)
       /\ \A i \in DOMAIN revoked : /\ e.ask = "acquire" /\ revoked[i].to \in Displaced(o)
                                    /\ revoked[i].kind = "revoked"
  <2>1. PICK n \in Nat : n = Cardinality(gone) BY <1>2
  <2>2. PICK g : g = SetToSeq(gone) OBVIOUS
  <2>3. g \in Seq(gone) /\ DOMAIN g = 1..n BY <1>2, <2>1, <2>2, SetToSeqElements
  <2>4. \A i \in 1..n : g[i] \in gone BY <2>3
  <2>5. revoked = [i \in 1..n |-> Callback(g[i], "revoked", NoProxy)] BY <1>12, <2>1, <2>2
  <2>6. \A i \in 1..n : /\ revoked[i] \in Message /\ revoked[i].to \in gone /\ revoked[i].kind = "revoked"
    <3>1. \A x \in Owner : /\ Callback(x, "revoked", NoProxy) \in Message
                           /\ Callback(x, "revoked", NoProxy).to = x
                           /\ Callback(x, "revoked", NoProxy).kind = "revoked"
      BY DEF Callback, Message, NoProxy
    <3>2. QED BY <1>2, <2>4, <2>5, <3>1
  <2>7. revoked \in [1..n -> Message] BY <2>5, <2>6
  <2>8. DOMAIN revoked = 1..n BY <2>5
  <2>9. revoked \in Seq(Message) BY <2>7
  <2>10. \A x \in gone : e.ask = "acquire" /\ x \in Displaced(o) OBVIOUS
  <2>11. QED BY <2>6, <2>8, <2>9, <2>10
<1>14. CommitRights(o, e, leaving, base \o revoked)
  <2>1. PICK posts : posts = base \o revoked OBVIOUS
  <2>2. posts \in Seq(Message) BY <1>13, <2>1, ConcatProperties
  <2>3. /\ e.ask = "acquire" => Claim(o)
        /\ e.ask # "acquire" /\ leaving => Release(o)
        /\ e.ask # "acquire" /\ ~leaving => UNCHANGED claims
    <3>1. CASE e.ask = "acquire" BY <3>1 DEF Commit
    <3>2. CASE e.ask # "acquire" /\ leaving BY <3>2 DEF Commit
    <3>3. CASE e.ask # "acquire" /\ ~leaving BY <3>3 DEF Commit
    <3>4. QED BY <3>1, <3>2, <3>3
  <2>4. CASE e.ask \in {"acquire", "apply", "clear"}
    <3>1. PICK op : op = [kind |-> e.ask, owner |-> o, proxy |-> e.op.proxy] OBVIOUS
    <3>2. op \in Operation BY <2>4, <3>1 DEF Operation, Coordinator, Op
    <3>3. PICK generation : generation = (IF e.ask = "acquire" THEN Generation(o) ELSE latest) OBVIOUS
    <3>4. Submit(op, generation, posts) BY <1>12, <2>1, <2>4, <3>1, <3>3 DEF Commit
    <3>5. Answers(op, generation, posts) \/ Begins(op, generation, posts) \/ Waits(op, posts)
      <4>1. pending \in Seq(Operation) BY <1>1 DEF FlightInv, PendingOf
      <4>2. QED BY <1>1, <2>2, <3>2, <3>4, <4>1, SubmitCases
    <3>6. op.owner = o /\ op.kind = e.ask /\ op.proxy = e.op.proxy BY <3>1
    <3>7. \E x \in Operation : \E y :
            /\ x.owner = o /\ x.kind = e.ask /\ x.proxy = e.op.proxy
            /\ y = (IF e.ask = "acquire" THEN Generation(o) ELSE latest)
            /\ \/ Answers(x, y, posts) \/ Begins(x, y, posts) \/ Waits(x, posts)
      BY <3>2, <3>3, <3>5, <3>6
    <3>8. QED BY <2>1, <2>3, <2>4, <3>7 DEF CommitRights
  <2>5. CASE e.ask \notin {"acquire", "apply", "clear"}
    <3>1. posted' = base /\ UNCHANGED running BY <2>5 DEF Commit
    <3>2. DOMAIN revoked = {} BY <1>13, <2>5
    <3>3. revoked = <<>> BY <1>13, <3>2
    <3>4. posts = base BY <2>1, <3>3, ConcatEmptySeq
    <3>5. QED BY <2>1, <2>3, <2>5, <3>1, <3>4 DEF CommitRights
  <2>6. QED BY <2>4, <2>5
<1>15. CommitTasks(o, e) BY <1>4, <1>5, <1>7, <1>8 DEF CommitTasks
<1>16. QED BY <1>3, <1>9, <1>10, <1>11, <1>13, <1>14, <1>15

\* What the handler makes of the claims.
ClaimsAfter(o, e, leaving) ==
  /\ latest' \in 0..Owners /\ latest <= latest' /\ claimed' \in 0..Owners /\ listening' \subseteq Owner
  /\ latest' = (IF e.ask = "acquire" THEN Generation(o) ELSE latest)
  /\ ~CanOverride => latest' = latest
  /\ e.ask = "acquire" => Claimed(o)' \/ (CanOverride /\ o < latest')
  /\ \A p \in Owner : Claimed(p) /\ p # o /\ ~(e.ask = "acquire" /\ p \in Displaced(o)) => Claimed(p)'
  /\ Claimed(o) /\ ~leaving => Claimed(o)'

LEMMA ClaimsChange ==
  ASSUME QueueInv, NEW o \in Owner, NEW e, NEW leaving \in BOOLEAN, NEW posts,
         CommitRights(o, e, leaving, posts)
  PROVE  ClaimsAfter(o, e, leaving)
<1>1. /\ latest \in 0..Owners /\ o \in 1..Owners /\ Owners \in Nat /\ claimed \in 0..Owners
      /\ listening \subseteq Owner
  BY OwnersAssumption DEF QueueInv, Using, Owner
<1>2. PICK g : g = Generation(o) OBVIOUS
<1>3. /\ g \in 0..Owners /\ latest <= g /\ (~CanOverride => g = latest) /\ (CanOverride => o <= g)
      /\ \A p \in Owner : CanOverride /\ Claimed(p) /\ g > latest /\ p # o => p \in Displaced(o)
  BY <1>2, DisplacedIs
<1>4. CASE e.ask = "acquire"
  <2>1. Claim(o) BY <1>4 DEF CommitRights
  <2>2. latest' = g BY <1>2, <2>1 DEF Claim
  <2>3. CASE CanOverride /\ o = g
    <3>1. claimed' = o /\ listening' = (listening \ Displaced(o)) \cup {o}
      BY <1>2, <2>1, <2>3 DEF Claim
    <3>2. Claimed(o)' BY <2>2, <2>3, <3>1 DEF Claimed
    <3>3. ASSUME NEW p \in Owner, Claimed(p), p # o PROVE p \in Displaced(o)
      <4>1. latest = p BY <2>3, <3>3 DEF Claimed
      <4>2. g > latest BY <1>1, <1>3, <2>3, <3>3, <4>1
      <4>3. QED BY <1>3, <2>3, <3>3, <4>2
    <3>4. claimed' \in 0..Owners /\ listening' \subseteq Owner
      <4>1. o \in 0..Owners BY <1>1
      <4>2. (listening \ Displaced(o)) \cup {o} \subseteq Owner BY <1>1
      <4>3. QED BY <3>1, <4>1, <4>2
    <3>5. Claimed(o) => Claimed(o)' BY <3>2
    <3>6. QED BY <1>2, <1>3, <1>4, <2>2, <3>2, <3>3, <3>4, <3>5 DEF ClaimsAfter
  <2>4. CASE ~(CanOverride /\ o = g)
    <3>1. claimed' = claimed /\ listening' = listening BY <1>2, <2>1, <2>4 DEF Claim
    <3>2. CanOverride => o < g BY <1>1, <1>3, <2>4
    <3>3. Claimed(o)' \/ (CanOverride /\ o < latest')
      BY <2>2, <3>2 DEF Claimed
    <3>4. CanOverride => ~Claimed(o) BY <1>1, <1>2, <2>4, <3>2 DEF Claimed, Generation
    <3>5. ASSUME NEW p \in Owner, Claimed(p), p # o, p \notin Displaced(o) PROVE Claimed(p)'
      <4>1. CASE CanOverride
        <5>1. ~(g > latest) BY <1>3, <3>5, <4>1
        <5>2. g = latest BY <1>1, <1>3, <5>1
        <5>3. QED BY <2>2, <3>1, <3>5, <5>2 DEF Claimed
      <4>2. CASE ~CanOverride BY <4>2 DEF Claimed
      <4>3. QED BY <4>1, <4>2
    <3>6. ~CanOverride => Claimed(o)' BY DEF Claimed
    <3>7. QED BY <1>1, <1>2, <1>3, <1>4, <2>2, <3>1, <3>3, <3>4, <3>5, <3>6 DEF ClaimsAfter
  <2>5. QED BY <2>3, <2>4
<1>5. CASE e.ask # "acquire" /\ leaving
  <2>1. Release(o) BY <1>5 DEF CommitRights
  <2>2. latest' = latest /\ listening' = listening \ {o} /\ claimed' = (IF claimed = o THEN NoOwner ELSE claimed)
    BY <2>1 DEF Release
  <2>3. claimed' \in 0..Owners BY <1>1, <2>2 DEF NoOwner
  <2>4. ASSUME NEW p \in Owner, Claimed(p), p # o PROVE Claimed(p)'
    BY <2>2, <2>4 DEF Claimed
  <2>5. QED BY <1>1, <1>5, <2>2, <2>3, <2>4 DEF ClaimsAfter
<1>6. CASE e.ask # "acquire" /\ ~leaving
  <2>1. latest' = latest /\ claimed' = claimed /\ listening' = listening
    BY <1>6 DEF CommitRights, claims
  <2>2. \A p : Claimed(p) => Claimed(p)' BY <2>1 DEF Claimed
  <2>3. QED BY <1>1, <1>6, <2>1, <2>2 DEF ClaimsAfter
<1>7. QED BY <1>4, <1>5, <1>6

\* What it makes of the override: only its own apply changes the owner.
LEMMA QueueChange ==
  ASSUME QueueInv, NEW o \in Owner, NEW e, NEW leaving \in BOOLEAN, NEW posts,
         CommitRights(o, e, leaving, posts), proxies' = proxies,
         Sound(o, e), e.ask # "none" => Asked(e)
  PROVE  /\ QueueInv'
         /\ \A p : activeOwner' = p => activeOwner = p \/ (p = o /\ e.op.kind = "apply")
         /\ \A p \in Owner : Entitled(p) => Entitled(p)'
         /\ e.ask \notin {"acquire", "apply", "clear"} => UNCHANGED running
<1>1. /\ latest \in 0..Owners /\ o \in 1..Owners /\ Owners \in Nat /\ claimed \in 0..Owners
      /\ listening \subseteq Owner /\ Using(latest, activeOwner, override)
  BY OwnersAssumption DEF QueueInv, Using, Owner
<1>2. ClaimsAfter(o, e, leaving) BY ClaimsChange
<1>3. PICK l \in 0..Owners : l = latest' BY <1>2 DEF ClaimsAfter
<1>4. latest <= l /\ (~CanOverride => l = latest)
      /\ l = (IF e.ask = "acquire" THEN Generation(o) ELSE latest)
  BY <1>2, <1>3 DEF ClaimsAfter
<1>5. Using(l, activeOwner, override)
  BY <1>1, <1>4 DEF Using
<1>6. \A x, y, z : Using(x, y, z) => Using(x, y, z)'
  <2>1. \A x, y : Mine(x, y)' <=> Mine(x, y) BY DEF Mine
  <2>2. QED BY <2>1 DEF Using
<1>7. CASE UNCHANGED running
  <2>1. pending' = pending /\ current' = current /\ activeOwner' = activeOwner /\ override' = override
    BY <1>7 DEF running
  <2>3. Using(latest, activeOwner, override)' BY <1>3, <1>5, <1>6, <2>1 DEF Using, Mine
  <2>4. current # None /\ current.kind = "acquire" => activeOwner < current.owner /\ current.owner <= l
    <3>1. current # None => current.owner \in Int BY OwnersAssumption DEF QueueInv, Operation, Owner
    <3>2. QED BY <1>1, <1>4, <3>1 DEF QueueInv
  <2>5. QueueInv' BY <1>2, <1>3, <1>4, <2>1, <2>3, <2>4 DEF QueueInv, ClaimsAfter, Operation, Owner
  <2>6. \A p \in Owner : Entitled(p) => Entitled(p)'
    <3>1. \A p \in Owner : p \in Int BY OwnersAssumption DEF Owner
    <3>2. QED BY <1>1, <1>3, <1>4, <2>1, <3>1 DEF Entitled
  <2>7. QED BY <1>7, <2>1, <2>5, <2>6
<1>8. ASSUME e.ask \in {"acquire", "apply", "clear"},
             NEW op \in Operation, NEW generation,
             op.owner = o, op.kind = e.ask, op.proxy = e.op.proxy,
             generation = (IF e.ask = "acquire" THEN Generation(o) ELSE latest),
             Begins(op, generation, posts) \/ Waits(op, posts)
      PROVE  /\ QueueInv'
             /\ \A p : activeOwner' = p => activeOwner = p \/ (p = o /\ e.op.kind = "apply")
             /\ \A p \in Owner : Entitled(p) => Entitled(p)'
  <2>1. generation = l BY <1>4, <1>8
  <2>2. CASE Waits(op, posts)
    <3>1. current # None /\ current' = current /\ activeOwner' = activeOwner /\ override' = override
      BY <2>2 DEF Waits
    <3>2. Using(latest, activeOwner, override)' BY <1>3, <1>5, <1>6, <3>1 DEF Using, Mine
    <3>3. current.kind = "acquire" => activeOwner < current.owner /\ current.owner <= l
      <4>1. current.owner \in Int BY <3>1, OwnersAssumption DEF QueueInv, Operation, Owner
      <4>2. QED BY <1>1, <1>4, <3>1, <4>1 DEF QueueInv
    <3>4. QueueInv' BY <1>2, <1>3, <1>4, <3>1, <3>2, <3>3 DEF QueueInv, ClaimsAfter, Operation, Owner
    <3>5. \A p \in Owner : Entitled(p) => Entitled(p)'
      <4>1. \A p \in Owner : p \in Int BY OwnersAssumption DEF Owner
      <4>2. QED BY <1>1, <1>3, <1>4, <3>1, <4>1 DEF Entitled
    <3>6. QED BY <3>1, <3>4, <3>5
  <2>3. CASE Begins(op, generation, posts)
    <3>1. /\ CanOverride /\ current = None /\ NeedsPlatform(op, l, activeOwner)
          /\ current' = op /\ pending' = <<>>
          /\ activeOwner' = (IF op.kind = "apply" THEN op.owner ELSE activeOwner)
          /\ override' = override \cup {Setting(op)}
      BY <2>1, <2>3 DEF Begins
    <3>2. op.kind = "apply" => Mine(op.owner, op.proxy) /\ Entitled(o) /\ l = latest
      BY <1>4, <1>8 DEF Asked, Sound, Core, OpOf
    <3>3. op.kind = "apply" => op.owner = l BY <3>1 DEF NeedsPlatform
    <3>4. op.kind = "apply" => (op.owner = l => activeOwner \in {NoOwner, op.owner})
      BY <1>8, <3>1, <3>2 DEF Entitled
    <3>5. PICK a : a = activeOwner' OBVIOUS
    <3>6. PICK s : s = override' OBVIOUS
    <3>7. /\ Using(l, a, s)
          /\ op.kind = "clear" => activeOwner = op.owner
          /\ op.kind = "acquire" => activeOwner < op.owner /\ op.owner <= l
      <4>1. a = (IF op.kind = "apply" THEN op.owner ELSE activeOwner) /\ s = override \cup {Setting(op)}
        BY <3>1, <3>5, <3>6
      <4>2. \A x, y, z : Using(l, x, y) /\ NeedsPlatform(op, l, x) /\ z = y \cup {Setting(op)}
                         /\ (op.kind = "apply" => Mine(op.owner, op.proxy)
                                                /\ (op.owner = l => x \in {NoOwner, op.owner}))
                         => /\ Using(l, IF op.kind = "apply" THEN op.owner ELSE x, z)
                            /\ op.kind = "clear" => x = op.owner
                            /\ op.kind = "acquire" => x < op.owner /\ op.owner <= l
        BY Starts
      <4>3. QED BY <1>5, <3>1, <3>2, <3>4, <4>1, <4>2
    <3>8. Using(latest, activeOwner, override)' BY <1>3, <1>6, <3>5, <3>6, <3>7 DEF Using, Mine
    <3>9. op # None BY NoneAssumption
    <3>10. /\ op.kind \in {"apply", "clear"} => a = op.owner
           /\ op.kind = "acquire" => a < op.owner /\ op.owner <= l
      BY <3>1, <3>5, <3>7
    <3>11. QueueInv' BY <1>2, <1>3, <3>1, <3>5, <3>8, <3>9, <3>10 DEF QueueInv, ClaimsAfter, Operation, Owner
    <3>12. ASSUME NEW p \in Owner, Entitled(p) PROVE Entitled(p)'
      <4>1. p \in Int BY OwnersAssumption DEF Owner
      <4>2. p <= latest BY <3>1, <3>12 DEF Entitled
      <4>3. CASE p = l
        <5>1. p = latest /\ activeOwner \in {NoOwner, p} BY <1>1, <1>4, <3>1, <3>12, <4>1, <4>2, <4>3 DEF Entitled
        <5>2. activeOwner' \in {NoOwner, p} BY <3>1, <3>3, <4>3, <5>1
        <5>3. QED BY <1>3, <4>1, <4>3, <5>2 DEF Entitled
      <4>4. CASE p # l BY <1>1, <1>3, <1>4, <4>1, <4>2, <4>4 DEF Entitled
      <4>5. QED BY <4>3, <4>4
    <3>13. e.op.kind = e.ask BY <1>8 DEF Asked
    <3>14. QED BY <1>8, <3>1, <3>11, <3>12, <3>13
  <2>4. QED BY <1>8, <2>2, <2>3
<1>9. CASE e.ask \notin {"acquire", "apply", "clear"}
  <2>1. UNCHANGED running BY <1>9 DEF CommitRights
  <2>2. QED BY <1>7, <2>1
<1>10. CASE e.ask \in {"acquire", "apply", "clear"}
  <2>p. PICK op \in Operation : \E generation :
          /\ op.owner = o /\ op.kind = e.ask /\ op.proxy = e.op.proxy
          /\ generation = (IF e.ask = "acquire" THEN Generation(o) ELSE latest)
          /\ \/ Answers(op, generation, posts) \/ Begins(op, generation, posts) \/ Waits(op, posts)
    BY <1>10 DEF CommitRights
  <2>1. PICK generation :
          /\ op.owner = o /\ op.kind = e.ask /\ op.proxy = e.op.proxy
          /\ generation = (IF e.ask = "acquire" THEN Generation(o) ELSE latest)
          /\ \/ Answers(op, generation, posts) \/ Begins(op, generation, posts) \/ Waits(op, posts)
    BY <2>p
  <2>2. CASE Answers(op, generation, posts)
    BY <1>7, <1>10, <2>2 DEF Answers
  <2>3. CASE Begins(op, generation, posts) \/ Waits(op, posts)
    BY <1>8, <1>10, <2>1, <2>3
  <2>4. QED BY <2>1, <2>2, <2>3
<1>11. QED BY <1>9, <1>10

\* A handler of o ends, with the coordinator of o brought to e.
Ending(o, e, leaving, base, late) ==
  /\ o \in Owner /\ leaving \in BOOLEAN /\ base \in Seq(Message)
  /\ IInv /\ Ends(o, e, leaving, base, late) /\ Commit(o, e, leaving, base)

LEMMA EndingIs ==
  ASSUME NEW o, NEW e, NEW leaving, NEW base, NEW late, Ending(o, e, leaving, base, late)
  PROVE  /\ e \in Coordinator /\ Sound(o, e) /\ HandsOf(o, e)
         /\ leaving => Left(e)
         /\ e.ask # "none" => Asked(e) /\ Free(o, base)
         /\ e.ask = "acquire" => ~leaving
         /\ QueueInv /\ ProxiesInv /\ LoadsAsRouted
         /\ \A p \in Owner : Rest(p, co[p]) /\ Sound(p, co[p]) /\ HandsOf(p, co[p])
<1>1. Ends(o, e, leaving, base, late) /\ IInv BY DEF Ending
<1>2. /\ Sound(o, e) /\ (leaving => Left(e)) /\ (e.ask # "none" => Asked(e) /\ Free(o, base))
  BY <1>1 DEF Ends
<1>3. e \in Coordinator /\ HandsOf(o, e) BY <1>2 DEF Sound, Core
<1>4. e.ask = "acquire" => ~leaving BY <1>2 DEF Left
<1>5. QueueInv /\ ProxiesInv /\ LoadsAsRouted BY <1>1 DEF IInv
<1>6. \A p \in Owner : Rest(p, co[p]) /\ Sound(p, co[p]) /\ HandsOf(p, co[p]) BY <1>1, CoIs
<1>7. QED BY <1>2, <1>3, <1>4, <1>5, <1>6

LEMMA EndingActs ==
  ASSUME NEW o, NEW e, NEW leaving, NEW base, NEW late, Ending(o, e, leaving, base, late)
  PROVE  /\ co' = [p \in Owner |-> After(o, e, p)]
         /\ CommitTasks(o, e) /\ CommitStops(o, e) /\ CommitLoads(e)
         /\ stopped \subseteq stopped' /\ e.retired \ co[o].retired \subseteq stopped'
         /\ proxies' = proxies /\ joined' = joined
         /\ \E revoked \in Seq(Message) :
              /\ \A i \in DOMAIN revoked :
                   e.ask = "acquire" /\ revoked[i].to \in Displaced(o) /\ revoked[i].kind = "revoked"
              /\ CommitRights(o, e, leaving, base \o revoked)
         /\ ClaimsAfter(o, e, leaving) /\ QueueInv'
         /\ \A p : activeOwner' = p => activeOwner = p \/ (p = o /\ e.op.kind = "apply")
         /\ \A p \in Owner : Entitled(p) => Entitled(p)'
         /\ e.ask \notin {"acquire", "apply", "clear"} => UNCHANGED running
<1>1. /\ IInv /\ Commit(o, e, leaving, base) /\ o \in Owner /\ leaving \in BOOLEAN /\ base \in Seq(Message)
  BY DEF Ending
<1>2. /\ e \in Coordinator /\ Sound(o, e) /\ HandsOf(o, e) /\ (e.ask = "acquire" => ~leaving)
      /\ QueueInv /\ (e.ask # "none" => Asked(e))
  BY EndingIs
<1>3. /\ co' = [p \in Owner |-> After(o, e, p)]
      /\ CommitTasks(o, e) /\ CommitStops(o, e) /\ CommitLoads(e)
      /\ stopped \subseteq stopped' /\ e.retired \ co[o].retired \subseteq stopped'
      /\ proxies' = proxies /\ joined' = joined
  BY <1>1, <1>2, CommitActs
<1>4. \E revoked \in Seq(Message) :
        /\ \A i \in DOMAIN revoked :
             e.ask = "acquire" /\ revoked[i].to \in Displaced(o) /\ revoked[i].kind = "revoked"
        /\ CommitRights(o, e, leaving, base \o revoked)
  BY <1>1, <1>2, CommitActs
<1>5. PICK posts : CommitRights(o, e, leaving, posts) BY <1>4
<1>6. ClaimsAfter(o, e, leaving) BY <1>1, <1>2, <1>5, ClaimsChange
<1>7. /\ QueueInv'
      /\ \A p : activeOwner' = p => activeOwner = p \/ (p = o /\ e.op.kind = "apply")
      /\ \A p \in Owner : Entitled(p) => Entitled(p)'
      /\ e.ask \notin {"acquire", "apply", "clear"} => UNCHANGED running
  BY <1>1, <1>2, <1>3, <1>5, QueueChange
<1>8. QED BY <1>3, <1>4, <1>6, <1>7

\* The others keep what they rely on, unless they are displaced.
LEMMA OthersLast ==
  ASSUME NEW o, NEW e, NEW leaving, NEW base, NEW late, Ending(o, e, leaving, base, late),
         NEW p \in Owner, p # o
  PROVE  Lasting(p, After(o, e, p))
<1> DEFINE d == After(o, e, p)
<1>1. /\ e \in Coordinator /\ HandsOf(o, e) /\ \A q \in Owner : HandsOf(q, co[q]) BY EndingIs
<1>2. o \in Owner /\ IInv BY DEF Ending
<1>3. /\ SameCo(co[p], d) /\ (d = co[p] \/ d.gate)
      /\ e.ask = "acquire" /\ p \in Displaced(o) => d.gate
  BY <1>1, <1>2, AfterOther
<1>4. ClaimsAfter(o, e, leaving) /\ CommitStops(o, e) /\ proxies' = proxies /\ joined' = joined
  BY EndingActs
<1>5. \A q : activeOwner' = q => activeOwner = q \/ (q = o /\ e.op.kind = "apply") BY EndingActs
<1>6. Entitled(p) => Entitled(p)' BY EndingActs
<1>7. Displaced(o) \subseteq Owner BY <1>2, DisplacedIs DEF IInv
<1> HIDE DEF d
<1>8. Claimed(p) /\ ((d.ready /\ ~d.gate) \/ (Same(d) /\ d.op.kind # "clear")) => Claimed(p)'
  BY <1>3, <1>4 DEF ClaimsAfter, Same
<1>9. ASSUME NEW x \in stopped', Mine(p, x)'
      PROVE  (x \in stopped /\ Mine(p, x)) \/ x \in d.retired \/ d.gate
  <2>1. Mine(p, x) BY <1>4, <1>9 DEF Mine
  <2>2. CASE x \in e.retired
    <3>1. Mine(o, x) BY <1>1, <2>2 DEF HandsOf
    <3>2. QED BY <2>1, <3>1 DEF Mine
  <2>3. ASSUME e.ask = "acquire", NEW q \in Displaced(o), x # NoProxy, x \in {co[q].published, co[q].challenge}
        PROVE  d.gate
    <3>1. q \in Owner BY <1>7, <2>3
    <3>2. Mine(q, x) BY <1>1, <2>3, <3>1 DEF HandsOf
    <3>3. p = q BY <2>1, <3>2 DEF Mine
    <3>4. QED BY <1>3, <2>3, <3>3
  <2>4. QED BY <1>4, <1>9, <2>1, <2>2, <2>3 DEF CommitStops
<1>10. latest <= latest' BY <1>4 DEF ClaimsAfter
<1>11. activeOwner' = p => activeOwner = p BY <1>5
<1>12. Lasting(p, d) BY <1>4, <1>6, <1>8, <1>9, <1>10, <1>11 DEF Lasting
<1>13. QED BY <1>12 DEF d

\* o keeps what it relies on, unless it leaves.
LEMMA OwnLasts ==
  ASSUME NEW o, NEW e, NEW leaving, NEW base, NEW late, Ending(o, e, leaving, base, late)
  PROVE  Lasting(o, e)
<1>1. /\ e \in Coordinator /\ HandsOf(o, e) /\ (leaving => Left(e)) /\ \A q \in Owner : HandsOf(q, co[q])
  BY EndingIs
<1>2. o \in Owner /\ IInv BY DEF Ending
<1>3. ClaimsAfter(o, e, leaving) /\ CommitStops(o, e) /\ proxies' = proxies /\ joined' = joined
  BY EndingActs
<1>4. \A q : activeOwner' = q => activeOwner = q \/ (q = o /\ e.op.kind = "apply") BY EndingActs
<1>5. Entitled(o) => Entitled(o)' BY <1>2, EndingActs
<1>6. Displaced(o) \subseteq Owner /\ o \notin Displaced(o) BY <1>2, DisplacedIs DEF IInv
<1>7. Claimed(o) /\ ((e.ready /\ ~e.gate) \/ (Same(e) /\ e.op.kind # "clear")) => Claimed(o)'
  BY <1>1, <1>3 DEF ClaimsAfter, Left
<1>8. ASSUME NEW x \in stopped', Mine(o, x)' PROVE (x \in stopped /\ Mine(o, x)) \/ x \in e.retired
  <2>1. Mine(o, x) BY <1>3, <1>8 DEF Mine
  <2>2. ASSUME NEW q \in Displaced(o), x # NoProxy, x \in {co[q].published, co[q].challenge} PROVE FALSE
    <3>1. q \in Owner BY <1>6
    <3>2. Mine(q, x) BY <1>1, <2>2, <3>1 DEF HandsOf
    <3>3. QED BY <1>6, <2>1, <2>2, <3>2 DEF Mine
  <2>3. QED BY <1>3, <1>8, <2>1, <2>2 DEF CommitStops
<1>9. latest <= latest' BY <1>3 DEF ClaimsAfter
<1>10. activeOwner' = o => activeOwner = o \/ e.op.kind = "apply" BY <1>4
<1>11. QED BY <1>3, <1>5, <1>7, <1>8, <1>9, <1>10 DEF Lasting

\* Whoever serves, serves on.
LEMMA ServesOn ==
  ASSUME NEW o, NEW e, NEW leaving, NEW base, NEW late, Ending(o, e, leaving, base, late),
         NEW p \in Owner, NEW x, Serves(p, x), e.ask # "none" => p # o /\ Claimed(p),
         ~(e.ask = "acquire" /\ p \in Displaced(o))
  PROVE  Serves(p, x)'
<1>1. o \in Owner /\ QueueInv BY DEF Ending, IInv
<1>2. CASE e.ask \notin {"acquire", "apply", "clear"}
  <2>1. UNCHANGED running BY <1>2, EndingActs
  <2>2. QED BY <2>1 DEF running, Serves
<1>3. CASE e.ask \in {"acquire", "apply", "clear"}
  <2>1. PICK posts : CommitRights(o, e, leaving, posts)
    <3>1. \E revoked : CommitRights(o, e, leaving, base \o revoked) BY EndingActs
    <3>2. QED BY <3>1
  <2>p. PICK op \in Operation : \E generation :
          /\ op.owner = o /\ op.kind = e.ask
          /\ generation = (IF e.ask = "acquire" THEN Generation(o) ELSE latest)
          /\ \/ Answers(op, generation, posts) \/ Begins(op, generation, posts) \/ Waits(op, posts)
    BY <1>3, <2>1 DEF CommitRights
  <2>2. PICK generation :
          /\ op.owner = o /\ op.kind = e.ask
          /\ generation = (IF e.ask = "acquire" THEN Generation(o) ELSE latest)
          /\ \/ Answers(op, generation, posts) \/ Begins(op, generation, posts) \/ Waits(op, posts)
    BY <2>p
  <2>3. \/ op.kind = "acquire" /\ generation = Generation(o) /\ p \notin Displaced(o)
        \/ op.kind \in {"apply", "clear"} /\ generation = latest
    BY <1>3, <2>2
  <2>4. p # o /\ Claimed(p) BY <1>3
  <2>5. QED BY <1>1, <2>2, <2>3, <2>4, Undisturbed
<1>4. QED BY <1>2, <1>3

\* The coordinators after a handler.
LEMMA EndingCoords ==
  ASSUME NEW o, NEW e, NEW leaving, NEW base, NEW late, Ending(o, e, leaving, base, late)
  PROVE  /\ CoordInv'
         /\ \A p \in Owner : Lasting(p, After(o, e, p))
<1>1. /\ e \in Coordinator /\ Sound(o, e) /\ (e.ask # "none" => Asked(e)) /\ QueueInv
      /\ \A q \in Owner : Sound(q, co[q])
  BY EndingIs
<1>2. o \in Owner /\ IInv BY DEF Ending
<1>3. /\ co' = [p \in Owner |-> After(o, e, p)] /\ ClaimsAfter(o, e, leaving) /\ QueueInv'
  BY EndingActs
<1>4. /\ latest' \in Int
  BY <1>3, OwnersAssumption DEF QueueInv, Using
<1>5. ASSUME NEW p \in Owner, p # o
      PROVE  \A c : c = After(o, e, p) => Rest(p, c)' /\ Lasting(p, c)
  <2>1. SUFFICES ASSUME NEW c, c = After(o, e, p) PROVE Rest(p, c)' /\ Lasting(p, c) OBVIOUS
  <2>2. /\ c \in Coordinator /\ Sound(p, c) /\ c.ask = "none" /\ c.load = None
        /\ c = co[p] \/ c.gate
        /\ e.ask = "acquire" /\ p \in Displaced(o) => c.gate
    BY <1>1, <1>2, <1>5, <2>1, AfterOther
  <2>3. Lasting(p, c) BY <1>5, <2>1, OthersLast
  <2>4. ASSUME c.active # NoProxy, ~c.gate, Serves(p, c.active) PROVE Serves(p, c.active)'
    <3>1. c.ready BY <2>2, <2>4 DEF Sound, ActiveOf
    <3>2. Claimed(p) BY <2>2, <2>4, <3>1 DEF Sound, Core, RightsOf
    <3>3. QED BY <1>5, <2>2, <2>4, <3>2, ServesOn
  <2>5. Sound(p, c)' BY <1>1, <1>4, <2>2, <2>3, <2>4, SoundLasts
  <2>6. Rest(p, c)' BY <2>2, <2>5 DEF Rest, Sound
  <2>7. QED BY <2>3, <2>6
<1>6. \A c : c = After(o, e, o) => Rest(o, c)' /\ Lasting(o, c)
  <2>1. SUFFICES ASSUME NEW c, c = After(o, e, o) PROVE Rest(o, c)' /\ Lasting(o, c) OBVIOUS
  <2>2. /\ c \in Coordinator /\ SameCo(e, c) /\ c.ask = "none" /\ c.load = None /\ c.gate = e.gate
        /\ SameHands(e, c)
    BY <1>1, <1>2, <2>1, AfterOwn
  <2>3. Lasting(o, e) BY OwnLasts
  <2>4. Lasting(o, c) BY <2>2, <2>3 DEF Lasting, SameCo, SameHands, Same
  <2>5. ASSUME e.active # NoProxy, Serves(o, e.active) PROVE Serves(o, e.active)'
    <3>1. e.ask = "none" BY <1>1, <2>5 DEF Asked
    <3>2. QED BY <1>2, <2>5, <3>1, ServesOn
  <2>6. Sound(o, e)' BY <1>1, <1>2, <1>4, <2>3, <2>5, SoundLasts
  <2>7. HandsOf(o, c)' BY <2>2, <2>6 DEF Sound, Core, HandsOf, SameCo, SameHands
  <2>8. OpOf(o, c)'
    <3>1. e.ask = "acquire" => Claimed(o)' \/ (CanOverride /\ o < latest') BY <1>3 DEF ClaimsAfter
    <3>2. QED BY <2>2, <2>6, <3>1 DEF Sound, Core, OpOf, SameCo, SameHands, Same
  <2>9. RightsOf(o, c)' BY <2>2, <2>6 DEF Sound, Core, RightsOf, SameCo
  <2>10. ActiveOf(o, c)' BY <2>2, <2>6 DEF Sound, ActiveOf, SameCo
  <2>11. Rest(o, c)'
    BY <2>2, <2>7, <2>8, <2>9, <2>10 DEF Rest, Core, Coordinator
  <2>12. QED BY <2>4, <2>11
<1>7. \A p \in Owner : \A c : c = After(o, e, p) => Rest(p, c)' /\ Lasting(p, c)
  <2>1. SUFFICES ASSUME NEW p \in Owner, NEW c, c = After(o, e, p) PROVE Rest(p, c)' /\ Lasting(p, c)
    OBVIOUS
  <2>2. CASE p = o BY <1>6, <2>1, <2>2
  <2>3. CASE p # o BY <1>5, <2>1, <2>3
  <2>4. QED BY <2>2, <2>3
<1>8. PICK cs : cs = [p \in Owner |-> After(o, e, p)] OBVIOUS
<1>9. co' = cs BY <1>3, <1>8
<1>10. \A p \in Owner : Rest(p, cs[p])'
  <2>1. ASSUME NEW p \in Owner PROVE Rest(p, cs[p])'
    <3>1. PICK c : c = After(o, e, p) OBVIOUS
    <3>2. cs[p] = c BY <1>8, <3>1
    <3>3. Rest(p, c)' BY <1>7, <3>1
    <3>4. QED BY <3>2, <3>3
  <2>2. QED BY <2>1
<1>11. cs = [p \in Owner |-> cs[p]] BY <1>8
<1>12. CoordInv' BY <1>9, <1>10, <1>11 DEF CoordInv, Owner
<1>13. QED BY <1>7, <1>12

\* What was under way still fits the coordinators after the handler.
LEMMA EndingBase ==
  ASSUME NEW o, NEW e, NEW leaving, NEW base, NEW late, Ending(o, e, leaving, base, late),
         NEW cs, cs = [p \in Owner |-> After(o, e, p)]
  PROVE  FlightInv(cs, base, NoProxy)
<1>1. /\ e \in Coordinator /\ QueueInv /\ ProxiesInv /\ \A q \in Owner : Sound(q, co[q]) BY EndingIs
<1>2. o \in Owner /\ IInv /\ Ends(o, e, leaving, base, late) BY DEF Ending
<1>3. FlightInv(co, base, late) BY <1>2 DEF Ends
<1>4. \A q \in Owner : co[q] \in Coordinator /\ OpOf(q, co[q]) BY <1>1 DEF Sound, Core
<1>5. ASSUME NEW p \in Owner, p # o PROVE Moves(p, co[p], cs[p], base)
  <2>1. PICK c : c = After(o, e, p) OBVIOUS
  <2>2. c \in Coordinator /\ SameCo(co[p], c) /\ (co[p].gate => c.gate)
    BY <1>1, <1>2, <1>5, <2>1, AfterOther
  <2>3. co[p].epoch \in Nat BY <1>4 DEF Coordinator
  <2>4. co[p].epoch <= c.epoch BY <2>2, <2>3 DEF SameCo
  <2>5. Moves(p, co[p], c, base) BY <1>4, <2>2, <2>4 DEF Moves, SameCo
  <2>6. QED BY <2>1, <2>5
<1>6. Moves(o, co[o], cs[o], base)
  <2>1. PICK c : c = After(o, e, o) OBVIOUS
  <2>2. c \in Coordinator /\ SameCo(e, c) /\ c.gate = e.gate BY <1>1, <1>2, <2>1, AfterOwn
  <2>3. Moves(o, co[o], e, base) BY <1>2 DEF Ends
  <2>4. Moves(o, co[o], c, base) BY <2>2, <2>3 DEF Moves, SameCo
  <2>5. QED BY <1>2, <2>1, <2>4
<1>7. \A p \in Owner : Moves(p, co[p], cs[p], base) BY <1>5, <1>6
<1>8. ASSUME late \in DOMAIN proxies
      PROVE  late \in cs[proxies[late].owner].retired \cup {cs[proxies[late].owner].candidate}
  <2>1. late \in e.retired \cup {e.candidate} /\ proxies[late].owner = o BY <1>2, <1>8 DEF Ends
  <2>2. SameCo(e, cs[o]) BY <1>1, <1>2, AfterOwn
  <2>3. QED BY <2>1, <2>2 DEF SameCo
<1>9. QED BY <1>1, <1>3, <1>7, <1>8, FlightMoves

\* The answer to an operation that the platform need not be asked about.
LEMMA EndingReply ==
  ASSUME NEW o, NEW e, NEW leaving, NEW base, NEW late, Ending(o, e, leaving, base, late),
         NEW op \in Operation, op.owner = o, op.kind = e.ask, op.proxy = e.op.proxy,
         NEW generation, generation = (IF e.ask = "acquire" THEN Generation(o) ELSE latest),
         activeOwner' = activeOwner, NEW ok \in BOOLEAN, op.kind = "apply" => ~ok,
         CanOverride => /\ ~NeedsPlatform(op, generation, activeOwner)
                        /\ op.kind = "acquire" => ok = (op.owner = generation),
         NEW m, m = Reply(op, ok), NEW c, c = After(o, e, o)
  PROVE  m \in Message /\ m.to = o /\ m.kind \in Asking /\ MessageOf(m, c)'
<1>1. /\ e \in Coordinator /\ QueueInv /\ (e.ask # "none" => Asked(e)) BY EndingIs
<1>2. o \in Owner /\ IInv BY DEF Ending
<1>3. ClaimsAfter(o, e, leaving) BY EndingActs
<1>7. m \in Message /\ m.to = o /\ m.kind = op.kind /\ m.ok = ok /\ m.proxy = op.proxy
  BY DEF Reply, Message, Operation
<1>8. op.kind \in {"acquire", "apply", "clear"} BY DEF Operation
<1>9. SameCo(e, c) BY <1>1, <1>2, AfterOwn
<1>10. e.op.kind = op.kind BY <1>1, <1>8 DEF Asked
<1>11. m.kind \in Asking /\ m.kind = c.op.kind BY <1>7, <1>8, <1>9, <1>10 DEF Asking, SameCo
<1>12. ASSUME op.kind = "acquire", ok PROVE Entitled(o)' /\ Claimed(o)'
  <2>1. CASE CanOverride
    <3>1. o = generation /\ activeOwner \in {NoOwner, o} BY <1>12, <2>1 DEF NeedsPlatform
    <3>2. latest' = o BY <1>3, <1>12, <3>1 DEF ClaimsAfter
    <3>3. o \in Int BY <1>2, OwnersAssumption DEF Owner
    <3>4. Claimed(o)' BY <1>3, <1>12, <3>2, <3>3 DEF ClaimsAfter
    <3>5. Entitled(o)' BY <3>1, <3>2, <3>3 DEF Entitled
    <3>6. QED BY <3>4, <3>5
  <2>2. CASE ~CanOverride BY <2>2 DEF Entitled, Claimed
  <2>3. QED BY <2>1, <2>2
<1>13. ASSUME op.kind = "clear" PROVE activeOwner' # o
  <2>1. CASE CanOverride BY <1>13, <2>1 DEF NeedsPlatform
  <2>2. CASE ~CanOverride
    <3>1. latest = 0 /\ activeOwner \in 0..latest BY <1>1, <2>2 DEF QueueInv, Using
    <3>2. activeOwner = 0 BY <3>1
    <3>3. o \in 1..Owners BY <1>2 DEF Owner
    <3>4. QED BY <3>2, <3>3, OwnersAssumption
  <2>3. QED BY <2>1, <2>2
<1>14. MessageOf(m, c)'
  BY <1>7, <1>8, <1>9, <1>11, <1>12, <1>13 DEF MessageOf, SameCo, Asking
<1>15. QED BY <1>7, <1>11, <1>14

\* The callbacks that remain still say what is so.
LEMMA BaseLasts ==
  ASSUME NEW o, NEW e, NEW leaving, NEW base, NEW late, Ending(o, e, leaving, base, late),
         NEW cs, cs = [p \in Owner |-> After(o, e, p)]
  PROVE  PostedOf(cs, base)'
<1>1. /\ e \in Coordinator /\ QueueInv /\ (e.ask # "none" => Free(o, base)) /\ \A q \in Owner : Sound(q, co[q])
  BY EndingIs
<1>2. o \in Owner /\ IInv BY DEF Ending
<1>3. PostedOf(cs, base) BY EndingBase DEF FlightInv
<1>4. ASSUME NEW i \in DOMAIN base PROVE MessageOf(base[i], cs[base[i].to])'
  <2>1. PICK m : m = base[i] OBVIOUS
  <2>2. m \in Message BY <1>3, <1>4, <2>1 DEF PostedOf
  <2>3. PICK p \in Owner : p = m.to BY <2>2 DEF Message
  <2>4. PICK c : c = cs[p] OBVIOUS
  <2>5. c = After(o, e, p) BY <2>4
  <2>6. Lasting(p, c) BY <2>5, EndingCoords
  <2>7. MessageOf(m, c) BY <1>3, <1>4, <2>1, <2>3, <2>4 DEF PostedOf
  <2>8. ASSUME m.kind = "apply", m.ok, Same(c), Serves(p, m.proxy) PROVE Serves(p, m.proxy)'
    <3>1. CASE p = o
      <4>1. e.ask = "none" BY <1>1, <1>4, <2>1, <2>3, <2>8, <3>1 DEF Free, Asking
      <4>2. QED BY <2>8, <4>1, ServesOn
    <3>2. CASE p # o
      <4>1. /\ c = co[p] \/ c.gate
            /\ e.ask = "acquire" /\ p \in Displaced(o) => c.gate
        BY <1>1, <1>2, <2>5, <3>2, AfterOther
      <4>2. c = co[p] /\ ~(e.ask = "acquire" /\ p \in Displaced(o)) BY <2>8, <4>1 DEF Same
      <4>3. c.op.kind = "apply" BY <2>7, <2>8 DEF MessageOf, Asking
      <4>4. Claimed(p) BY <1>1, <2>8, <4>2, <4>3 DEF Sound, Core, OpOf
      <4>5. QED BY <2>8, <3>2, <4>2, <4>4, ServesOn
    <3>3. QED BY <3>1, <3>2
  <2>9. MessageOf(m, c)' BY <2>3, <2>6, <2>7, <2>8, MessageLasts
  <2>10. cs[base[i].to] = c BY <2>1, <2>3, <2>4
  <2>11. QED BY <2>1, <2>9, <2>10
<1>5. QED BY <1>3, <1>4 DEF PostedOf, Message, Owner, Asking

\* All callbacks after the handler.
LEMMA EndingPosts ==
  ASSUME NEW o, NEW e, NEW leaving, NEW base, NEW late, Ending(o, e, leaving, base, late),
         NEW cs, cs = [p \in Owner |-> After(o, e, p)],
         NEW revoked \in Seq(Message),
         \A i \in DOMAIN revoked :
           e.ask = "acquire" /\ revoked[i].to \in Displaced(o) /\ revoked[i].kind = "revoked"
  PROVE  /\ base \o revoked \in Seq(Message) /\ PostedOf(cs, base \o revoked)'
         /\ \A i \in DOMAIN (base \o revoked) :
              \/ i \in DOMAIN base /\ (base \o revoked)[i] = base[i]
              \/ (base \o revoked)[i].kind = "revoked"
         /\ \A i \in DOMAIN base : i \in DOMAIN (base \o revoked) /\ (base \o revoked)[i] = base[i]
<1>1. /\ e \in Coordinator /\ QueueInv BY EndingIs
<1>2. o \in Owner /\ IInv /\ base \in Seq(Message) BY DEF Ending
<1>3. PostedOf(cs, base)' BY BaseLasts
<1>4. PostedOf(cs, revoked)'
  <2>1. ASSUME NEW i \in DOMAIN revoked PROVE MessageOf(revoked[i], cs[revoked[i].to])'
    <3>1. PICK m : m = revoked[i] OBVIOUS
    <3>2. e.ask = "acquire" /\ m.to \in Displaced(o) /\ m.kind = "revoked" BY <3>1
    <3>3. m.to \in Owner /\ m.to # o BY <1>1, <1>2, <3>2, DisplacedIs
    <3>4. PICK c : c = cs[m.to] OBVIOUS
    <3>5. c.gate BY <1>1, <1>2, <3>2, <3>3, <3>4, AfterOther
    <3>6. MessageOf(m, c)' BY <3>2, <3>5 DEF MessageOf, Asking
    <3>7. QED BY <3>1, <3>4, <3>6
  <2>2. \A i, j \in DOMAIN revoked : ~(revoked[i].kind \in Asking) BY DEF Asking
  <2>3. QED BY <2>1, <2>2 DEF PostedOf, Message, Owner, Asking
<1>5. PostedOf(cs, base \o revoked)'
  BY <1>3, <1>4, PostedGrows DEF Asking
<1>6. /\ base \o revoked \in Seq(Message)
      /\ \A i \in DOMAIN (base \o revoked) :
           \/ i \in DOMAIN base /\ (base \o revoked)[i] = base[i]
           \/ i - Len(base) \in DOMAIN revoked /\ (base \o revoked)[i] = revoked[i - Len(base)]
      /\ \A i \in DOMAIN base : i \in DOMAIN (base \o revoked) /\ (base \o revoked)[i] = base[i]
  BY <1>2, ConcatFacts
<1>7. QED BY <1>5, <1>6

\* What the callbacks after the handler are: those before it, revocations and its own reply.
Extra(o, e, base, q) ==
  /\ \A i \in DOMAIN q : \/ i \in DOMAIN base /\ q[i] = base[i]
                         \/ q[i].kind = "revoked"
                         \/ q[i].to = o /\ q[i].kind = e.ask /\ e.ask \in {"acquire", "apply", "clear"}
  /\ \A i \in DOMAIN base : i \in DOMAIN q /\ q[i] = base[i]

\* The platform's operations after the handler, if it asked for none or one was answered at once.
LEMMA RunningSame ==
  ASSUME NEW o, NEW e, NEW leaving, NEW base, NEW late, Ending(o, e, leaving, base, late),
         NEW cs, cs = [p \in Owner |-> After(o, e, p)],
         UNCHANGED running, NEW q, q = posted', Extra(o, e, base, q)
  PROVE  PendingOf(cs, posted)' /\ CurrentOf(cs, posted)'
<1>1. e.ask # "none" => Free(o, base) BY EndingIs
<1>2. PendingOf(cs, base) /\ CurrentOf(cs, base) BY EndingBase DEF FlightInv
<1>3. pending' = pending /\ current' = current BY DEF running
<1>4. \A i \in DOMAIN pending : \A j \in DOMAIN q : q[j].kind \in Asking => q[j].to # pending[i].owner
  BY <1>1, <1>2 DEF Extra, PendingOf, Free, Asking
<1>5. PendingOf(cs, posted)' BY <1>2, <1>3, <1>4 DEF PendingOf, Fits, Operation, Owner, Asking
<1>6. current # None => \A j \in DOMAIN q : q[j].kind \in Asking => q[j].to # current.owner
  BY <1>1, <1>2 DEF Extra, CurrentOf, Free, Asking
<1>7. CurrentOf(cs, posted)' BY <1>2, <1>3, <1>6 DEF CurrentOf, Fits, Asking
<1>8. QED BY <1>5, <1>7

\* The operation waits for the one the platform is busy with.
LEMMA RunningWaits ==
  ASSUME NEW o, NEW e, NEW leaving, NEW base, NEW late, Ending(o, e, leaving, base, late),
         NEW cs, cs = [p \in Owner |-> After(o, e, p)],
         NEW op \in Operation, op.owner = o, op.kind = e.ask, op.proxy = e.op.proxy,
         NEW q, Waits(op, q), Extra(o, e, base, q),
         \A i \in DOMAIN q : i \notin DOMAIN base => q[i].kind = "revoked"
  PROVE  PendingOf(cs, posted)' /\ CurrentOf(cs, posted)'
<1>1. e \in Coordinator /\ (e.ask # "none" => Free(o, base) /\ Asked(e)) BY EndingIs
<1>2. PendingOf(cs, base) /\ CurrentOf(cs, base) BY EndingBase DEF FlightInv
<1>3. current # None /\ pending' = Append(pending, op) /\ posted' = q /\ current' = current
  BY DEF Waits
<1>4. op.kind \in {"acquire", "apply", "clear"} BY DEF Operation
<1>5. o \in Owner BY DEF Ending
<1>6. SameCo(e, cs[o]) BY <1>1, <1>5, AfterOwn
<1>7. Fits(op, cs[o]) BY <1>1, <1>4, <1>6 DEF Fits, Asked, SameCo
<1>8. PICK r : r = Append(pending, op) OBVIOUS
<1>9. pending \in Seq(Operation) BY <1>2 DEF PendingOf
<1>10. /\ r \in Seq(Operation)
       /\ \A i \in DOMAIN r : (i \in DOMAIN pending /\ r[i] = pending[i]) \/ (i = Len(pending) + 1 /\ r[i] = op)
  BY <1>8, <1>9
<1>11. Free(o, base) BY <1>1, <1>4
<1>12. \A i \in DOMAIN r : Fits(r[i], cs[r[i].owner]) BY <1>2, <1>7, <1>10 DEF PendingOf
<1>13. \A i, j \in DOMAIN r : r[i].owner = r[j].owner => i = j
  BY <1>2, <1>10, <1>11 DEF PendingOf, Free
<1>14. \A j \in DOMAIN q : q[j].kind \in Asking => j \in DOMAIN base /\ q[j] = base[j]
  BY DEF Extra, Asking
<1>15. \A i \in DOMAIN r : \A j \in DOMAIN q : q[j].kind \in Asking => q[j].to # r[i].owner
  BY <1>2, <1>10, <1>11, <1>14 DEF PendingOf, Free
<1>16. PendingOf(cs, posted)'
  <2>1. pending' = r BY <1>3, <1>8
  <2>2. (pending \in Seq(Operation))' BY <1>10, <2>1 DEF Operation, Owner
  <2>3. (\A i \in DOMAIN pending : Fits(pending[i], cs[pending[i].owner]))' BY <1>12, <2>1 DEF Fits
  <2>4. (\A i, j \in DOMAIN pending : pending[i].owner = pending[j].owner => i = j)' BY <1>13, <2>1
  <2>5. (\A i \in DOMAIN pending : \A j \in DOMAIN posted :
           posted[j].kind \in Asking => posted[j].to # pending[i].owner)'
    BY <1>3, <1>15, <2>1 DEF Asking
  <2>6. QED BY <2>2, <2>3, <2>4, <2>5 DEF PendingOf
<1>17. Fits(current, cs[current.owner]) BY <1>2, <1>3 DEF CurrentOf
<1>18. \A i \in DOMAIN r : r[i].owner # current.owner
  BY <1>2, <1>3, <1>10, <1>11 DEF CurrentOf, Free
<1>19. \A j \in DOMAIN q : q[j].kind \in Asking => q[j].to # current.owner
  BY <1>2, <1>3, <1>14 DEF CurrentOf
<1>20. CurrentOf(cs, posted)' BY <1>3, <1>8, <1>17, <1>18, <1>19 DEF CurrentOf, Fits, Asking
<1>21. QED BY <1>16, <1>20

\* The platform is asked.
LEMMA RunningBegins ==
  ASSUME NEW o, NEW e, NEW leaving, NEW base, NEW late, Ending(o, e, leaving, base, late),
         NEW cs, cs = [p \in Owner |-> After(o, e, p)],
         NEW op \in Operation, op.owner = o, op.kind = e.ask, op.proxy = e.op.proxy,
         NEW q, NEW generation, Begins(op, generation, q), Extra(o, e, base, q),
         \A i \in DOMAIN q : i \notin DOMAIN base => q[i].kind = "revoked"
  PROVE  PendingOf(cs, posted)' /\ CurrentOf(cs, posted)'
<1>1. e \in Coordinator /\ (e.ask # "none" => Free(o, base) /\ Asked(e)) BY EndingIs
<1>2. pending' = <<>> /\ posted' = q /\ current' = op BY DEF Begins
<1>3. op.kind \in {"acquire", "apply", "clear"} BY DEF Operation
<1>4. o \in Owner BY DEF Ending
<1>5. SameCo(e, cs[o]) BY <1>1, <1>4, AfterOwn
<1>6. Fits(op, cs[o]) BY <1>1, <1>3, <1>5 DEF Fits, Asked, SameCo
<1>7. Free(o, base) BY <1>1, <1>3
<1>8. PendingOf(cs, posted)'
  <2>1. PICK r : r = <<>> OBVIOUS
  <2>2. r \in Seq(Operation) /\ \A i \in DOMAIN r : FALSE BY <2>1
  <2>3. QED BY <1>2, <2>1, <2>2 DEF PendingOf, Operation, Owner
<1>9. \A j \in DOMAIN q : q[j].kind \in Asking => q[j].to # o
  BY <1>7 DEF Extra, Asking, Free
<1>10. CurrentOf(cs, posted)'
  <2>1. \A i \in DOMAIN pending' : FALSE BY <1>2
  <2>2. QED BY <1>2, <1>6, <1>9, <2>1 DEF CurrentOf, Fits, Asking
<1>11. QED BY <1>8, <1>10

\* The operations and the callbacks after the handler.
LEMMA EndingRuns ==
  ASSUME NEW o, NEW e, NEW leaving, NEW base, NEW late, Ending(o, e, leaving, base, late),
         NEW cs, cs = [p \in Owner |-> After(o, e, p)]
  PROVE  /\ PendingOf(cs, posted)' /\ CurrentOf(cs, posted)' /\ PostedOf(cs, posted)'
         /\ Extra(o, e, base, posted')
<1>1. /\ e \in Coordinator /\ QueueInv /\ (e.ask # "none" => Free(o, base) /\ Asked(e)) BY EndingIs
<1>2. o \in Owner /\ IInv BY DEF Ending
<1>3. PICK revoked \in Seq(Message) :
        /\ \A i \in DOMAIN revoked :
             e.ask = "acquire" /\ revoked[i].to \in Displaced(o) /\ revoked[i].kind = "revoked"
        /\ CommitRights(o, e, leaving, base \o revoked)
  BY EndingActs
<1>4. PICK ps : ps = base \o revoked OBVIOUS
<1>5. /\ ps \in Seq(Message) /\ PostedOf(cs, ps)'
      /\ \A i \in DOMAIN ps : (i \in DOMAIN base /\ ps[i] = base[i]) \/ ps[i].kind = "revoked"
      /\ \A i \in DOMAIN base : i \in DOMAIN ps /\ ps[i] = base[i]
  BY <1>3, <1>4, EndingPosts
<1>6. Extra(o, e, base, ps) BY <1>5 DEF Extra
<1>7. \A i \in DOMAIN ps : i \notin DOMAIN base => ps[i].kind = "revoked" BY <1>5
<1>8. posted' = ps => PostedOf(cs, posted)' BY <1>5 DEF PostedOf, MessageOf
<1>9. CASE e.ask \notin {"acquire", "apply", "clear"}
  <2>1. posted' = ps /\ UNCHANGED running BY <1>3, <1>4, <1>9 DEF CommitRights
  <2>2. PendingOf(cs, posted)' /\ CurrentOf(cs, posted)' BY <1>6, <2>1, RunningSame
  <2>3. QED BY <1>6, <1>8, <2>1, <2>2
<1>10. CASE e.ask \in {"acquire", "apply", "clear"}
  <2>p. PICK op \in Operation : \E generation :
          /\ op.owner = o /\ op.kind = e.ask /\ op.proxy = e.op.proxy
          /\ generation = (IF e.ask = "acquire" THEN Generation(o) ELSE latest)
          /\ \/ Answers(op, generation, ps) \/ Begins(op, generation, ps) \/ Waits(op, ps)
    BY <1>3, <1>4, <1>10 DEF CommitRights
  <2>1. PICK generation :
          /\ op.owner = o /\ op.kind = e.ask /\ op.proxy = e.op.proxy
          /\ generation = (IF e.ask = "acquire" THEN Generation(o) ELSE latest)
          /\ \/ Answers(op, generation, ps) \/ Begins(op, generation, ps) \/ Waits(op, ps)
    BY <2>p
  <2>2. CASE Begins(op, generation, ps)
    <3>1. PendingOf(cs, posted)' /\ CurrentOf(cs, posted)' BY <1>6, <1>7, <2>1, <2>2, RunningBegins
    <3>2. posted' = ps BY <2>2 DEF Begins
    <3>3. QED BY <1>6, <1>8, <3>1, <3>2
  <2>3. CASE Waits(op, ps)
    <3>1. PendingOf(cs, posted)' /\ CurrentOf(cs, posted)' BY <1>6, <1>7, <2>1, <2>3, RunningWaits
    <3>2. posted' = ps BY <2>3 DEF Waits
    <3>3. QED BY <1>6, <1>8, <3>1, <3>2
  <2>4. CASE Answers(op, generation, ps)
    <3>1. PICK c : c = After(o, e, o) OBVIOUS
    <3>a. PICK ok \in BOOLEAN :
            /\ posted' = ps \o <<Reply(op, ok)>>
            /\ op.kind = "apply" => ~ok
            /\ CanOverride => /\ ~NeedsPlatform(op, generation, activeOwner)
                              /\ op.kind = "acquire" => ok = (op.owner = generation)
      BY <2>4 DEF Answers
    <3>b. activeOwner' = activeOwner BY <2>4 DEF Answers, running
    <3>c. PICK m : m = Reply(op, ok) OBVIOUS
    <3>2. posted' = ps \o <<m>> /\ m \in Message /\ m.to = o /\ m.kind \in Asking /\ MessageOf(m, c)'
      BY <2>1, <3>1, <3>a, <3>b, <3>c, EndingReply
    <3>3. cs[o] = c BY <1>2, <3>1
    <3>4. PICK t : t = <<m>> OBVIOUS
    <3>5. t \in Seq(Message) /\ DOMAIN t = {1} /\ t[1] = m BY <3>2, <3>4
    <3>6. PostedOf(cs, t)'
      <4>1. MessageOf(t[1], cs[t[1].to])' BY <3>2, <3>3, <3>5
      <4>2. QED BY <3>5, <4>1 DEF PostedOf, Message, Owner
    <3>7. Free(o, base) BY <1>1, <1>10
    <3>8. \A i \in DOMAIN ps : \A j \in DOMAIN t :
            ps[i].kind \in Asking /\ t[j].kind \in Asking => ps[i].to # t[j].to
      BY <1>5, <3>2, <3>5, <3>7 DEF Free, Asking
    <3>9. PostedOf(cs, ps \o t)' BY <1>5, <3>6, <3>8, PostedGrows DEF Asking
    <3>10. PICK q : q = ps \o t OBVIOUS
    <3>11. /\ \A i \in DOMAIN q : (i \in DOMAIN ps /\ q[i] = ps[i]) \/ (i - Len(ps) \in DOMAIN t /\ q[i] = t[i - Len(ps)])
           /\ \A i \in DOMAIN ps : i \in DOMAIN q /\ q[i] = ps[i]
      BY <1>5, <3>5, <3>10, ConcatFacts
    <3>12. m.kind = e.ask
      <4>1. c \in Coordinator /\ SameCo(e, c) BY <1>1, <1>2, <3>1, AfterOwn
      <4>2. m.kind = c.op.kind BY <3>2 DEF MessageOf, Asking
      <4>3. QED BY <1>1, <1>10, <4>1, <4>2 DEF SameCo, Asked
    <3>13. Extra(o, e, base, q) BY <1>5, <1>10, <3>2, <3>5, <3>11, <3>12 DEF Extra
    <3>14. posted' = q /\ PostedOf(cs, posted)'
      <4>1. posted' = q BY <3>2, <3>4, <3>10
      <4>2. PostedOf(cs, q)' BY <3>9, <3>10
      <4>3. QED BY <4>1, <4>2 DEF PostedOf, MessageOf
    <3>15. PendingOf(cs, posted)' /\ CurrentOf(cs, posted)'
      <4>1. UNCHANGED running BY <2>4 DEF Answers
      <4>2. QED BY <3>13, <3>14, <4>1, RunningSame
    <3>16. QED BY <3>13, <3>14, <3>15
  <2>5. QED BY <2>1, <2>2, <2>3, <2>4
<1>11. QED BY <1>9, <1>10

\* The worker's tasks after the handler.
LEMMA EndingWork ==
  ASSUME NEW o, NEW e, NEW leaving, NEW base, NEW late, Ending(o, e, leaving, base, late),
         NEW cs, cs = [p \in Owner |-> After(o, e, p)]
  PROVE  WorkerOf(cs)' /\ StartOf(posted)'
<1>1. /\ e \in Coordinator /\ Sound(o, e) /\ HandsOf(o, e) /\ (e.ask # "none" => Free(o, base) /\ Asked(e))
  BY EndingIs
<1>2. o \in Owner BY DEF Ending
<1>3. /\ CommitTasks(o, e) /\ stopped \subseteq stopped' /\ e.retired \ co[o].retired \subseteq stopped'
  BY EndingActs
<1>4. WorkerOf(cs) /\ StartOf(base) BY EndingBase DEF FlightInv
<1>5. Extra(o, e, base, posted') BY EndingRuns
<1>6. PICK J \in Seq(Job), S \in Seq(Job) :
        /\ worker' = (worker \o J) \o S
        /\ \A i \in DOMAIN J : \E p \in e.retired \ co[o].retired : J[i] = Task("join", o, p, None)
        /\ e.ask = "start" => S = <<Task("start", o, NoProxy, e.op.config)>>
        /\ e.ask # "start" => S = <<>>
  BY <1>3 DEF CommitTasks
<1>7. PICK w : w = worker \o J OBVIOUS
<1>8. PICK v : v = w \o S OBVIOUS
<1>9. worker \in Seq(Job) BY <1>4 DEF WorkerOf
<1>10. /\ w \in Seq(Job)
       /\ \A i \in DOMAIN w : (i \in DOMAIN worker /\ w[i] = worker[i]) \/ (\E j \in DOMAIN J : w[i] = J[j])
  BY <1>6, <1>7, <1>9, ConcatFacts
<1>11. /\ v \in Seq(Job)
       /\ \A i \in DOMAIN v : (i \in DOMAIN w /\ v[i] = w[i]) \/ (\E j \in DOMAIN S : v[i] = S[j])
  BY <1>6, <1>8, <1>10, ConcatFacts
<1>12. SameCo(e, cs[o]) BY <1>1, <1>2, AfterOwn
<1>13. \A i \in DOMAIN J : J[i].kind = "join" /\ J[i].owner = o /\ J[i].proxy \in e.retired \ co[o].retired
  BY <1>6 DEF Task
<1>14. /\ e.ask = "start" => DOMAIN S = {1} /\ S[1].kind = "start" /\ S[1].owner = o /\ S[1].config = e.op.config
       /\ e.ask # "start" => DOMAIN S = {}
  <2>1. CASE e.ask = "start"
    <3>1. PICK k : k = Task("start", o, NoProxy, e.op.config) OBVIOUS
    <3>2. S = <<k>> BY <1>6, <2>1, <3>1
    <3>3. DOMAIN S = {1} /\ S[1] = k BY <3>2
    <3>4. QED BY <2>1, <3>1, <3>3 DEF Task
  <2>2. CASE e.ask # "start" BY <1>6, <2>2
  <2>3. QED BY <2>1, <2>2
<1>15. ASSUME NEW i \in DOMAIN v PROVE JobOf(v[i], cs[v[i].owner])'
  <2>1. PICK k : k = v[i] OBVIOUS
  <2>2. PICK c : c = cs[k.owner] OBVIOUS
  <2>3. CASE i \in DOMAIN worker /\ v[i] = worker[i]
    <3>1. JobOf(k, c) BY <1>4, <2>1, <2>2, <2>3 DEF WorkerOf
    <3>2. JobOf(k, c)' BY <1>3, <3>1 DEF JobOf
    <3>3. QED BY <2>1, <2>2, <3>2
  <2>4. CASE \E j \in DOMAIN J : v[i] = J[j]
    <3>1. k.kind = "join" /\ k.owner = o /\ k.proxy \in e.retired \ co[o].retired BY <1>13, <2>1, <2>4
    <3>2. JobOf(k, c)' BY <1>3, <1>12, <2>2, <3>1 DEF JobOf, SameCo
    <3>3. QED BY <2>1, <2>2, <3>2
  <2>5. CASE \E j \in DOMAIN S : v[i] = S[j]
    <3>1. e.ask = "start" /\ k.kind = "start" /\ k.owner = o /\ k.config = e.op.config
      BY <1>14, <2>1, <2>5
    <3>2. e.op.kind = "start" BY <1>1, <3>1 DEF Asked
    <3>3. JobOf(k, c)' BY <1>12, <2>2, <3>1, <3>2 DEF JobOf, SameCo
    <3>4. QED BY <2>1, <2>2, <3>3
  <2>6. QED BY <1>10, <1>11, <2>3, <2>4, <2>5
<1>16. worker' = v BY <1>6, <1>7, <1>8
<1>17. WorkerOf(cs)'
  BY <1>11, <1>15, <1>16 DEF WorkerOf, JobOf, Job, Owner, Config
<1>18. e.ask = "start" => Free(o, base) BY <1>1
<1>19. Alone(v)
  <2>1. Alone(worker) BY <1>4 DEF StartOf, Alone
  <2>2. Alone(J) BY <1>13 DEF Alone
  <2>3. Alone(w) BY <1>6, <1>7, <1>9, <1>13, <2>1, <2>2, AloneGrows
  <2>4. Alone(S) BY <1>14 DEF Alone
  <2>5. ASSUME NEW i \in DOMAIN w, NEW j \in DOMAIN S, w[i].kind = "start", S[j].kind = "start"
        PROVE  w[i].owner # S[j].owner
    <3>1. e.ask = "start" /\ S[j].owner = o BY <1>14, <2>5
    <3>2. i \in DOMAIN worker /\ w[i] = worker[i] BY <1>10, <1>13, <2>5
    <3>3. QED BY <1>18, <2>5, <3>1, <3>2 DEF Free
  <2>6. QED BY <1>6, <1>8, <1>10, <2>3, <2>4, <2>5, AloneGrows
<1>20. ASSUME NEW i \in DOMAIN v, NEW j \in DOMAIN posted', v[i].kind = "start", posted'[j].kind = "start"
       PROVE  v[i].owner # posted'[j].to
  <2>1. j \in DOMAIN base /\ posted'[j] = base[j] BY <1>5, <1>20 DEF Extra
  <2>2. CASE i \in DOMAIN worker /\ v[i] = worker[i] BY <1>4, <1>20, <2>1, <2>2 DEF StartOf
  <2>3. CASE \E k \in DOMAIN J : v[i] = J[k] BY <1>13, <1>20, <2>3
  <2>4. CASE \E k \in DOMAIN S : v[i] = S[k]
    <3>1. e.ask = "start" /\ v[i].owner = o BY <1>14, <2>4
    <3>2. QED BY <1>18, <1>20, <2>1, <3>1 DEF Free, Asking
  <2>5. QED BY <1>10, <1>11, <2>2, <2>3, <2>4
<1>21. StartOf(posted)' BY <1>16, <1>19, <1>20 DEF StartOf, Alone
<1>22. QED BY <1>17, <1>21

\* The end of a handler keeps the invariant.
LEMMA CommitKeeps ==
  ASSUME NEW o, NEW e, NEW leaving, NEW base, NEW late, Ending(o, e, leaving, base, late)
  PROVE  IInv'
<1>1. /\ e \in Coordinator /\ HandsOf(o, e) /\ ProxiesInv /\ LoadsAsRouted /\ \A q \in Owner : HandsOf(q, co[q])
      /\ QueueInv
  BY EndingIs
<1>2. o \in Owner /\ Ends(o, e, leaving, base, late) BY DEF Ending
<1>3. CoordInv' BY EndingCoords
<1>4. /\ QueueInv' /\ proxies' = proxies /\ joined' = joined /\ CommitStops(o, e) /\ CommitLoads(e)
      /\ stopped \subseteq stopped' /\ co' = [p \in Owner |-> After(o, e, p)]
  BY EndingActs
<1>5. ProxiesInv'
  <2>1. ASSUME NEW p \in stopped' PROVE p \in DOMAIN proxies
    <3>1. CASE p \in e.retired BY <1>1, <3>1 DEF HandsOf, Mine
    <3>2. ASSUME NEW q \in Displaced(o), p # NoProxy, p \in {co[q].published, co[q].challenge}
          PROVE  p \in DOMAIN proxies
      <4>1. q \in Owner BY <1>1, <1>2, DisplacedIs
      <4>2. QED BY <1>1, <3>2, <4>1 DEF HandsOf, Mine
    <3>3. QED BY <1>1, <1>4, <2>1, <3>1, <3>2 DEF CommitStops, ProxiesInv
  <2>2. QED BY <1>1, <1>4, <2>1 DEF ProxiesInv, Proxy, Config, Owner
<1>6. LoadsAsRouted'
  <2>1. CASE e.load = None
    <3>1. loaded' = loaded BY <1>4, <2>1 DEF CommitLoads
    <3>2. QED BY <1>1, <3>1 DEF LoadsAsRouted
  <2>2. CASE e.load # None
    <3>1. Loadable(o, e) BY <1>2, <2>2 DEF Ends
    <3>2. PICK r : r = [target |-> e.load.target, route |-> e.load.route, proxy |-> e.published,
                        override |-> override, stopped |-> e.published \in stopped]
      OBVIOUS
    <3>3. loaded' = r BY <1>4, <2>2, <3>2 DEF CommitLoads
    <3>4. IF r.route = "proxy" THEN r.override = {r.proxy} /\ ~r.stopped ELSE r.override = {NoProxy}
      BY <3>1, <3>2 DEF Loadable, Serves
    <3>5. QED BY <3>3, <3>4 DEF LoadsAsRouted
  <2>3. QED BY <2>1, <2>2
<1>7. PICK cs : cs = [p \in Owner |-> After(o, e, p)] OBVIOUS
<1>8. co' = cs BY <1>4, <1>7
<1>9. /\ PendingOf(cs, posted)' /\ CurrentOf(cs, posted)' /\ PostedOf(cs, posted)'
      /\ Extra(o, e, base, posted')
  BY <1>7, EndingRuns
<1>10. WorkerOf(cs)' /\ StartOf(posted)' BY <1>7, EndingWork
<1>11. KnownOf(cs, posted, NoProxy)'
  <2>1. KnownOf(cs, base, NoProxy) BY <1>7, EndingBase DEF FlightInv
  <2>2. ASSUME NEW p \in DOMAIN proxies', p # NoProxy
        PROVE  Known(p, cs[proxies'[p].owner], proxies'[p].owner, posted')
    <3>1. Known(p, cs[proxies[p].owner], proxies[p].owner, base) BY <1>4, <2>1, <2>2 DEF KnownOf
    <3>2. QED BY <1>4, <1>9, <3>1 DEF Known, Extra
  <2>3. QED BY <2>2 DEF KnownOf, Known
<1>12. FlightInv(co, posted, NoProxy)'
  BY <1>8, <1>9, <1>10, <1>11 DEF FlightInv
<1>13. QED BY <1>3, <1>4, <1>5, <1>6, <1>12 DEF IInv

----------------------------------------------------------------------------
\* The handlers: calls of the Activity

\* The coordinator of an Activity that suspends or destroys itself.
Leaves(d) == ~d.ready /\ ~d.enabled /\ ~Same(d)

\* Most handlers end with reconcile.
LEMMA ReconcileKeeps ==
  ASSUME IInv, NEW o \in Owner, NEW d, NEW leaving \in BOOLEAN, NEW base, NEW late,
         FlightInv(co, base, late), Quiet(o, d), Moves(o, co[o], d, base),
         late \in DOMAIN proxies => late \in d.retired \cup {d.candidate} /\ proxies[late].owner = o,
         leaving => Leaves(d), Commit(o, Reconcile(d), leaving, base)
  PROVE  IInv'
<1>1. PICK e : e = Reconcile(d) OBVIOUS
<1>2. QueueInv /\ ProxiesInv BY DEF IInv
<1>3. Turn(o, d, e) BY <1>1, <1>2, ReconcileTurns
<1>4. Sound(o, d) BY DEF Quiet
<1>5. Moves(o, co[o], e, base) /\ (e.ask # "none" => Free(o, base)) BY <1>2, <1>3, <1>4, TurnMoves
<1>6. e.ask # "none" => Asked(e) BY <1>3 DEF Turn, Begun, Asked, Asking
<1>7. e.load # None => Loadable(o, e) BY <1>3 DEF Turn
<1>8. late \in DOMAIN proxies => late \in e.retired \cup {e.candidate} /\ proxies[late].owner = o
  BY <1>3 DEF Turn, Grown
<1>9. ASSUME leaving PROVE Left(e)
  <2>1. Leaves(d) BY <1>9
  <2>2. Fixed(d, e) BY <1>3 DEF Turn
  <2>3. CASE e.ask = "none" BY <1>3, <2>1, <2>2, <2>3 DEF Turn, Leaves, Left, Fixed, Same
  <2>4. CASE e.ask # "none"
    <3>1. Begun(e) BY <1>3, <2>4 DEF Turn
    <3>2. e.ask = "clear" /\ e.op.kind = "clear" BY <2>1, <2>2, <3>1 DEF Begun, Leaves, Fixed
    <3>3. QED BY <2>1, <2>2, <3>2 DEF Leaves, Fixed, Left
  <2>5. QED BY <2>3, <2>4
<1>10. Sound(o, e) BY <1>3 DEF Turn
<1>11. Ends(o, e, leaving, base, late) BY <1>5, <1>6, <1>7, <1>8, <1>9, <1>10 DEF Ends
<1>12. base \in Seq(Message) BY DEF FlightInv, PostedOf
<1>13. Commit(o, e, leaving, base) BY <1>1
<1>14. Ending(o, e, leaving, base, late) BY <1>11, <1>12, <1>13 DEF Ending
<1>15. QED BY <1>14, CommitKeeps

LEMMA TrimMoves ==
  ASSUME NEW o, NEW c, NEW d, NEW e, NEW ps, Moves(o, c, d, ps), Core(o, d), Trim(o, d, e)
  PROVE  Moves(o, c, e, ps) /\ Core(o, e)
<1>1. Core(o, e) BY TrimKeeps
<1>2. e \in Coordinator BY DEF Trim
<1>3. d.op.kind = "start" => e.retired = d.retired BY DEF Core, Trim, HandsOf, Idle
<1>4. Free(o, ps) \/ (e.op = c.op /\ (c.op.kind = "start" => e.retired = c.retired))
  BY <1>3 DEF Moves, Trim, Kept
<1>5. {c.active, c.candidate} \ {NoProxy} \subseteq e.retired \cup {e.active, e.candidate}
  BY DEF Moves, Trim
<1>6. QED BY <1>1, <1>2, <1>4, <1>5 DEF Moves, Trim, Kept

LEMMA SelfMoves ==
  ASSUME IInv, NEW o \in Owner, NEW ps
  PROVE  Moves(o, co[o], co[o], ps)
<1>1. co[o] \in Coordinator /\ OpOf(o, co[o]) BY CoIs
<1>2. co[o].epoch \in Nat BY <1>1 DEF Coordinator
<1>3. co[o].epoch <= co[o].epoch BY <1>2
<1>4. QED BY <1>1, <1>3 DEF Moves

\* A call has no proxy in hand.
LEMMA CallKeeps ==
  ASSUME IInv, NEW o \in Owner, NEW c, NEW d, NEW leaving \in BOOLEAN,
         Moves(o, co[o], c, posted), Core(o, c), Trim(o, c, d), ActiveOf(o, d), d.ask = "none", d.load = None,
         leaving => Leaves(d), Commit(o, Reconcile(d), leaving, posted)
  PROVE  IInv'
<1>1. Moves(o, co[o], d, posted) /\ Core(o, d) BY TrimMoves
<1>2. Quiet(o, d) BY <1>1 DEF Quiet, Sound
<1>3. FlightInv(co, posted, NoProxy) /\ ProxiesInv BY DEF IInv
<1>4. NoProxy \notin DOMAIN proxies BY <1>3 DEF ProxiesInv, NoProxy
<1>5. QED BY <1>1, <1>2, <1>3, <1>4, ReconcileKeeps

LEMMA EnsureKeeps ==
  ASSUME IInv, NEW o \in Owner, Ensure(o)
  PROVE  IInv'
<1>1. PICK config \in Config \cup {None} :
        Commit(o, Reconcile(UpdateDesired(co[o], config, FALSE)), FALSE, posted)
  BY DEF Ensure
<1>2. PICK d : d = UpdateDesired(co[o], config, FALSE) OBVIOUS
<1>3. Quiet(o, co[o]) /\ Core(o, co[o]) BY CoIs DEF Sound
<1>4. Trim(o, co[o], d) BY <1>2, <1>3, UpdateDesiredTrims DEF IInv
<1>5. Quiet(o, d) BY <1>3, <1>4, TrimIsQuiet
<1>6. Commit(o, Reconcile(d), FALSE, posted) BY <1>1, <1>2
<1>7. Moves(o, co[o], co[o], posted) BY SelfMoves
<1>8. QED BY <1>3, <1>4, <1>5, <1>6, <1>7, CallKeeps DEF Quiet, Sound

LEMMA ResumeKeeps ==
  ASSUME IInv, NEW o \in Owner, Resume(o)
  PROVE  IInv'
<1>1. PICK r : r = IF co[o].enabled THEN co[o].ready ELSE FALSE OBVIOUS
<1>2. PICK c : c = [co[o] EXCEPT !.ready = r, !.enabled = TRUE] OBVIOUS
<1>3. PICK config \in Config \cup {None} : Commit(o, Reconcile(UpdateDesired(c, config, FALSE)), FALSE, posted)
  BY <1>1, <1>2 DEF Resume
<1>4. PICK b : b = co[o] OBVIOUS
<1>5. /\ Quiet(o, b) /\ b \in Coordinator /\ HandsOf(o, b) /\ OpOf(o, b) /\ RightsOf(o, b) /\ ActiveOf(o, b)
      /\ Moves(o, b, b, posted)
  BY <1>4, CoIs, SelfMoves
<1>6. r \in BOOLEAN /\ (r => b.ready) /\ (b.enabled => r = b.ready) BY <1>1, <1>4, <1>5 DEF Coordinator
<1>a. c = [b EXCEPT !.ready = r, !.enabled = TRUE] BY <1>2, <1>4
<1>7. c \in Coordinator
  <2>1. PICK a : a = [b EXCEPT !.ready = r] OBVIOUS
  <2>2. a \in Coordinator BY <1>5, <1>6, <2>1 DEF Coordinator
  <2>3. c = [a EXCEPT !.enabled = TRUE] BY <1>a, <2>1
  <2>4. QED BY <2>2, <2>3 DEF Coordinator
<1>8. /\ c.ready = r /\ c.enabled /\ c.op = b.op /\ c.destroyed = b.destroyed /\ c.gate = b.gate
      /\ c.epoch = b.epoch /\ c.installed = b.installed /\ c.settled = b.settled /\ c.ask = b.ask
      /\ c.load = b.load /\ SameHands(b, c)
  BY <1>5, <1>a DEF Coordinator, SameHands
<1>9. HandsOf(o, c) BY <1>5, <1>8 DEF HandsOf, SameHands
<1>10. OpOf(o, c) BY <1>5, <1>6, <1>8 DEF OpOf, Same, SameHands
<1>11. RightsOf(o, c) BY <1>5, <1>6, <1>8 DEF RightsOf
<1>12. ActiveOf(o, c) BY <1>5, <1>6, <1>8 DEF ActiveOf, SameHands
<1>13. Core(o, c) BY <1>7, <1>9, <1>10, <1>11 DEF Core
<1>14. Quiet(o, c) BY <1>5, <1>8, <1>12, <1>13 DEF Quiet, Sound
<1>15. Moves(o, b, c, posted) BY <1>5, <1>7, <1>8 DEF Moves, SameHands
<1>16. PICK d : d = UpdateDesired(c, config, FALSE) OBVIOUS
<1>17. Trim(o, c, d) BY <1>14, <1>16, UpdateDesiredTrims DEF IInv
<1>18. Quiet(o, d) BY <1>14, <1>17, TrimIsQuiet
<1>19. Commit(o, Reconcile(d), FALSE, posted) BY <1>3, <1>16
<1>20. QED BY <1>4, <1>13, <1>15, <1>17, <1>18, <1>19, CallKeeps DEF Quiet, Sound

LEMMA NavigateKeeps ==
  ASSUME IInv, NEW o \in Owner, Navigate(o)
  PROVE  IInv'
<1>p. PICK config \in Config \cup {None} : \E c, target :
        /\ c = IF config # None /\ co[o].status
               THEN [DropActive(co[o]) EXCEPT !.status = FALSE] ELSE co[o]
        /\ target = IF config = None THEN Direct ELSE config.scope
        /\ Commit(o, Reconcile([UpdateDesired(c, config, TRUE) EXCEPT !.nav = target]), FALSE, posted)
  BY DEF Navigate
<1>1. PICK c, target :
        /\ c = IF config # None /\ co[o].status
               THEN [DropActive(co[o]) EXCEPT !.status = FALSE] ELSE co[o]
        /\ target = IF config = None THEN Direct ELSE config.scope
        /\ Commit(o, Reconcile([UpdateDesired(c, config, TRUE) EXCEPT !.nav = target]), FALSE, posted)
  BY <1>p
<1>2. PICK b : b = co[o] OBVIOUS
<1>3. Quiet(o, b) /\ Core(o, b) /\ b \in Coordinator /\ HandsOf(o, b) /\ Moves(o, b, b, posted)
  BY <1>2, CoIs, SelfMoves DEF Sound
<1>4. Trim(o, b, c)
  <2>1. CASE config # None /\ co[o].status
    <3>1. PICK a : a = DropActive(b) OBVIOUS
    <3>2. Trim(o, b, a) BY <1>3, <3>1, DropActiveTrims
    <3>3. a \in Coordinator /\ HandsOf(o, a) BY <3>2 DEF Trim
    <3>4. c = [a EXCEPT !.status = FALSE] BY <1>1, <1>2, <2>1, <3>1
    <3>5. c \in Coordinator BY <3>3, <3>4 DEF Coordinator
    <3>6. Kept(a, c) /\ SameHands(a, c) BY <3>3, <3>4 DEF Coordinator, Kept, SameHands
    <3>7. Trim(o, a, c) BY <3>3, <3>5, <3>6, TrimAll
    <3>8. QED BY <3>2, <3>7, TrimTwice
  <2>2. CASE ~(config # None /\ co[o].status)
    <3>1. c = b BY <1>1, <1>2, <2>2
    <3>2. QED BY <1>3, <3>1, TrimSelf
  <2>3. QED BY <2>1, <2>2
<1>5. Quiet(o, c) BY <1>3, <1>4, TrimIsQuiet
<1>6. PICK d : d = UpdateDesired(c, config, TRUE) OBVIOUS
<1>7. Trim(o, c, d) BY <1>5, <1>6, UpdateDesiredTrims DEF IInv
<1>8. target \in Target \cup {None}
  <2>1. config # None => config.scope \in Host BY DEF Config
  <2>2. QED BY <1>1, <2>1 DEF Target
<1>9. PICK f : f = [d EXCEPT !.nav = target] OBVIOUS
<1>10. Trim(o, d, f)
  <2>1. d \in Coordinator /\ HandsOf(o, d) BY <1>7 DEF Trim
  <2>2. QED BY <1>8, <1>9, <2>1, NavMinor, MinorTrims
<1>11. Trim(o, b, f) BY <1>4, <1>7, <1>10, TrimTwice
<1>12. Quiet(o, f) BY <1>3, <1>11, TrimIsQuiet
<1>13. Commit(o, Reconcile(f), FALSE, posted) BY <1>1, <1>6, <1>9
<1>14. QED BY <1>2, <1>3, <1>11, <1>12, <1>13, CallKeeps DEF Quiet, Sound

\* The coordinator c, no longer enabled nor ready, in its next epoch.
Withdraws(c, d) ==
  /\ ~d.enabled /\ ~d.ready /\ d.epoch = c.epoch + 1 /\ d.op = c.op /\ d.gate = c.gate
  /\ d.installed = c.installed /\ d.settled = c.settled /\ d.ask = c.ask /\ d.load = c.load
  /\ SameHands(c, d)

\* Withdrawing and dropping all proxies is sound whatever was under way.
LEMMA WithdrawMoves ==
  ASSUME IInv, NEW o \in Owner, NEW c, Withdraws(co[o], c), c \in Coordinator, NEW ps,
         NEW e, Minor(c, e)
  PROVE  /\ Moves(o, co[o], e, ps) /\ Core(o, e) /\ Trim(o, e, RevokePublished(e))
         /\ Quiet(o, RevokePublished(e)) /\ Leaves(RevokePublished(e))
<1>1. PICK b : b = co[o] OBVIOUS
<1>2. /\ Quiet(o, b) /\ b \in Coordinator /\ HandsOf(o, b) /\ OpOf(o, b) /\ RightsOf(o, b)
      /\ Withdraws(b, c)
  BY <1>1, CoIs
<1>3. b.epoch \in Nat /\ b.op.epoch \in Nat /\ b.op.epoch <= b.epoch BY <1>2 DEF Coordinator, Op, OpOf
<1>4. PICK n \in Nat : n = b.epoch + 1 /\ b.op.epoch <= n /\ b.epoch <= n /\ b.op.epoch # n BY <1>3
<1>5. /\ ~e.enabled /\ ~e.ready /\ e.epoch = n /\ e.op = b.op /\ e.gate = b.gate
      /\ e.installed = b.installed /\ e.settled = b.settled /\ e.ask = b.ask /\ e.load = b.load
      /\ SameHands(b, e) /\ e \in Coordinator
  BY <1>2, <1>4 DEF Minor, Kept, SameHands, Withdraws
<1>6. ~Same(e) BY <1>4, <1>5 DEF Same
<1>7. HandsOf(o, e) BY <1>2, <1>5 DEF HandsOf, SameHands
<1>8. OpOf(o, e) BY <1>2, <1>4, <1>5, <1>6 DEF OpOf, SameHands
<1>9. RightsOf(o, e) BY <1>2, <1>5 DEF RightsOf
<1>10. Core(o, e) BY <1>5, <1>7, <1>8, <1>9 DEF Core
<1>11. Moves(o, b, e, ps) BY <1>2, <1>4, <1>5 DEF Moves, SameHands
<1>12. PICK d : d = RevokePublished(e) OBVIOUS
<1>13. Trim(o, e, d) /\ d.active = NoProxy BY <1>5, <1>7, <1>12, RevokePublishedTrims
<1>14. Core(o, d) BY <1>10, <1>13, TrimKeeps
<1>15. Kept(e, d) BY <1>13 DEF Trim
<1>16. Quiet(o, d) BY <1>2, <1>5, <1>13, <1>14, <1>15 DEF Quiet, Sound, ActiveOf, Kept
<1>17. Leaves(d) BY <1>5, <1>6, <1>15 DEF Leaves, Kept, Same
<1>18. QED BY <1>1, <1>10, <1>11, <1>12, <1>13, <1>16, <1>17

LEMMA SuspendKeeps ==
  ASSUME IInv, NEW o \in Owner, Suspend(o)
  PROVE  IInv'
<1>1. PICK b : b = co[o] OBVIOUS
<1>2. b \in Coordinator BY <1>1, CoIs
<1>3. PICK n : n = b.epoch + 1 OBVIOUS
<1>4. n \in Nat BY <1>2, <1>3 DEF Coordinator
<1>5. PICK c : c = [b EXCEPT !.enabled = FALSE, !.ready = FALSE, !.epoch = n] OBVIOUS
<1>6. c \in Coordinator BY <1>2, <1>4, <1>5 DEF Coordinator
<1>7. Withdraws(b, c) BY <1>2, <1>3, <1>5 DEF Coordinator, Withdraws, SameHands
<1>8. Minor(c, c) BY <1>6 DEF Minor, Kept, SameHands
<1>9. PICK d : d = RevokePublished(c) OBVIOUS
<1>10. Moves(o, co[o], c, posted) /\ Core(o, c) /\ Trim(o, c, d) /\ Quiet(o, d) /\ Leaves(d)
  BY <1>1, <1>6, <1>7, <1>8, <1>9, WithdrawMoves
<1>11. Commit(o, Reconcile(d), TRUE, posted) BY <1>1, <1>3, <1>5, <1>9 DEF Suspend
<1>12. QED BY <1>10, <1>11, CallKeeps DEF Quiet, Sound

LEMMA DestroyKeeps ==
  ASSUME IInv, NEW o \in Owner, Destroy(o)
  PROVE  IInv'
<1>1. PICK b : b = co[o] OBVIOUS
<1>2. b \in Coordinator BY <1>1, CoIs
<1>3. PICK n : n = b.epoch + 1 OBVIOUS
<1>4. n \in Nat BY <1>2, <1>3 DEF Coordinator
<1>5. PICK c : c = [b EXCEPT !.destroyed = TRUE, !.enabled = FALSE, !.ready = FALSE, !.epoch = n, !.nav = None]
  OBVIOUS
<1>6. c \in Coordinator
  <2>1. PICK a : a = [b EXCEPT !.destroyed = TRUE, !.enabled = FALSE, !.ready = FALSE] OBVIOUS
  <2>2. a \in Coordinator BY <1>2, <2>1 DEF Coordinator
  <2>3. c = [a EXCEPT !.epoch = n, !.nav = None] BY <1>5, <2>1
  <2>4. QED BY <1>4, <2>2, <2>3 DEF Coordinator
<1>7. Withdraws(b, c) BY <1>2, <1>3, <1>5 DEF Coordinator, Withdraws, SameHands
<1>8. PICK e : e = Desire(c, None) OBVIOUS
<1>9. Minor(c, e) BY <1>6, <1>8, DesireMinor
<1>10. PICK d : d = RevokePublished(e) OBVIOUS
<1>11. Moves(o, co[o], e, posted) /\ Core(o, e) /\ Trim(o, e, d) /\ Quiet(o, d) /\ Leaves(d)
  BY <1>1, <1>6, <1>7, <1>9, <1>10, WithdrawMoves
<1>12. Commit(o, Reconcile(d), TRUE, posted) BY <1>1, <1>3, <1>5, <1>8, <1>10 DEF Destroy
<1>13. QED BY <1>11, <1>12, CallKeeps DEF Quiet, Sound

LEMMA TakeMainFrameStatusKeeps ==
  ASSUME IInv, NEW o \in Owner, TakeMainFrameStatus(o)
  PROVE  IInv'
<1>1. PICK b : b = co[o] OBVIOUS
<1>2. Rest(o, b) /\ b \in Coordinator BY <1>1, CoIs
<1>3. PICK d : d = [b EXCEPT !.status = FALSE] OBVIOUS
<1>4. d \in Coordinator BY <1>2, <1>3 DEF Coordinator
<1>5. Kept(b, d) /\ SameHands(b, d) BY <1>2, <1>3 DEF Coordinator, Kept, SameHands
<1>6. Rest(o, d)
  <2>1. Trim(o, b, d) BY <1>2, <1>4, <1>5, TrimAll DEF Rest, Core
  <2>2. QED BY <1>2, <1>5, <2>1, TrimKeeps DEF Rest, Kept
<1>7. PICK cs : cs = [co EXCEPT ![o].status = FALSE] OBVIOUS
<1>8. co = [p \in Owner |-> co[p]] BY DEF IInv, CoordInv
<1>9. cs = [p \in Owner |-> IF p = o THEN d ELSE co[p]]
  BY <1>1, <1>3, <1>7, <1>8
<1>10. /\ co' = cs /\ latest' = latest /\ claimed' = claimed /\ listening' = listening
       /\ pending' = pending /\ current' = current /\ activeOwner' = activeOwner /\ override' = override
       /\ posted' = posted /\ proxies' = proxies /\ stopped' = stopped /\ joined' = joined
       /\ worker' = worker /\ loaded' = loaded
  BY <1>7 DEF TakeMainFrameStatus, claims, running
<1>11. \A p \in Owner : Rest(p, cs[p]) BY <1>6, <1>9, CoIs
<1>12. FlightInv(cs, posted, NoProxy)
  <2>1. Moves(o, co[o], co[o], posted) BY SelfMoves
  <2>2. Moves(o, co[o], d, posted) BY <1>1, <1>4, <1>5, <2>1 DEF Moves, Kept, SameHands
  <2>3. \A p \in Owner : Moves(p, co[p], cs[p], posted) BY <1>9, <2>2, SelfMoves
  <2>4. FlightInv(co, posted, NoProxy) /\ QueueInv /\ ProxiesInv BY DEF IInv
  <2>5. NoProxy \notin DOMAIN proxies BY <2>4 DEF ProxiesInv, NoProxy
  <2>6. QED BY <2>3, <2>4, <2>5, FlightMoves
<1>13. QED
  <2>1. cs = [p \in Owner |-> cs[p]] BY <1>9
  <2>2. \A p \in Owner : Rest(p, cs[p])'
    <3>1. ASSUME NEW p \in Owner PROVE Rest(p, cs[p])'
      <4>1. PICK c : c = cs[p] OBVIOUS
      <4>2. Rest(p, c) BY <1>11, <4>1
      <4>3. Rest(p, c)'
        BY <1>10, <4>2 DEF Rest, Core, Coordinator, HandsOf, OpOf, RightsOf, ActiveOf, Mine, Claimed,
             Entitled, Serves
      <4>4. QED BY <4>1, <4>3
    <3>2. QED BY <3>1
  <2>3. CoordInv' BY <1>10, <2>1, <2>2 DEF CoordInv, Owner
  <2>4. FlightInv(cs, posted, NoProxy)'
    BY <1>10, <1>12 DEF FlightInv, PendingOf, CurrentOf, StartOf, PostedOf, WorkerOf, KnownOf, Known,
         MessageOf, JobOf, Fits, Mine, Claimed, Entitled, Serves, Same, Message, Operation, Job, Owner,
         Config, Asking
  <2>5. FlightInv(co, posted, NoProxy)' BY <1>10, <2>4
  <2>6. QueueInv' /\ ProxiesInv' /\ LoadsAsRouted'
    BY <1>10 DEF IInv, QueueInv, ProxiesInv, LoadsAsRouted, Using, Mine, Proxy, Operation, Owner, Config
  <2>7. QED BY <2>3, <2>5, <2>6 DEF IInv

----------------------------------------------------------------------------
\* The handlers: callbacks

\* A handler that ends without reconcile, or after one.
LEMMA TurnKeeps ==
  ASSUME IInv, NEW o \in Owner, NEW d, NEW e, NEW base, NEW late,
         FlightInv(co, base, late), Sound(o, d), Moves(o, co[o], d, base), Turn(o, d, e),
         late \in DOMAIN proxies => late \in d.retired \cup {d.candidate} /\ proxies[late].owner = o,
         Commit(o, e, FALSE, base)
  PROVE  IInv'
<1>1. QueueInv BY DEF IInv
<1>2. Moves(o, co[o], e, base) /\ (e.ask # "none" => Free(o, base)) BY <1>1, TurnMoves
<1>3. e.ask # "none" => Asked(e) BY DEF Turn, Begun, Asked, Asking
<1>4. e.load # None => Loadable(o, e) BY DEF Turn
<1>5. late \in DOMAIN proxies => late \in e.retired \cup {e.candidate} /\ proxies[late].owner = o
  BY DEF Turn, Grown
<1>6. Sound(o, e) BY DEF Turn
<1>7. Ends(o, e, FALSE, base, late) BY <1>2, <1>3, <1>4, <1>5, <1>6 DEF Ends
<1>8. base \in Seq(Message) BY DEF FlightInv, PostedOf
<1>9. Ending(o, e, FALSE, base, late) BY <1>7, <1>8 DEF Ending
<1>10. QED BY <1>9, CommitKeeps

\* What the head of the callbacks says, once it has been taken.
Taken(m, o, b, late) ==
  /\ m = Head(posted) /\ m \in Message /\ o = m.to /\ o \in Owner /\ b = co[o]
  /\ MessageOf(m, b) /\ FlightInv(co, Tail(posted), late)
  /\ m.kind \in Asking => Free(o, Tail(posted))
  /\ Rest(o, b) /\ Sound(o, b) /\ Quiet(o, b) /\ b \in Coordinator /\ HandsOf(o, b) /\ OpOf(o, b)
  /\ RightsOf(o, b) /\ ActiveOf(o, b)
  /\ QueueInv /\ ProxiesInv /\ NoProxy \notin DOMAIN proxies

LEMMA CallbackTaken ==
  ASSUME IInv, NEW kind, Callbacks(kind), NEW m, m = Head(posted), NEW late,
         kind = "start" => late = m.proxy
  PROVE  Taken(m, m.to, co[m.to], late) /\ m.kind = kind
<1>1. posted # <<>> /\ m.kind = kind BY DEF Callbacks
<1>2. FlightInv(co, posted, NoProxy) /\ ProxiesInv /\ QueueInv BY DEF IInv
<1>3. /\ FlightInv(co, Tail(posted), late) /\ m \in Message /\ m.to \in Owner /\ MessageOf(m, co[m.to])
      /\ m.kind \in Asking => Free(m.to, Tail(posted))
  BY <1>1, <1>2, PopFlight
<1>4. NoProxy \notin DOMAIN proxies BY <1>2 DEF ProxiesInv, NoProxy
<1>5. /\ Rest(m.to, co[m.to]) /\ Sound(m.to, co[m.to]) /\ Quiet(m.to, co[m.to])
      /\ co[m.to] \in Coordinator /\ HandsOf(m.to, co[m.to]) /\ OpOf(m.to, co[m.to])
      /\ RightsOf(m.to, co[m.to]) /\ ActiveOf(m.to, co[m.to])
  BY <1>3, CoIs
<1>6. QED BY <1>1, <1>2, <1>3, <1>4, <1>5 DEF Taken

\* An operation that has no proxy yet ends.
LEMMA EndedIs ==
  ASSUME NEW m, NEW o, NEW b, NEW late, Taken(m, o, b, late), m.kind \in {"acquire", "clear", "start"},
         NEW c, c = Ended(o)
  PROVE  /\ c \in Coordinator /\ Quiet(o, c) /\ Core(o, c) /\ Moves(o, co[o], c, Tail(posted))
         /\ c.op = Idle /\ c.active = NoProxy /\ c.candidate = NoProxy
         /\ c.enabled = b.enabled /\ c.ready = b.ready /\ c.destroyed = b.destroyed /\ c.gate = b.gate
         /\ c.epoch = b.epoch /\ c.installed = b.installed /\ c.settled = b.settled /\ SameHands(b, c)
         /\ c.ask = "none" /\ c.load = None /\ c.revision = b.revision /\ b.op.kind = m.kind
<1>1. /\ Rest(o, b) /\ b \in Coordinator /\ HandsOf(o, b) /\ OpOf(o, b) /\ RightsOf(o, b)
      /\ MessageOf(m, b) /\ b = co[o] /\ (m.kind \in Asking => Free(o, Tail(posted)))
  BY DEF Taken
<1>2. c = [b EXCEPT !.op = Idle] BY <1>1 DEF Ended
<1>3. Idle \in Op /\ Idle.kind = "idle" /\ Idle.epoch = 0 BY DEF Idle, Op, NoProxy
<1>4. c \in Coordinator BY <1>1, <1>2, <1>3 DEF Coordinator
<1>5. /\ c.op = Idle /\ c.enabled = b.enabled /\ c.ready = b.ready /\ c.destroyed = b.destroyed
      /\ c.gate = b.gate /\ c.epoch = b.epoch /\ c.installed = b.installed /\ c.settled = b.settled
      /\ SameHands(b, c) /\ c.ask = b.ask /\ c.load = b.load /\ c.revision = b.revision
  BY <1>1, <1>2 DEF Coordinator, SameHands
<1>6. b.op.kind = m.kind /\ m.kind \in Asking BY <1>1 DEF MessageOf, Asking
<1>7. b.active = NoProxy /\ b.candidate = NoProxy
  <2>1. b.op # Idle BY <1>3, <1>6
  <2>2. QED BY <1>1, <1>6, <2>1 DEF HandsOf
<1>8. HandsOf(o, c) BY <1>1, <1>5, <1>7 DEF HandsOf, SameHands
<1>9. b.epoch \in Nat BY <1>1 DEF Coordinator
<1>10. OpOf(o, c) BY <1>3, <1>5, <1>9 DEF OpOf
<1>11. RightsOf(o, c) BY <1>1, <1>5, <1>6 DEF RightsOf
<1>12. Core(o, c) BY <1>4, <1>8, <1>10, <1>11 DEF Core
<1>13. Quiet(o, c) BY <1>1, <1>5, <1>7, <1>12 DEF Quiet, Sound, ActiveOf, SameHands, Rest
<1>14. b.epoch <= c.epoch BY <1>5, <1>9
<1>15. Moves(o, co[o], c, Tail(posted))
  BY <1>1, <1>4, <1>5, <1>6, <1>7, <1>14 DEF Moves, SameHands
<1>16. QED BY <1>1, <1>4, <1>5, <1>6, <1>7, <1>12, <1>13, <1>15 DEF SameHands, Rest

\* A handler of a callback that ends with reconcile.
LEMMA BackKeeps ==
  ASSUME IInv, NEW m, NEW o, NEW b, NEW late, Taken(m, o, b, late),
         NEW d, Quiet(o, d), Moves(o, co[o], d, Tail(posted)),
         late \in DOMAIN proxies => late \in d.retired \cup {d.candidate} /\ proxies[late].owner = o,
         Commit(o, Reconcile(d), FALSE, Tail(posted))
  PROVE  IInv'
BY ReconcileKeeps DEF Taken

LEMMA OnAcquiredKeeps ==
  ASSUME IInv, OnAcquired
  PROVE  IInv'
<1>1. PICK m : m = Head(posted) OBVIOUS
<1>2. PICK o, b : o = m.to /\ b = co[o] OBVIOUS
<1>3. Callbacks("acquire") BY DEF OnAcquired
<1>4. Taken(m, o, b, NoProxy) /\ m.kind = "acquire" BY <1>1, <1>2, <1>3, CallbackTaken
<1>5. PICK c : c = Ended(o) OBVIOUS
<1>6. /\ c \in Coordinator /\ Quiet(o, c) /\ Core(o, c) /\ Moves(o, co[o], c, Tail(posted))
      /\ c.op = Idle /\ c.active = NoProxy /\ c.gate = b.gate
      /\ c.epoch = b.epoch /\ c.ask = "none" /\ c.load = None /\ c.ready = b.ready
  BY <1>4, <1>5, EndedIs
<1>7. PICK same \in BOOLEAN : same = (c.epoch = b.op.epoch) OBVIOUS
<1>8. PICK f : f = [c EXCEPT !.enabled = FALSE, !.nav = None] OBVIOUS
<1>9. PICK g : g = PublishCompat(Publish(f, NoProxy), None) OBVIOUS
<1>10. PICK d : d = CASE m.ok /\ same /\ c.enabled /\ ~c.destroyed /\ ~c.gate -> [c EXCEPT !.ready = TRUE]
                      [] ~m.ok /\ same -> g
                      [] OTHER -> c
  OBVIOUS
<1>11. Commit(o, Reconcile(d), FALSE, Tail(posted))
  BY <1>1, <1>2, <1>5, <1>7, <1>8, <1>9, <1>10 DEF OnAcquired
<1>12. Quiet(o, d) /\ Moves(o, co[o], d, Tail(posted))
  <2>1. CASE m.ok /\ same /\ c.enabled /\ ~c.destroyed /\ ~c.gate
    <3>1. d = [c EXCEPT !.ready = TRUE] BY <1>10, <2>1
    <3>2. d \in Coordinator BY <1>6, <3>1 DEF Coordinator
    <3>3. /\ d.ready /\ d.op = c.op /\ d.gate = c.gate /\ d.epoch = c.epoch /\ d.installed = c.installed
          /\ d.settled = c.settled /\ d.ask = c.ask /\ d.load = c.load /\ SameHands(c, d)
      BY <1>6, <3>1 DEF Coordinator, SameHands
    <3>4. Entitled(o) /\ Claimed(o)
      <4>1. Same(b) BY <1>6, <1>7, <2>1 DEF Same
      <4>2. MessageOf(m, b) /\ o = m.to BY <1>4 DEF Taken
      <4>3. QED BY <1>4, <2>1, <4>1, <4>2 DEF MessageOf
    <3>5. HandsOf(o, d) BY <1>6, <3>3 DEF Core, HandsOf, SameHands
    <3>6. OpOf(o, d) BY <1>6, <3>3 DEF Core, OpOf, Idle
    <3>7. RightsOf(o, d) BY <1>6, <3>3, <3>4 DEF Core, RightsOf
    <3>8. Quiet(o, d) BY <1>6, <3>2, <3>3, <3>5, <3>6, <3>7 DEF Quiet, Sound, Core, ActiveOf, SameHands
    <3>9. Moves(o, co[o], d, Tail(posted)) BY <1>6, <3>2, <3>3 DEF Moves, SameHands
    <3>10. QED BY <3>8, <3>9
  <2>2. CASE ~m.ok /\ same
    <3>1. d = g BY <1>10, <2>2
    <3>2. f \in Coordinator
      <4>0. c \in Coordinator BY <1>6
      <4>1. PICK a : a = [c EXCEPT !.enabled = FALSE] OBVIOUS
      <4>2. a \in Coordinator BY <4>0, <4>1 DEF Coordinator
      <4>3. f = [a EXCEPT !.nav = None] BY <1>8, <4>1
      <4>4. QED BY <4>2, <4>3 DEF Coordinator
    <3>3. /\ f.ready = c.ready /\ f.op = c.op /\ f.gate = c.gate /\ f.epoch = c.epoch
          /\ f.installed = c.installed /\ f.settled = c.settled /\ f.ask = c.ask /\ f.load = c.load
          /\ SameHands(c, f)
      BY <1>6, <1>8 DEF Coordinator, SameHands
    <3>4. HandsOf(o, f) BY <1>6, <3>3 DEF Core, HandsOf, SameHands
    <3>5. OpOf(o, f) BY <1>6, <3>3 DEF Core, OpOf, Idle
    <3>6. RightsOf(o, f) BY <1>6, <3>3 DEF Core, RightsOf
    <3>7. Core(o, f) BY <3>2, <3>4, <3>5, <3>6 DEF Core
    <3>8. Quiet(o, f) BY <1>6, <3>3, <3>7 DEF Quiet, Sound, ActiveOf, SameHands
    <3>9. Moves(o, co[o], f, Tail(posted)) BY <1>6, <3>2, <3>3 DEF Moves, SameHands
    <3>10. PICK h : h = Publish(f, NoProxy) OBVIOUS
    <3>11. Trim(o, f, h) BY <3>2, <3>4, <3>10, PublishTrims
    <3>12. Trim(o, h, g) BY <1>9, <3>10, <3>11, PublishCompatTrims DEF Trim
    <3>13. Trim(o, f, g) BY <3>11, <3>12, TrimTwice
    <3>14. QED BY <3>1, <3>7, <3>8, <3>9, <3>13, TrimIsQuiet, TrimMoves
  <2>3. CASE ~(m.ok /\ same /\ c.enabled /\ ~c.destroyed /\ ~c.gate) /\ ~(~m.ok /\ same)
    BY <1>6, <1>10, <2>3
  <2>4. QED BY <2>1, <2>2, <2>3
<1>13. NoProxy \notin DOMAIN proxies BY <1>4 DEF Taken
<1>14. QED BY <1>4, <1>11, <1>12, <1>13, BackKeeps

LEMMA OnClearedKeeps ==
  ASSUME IInv, OnCleared
  PROVE  IInv'
<1>1. PICK m : m = Head(posted) OBVIOUS
<1>2. PICK o, b : o = m.to /\ b = co[o] OBVIOUS
<1>3. Callbacks("clear") BY DEF OnCleared
<1>4. Taken(m, o, b, NoProxy) /\ m.kind = "clear" BY <1>1, <1>2, <1>3, CallbackTaken
<1>5. PICK c : c = Ended(o) OBVIOUS
<1>6. /\ c \in Coordinator /\ Quiet(o, c) /\ Core(o, c) /\ Moves(o, co[o], c, Tail(posted))
      /\ c.op = Idle /\ c.active = NoProxy /\ c.ask = "none" /\ c.load = None
  BY <1>4, <1>5, EndedIs
<1>7. PICK f : f = [c EXCEPT !.installed = FALSE] OBVIOUS
<1>8. PICK g : g = [c EXCEPT !.enabled = FALSE, !.ready = FALSE, !.nav = None] OBVIOUS
<1>9. Commit(o, IF m.ok THEN Reconcile(f) ELSE Publish(g, NoProxy), FALSE, Tail(posted))
  BY <1>1, <1>2, <1>5, <1>7, <1>8 DEF OnCleared
<1>10. NoProxy \notin DOMAIN proxies /\ o \in Owner /\ FlightInv(co, Tail(posted), NoProxy) BY <1>4 DEF Taken
<1>11. CASE m.ok
  <2>1. f \in Coordinator
    <3>1. c \in Coordinator BY <1>6
    <3>2. QED BY <1>7, <3>1 DEF Coordinator
  <2>2. /\ ~f.installed /\ f.ready = c.ready /\ f.op = c.op /\ f.gate = c.gate /\ f.epoch = c.epoch
        /\ f.settled = c.settled /\ f.ask = c.ask /\ f.load = c.load /\ SameHands(c, f)
    BY <1>6, <1>7 DEF Coordinator, SameHands
  <2>3. HandsOf(o, f) BY <1>6, <2>2 DEF Core, HandsOf, SameHands
  <2>4. OpOf(o, f) BY <1>6, <2>2 DEF Core, OpOf, Idle
  <2>5. RightsOf(o, f)
    <3>1. MessageOf(m, b) /\ o = m.to BY <1>4 DEF Taken
    <3>2. activeOwner # o BY <1>4, <1>11, <3>1 DEF MessageOf
    <3>3. QED BY <1>6, <2>2, <3>2 DEF Core, RightsOf
  <2>6. Quiet(o, f) BY <1>6, <2>1, <2>2, <2>3, <2>4, <2>5 DEF Quiet, Sound, Core, ActiveOf, SameHands
  <2>7. Moves(o, co[o], f, Tail(posted)) BY <1>6, <2>1, <2>2 DEF Moves, SameHands
  <2>8. Commit(o, Reconcile(f), FALSE, Tail(posted)) BY <1>9, <1>11
  <2>9. QED BY <1>4, <1>10, <2>6, <2>7, <2>8, BackKeeps
<1>12. CASE ~m.ok
  <2>1. g \in Coordinator
    <3>0. c \in Coordinator BY <1>6
    <3>1. PICK a : a = [c EXCEPT !.enabled = FALSE, !.ready = FALSE] OBVIOUS
    <3>2. a \in Coordinator BY <3>0, <3>1 DEF Coordinator
    <3>3. g = [a EXCEPT !.nav = None] BY <1>8, <3>1
    <3>4. QED BY <3>2, <3>3 DEF Coordinator
  <2>2. /\ g.installed = c.installed /\ ~g.ready /\ g.op = c.op /\ g.gate = c.gate /\ g.epoch = c.epoch
        /\ g.settled = c.settled /\ g.ask = c.ask /\ g.load = c.load /\ SameHands(c, g)
    BY <1>6, <1>8 DEF Coordinator, SameHands
  <2>3. HandsOf(o, g) BY <1>6, <2>2 DEF Core, HandsOf, SameHands
  <2>4. OpOf(o, g) BY <1>6, <2>2 DEF Core, OpOf, Idle
  <2>5. RightsOf(o, g) BY <1>6, <2>2 DEF Core, RightsOf
  <2>6. Quiet(o, g) BY <1>6, <2>1, <2>2, <2>3, <2>4, <2>5 DEF Quiet, Sound, Core, ActiveOf, SameHands
  <2>7. Moves(o, co[o], g, Tail(posted)) BY <1>6, <2>1, <2>2 DEF Moves, SameHands
  <2>8. PICK e : e = Publish(g, NoProxy) OBVIOUS
  <2>9. Trim(o, g, e) BY <2>1, <2>3, <2>8, PublishTrims
  <2>10. Turn(o, g, e) BY <2>6, <2>9, TrimIsQuiet
  <2>11. Commit(o, e, FALSE, Tail(posted)) BY <1>9, <1>12, <2>8
  <2>12. Sound(o, g) BY <2>6 DEF Quiet
  <2>13. QED BY <1>10, <2>7, <2>10, <2>11, <2>12, TurnKeeps
<1>13. QED BY <1>11, <1>12

LEMMA OnOwnershipRevokedKeeps ==
  ASSUME IInv, OnOwnershipRevoked
  PROVE  IInv'
<1>1. PICK m : m = Head(posted) OBVIOUS
<1>2. PICK o, b : o = m.to /\ b = co[o] OBVIOUS
<1>3. Callbacks("revoked") BY DEF OnOwnershipRevoked
<1>4. Taken(m, o, b, NoProxy) BY <1>1, <1>2, <1>3, CallbackTaken
<1>5. PICK n : n = b.epoch + 1 OBVIOUS
<1>6. PICK k : k = -1 OBVIOUS
<1>7. PICK c : c = [b EXCEPT !.enabled = FALSE, !.ready = FALSE, !.epoch = n, !.nav = None, !.failed = k]
  OBVIOUS
<1>8. Commit(o, IF b.destroyed THEN b ELSE Reconcile(RevokePublished(c)), FALSE, Tail(posted))
  BY <1>1, <1>2, <1>5, <1>6, <1>7 DEF OnOwnershipRevoked
<1>9. /\ NoProxy \notin DOMAIN proxies /\ o \in Owner /\ FlightInv(co, Tail(posted), NoProxy)
      /\ b \in Coordinator /\ Quiet(o, b) /\ HandsOf(o, b) /\ b = co[o]
  BY <1>4 DEF Taken
<1>10. CASE b.destroyed
  <2>1. Turn(o, b, b) BY <1>9, TrimSelf, TrimIsQuiet
  <2>2. Moves(o, co[o], b, Tail(posted)) BY <1>9, SelfMoves
  <2>3. Commit(o, b, FALSE, Tail(posted)) BY <1>8, <1>10
  <2>4. QED BY <1>9, <2>1, <2>2, <2>3, TurnKeeps DEF Quiet
<1>11. CASE ~b.destroyed
  <2>1. n \in Nat /\ k \in Int BY <1>5, <1>6, <1>9 DEF Coordinator
  <2>2. c \in Coordinator
    <3>1. PICK a : a = [b EXCEPT !.enabled = FALSE, !.ready = FALSE] OBVIOUS
    <3>2. a \in Coordinator BY <1>9, <3>1 DEF Coordinator
    <3>3. PICK f : f = [a EXCEPT !.epoch = n, !.nav = None] OBVIOUS
    <3>4. f \in Coordinator BY <2>1, <3>2, <3>3 DEF Coordinator
    <3>5. c = [f EXCEPT !.failed = k] BY <1>7, <3>1, <3>3
    <3>6. QED BY <2>1, <3>4, <3>5 DEF Coordinator
  <2>3. Withdraws(b, c) BY <1>5, <1>7, <1>9 DEF Coordinator, Withdraws, SameHands
  <2>4. Minor(c, c) BY <2>2 DEF Minor, Kept, SameHands
  <2>5. PICK d : d = RevokePublished(c) OBVIOUS
  <2>6. /\ Moves(o, co[o], c, Tail(posted)) /\ Core(o, c) /\ Trim(o, c, d) /\ Quiet(o, d)
    BY <1>9, <2>2, <2>3, <2>4, <2>5, WithdrawMoves
  <2>7. Moves(o, co[o], d, Tail(posted)) BY <2>6, TrimMoves
  <2>8. Commit(o, Reconcile(d), FALSE, Tail(posted)) BY <1>8, <1>11, <2>5
  <2>9. QED BY <1>4, <1>9, <2>6, <2>7, <2>8, BackKeeps
<1>12. QED BY <1>10, <1>11

LEMMA RetirementCompleteKeeps ==
  ASSUME IInv, RetirementComplete
  PROVE  IInv'
<1>1. PICK m : m = Head(posted) OBVIOUS
<1>2. PICK o, b : o = m.to /\ b = co[o] OBVIOUS
<1>3. Callbacks("join") BY DEF RetirementComplete
<1>4. Taken(m, o, b, NoProxy) /\ m.kind = "join" BY <1>1, <1>2, <1>3, CallbackTaken
<1>5. PICK s : s = b.settled \cup {m.proxy} OBVIOUS
<1>6. PICK d : d = [b EXCEPT !.settled = s] OBVIOUS
<1>7. Commit(o, Reconcile(d), FALSE, Tail(posted)) BY <1>1, <1>2, <1>5, <1>6 DEF RetirementComplete
<1>8. /\ NoProxy \notin DOMAIN proxies /\ o \in Owner /\ b \in Coordinator /\ Quiet(o, b) /\ HandsOf(o, b)
      /\ OpOf(o, b) /\ RightsOf(o, b) /\ ActiveOf(o, b) /\ b = co[o] /\ MessageOf(m, b) /\ m \in Message
  BY <1>4 DEF Taken
<1>9. m.proxy \in b.retired /\ m.proxy \in joined BY <1>4, <1>8 DEF MessageOf
<1>10. s \subseteq b.retired /\ s \subseteq joined /\ b.settled \subseteq s BY <1>5, <1>8, <1>9 DEF HandsOf
<1>11. s \in SUBSET Nat BY <1>8, <1>10 DEF Coordinator
<1>12. d \in Coordinator BY <1>6, <1>8, <1>11 DEF Coordinator
<1>13. /\ d.settled = s /\ d.ready = b.ready /\ d.op = b.op /\ d.gate = b.gate /\ d.epoch = b.epoch
       /\ d.installed = b.installed /\ d.ask = b.ask /\ d.load = b.load /\ SameHands(b, d)
       /\ d.enabled = b.enabled /\ d.destroyed = b.destroyed
  BY <1>6, <1>8 DEF Coordinator, SameHands
<1>14. HandsOf(o, d) BY <1>8, <1>10, <1>13 DEF HandsOf, SameHands
<1>15. OpOf(o, d)
  <2>1. b.op.kind = "start" => d.retired = d.settled BY <1>8, <1>10, <1>13 DEF OpOf, SameHands
  <2>2. QED BY <1>8, <1>13, <2>1 DEF OpOf, SameHands, Same
<1>16. RightsOf(o, d) BY <1>8, <1>13 DEF RightsOf
<1>17. ActiveOf(o, d) BY <1>8, <1>13 DEF ActiveOf, SameHands
<1>18. Quiet(o, d) BY <1>8, <1>12, <1>13, <1>14, <1>15, <1>16, <1>17 DEF Quiet, Sound, Core
<1>19. Moves(o, co[o], d, Tail(posted))
  <2>1. Moves(o, b, b, Tail(posted)) BY <1>8, SelfMoves
  <2>2. QED BY <1>8, <1>12, <1>13, <2>1 DEF Moves, SameHands
<1>20. QED BY <1>4, <1>7, <1>8, <1>18, <1>19, BackKeeps

\* The handler ends by applying the proxy p that has just been started.
LEMMA ApplyKeeps ==
  ASSUME IInv, NEW m, NEW o, NEW b, NEW p, Taken(m, o, b, p), m.kind = "start", p = m.proxy, p # NoProxy,
         IsCurrent(o),
         NEW c, c = Ended(o),
         NEW op, op = [b.op EXCEPT !.kind = "apply", !.proxy = p],
         NEW d, d = [c EXCEPT !.candidate = p, !.challenge = p, !.ask = "apply", !.op = op],
         Commit(o, d, FALSE, Tail(posted))
  PROVE  IInv'
<1>1. /\ c \in Coordinator /\ Quiet(o, c) /\ Core(o, c) /\ Moves(o, co[o], c, Tail(posted))
      /\ c.op = Idle /\ c.active = NoProxy /\ c.candidate = NoProxy
      /\ c.enabled = b.enabled /\ c.ready = b.ready /\ c.destroyed = b.destroyed /\ c.gate = b.gate
      /\ c.epoch = b.epoch /\ c.installed = b.installed /\ c.settled = b.settled /\ SameHands(b, c)
      /\ c.ask = "none" /\ c.load = None /\ b.op.kind = m.kind
  BY EndedIs
<1>2. /\ FlightInv(co, Tail(posted), p) /\ Free(o, Tail(posted)) /\ b = co[o] /\ m \in Message
      /\ b \in Coordinator /\ HandsOf(o, b) /\ OpOf(o, b) /\ RightsOf(o, b) /\ MessageOf(m, b)
      /\ o = m.to /\ o \in Owner
  BY DEF Taken, Asking
<1>3. p \in Nat /\ Mine(o, p) /\ p \notin b.retired BY <1>2 DEF Message, MessageOf
<1>4. ~b.gate /\ b.enabled /\ ~b.destroyed BY <1>2 DEF IsCurrent
<1>5. c \in Coordinator BY <1>1
<1>6. b.op \in Op BY <1>2 DEF Coordinator
<1>7. /\ op \in Op /\ op.kind = "apply" /\ op.proxy = p /\ op.epoch = b.op.epoch
  BY <1>3, <1>6 DEF Op
<1>8. d \in Coordinator
  <2>1. PICK a : a = [c EXCEPT !.candidate = p, !.challenge = p] OBVIOUS
  <2>2. a \in Coordinator BY <1>3, <1>5, <2>1 DEF Coordinator
  <2>3. d = [a EXCEPT !.ask = "apply", !.op = op] BY <2>1
  <2>4. QED BY <1>7, <2>2, <2>3 DEF Coordinator
<1>9. /\ d.candidate = p /\ d.challenge = p /\ d.ask = "apply" /\ d.op = op /\ d.load = c.load
      /\ d.active = c.active /\ d.published = c.published /\ d.retired = c.retired
      /\ d.enabled = c.enabled /\ d.ready = c.ready /\ d.destroyed = c.destroyed /\ d.gate = c.gate
      /\ d.epoch = c.epoch /\ d.installed = c.installed /\ d.settled = c.settled
  BY <1>5 DEF Coordinator
<1>10. d.retired = b.retired /\ d.published = NoProxy /\ d.active = NoProxy
  BY <1>1, <1>2, <1>9 DEF SameHands, HandsOf
<1>11. HandsOf(o, d)
  <2>1. HandsOf(o, b) BY <1>2
  <2>2. d.active = NoProxy /\ d.published = NoProxy /\ d.retired = b.retired BY <1>10
  <2>3. d.gate = b.gate /\ d.settled = b.settled BY <1>1, <1>9
  <2>4. d.op.kind = "apply" /\ d.op.proxy = p BY <1>7, <1>9
  <2>5. d.candidate = p /\ d.challenge = p BY <1>9
  <2>6. \A q \in d.retired : Mine(o, q) BY <2>1, <2>2 DEF HandsOf
  <2>7. d.settled \subseteq d.retired /\ d.settled \subseteq joined BY <2>1, <2>2, <2>3 DEF HandsOf
  <2>8. \A q \in stopped : Mine(o, q) => q \in d.retired \/ d.gate BY <2>1, <2>2, <2>3 DEF HandsOf
  <2>9. QED BY <1>3, <1>4, <2>2, <2>3, <2>4, <2>5, <2>6, <2>7, <2>8 DEF HandsOf
<1>12. OpOf(o, d)
  <2>1. b.op.kind = "start" BY <1>1
  <2>2. Entitled(o) /\ (Same(b) => Claimed(o) /\ b.enabled /\ b.ready) /\ b.op.epoch <= b.epoch
    BY <1>2, <2>1 DEF OpOf
  <2>3. Same(d) => Same(b) BY <1>1, <1>7, <1>9 DEF Same
  <2>4. d.op.kind = "apply" /\ d.op.epoch = b.op.epoch /\ d.op.proxy = p BY <1>7, <1>9
  <2>5. d.epoch = b.epoch /\ d.enabled = b.enabled /\ d.ready = b.ready /\ d.candidate = p
    BY <1>1, <1>9
  <2>6. d.op.epoch <= d.epoch BY <2>2, <2>4, <2>5
  <2>7. Mine(o, d.op.proxy) /\ d.op.proxy \in d.retired \cup {d.candidate} BY <1>3, <2>4, <2>5
  <2>8. Same(d) => Claimed(o) /\ d.enabled /\ d.ready BY <2>2, <2>3, <2>5
  <2>9. Entitled(o) BY <2>2
  <2>10. QED BY <2>4, <2>6, <2>7, <2>8, <2>9 DEF OpOf
<1>13. RightsOf(o, d) BY <1>1, <1>2, <1>7, <1>9 DEF RightsOf
<1>14. Sound(o, d) BY <1>8, <1>10, <1>11, <1>12, <1>13 DEF Sound, Core, ActiveOf
<1>15. Moves(o, co[o], d, Tail(posted))
  BY <1>1, <1>2, <1>8, <1>9, <1>10 DEF Moves, SameHands
<1>16. Asked(d) BY <1>1, <1>7, <1>9, <1>10 DEF Asked, Asking
<1>17. proxies[p].owner = o BY <1>3 DEF Mine
<1>18. d.load = None BY <1>1, <1>9
<1>19. Ends(o, d, FALSE, Tail(posted), p)
  BY <1>2, <1>9, <1>14, <1>15, <1>16, <1>17, <1>18 DEF Ends
<1>20. Tail(posted) \in Seq(Message) BY <1>2 DEF FlightInv, PostedOf
<1>21. Ending(o, d, FALSE, Tail(posted), p) BY <1>2, <1>19, <1>20 DEF Ending
<1>22. QED BY <1>21, CommitKeeps

LEMMA OnProxyStartedKeeps ==
  ASSUME IInv, OnProxyStarted
  PROVE  IInv'
<1>1. PICK m : m = Head(posted) OBVIOUS
<1>2. PICK o, b, p : o = m.to /\ b = co[o] /\ p = m.proxy OBVIOUS
<1>3. Callbacks("start") BY DEF OnProxyStarted
<1>4. Taken(m, o, b, p) /\ m.kind = "start" BY <1>1, <1>2, <1>3, CallbackTaken
<1>5. PICK c : c = Ended(o) OBVIOUS
<1>6. /\ c \in Coordinator /\ Quiet(o, c) /\ Core(o, c) /\ Moves(o, co[o], c, Tail(posted))
      /\ c.op = Idle /\ c.active = NoProxy /\ c.candidate = NoProxy /\ c.ask = "none" /\ c.load = None
      /\ SameHands(b, c)
  BY <1>4, <1>5, EndedIs
<1>a. c \in Coordinator BY <1>6
<1>7. PICK f : f = IF IsCurrent(o) THEN c.revision ELSE c.failed OBVIOUS
<1>8. PICK x : x = [c EXCEPT !.failed = f] OBVIOUS
<1>9. PICK y : y = Retire(c, p) OBVIOUS
<1>10. PICK op : op = [b.op EXCEPT !.kind = "apply", !.proxy = p] OBVIOUS
<1>11. PICK z : z = [c EXCEPT !.candidate = p, !.challenge = p, !.ask = "apply", !.op = op] OBVIOUS
<1>12. Commit(o, CASE p = NoProxy -> Reconcile(x)
                   [] p # NoProxy /\ ~IsCurrent(o) -> Reconcile(y)
                   [] p # NoProxy /\ IsCurrent(o) -> z,
              FALSE, Tail(posted))
  BY <1>1, <1>2, <1>5, <1>7, <1>8, <1>9, <1>10, <1>11 DEF OnProxyStarted
<1>13. /\ NoProxy \notin DOMAIN proxies /\ o \in Owner /\ m \in Message /\ MessageOf(m, b) /\ o = m.to
  BY <1>4 DEF Taken
<1>14. CASE p = NoProxy
  <2>1. f \in Int BY <1>7, <1>a DEF Coordinator
  <2>2. x \in Coordinator BY <1>8, <1>a, <2>1 DEF Coordinator
  <2>3. Kept(c, x) /\ SameHands(c, x) BY <1>8, <1>a DEF Coordinator, Kept, SameHands
  <2>4. Trim(o, c, x) BY <1>6, <2>2, <2>3, TrimAll DEF Core
  <2>5. Quiet(o, x) BY <1>6, <2>4, TrimIsQuiet
  <2>6. Moves(o, co[o], x, Tail(posted)) BY <1>6, <2>4, TrimMoves
  <2>7. Commit(o, Reconcile(x), FALSE, Tail(posted)) BY <1>12, <1>14
  <2>8. QED BY <1>4, <1>13, <1>14, <2>5, <2>6, <2>7, BackKeeps
<1>15. CASE p # NoProxy /\ ~IsCurrent(o)
  <2>1. p \in Nat /\ Mine(o, p) BY <1>2, <1>4, <1>13, <1>15 DEF Message, MessageOf
  <2>2. PICK r : r = c.retired \cup {p} OBVIOUS
  <2>3. y = [c EXCEPT !.retired = r] BY <1>9, <2>2 DEF Retire
  <2>4. r \in SUBSET Nat BY <1>a, <2>1, <2>2 DEF Coordinator
  <2>5. y \in Coordinator BY <1>a, <2>3, <2>4 DEF Coordinator
  <2>6. /\ y.retired = r /\ y.ready = c.ready /\ y.op = c.op /\ y.gate = c.gate /\ y.epoch = c.epoch
        /\ y.installed = c.installed /\ y.settled = c.settled /\ y.ask = c.ask /\ y.load = c.load
        /\ y.active = c.active /\ y.candidate = c.candidate /\ y.published = c.published
        /\ y.challenge = c.challenge
    BY <1>a, <2>3 DEF Coordinator
  <2>7. HandsOf(o, y) BY <1>6, <2>1, <2>2, <2>6 DEF Core, HandsOf
  <2>8. OpOf(o, y) BY <1>6, <2>6 DEF Core, OpOf, Idle
  <2>9. RightsOf(o, y) BY <1>6, <2>6 DEF Core, RightsOf
  <2>10. Quiet(o, y) BY <1>6, <2>5, <2>6, <2>7, <2>8, <2>9 DEF Quiet, Sound, Core, ActiveOf
  <2>11. Free(o, Tail(posted)) BY <1>4 DEF Taken, Asking
  <2>12. Moves(o, co[o], y, Tail(posted)) BY <1>6, <2>2, <2>5, <2>6, <2>11 DEF Moves
  <2>13. Commit(o, Reconcile(y), FALSE, Tail(posted)) BY <1>12, <1>15
  <2>14. p \in y.retired /\ proxies[p].owner = o BY <2>1, <2>2, <2>6 DEF Mine
  <2>15. QED BY <1>4, <2>10, <2>12, <2>13, <2>14, BackKeeps
<1>16. CASE p # NoProxy /\ IsCurrent(o)
  <2>1. Commit(o, z, FALSE, Tail(posted)) BY <1>12, <1>16
  <2>2. QED BY <1>2, <1>4, <1>5, <1>10, <1>11, <1>16, <2>1, ApplyKeeps
<1>17. QED BY <1>14, <1>15, <1>16

\* The proxy p is no longer the candidate; it serves, or is retired unless that was done before.
Applied(o, b, p, c) ==
  /\ c \in Coordinator /\ c.op = Idle /\ c.candidate = NoProxy /\ c.challenge = NoProxy /\ c.installed
  /\ c.active = NoProxy /\ c.published = NoProxy /\ c.enabled = b.enabled /\ c.ready = b.ready
  /\ c.destroyed = b.destroyed /\ c.gate = b.gate /\ c.epoch = b.epoch /\ c.settled = b.settled
  /\ c.ask = "none" /\ c.load = None

Unbound(o, p) ==
  ClearChallenge([Ended(o) EXCEPT !.installed = TRUE,
                                  !.candidate = IF co[o].candidate = p THEN NoProxy ELSE @], p)

LEMMA AppliedIs ==
  ASSUME NEW m, NEW o, NEW b, NEW late, Taken(m, o, b, late), m.kind = "apply", NEW p, p = m.proxy,
         NEW c, c = Unbound(o, p)
  PROVE  /\ Applied(o, b, p, c) /\ c.retired = b.retired /\ b.active = NoProxy
         /\ b.candidate \in {NoProxy, p}
         /\ Mine(o, p) /\ p \in Nat /\ p # NoProxy /\ b.op.kind = "apply" /\ b.op.proxy = p
<1>1. /\ Rest(o, b) /\ b \in Coordinator /\ HandsOf(o, b) /\ OpOf(o, b) /\ MessageOf(m, b) /\ b = co[o]
      /\ m \in Message /\ NoProxy \notin DOMAIN proxies
  BY DEF Taken
<1>2. b.op.kind = "apply" /\ b.op.proxy = p BY <1>1 DEF MessageOf, Asking
<1>3. Mine(o, p) /\ p \in Nat BY <1>1, <1>2 DEF OpOf, Message
<1>4. p # NoProxy BY <1>1, <1>3 DEF Mine
<1>5. b.active = NoProxy
  <2>1. b.op # Idle BY <1>2 DEF Idle
  <2>2. QED BY <1>1, <2>1 DEF HandsOf
<1>6. b.published = NoProxy BY <1>1, <1>5 DEF HandsOf
<1>7. (b.candidate # NoProxy => b.candidate = p) /\ (b.challenge # NoProxy => b.challenge = b.candidate)
  BY <1>1, <1>2 DEF HandsOf
<1>10. PICK a : a = [b EXCEPT !.op = Idle] OBVIOUS
<1>11. PICK f : f = [a EXCEPT !.installed = TRUE, !.candidate = NoProxy] OBVIOUS
<1>12. Idle \in Op BY DEF Idle, Op, NoProxy
<1>13. a \in Coordinator BY <1>1, <1>10, <1>12 DEF Coordinator
<1>14. f \in Coordinator BY <1>11, <1>13 DEF Coordinator, NoProxy
<1>15. PICK g : g = [f EXCEPT !.challenge = NoProxy] OBVIOUS
<1>16. g \in Coordinator BY <1>14, <1>15 DEF Coordinator, NoProxy
<1>17. a.candidate = b.candidate BY <1>1, <1>10 DEF Coordinator
<1>18. [Ended(o) EXCEPT !.installed = TRUE,
                       !.candidate = IF co[o].candidate = p THEN NoProxy ELSE @] = f
  <2>1. Ended(o) = a BY <1>1, <1>10 DEF Ended
  <2>2. PICK v : v = IF b.candidate = p THEN NoProxy ELSE a.candidate OBVIOUS
  <2>3. v = NoProxy BY <1>7, <1>17, <2>2
  <2>4. f = [a EXCEPT !.installed = TRUE, !.candidate = v] BY <1>11, <2>3
  <2>5. QED BY <1>1, <2>1, <2>2, <2>4
<1>19. c = IF f.challenge = p THEN g ELSE f BY <1>15, <1>18 DEF Unbound, ClearChallenge
<1>20. f.challenge = b.challenge BY <1>1, <1>10, <1>11, <1>13 DEF Coordinator
<1>21. /\ f.op = Idle /\ f.candidate = NoProxy /\ f.installed /\ f.active = b.active
       /\ f.published = b.published /\ f.enabled = b.enabled /\ f.ready = b.ready
       /\ f.destroyed = b.destroyed /\ f.gate = b.gate /\ f.epoch = b.epoch /\ f.settled = b.settled
       /\ f.ask = b.ask /\ f.load = b.load /\ f.retired = b.retired
  BY <1>1, <1>10, <1>11, <1>13 DEF Coordinator
<1>22. /\ g.op = f.op /\ g.candidate = f.candidate /\ g.installed = f.installed /\ g.active = f.active
       /\ g.published = f.published /\ g.enabled = f.enabled /\ g.ready = f.ready
       /\ g.destroyed = f.destroyed /\ g.gate = f.gate /\ g.epoch = f.epoch /\ g.settled = f.settled
       /\ g.ask = f.ask /\ g.load = f.load /\ g.retired = f.retired /\ g.challenge = NoProxy
  BY <1>14, <1>15 DEF Coordinator
<1>23. c.challenge = NoProxy /\ c \in {f, g} BY <1>7, <1>19, <1>20, <1>22
<1>24. b.ask = "none" /\ b.load = None BY <1>1 DEF Rest
<1>25. Applied(o, b, p, c) /\ c.retired = b.retired
  <2>1. CASE c = f BY <1>5, <1>6, <1>14, <1>21, <1>23, <1>24, <2>1 DEF Applied
  <2>2. CASE c = g BY <1>5, <1>6, <1>16, <1>21, <1>22, <1>23, <1>24, <2>2 DEF Applied
  <2>3. QED BY <1>23, <2>1, <2>2
<1>26. QED BY <1>2, <1>3, <1>4, <1>5, <1>7, <1>25

\* The override points to p: p serves.
LEMMA AppliedServes ==
  ASSUME IInv, NEW m, NEW o, NEW b, Taken(m, o, b, NoProxy), m.kind = "apply", m.ok, IsCurrent(o),
         NEW p, p = m.proxy, b.candidate = p, p # NoProxy, Mine(o, p), p \in Nat, b.op.kind = "apply",
         NEW c, Applied(o, b, p, c), c.retired = b.retired,
         Commit(o, Deliver([Publish(c, p) EXCEPT !.active = p], p), FALSE, Tail(posted))
  PROVE  IInv'
<1>1. /\ o \in Owner /\ b = co[o] /\ b \in Coordinator /\ HandsOf(o, b) /\ OpOf(o, b) /\ RightsOf(o, b)
      /\ MessageOf(m, b) /\ o = m.to /\ FlightInv(co, Tail(posted), NoProxy) /\ Free(o, Tail(posted))
      /\ QueueInv /\ NoProxy \notin DOMAIN proxies
  BY DEF Taken, Asking
<1>2. /\ c \in Coordinator /\ c.op = Idle /\ c.candidate = NoProxy /\ c.challenge = NoProxy
      /\ c.installed /\ c.enabled = b.enabled /\ c.ready = b.ready /\ c.destroyed = b.destroyed
      /\ c.gate = b.gate /\ c.epoch = b.epoch /\ c.settled = b.settled /\ c.ask = "none"
      /\ c.load = None
  BY DEF Applied
<1>3. ~b.gate /\ b.enabled /\ ~b.destroyed /\ b.epoch = b.op.epoch BY <1>1 DEF IsCurrent
<1>4. Same(b) BY <1>3 DEF Same
<1>5. b.ready /\ Entitled(o) /\ Claimed(o) BY <1>1, <1>4 DEF OpOf
<1>6. Serves(o, p) BY <1>1, <1>4 DEF MessageOf
<1>7. p \notin b.retired BY <1>1 DEF HandsOf
<1>8. PICK f : f = [c EXCEPT !.published = p, !.compat = None] OBVIOUS
<1>9. Publish(c, p) = f BY <1>2, <1>3, <1>8 DEF Publish
<1>10. f \in Coordinator BY <1>2, <1>8 DEF Coordinator
<1>11. PICK g : g = [f EXCEPT !.active = p] OBVIOUS
<1>12. g \in Coordinator BY <1>10, <1>11 DEF Coordinator
<1>13. /\ g.op = Idle /\ g.candidate = NoProxy /\ g.challenge = NoProxy /\ g.installed
       /\ g.enabled = b.enabled /\ g.ready = b.ready /\ g.destroyed = b.destroyed
       /\ g.gate = b.gate /\ g.epoch = b.epoch /\ g.settled = b.settled /\ g.ask = "none"
       /\ g.load = None /\ g.active = p /\ g.published = p /\ g.retired = b.retired
  <2>1. /\ f.op = c.op /\ f.candidate = c.candidate /\ f.challenge = c.challenge
        /\ f.installed = c.installed /\ f.enabled = c.enabled /\ f.ready = c.ready
        /\ f.destroyed = c.destroyed /\ f.gate = c.gate /\ f.epoch = c.epoch
        /\ f.settled = c.settled /\ f.ask = c.ask /\ f.load = c.load /\ f.retired = c.retired
        /\ f.published = p
    BY <1>2, <1>8 DEF Coordinator
  <2>2. /\ g.op = f.op /\ g.candidate = f.candidate /\ g.challenge = f.challenge
        /\ g.installed = f.installed /\ g.enabled = f.enabled /\ g.ready = f.ready
        /\ g.destroyed = f.destroyed /\ g.gate = f.gate /\ g.epoch = f.epoch
        /\ g.settled = f.settled /\ g.ask = f.ask /\ g.load = f.load /\ g.retired = f.retired
        /\ g.published = f.published /\ g.active = p
    BY <1>10, <1>11 DEF Coordinator
  <2>3. QED BY <1>2, <2>1, <2>2
<1>14. HandsOf(o, g)
  <2>1. \A q \in g.retired : Mine(o, q) BY <1>1, <1>13 DEF HandsOf
  <2>2. g.settled \subseteq g.retired /\ g.settled \subseteq joined BY <1>1, <1>13 DEF HandsOf
  <2>3. \A q \in stopped : Mine(o, q) => q \in g.retired \/ g.gate BY <1>1, <1>13 DEF HandsOf
  <2>4. QED BY <1>3, <1>7, <1>13, <2>1, <2>2, <2>3 DEF HandsOf
<1>15. OpOf(o, g)
  <2>1. g.epoch \in Nat BY <1>12 DEF Coordinator
  <2>2. QED BY <1>13, <2>1 DEF OpOf, Idle
<1>16. RightsOf(o, g) BY <1>5, <1>13 DEF RightsOf
<1>17. ActiveOf(o, g) BY <1>3, <1>5, <1>6, <1>13 DEF ActiveOf
<1>18. Quiet(o, g) BY <1>12, <1>13, <1>14, <1>15, <1>16, <1>17 DEF Quiet, Sound, Core
<1>19. Sound(o, g) BY <1>18 DEF Quiet
<1>20. Moves(o, co[o], g, Tail(posted))
  <2>1. b.active = NoProxy
    <3>1. b.op # Idle BY DEF Idle
    <3>2. QED BY <1>1, <3>1 DEF HandsOf
  <2>2. b.epoch <= g.epoch
    <3>1. b.epoch \in Nat BY <1>1 DEF Coordinator
    <3>2. QED BY <1>13, <3>1
  <2>3. {b.active, b.candidate} \ {NoProxy} \subseteq g.retired \cup {g.active, g.candidate}
    BY <1>13, <2>1
  <2>4. QED BY <1>1, <1>12, <1>13, <2>2, <2>3 DEF Moves
<1>21. PICK e : e = Deliver(g, p) OBVIOUS
<1>22. Turn(o, g, e) BY <1>1, <1>13, <1>18, <1>21, DeliverLoads
<1>23. Commit(o, e, FALSE, Tail(posted)) BY <1>9, <1>11, <1>21
<1>24. QED BY <1>1, <1>19, <1>20, <1>22, <1>23, TurnKeeps

\* The call failed, or was overtaken: p is retired.
LEMMA AppliedGoes ==
  ASSUME IInv, NEW m, NEW o, NEW b, Taken(m, o, b, NoProxy), m.kind = "apply",
         NEW p, p # NoProxy, Mine(o, p), p \in Nat, b.op.kind = "apply", b.op.proxy = p, b.active = NoProxy,
         NEW c, Applied(o, b, p, c), c.retired = b.retired,
         b.candidate \in {NoProxy, p},
         NEW f \in Int, NEW d, d = IF b.candidate = p THEN Retire(c, p) ELSE c,
         NEW e, e = [d EXCEPT !.failed = f],
         Commit(o, Reconcile(Publish(e, NoProxy)), FALSE, Tail(posted))
  PROVE  IInv'
<1>1. /\ o \in Owner /\ b = co[o] /\ b \in Coordinator /\ HandsOf(o, b) /\ OpOf(o, b) /\ RightsOf(o, b)
      /\ Free(o, Tail(posted)) /\ NoProxy \notin DOMAIN proxies
  BY DEF Taken, Asking
<1>2. /\ c \in Coordinator /\ c.op = Idle /\ c.candidate = NoProxy /\ c.challenge = NoProxy
      /\ c.installed /\ c.active = NoProxy /\ c.published = NoProxy /\ c.ready = b.ready
      /\ c.gate = b.gate /\ c.epoch = b.epoch /\ c.settled = b.settled /\ c.ask = "none"
      /\ c.load = None
  BY DEF Applied
<1>3. PICK r : r = IF b.candidate = p THEN b.retired \cup {p} ELSE b.retired OBVIOUS
<1>4. d = [c EXCEPT !.retired = r]
  <2>1. CASE b.candidate = p BY <1>3, <2>1 DEF Retire
  <2>2. CASE b.candidate # p
    <3>1. d = c /\ r = c.retired BY <1>3, <2>2
    <3>2. [c EXCEPT !.retired = c.retired] = c BY <1>2 DEF Coordinator
    <3>3. QED BY <3>1, <3>2
  <2>3. QED BY <2>1, <2>2
<1>5. r \in SUBSET Nat BY <1>1, <1>3 DEF Coordinator
<1>6. d \in Coordinator BY <1>2, <1>4, <1>5 DEF Coordinator
<1>7. e \in Coordinator BY <1>6 DEF Coordinator
<1>8. /\ e.op = Idle /\ e.candidate = NoProxy /\ e.challenge = NoProxy /\ e.installed
      /\ e.active = NoProxy /\ e.published = NoProxy /\ e.ready = b.ready /\ e.gate = b.gate
      /\ e.epoch = b.epoch /\ e.settled = b.settled /\ e.ask = "none" /\ e.load = None
      /\ e.retired = r
  <2>1. /\ d.op = c.op /\ d.candidate = c.candidate /\ d.challenge = c.challenge
        /\ d.installed = c.installed /\ d.active = c.active /\ d.published = c.published
        /\ d.ready = c.ready /\ d.gate = c.gate /\ d.epoch = c.epoch /\ d.settled = c.settled
        /\ d.ask = c.ask /\ d.load = c.load /\ d.retired = r
    BY <1>2, <1>4 DEF Coordinator
  <2>2. /\ e.op = d.op /\ e.candidate = d.candidate /\ e.challenge = d.challenge
        /\ e.installed = d.installed /\ e.active = d.active /\ e.published = d.published
        /\ e.ready = d.ready /\ e.gate = d.gate /\ e.epoch = d.epoch /\ e.settled = d.settled
        /\ e.ask = d.ask /\ e.load = d.load /\ e.retired = d.retired
    BY <1>6 DEF Coordinator
  <2>3. QED BY <1>2, <2>1, <2>2
<1>9. HandsOf(o, e)
  <2>1. \A q \in r : Mine(o, q) BY <1>1, <1>3 DEF HandsOf
  <2>2. b.settled \subseteq r /\ b.settled \subseteq joined BY <1>1, <1>3 DEF HandsOf
  <2>3. \A q \in stopped : Mine(o, q) => q \in r \/ b.gate BY <1>1, <1>3 DEF HandsOf
  <2>4. QED BY <1>8, <2>1, <2>2, <2>3 DEF HandsOf
<1>10. OpOf(o, e)
  <2>1. e.epoch \in Nat BY <1>7 DEF Coordinator
  <2>2. QED BY <1>8, <2>1 DEF OpOf, Idle
<1>11. RightsOf(o, e) BY <1>1, <1>8 DEF RightsOf
<1>12. Core(o, e) BY <1>7, <1>9, <1>10, <1>11 DEF Core
<1>13. Quiet(o, e) BY <1>8, <1>12 DEF Quiet, Sound, ActiveOf
<1>14. Moves(o, co[o], e, Tail(posted))
  <2>1. b.epoch <= e.epoch
    <3>1. b.epoch \in Nat BY <1>1 DEF Coordinator
    <3>2. QED BY <1>8, <3>1
  <2>2. {b.active, b.candidate} \ {NoProxy} \subseteq e.retired \cup {e.active, e.candidate}
    <3>1. CASE b.candidate = p BY <1>3, <1>8, <3>1
    <3>2. CASE b.candidate # p BY <3>2
    <3>3. QED BY <3>1, <3>2
  <2>3. b.retired \subseteq e.retired BY <1>3, <1>8
  <2>4. QED BY <1>1, <1>7, <1>8, <2>1, <2>2, <2>3 DEF Moves
<1>15. PICK h : h = Publish(e, NoProxy) OBVIOUS
<1>16. Trim(o, e, h) BY <1>7, <1>9, <1>15, PublishTrims
<1>17. Quiet(o, h) BY <1>13, <1>16, TrimIsQuiet
<1>18. Moves(o, co[o], h, Tail(posted)) BY <1>12, <1>14, <1>16, TrimMoves
<1>19. Commit(o, Reconcile(h), FALSE, Tail(posted)) BY <1>15
<1>20. QED BY <1>1, <1>17, <1>18, <1>19, BackKeeps

LEMMA OnProxyAppliedKeeps ==
  ASSUME IInv, OnProxyApplied
  PROVE  IInv'
<1>1. PICK m : m = Head(posted) OBVIOUS
<1>2. PICK o, b, p : o = m.to /\ b = co[o] /\ p = m.proxy OBVIOUS
<1>3. Callbacks("apply") BY DEF OnProxyApplied
<1>4. Taken(m, o, b, NoProxy) /\ m.kind = "apply" BY <1>1, <1>2, <1>3, CallbackTaken
<1>6. PICK c : c = Unbound(o, p) OBVIOUS
<1>7. PICK d : d = IF b.candidate = p THEN Retire(c, p) ELSE c OBVIOUS
<1>8. PICK f : f = IF ~m.ok /\ IsCurrent(o) THEN c.revision ELSE d.failed OBVIOUS
<1>9. PICK e : e = [d EXCEPT !.failed = f] OBVIOUS
<1>10. Commit(o, IF b.candidate = p /\ m.ok /\ IsCurrent(o)
                 THEN Deliver([Publish(c, p) EXCEPT !.active = p], p)
                 ELSE Reconcile(Publish(e, NoProxy)), FALSE, Tail(posted))
  BY <1>1, <1>2, <1>6, <1>7, <1>8, <1>9 DEF OnProxyApplied, Unbound
<1>11. /\ Applied(o, b, p, c) /\ c.retired = b.retired /\ b.active = NoProxy
       /\ b.candidate \in {NoProxy, p}
       /\ Mine(o, p) /\ p \in Nat /\ p # NoProxy /\ b.op.kind = "apply" /\ b.op.proxy = p
  BY <1>2, <1>4, <1>6, AppliedIs
<1>12. CASE b.candidate = p /\ m.ok /\ IsCurrent(o)
  <2>1. Commit(o, Deliver([Publish(c, p) EXCEPT !.active = p], p), FALSE, Tail(posted))
    BY <1>10, <1>12
  <2>2. b.candidate = p BY <1>12
  <2>3. QED BY <1>2, <1>4, <1>11, <1>12, <2>1, <2>2, AppliedServes
<1>13. CASE ~(b.candidate = p /\ m.ok /\ IsCurrent(o))
  <2>1. Commit(o, Reconcile(Publish(e, NoProxy)), FALSE, Tail(posted)) BY <1>10, <1>13
  <2>2. f \in Int
    <3>1. c \in Coordinator BY <1>11 DEF Applied
    <3>2. c.revision \in Int /\ c.failed \in Int BY <3>1 DEF Coordinator
    <3>3. Retire(c, p).failed = c.failed BY <3>1 DEF Retire, Coordinator
    <3>4. QED BY <1>7, <1>8, <3>2, <3>3
  <2>3. QED BY <1>4, <1>7, <1>9, <1>11, <2>1, <2>2, AppliedGoes
<1>14. QED BY <1>12, <1>13

----------------------------------------------------------------------------
\* The theorems

LEMMA InitHolds ==
  ASSUME Init
  PROVE  IInv
<1>1. /\ latest = 0 /\ activeOwner = NoOwner /\ claimed = NoOwner /\ listening = {} /\ pending = <<>>
      /\ current = None /\ override = {NoProxy} /\ posted = <<>>
      /\ co = [o \in Owner |-> NewCoordinator] /\ proxies = <<>> /\ stopped = {} /\ joined = {}
      /\ worker = <<>> /\ loaded = None
  BY DEF Init, QueueInit
<1>2. Owners \in Nat BY OwnersAssumption
<1>3. PICK c : c = NewCoordinator OBVIOUS
<1>4. PICK n : n = -1 OBVIOUS
<1>5. n \in Int BY <1>4
<1>6. /\ c.op = Idle /\ ~c.enabled /\ ~c.ready /\ ~c.gate /\ c.epoch = 0 /\ ~c.installed
      /\ c.active = NoProxy /\ c.candidate = NoProxy /\ c.published = NoProxy
      /\ c.challenge = NoProxy /\ c.retired = {} /\ c.settled = {} /\ c.ask = "none" /\ c.load = None
  BY <1>3 DEF NewCoordinator
<1>7. c \in Coordinator
  <2>1. c = [op |-> Idle, enabled |-> FALSE, ready |-> FALSE, destroyed |-> FALSE, gate |-> FALSE,
             desired |-> None, revision |-> 0, epoch |-> 0, failed |-> n, installed |-> FALSE,
             active |-> NoProxy, candidate |-> NoProxy, published |-> NoProxy, challenge |-> NoProxy,
             compat |-> None, status |-> FALSE, nav |-> None,
             retired |-> {}, settled |-> {}, ask |-> "none", load |-> None]
    BY <1>3, <1>4 DEF NewCoordinator
  <2>2. Idle \in Op BY DEF Idle, Op, NoProxy
  <2>3. NoProxy \in Nat BY DEF NoProxy
  <2>4. QED BY <1>5, <2>1, <2>2, <2>3 DEF Coordinator
<1>8. ASSUME NEW o \in Owner PROVE Rest(o, c)
  <2>1. HandsOf(o, c) BY <1>1, <1>6 DEF HandsOf
  <2>2. OpOf(o, c) BY <1>6 DEF OpOf, Idle
  <2>3. RightsOf(o, c) BY <1>1, <1>2, <1>6 DEF RightsOf, NoOwner, Owner
  <2>4. QED BY <1>6, <1>7, <2>1, <2>2, <2>3 DEF Rest, Core, ActiveOf
<1>9. CoordInv
  <2>1. \A o \in Owner : co[o] = c BY <1>1, <1>3
  <2>2. QED BY <1>1, <1>3, <1>8, <2>1 DEF CoordInv
<1>10. QueueInv BY <1>1, <1>2 DEF QueueInv, Using, NoOwner, NoProxy
<1>11. ProxiesInv BY <1>1 DEF ProxiesInv
<1>12. LoadsAsRouted BY <1>1 DEF LoadsAsRouted
<1>13. FlightInv(co, posted, NoProxy)
  BY <1>1 DEF FlightInv, PendingOf, CurrentOf, StartOf, PostedOf, WorkerOf, KnownOf
<1>14. QED BY <1>9, <1>10, <1>11, <1>12, <1>13 DEF IInv

LEMMA CallsKeep ==
  ASSUME IInv, NEW o \in Owner,
         \/ Resume(o) \/ Ensure(o) \/ Navigate(o) \/ Suspend(o) \/ Destroy(o) \/ TakeMainFrameStatus(o)
  PROVE  IInv'
<1>1. CASE Resume(o) BY <1>1, ResumeKeeps
<1>2. CASE Ensure(o) BY <1>2, EnsureKeeps
<1>3. CASE Navigate(o) BY <1>3, NavigateKeeps
<1>4. CASE Suspend(o) BY <1>4, SuspendKeeps
<1>5. CASE Destroy(o) BY <1>5, DestroyKeeps
<1>6. CASE TakeMainFrameStatus(o) BY <1>6, TakeMainFrameStatusKeeps
<1>7. QED BY <1>1, <1>2, <1>3, <1>4, <1>5, <1>6

LEMMA CallbacksKeep ==
  ASSUME IInv, MainCallback
  PROVE  IInv'
<1>1. CASE OnAcquired BY <1>1, OnAcquiredKeeps
<1>2. CASE OnCleared BY <1>2, OnClearedKeeps
<1>3. CASE OnOwnershipRevoked BY <1>3, OnOwnershipRevokedKeeps
<1>4. CASE OnProxyStarted BY <1>4, OnProxyStartedKeeps
<1>5. CASE OnProxyApplied BY <1>5, OnProxyAppliedKeeps
<1>6. CASE RetirementComplete BY <1>6, RetirementCompleteKeeps
<1>7. QED BY <1>1, <1>2, <1>3, <1>4, <1>5, <1>6 DEF MainCallback

LEMMA UnchangedKeeps ==
  ASSUME IInv, UNCHANGED vars
  PROVE  IInv'
<1>1. /\ co' = co /\ latest' = latest /\ claimed' = claimed /\ listening' = listening
      /\ pending' = pending /\ current' = current /\ activeOwner' = activeOwner /\ override' = override
      /\ posted' = posted /\ proxies' = proxies /\ stopped' = stopped /\ joined' = joined
      /\ worker' = worker /\ loaded' = loaded
  BY DEF vars, claims, running
<1>2. CoordInv'
  BY <1>1 DEF IInv, CoordInv, Rest, Core, Coordinator, HandsOf, OpOf, RightsOf, ActiveOf, Mine, Claimed,
       Entitled, Serves
<1>3. FlightInv(co, posted, NoProxy)'
  BY <1>1 DEF IInv, FlightInv, PendingOf, CurrentOf, StartOf, PostedOf, WorkerOf, KnownOf, Known,
       MessageOf, JobOf, Fits, Mine, Claimed, Entitled, Serves, Same
<1>4. QueueInv' /\ ProxiesInv' /\ LoadsAsRouted'
  BY <1>1 DEF IInv, QueueInv, ProxiesInv, LoadsAsRouted, Using, Mine
<1>5. QED BY <1>2, <1>3, <1>4 DEF IInv

LEMMA NextKeeps ==
  ASSUME IInv, [Next]_vars
  PROVE  IInv'
<1>1. ASSUME NEW o \in Owner,
             \/ Resume(o) \/ Ensure(o) \/ Navigate(o) \/ Suspend(o) \/ Destroy(o) \/ TakeMainFrameStatus(o)
      PROVE  IInv'
  BY <1>1, CallsKeep
<1>2. CASE MainCallback BY <1>2, CallbacksKeep
<1>3. CASE StartProxy BY <1>3, StartProxyKeeps
<1>4. CASE StartFails BY <1>4, StartFailsKeeps
<1>5. CASE JoinProxy BY <1>5, JoinProxyKeeps
<1>6. CASE Platform
  <2>1. UNCHANGED <<co, proxies, stopped, joined, worker, loaded>> BY <1>6 DEF Platform
  <2>2. PlatformDone \/ PlatformThrows BY <1>6 DEF Platform
  <2>3. QED BY <2>1, <2>2, PlatformDoneKeeps, PlatformThrowsKeeps
<1>7. CASE UNCHANGED vars BY <1>7, UnchangedKeeps
<1>8. QED BY <1>1, <1>2, <1>3, <1>4, <1>5, <1>6, <1>7 DEF Next, LifecycleWorker

LEMMA IInvIsRoutingSafety ==
  ASSUME IInv
  PROVE  RoutingSafety
<1>1. /\ QueueInv /\ ProxiesInv /\ LoadsAsRouted /\ Using(latest, activeOwner, override)
      /\ PendingOf(co, posted)
  BY DEF IInv, QueueInv, FlightInv
<1>2. Owners \in Nat BY OwnersAssumption
<1>3. \A p \in override \ {NoProxy} : Mine(activeOwner, p) BY <1>1 DEF Using
<1>4. TypeOK
  <2>1. latest \in 0..Owners /\ activeOwner \in 0..Owners BY <1>1, <1>2 DEF Using
  <2>2. claimed \in 0..Owners /\ listening \subseteq Owner /\ current \in Operation \cup {None}
    BY <1>1 DEF QueueInv
  <2>3. pending \in Seq(Operation) BY <1>1 DEF PendingOf
  <2>4. proxies \in Seq(Proxy) BY <1>1 DEF ProxiesInv
  <2>5. override \subseteq 0..Len(proxies)
    <3>1. DOMAIN proxies = 1..Len(proxies) /\ Len(proxies) \in Nat BY <2>4
    <3>2. \A p \in override \ {NoProxy} : p \in 1..Len(proxies) BY <1>3, <3>1 DEF Mine
    <3>3. NoProxy \in 0..Len(proxies) BY <3>1 DEF NoProxy
    <3>4. QED BY <3>1, <3>2, <3>3
  <2>6. joined \subseteq stopped /\ stopped \subseteq DOMAIN proxies BY <1>1 DEF ProxiesInv
  <2>7. QED BY <2>1, <2>2, <2>3, <2>4, <2>5, <2>6 DEF TypeOK, Proxy
<1>5. OverrideOwned BY <1>3 DEF OverrideOwned, Mine
<1>6. PublishedInForce
  <2>1. ASSUME NEW o \in Owner
        PROVE  /\ co[o].published # NoProxy => /\ override = {co[o].published}
                                               /\ co[o].published \notin stopped
               /\ co[o].challenge # NoProxy => co[o].challenge \notin stopped
    <3>1. PICK c : c = co[o] OBVIOUS
    <3>2. HandsOf(o, c) /\ ActiveOf(o, c) BY <3>1, CoIs
    <3>3. ASSUME c.published # NoProxy
          PROVE  override = {c.published} /\ c.published \notin stopped
      <4>1. /\ c.published = c.active /\ ~c.gate /\ Mine(o, c.active) /\ c.active \notin c.retired
            /\ c.active # NoProxy
        BY <3>2, <3>3 DEF HandsOf
      <4>2. Serves(o, c.active) BY <3>2, <4>1 DEF ActiveOf
      <4>3. c.active \notin stopped BY <3>2, <4>1 DEF HandsOf
      <4>4. QED BY <4>1, <4>2, <4>3 DEF Serves
    <3>4. ASSUME c.challenge # NoProxy PROVE c.challenge \notin stopped
      <4>1. /\ c.challenge = c.candidate /\ ~c.gate /\ Mine(o, c.candidate)
            /\ c.candidate \notin c.retired
        BY <3>2, <3>4 DEF HandsOf
      <4>2. QED BY <3>2, <4>1 DEF HandsOf
    <3>5. QED BY <3>1, <3>3, <3>4
  <2>2. QED BY <2>1 DEF PublishedInForce
<1>7. QED BY <1>1, <1>4, <1>5, <1>6 DEF RoutingSafety

\* The override is the front Activity's, a route or a challenge is only vouched for while its
\* proxy is certainly in force, and a page is loaded the way it was routed: for any number of
\* Activities, hosts, scopes, calls and faults (BrowserProxyCoordinator over
\* BrowserProxyOverrideOperationQueue).
THEOREM RoutingIsSafe == Spec => []RoutingSafety
<1>1. Init => IInv BY InitHolds
<1>2. IInv /\ [Next]_vars => IInv' BY NextKeeps
<1>3. IInv => RoutingSafety BY IInvIsRoutingSafety
<1>4. QED BY <1>1, <1>2, <1>3, PTL DEF Spec

LEMMA StartJoinsFirst ==
  ASSUME IInv, StartProxy, NEW p \in DOMAIN proxies, proxies[p].owner = Head(worker).owner
  PROVE  p \in joined
<1>1. WorkerTask("start") BY DEF StartProxy
<1>2. PICK k : k = Head(worker) OBVIOUS
<1>3. PICK o : o = k.owner OBVIOUS
<1>4. /\ worker # <<>> /\ k.kind = "start" /\ k \in Job /\ o \in Owner /\ JobOf(k, co[o])
  BY <1>1, <1>2, <1>3, WorkerHead
<1>5. PICK c : c = co[o] OBVIOUS
<1>6. HandsOf(o, c) /\ OpOf(o, c) BY <1>4, <1>5, CoIs
<1>7. c.op.kind = "start" BY <1>4, <1>5 DEF JobOf
<1>8. c.active = NoProxy /\ c.candidate = NoProxy BY <1>6, <1>7 DEF HandsOf, Idle
<1>9. c.retired \subseteq joined BY <1>6, <1>7 DEF HandsOf, OpOf
<1>10. /\ FlightInv(co, posted, NoProxy) /\ ProxiesInv BY DEF IInv
<1>11. p # NoProxy BY <1>10 DEF ProxiesInv, NoProxy
<1>12. Known(p, c, o, posted) BY <1>2, <1>3, <1>5, <1>10, <1>11 DEF FlightInv, KnownOf
<1>13. \A j \in DOMAIN posted : posted[j].kind = "start" => posted[j].to # o
  <2>1. worker \in Seq(Job) BY <1>10 DEF FlightInv, WorkerOf
  <2>2. 1 \in DOMAIN worker /\ k = worker[1] BY <1>2, <1>4, <2>1
  <2>3. QED BY <1>3, <1>4, <1>10, <2>2 DEF FlightInv, StartOf
<1>14. QED BY <1>8, <1>9, <1>11, <1>12, <1>13 DEF Known

\* An Activity starts a proxy only after it has joined all its earlier ones, whatever the
\* others do in between (retirementsInFlight).
THEOREM JoinsComeFirst == Spec => OwnJoinsFirst
<1>1. Init => IInv BY InitHolds
<1>2. IInv /\ [Next]_vars => IInv' BY NextKeeps
<1>3. IInv /\ [Next]_vars =>
        [StartProxy => \A p \in DOMAIN proxies : proxies[p].owner = Head(worker).owner => p \in joined]_vars
  BY StartJoinsFirst
<1>4. QED BY <1>1, <1>2, <1>3, PTL DEF Spec, OwnJoinsFirst
============================================================================
