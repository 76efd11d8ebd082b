------------------------ MODULE BrowserRuntimeProofs ------------------------
(***************************************************************************)
(* Proofs about BrowserRuntime, for any handles, callers, directories and  *)
(* policies, and about the two native interfaces to it, for any threads,   *)
(* hosts and limits.                                                       *)
(*                                                                         *)
(* RuntimeSafety is not inductive.  Two calls exclude each other only if   *)
(* they use the same locks: every runtime alive has the coordination its   *)
(* directory is registered with (CoordinationInv), which is why the weak   *)
(* reference must be upgraded while any runtime of it lives.  A call holds *)
(* the locks that its stage says (HoldsOf), and a writer has no readers.   *)
(* A request keeps the operation lock from its policy to its response.     *)
(* A session identifier is generated by one caller and never replaced.     *)
(*                                                                         *)
(* AndroidSafety has two inductive invariants.  HandleInv says which stages*)
(* of a call hold the lock of withRuntime, that such a call has the runtime*)
(* of the map, and that a proxy is registered or waited for until it has   *)
(* stopped.  StatusInv says what the number of a status that was looked at *)
(* still names, as long as the numbering has not started again.            *)
(*                                                                         *)
(* IosSafety rests on IosInv: what a call may do follows from its list of  *)
(* proxies to stop.  A proxy that is being inserted is in one list alone   *)
(* (InsertInv); one whose policy was replaced is in some list (PolicyInv); *)
(* one that is not registered with its runtime is waited for (ReachInv).   *)
(***************************************************************************)
EXTENDS BrowserRuntime, AndroidBridge, IosBridge, FiniteSetTheorems, SequenceTheorems, TLAPS

Base == {BaseOf[h] : h \in Handle}
Holder == Caller \cup {Nobody}

InnerType ==
  [base : Base, coordination : Nat, policy : Policies \ RefusedPolicies, revision : Nat,
   session : Holder, generation : 0 .. MaxGeneration, operation : Holder]
LocksType == [sync : Holder, readers : SUBSET Caller, writer : Holder, peers : Holder]

\* What a call may still have to lock.
BookLocks == {<<"sync", "read", "peers">>, <<"read", "peers">>, <<"peers">>}
ChangeLocks == {<<"sync", "write">>, <<"write">>}
LockLists == BookLocks \cup ChangeLocks \cup {<<>>, <<"read">>}
Stages == {"idle", "policy", "lock", "maintenance", "prepare", "check", "work", "peers", "answered",
           "generation", "session", "init", "running", "failed", "done"}
CallType ==
  [op : Ops, runtime : Nat, stage : Stages, locks : LockLists, policy : Policies, used : Policies,
   cancelled : BOOLEAN, seen : BOOLEAN, session : Holder, generation : Nat]

TypeInv ==
  /\ handle \in [Handle -> 0 .. MaxOpens]
  /\ inner \in Seq(InnerType) /\ coordination \in Seq(LocksType)
  /\ Len(coordination) = Len(inner) /\ Len(inner) <= MaxOpens
  /\ registry \in [Base -> 0 .. MaxOpens]
  /\ call \in [Caller -> CallType]

\* Handles, calls and the registry refer to runtimes that have been opened.
RefersInv ==
  /\ \A h \in Handle : handle[h] <= Len(inner)
  /\ \A b \in Base : registry[b] <= Len(inner)
  /\ \A r \in Runtime : inner[r].coordination \in Runtime
  /\ \A t \in Caller : call[t].op # "none" => call[t].runtime \in Runtime

\* The runtimes that live have the coordination their directory is registered with.
CoordinationInv ==
  \A r \in Runtime : Alive(r) => inner[r].coordination = registry[inner[r].base]

\* A writer excludes readers.
WriterInv == \A c \in Runtime : coordination[c].writer # Nobody => coordination[c].readers = {}

\* The stages of an operation, and what it has locked when it is there.
HoldsOf(t) ==
  /\ call[t].stage \notin {"idle", "done"} => call[t].op # "none"
  /\ call[t].stage = "policy" => call[t].op \in {"policy", "start"} \/ (call[t].op = "request" /\ call[t].locks = <<"read">>)
  /\ call[t].stage \in {"prepare", "check", "peers", "answered"} => call[t].op \in GatewayOps
  /\ call[t].stage = "maintenance" => call[t].op = "proxied"
  /\ call[t].stage \in {"generation", "session", "init", "running"} => call[t].op = "start"
  /\ call[t].stage = "done" => call[t].op \in {"none", "start"}
  /\ call[t].stage = "lock" =>
       \/ call[t].op \in {"read", "request"} /\ call[t].locks = <<"read">>
       \/ call[t].op = "change" /\ call[t].locks \in ChangeLocks
       \/ call[t].op = "book" /\ call[t].locks \in BookLocks
  /\ call[t].stage = "work" => call[t].op \in GatewayOps \cup {"change", "read", "book", "policy"}
  /\ UsesStores(t) =>
       IF call[t].op = "change" THEN coordination[C(t)].writer = t
       ELSE t \in coordination[C(t)].readers
  /\ call[t].stage = "lock" /\ call[t].locks = <<"peers">> => t \in coordination[C(t)].readers
  /\ call[t].stage = "peers" \/ (call[t].stage = "work" /\ call[t].op = "book") =>
       coordination[C(t)].peers = t

\* A request has the operation lock, and its policy is in force and goes with it.
PolicyOf(t) ==
  call[t].op = "request" =>
    /\ call[t].stage \in {"lock", "prepare", "check", "work", "peers", "answered"} =>
         inner[call[t].runtime].operation = t /\ inner[call[t].runtime].policy = call[t].policy
    /\ call[t].stage \in {"check", "work", "peers", "answered"} => call[t].used = call[t].policy

\* A proxy that starts has a generation of its runtime; its identifier is the runtime's, or one
\* that nobody has yet.
StartOf(t) ==
  call[t].op = "start" =>
    /\ call[t].stage \in {"session", "init", "running", "done"} =>
         call[t].generation <= inner[call[t].runtime].generation
    /\ call[t].stage = "init" =>
         \/ call[t].session = t /\ \A r \in Runtime : inner[r].session # t
         \/ call[t].session = inner[call[t].runtime].session /\ call[t].session # Nobody
    /\ call[t].stage \in {"running", "done"} =>
         call[t].session = inner[call[t].runtime].session /\ call[t].session # Nobody

CallerInv(t) == HoldsOf(t) /\ PolicyOf(t) /\ StartOf(t)

\* Generations are given once, identifiers are generated once.
Numbered(t) == call[t].op = "start" /\ call[t].stage \in {"session", "init", "running", "done"}
GenerationInv ==
  \A t, u \in Caller :
    t # u /\ Numbered(t) /\ Numbered(u) /\ call[t].runtime = call[u].runtime =>
      call[t].generation # call[u].generation
SessionInv ==
  /\ \A r \in Runtime, t \in Caller : inner[r].session = t => call[t].stage \in {"running", "done"}
  /\ \A r, q \in Runtime : r # q /\ inner[r].session = inner[q].session => inner[r].session = Nobody

IInv ==
  /\ TypeInv /\ RefersInv /\ CoordinationInv /\ WriterInv
  /\ \A t \in Caller : CallerInv(t)
  /\ GenerationInv /\ SessionInv

----------------------------------------------------------------------------
(* Steps of one caller.                                                     *)

\* A step of t leaves alone what the others hold and rely on, and t is at a runtime that lives.
Frame(t) ==
  /\ handle' = handle /\ registry' = registry /\ Len(inner') = Len(inner)
  /\ \A u \in Caller \ {t} : call'[u] = call[u]
  /\ \A r \in Runtime :
       /\ inner'[r].base = inner[r].base /\ inner'[r].coordination = inner[r].coordination
       /\ inner[r].generation <= inner'[r].generation
       /\ inner'[r].session = inner[r].session \/ (inner[r].session = Nobody /\ inner'[r].session = t)
       /\ \A u \in Caller \ {t} :
            inner[r].operation = u => inner'[r].operation = u /\ inner'[r].policy = inner[r].policy
  /\ \A c \in Runtime, u \in Caller \ {t} :
       /\ coordination[c].writer = u => coordination'[c].writer = u
       /\ u \in coordination[c].readers => u \in coordination'[c].readers
       /\ coordination[c].peers = u => coordination'[c].peers = u
  /\ call'[t].op # "none" => call'[t].runtime \in Runtime
  /\ call'[t].stage \in {"idle", "done"} \/ Alive(call'[t].runtime)

\* It neither numbers a proxy nor sets a session.
Calm(t) ==
  /\ Numbered(t)' => /\ Numbered(t)
                     /\ call'[t].runtime = call[t].runtime /\ call'[t].generation = call[t].generation
  /\ \A r \in Runtime : inner'[r].session = inner[r].session
  /\ call[t].stage \in {"running", "done"} => call'[t].stage \in {"running", "done"}

\* What the other callers hold, they keep.
LEMMA OthersKeep ==
  ASSUME IInv, TypeInv', NEW t \in Caller, Frame(t), NEW u \in Caller, u # t
  PROVE  CallerInv(u)'
<1> DEFINE ru == call[u].runtime
<1>1. call'[u] = call[u] /\ CallerInv(u) BY DEF Frame, IInv
<1>2. call[u].op # "none" => ru \in Runtime /\ ru \in Runtime' BY DEF IInv, RefersInv, Frame,
      Runtime
<1>3. call[u].op # "none" => C(u)' = C(u) /\ C(u) \in Runtime
  BY <1>1, <1>2 DEF C, Frame, IInv, RefersInv
<1>4. HoldsOf(u)'
  <2>1. UsesStores(u)' <=> UsesStores(u) BY <1>1 DEF UsesStores, InUse
  <2>2. UsesStores(u) => call[u].op # "none" BY <1>1 DEF CallerInv, HoldsOf, UsesStores, InUse
  <2>3. ASSUME UsesStores(u)
        PROVE IF call[u].op = "change" THEN coordination'[C(u)].writer = u
              ELSE u \in coordination'[C(u)].readers
    <3>1. C(u) \in Runtime BY <1>3, <2>2, <2>3
    <3>2. IF call[u].op = "change" THEN coordination[C(u)].writer = u
          ELSE u \in coordination[C(u)].readers
      BY <1>1, <2>3 DEF CallerInv, HoldsOf
    <3>3. QED BY <3>1, <3>2 DEF Frame
  <2>4. ASSUME call[u].stage = "lock", call[u].locks = <<"peers">>
        PROVE u \in coordination'[C(u)].readers
    <3>1. call[u].op # "none" /\ u \in coordination[C(u)].readers
      BY <1>1, <2>4 DEF CallerInv, HoldsOf
    <3>2. C(u) \in Runtime BY <1>3, <3>1
    <3>3. QED BY <3>1, <3>2 DEF Frame
  <2>5. ASSUME call[u].stage = "peers" \/ (call[u].stage = "work" /\ call[u].op = "book")
        PROVE coordination'[C(u)].peers = u
    <3>1. call[u].op # "none" /\ coordination[C(u)].peers = u
      BY <1>1, <2>5 DEF CallerInv, HoldsOf
    <3>2. C(u) \in Runtime BY <1>3, <3>1
    <3>3. QED BY <3>1, <3>2 DEF Frame
  <2>6. call[u].stage = "lock" => call[u].op # "none" BY <1>1 DEF CallerInv, HoldsOf
  <2>7. call[u].stage = "peers" \/ (call[u].stage = "work" /\ call[u].op = "book") => call[u].op # "none"
    BY <1>1 DEF CallerInv, HoldsOf
  <2>8. HoldsOf(u) BY <1>1 DEF CallerInv
  <2>9. QED BY <1>1, <1>3, <2>1, <2>2, <2>3, <2>4, <2>5, <2>6, <2>7, <2>8 DEF HoldsOf
<1>5. PolicyOf(u)'
  <2>1. PolicyOf(u) BY <1>1 DEF CallerInv
  <2>2. call[u].op = "request" => ru \in Runtime BY <1>2
  <2>3. ASSUME ru \in Runtime, inner[ru].operation = u
        PROVE inner'[ru].operation = u /\ inner'[ru].policy = inner[ru].policy
    BY <2>3 DEF Frame
  <2>4. QED BY <1>1, <2>1, <2>2, <2>3 DEF PolicyOf
<1>6. StartOf(u)'
  <2>1. SUFFICES ASSUME call[u].op = "start" PROVE StartOf(u)'
    BY <1>1 DEF StartOf
  <2>2. StartOf(u) /\ ru \in Runtime BY <1>1, <1>2, <2>1 DEF CallerInv
  <2>3. /\ inner[ru].generation <= inner'[ru].generation
        /\ inner[ru].session # Nobody => inner'[ru].session = inner[ru].session
    BY <2>2 DEF Frame
  <2>4. \A r \in Runtime : inner[r].session # u => inner'[r].session # u BY DEF Frame
  <2>5. /\ inner[ru].generation \in Nat /\ call[u].generation \in Nat
        /\ inner'[ru].generation \in Nat
    <3>1. inner[ru] \in InnerType /\ inner'[ru] \in InnerType
      BY <2>2, ElementOfSeq DEF IInv, TypeInv, Runtime, Frame
    <3>2. call[u] \in CallType BY DEF IInv, TypeInv
    <3>3. QED BY <3>1, <3>2, BrowserRuntimeAssumption DEF InnerType, CallType
  <2>6. Runtime' = Runtime BY DEF Runtime, Frame
  <2>7. ASSUME call[u].stage \in {"session", "init", "running", "done"}
        PROVE call[u].generation <= inner'[ru].generation
    <3>1. call[u].generation <= inner[ru].generation BY <2>1, <2>2, <2>7 DEF StartOf
    <3>2. QED BY <3>1, <2>3, <2>5
  <2>8. ASSUME call[u].stage = "init"
        PROVE \/ call[u].session = u /\ \A r \in Runtime' : inner'[r].session # u
              \/ call[u].session = inner'[ru].session /\ call[u].session # Nobody
    BY <2>1, <2>2, <2>3, <2>4, <2>6, <2>8 DEF StartOf
  <2>9. ASSUME call[u].stage \in {"running", "done"}
        PROVE call[u].session = inner'[ru].session /\ call[u].session # Nobody
    BY <2>1, <2>2, <2>3, <2>9 DEF StartOf
  <2>10. QED BY <1>1, <2>1, <2>7, <2>8, <2>9 DEF StartOf
<1>7. QED BY <1>4, <1>5, <1>6 DEF CallerInv

\* A step of one caller leaves the runtimes and the other callers as they should be.
LEMMA PartsKeep ==
  ASSUME IInv, TypeInv', NEW t \in Caller, Frame(t), WriterInv', CallerInv(t)'
  PROVE  RefersInv' /\ CoordinationInv' /\ (\A u \in Caller : CallerInv(u)')
<1>1. \A u \in Caller : CallerInv(u)' BY OthersKeep
<1>2. RefersInv' BY DEF IInv, RefersInv, Frame, Runtime
<1>3. CoordinationInv'
  <2>1. ASSUME NEW r \in Runtime, Alive(r)' PROVE Alive(r)
    BY <2>1 DEF Alive, Frame
  <2>2. QED BY <2>1 DEF IInv, CoordinationInv, Frame, Runtime
<1>4. QED BY <1>1, <1>2, <1>3

\* A step that sets no session.
LEMMA SessionsKeep ==
  ASSUME IInv, NEW t \in Caller, Frame(t), \A r \in Runtime : inner'[r].session = inner[r].session,
         call[t].stage \in {"running", "done"} => call'[t].stage \in {"running", "done"}
  PROVE  SessionInv'
<1>1. \A u \in Caller : call[u].stage \in {"running", "done"} => call'[u].stage \in {"running", "done"}
  BY DEF Frame
<1>2. Runtime' = Runtime BY DEF Frame, Runtime
<1>3. QED BY <1>1, <1>2 DEF IInv, SessionInv

\* A step that numbers no proxy.
LEMMA GenerationsKeep ==
  ASSUME IInv, NEW t \in Caller, Frame(t),
         Numbered(t)' => /\ Numbered(t)
                         /\ call'[t].runtime = call[t].runtime /\ call'[t].generation = call[t].generation
  PROVE  GenerationInv'
<1>1. ASSUME NEW u \in Caller, Numbered(u)'
      PROVE Numbered(u) /\ call'[u].runtime = call[u].runtime /\ call'[u].generation = call[u].generation
  BY <1>1 DEF Frame, Numbered
<1>2. QED BY <1>1 DEF IInv, GenerationInv

\* A step that neither numbers a proxy nor sets a session keeps what ties the callers together.
LEMMA StepKeeps ==
  ASSUME IInv, TypeInv', NEW t \in Caller, Frame(t), Calm(t), WriterInv', CallerInv(t)'
  PROVE  IInv'
<1>1. RefersInv' /\ CoordinationInv' /\ \A u \in Caller : CallerInv(u)' BY PartsKeep
<1>2. GenerationInv' BY GenerationsKeep DEF Calm
<1>3. SessionInv' BY SessionsKeep DEF Calm
<1>4. QED BY <1>1, <1>2, <1>3 DEF IInv

\* The fields of the records.
LEMMA Fields ==
  ASSUME TypeInv
  PROVE  /\ \A r \in Runtime : inner[r] \in InnerType
         /\ \A c \in Runtime : coordination[c] \in LocksType
         /\ DOMAIN inner = Runtime /\ DOMAIN coordination = Runtime
         /\ \A t \in Caller : call[t] \in CallType
BY ElementOfSeq DEF TypeInv, Runtime

\* One record of a sequence changes.
LEMMA OneChanges ==
  ASSUME NEW S, NEW s \in Seq(S), NEW i \in 1 .. Len(s), NEW e \in S, NEW w, w = [s EXCEPT ![i] = e]
  PROVE  /\ w \in Seq(S) /\ Len(w) = Len(s) /\ w[i] = e
         /\ \A j \in 1 .. Len(s) : j # i => w[j] = s[j]
BY ExceptSeq

\* What one caller does shows in its own record.
LEMMA CallIs ==
  ASSUME TypeInv, NEW t \in Caller, NEW d \in CallType, call' = [call EXCEPT ![t] = d]
  PROVE  /\ call' \in [Caller -> CallType] /\ call'[t] = d
         /\ \A u \in Caller \ {t} : call'[u] = call[u]
BY DEF TypeInv

\* A step that changes nothing but the record of its caller.
LEMMA OwnRecord ==
  ASSUME IInv, NEW t \in Caller, NEW d \in CallType, call' = [call EXCEPT ![t] = d],
         UNCHANGED <<handle, inner, coordination, registry>>,
         d.op # "none" => d.runtime \in Runtime,
         d.stage \in {"idle", "done"} \/ Alive(d.runtime)
  PROVE  /\ TypeInv' /\ Frame(t) /\ WriterInv' /\ call'[t] = d
         /\ \A r \in Runtime : inner'[r].session = inner[r].session
<1>1. TypeInv BY DEF IInv
<1>2. TypeInv' BY <1>1, CallIs DEF TypeInv
<1>3. WriterInv' BY DEF IInv, WriterInv, Runtime
<1>4. \A r \in Runtime : inner[r].generation <= inner[r].generation
  BY <1>1, Fields, BrowserRuntimeAssumption DEF InnerType
<1>5. call'[t] = d /\ \A u \in Caller \ {t} : call'[u] = call[u] BY <1>1, CallIs
<1>6. Frame(t) BY <1>4, <1>5 DEF Frame
<1>7. QED BY <1>2, <1>3, <1>5, <1>6

\* A caller that is at a call has a runtime, which lives.
LEMMA AtCall ==
  ASSUME IInv, NEW t \in Caller, call[t].stage \notin {"idle", "done"}
  PROVE  /\ call[t].op # "none" /\ call[t].runtime \in Runtime /\ Alive(call[t].runtime)
         /\ C(t) \in Runtime /\ call[t] \in CallType /\ inner[call[t].runtime] \in InnerType
         /\ coordination[C(t)] \in LocksType
<1>1. call[t].op # "none" BY DEF IInv, CallerInv, HoldsOf
<1>2. call[t].runtime \in Runtime BY <1>1 DEF IInv, RefersInv
<1>3. C(t) \in Runtime BY <1>2 DEF IInv, RefersInv, C
<1>4. QED BY <1>1, <1>2, <1>3, Fields DEF IInv, Alive

\* The record of a call, from its fields.
LEMMA CallRecord ==
  ASSUME NEW o \in Ops, NEW i \in Nat, NEW s \in Stages, NEW e \in LockLists, NEW p \in Policies,
         NEW w \in Policies, NEW f \in BOOLEAN, NEW g \in BOOLEAN, NEW n \in Holder, NEW j \in Nat
  PROVE  [op |-> o, runtime |-> i, stage |-> s, locks |-> e, policy |-> p, used |-> w,
          cancelled |-> f, seen |-> g, session |-> n, generation |-> j] \in CallType
BY DEF CallType

\* Idle, field by field, and the record of a call that has returned nothing.
LEMMA IdleIs ==
  ASSUME NEW s \in Stages
  PROVE  LET d == [Idle EXCEPT !.stage = s] IN d \in CallType /\ d.op = "none" /\ d.stage = s
<1>1. PICK f, p, i, e, o, z : /\ f = FALSE /\ p = Initial /\ i = 0 /\ e = <<>>
                              /\ o = "none" /\ z = "idle"
  OBVIOUS
<1>2. PICK r : r = [op |-> o, runtime |-> i, stage |-> s, locks |-> e, policy |-> p, used |-> p,
                    cancelled |-> f, seen |-> f, session |-> Nobody, generation |-> i]
  OBVIOUS
<1>3. Idle = [op |-> o, runtime |-> i, stage |-> z, locks |-> e, policy |-> p, used |-> p,
              cancelled |-> f, seen |-> f, session |-> Nobody, generation |-> i]
  BY <1>1 DEF Idle
<1>4. [Idle EXCEPT !.stage = s] = r BY <1>2, <1>3
<1>5. /\ o \in Ops /\ i \in Nat /\ e \in LockLists /\ p \in Policies /\ f \in BOOLEAN
      /\ Nobody \in Holder
  BY <1>1, BrowserRuntimeAssumption DEF Ops, LockLists, Holder
<1>6. r \in CallType BY <1>2, <1>5, CallRecord
<1>7. r.op = o /\ r.stage = s BY <1>2
<1>8. QED BY <1>1, <1>4, <1>6, <1>7

\* A call that returns lets go of its own locks only.
LEMMA Released ==
  ASSUME IInv, NEW t \in Caller, Release(t)
  PROVE  /\ inner' \in Seq(InnerType) /\ Len(inner') = Len(inner)
         /\ coordination' \in Seq(LocksType) /\ Len(coordination') = Len(coordination)
         /\ WriterInv'
         /\ \A r \in Runtime :
              /\ inner'[r].base = inner[r].base /\ inner'[r].coordination = inner[r].coordination
              /\ inner'[r].generation = inner[r].generation /\ inner'[r].session = inner[r].session
              /\ inner'[r].policy = inner[r].policy
              /\ \A u \in Caller \ {t} : inner[r].operation = u => inner'[r].operation = u
         /\ \A c \in Runtime, u \in Caller \ {t} :
              /\ coordination[c].writer = u => coordination'[c].writer = u
              /\ u \in coordination[c].readers => u \in coordination'[c].readers
              /\ coordination[c].peers = u => coordination'[c].peers = u
<1>1. TypeInv BY DEF IInv
<1>2. /\ \A r \in Runtime : inner[r] \in InnerType
      /\ \A c \in Runtime : coordination[c] \in LocksType
      /\ DOMAIN inner = Runtime /\ DOMAIN coordination = Runtime
  BY <1>1, Fields
<1>3. Nobody \in Holder /\ t \in Holder BY DEF Holder
<1>4. ASSUME NEW r \in Runtime
      PROVE /\ inner'[r] \in InnerType
            /\ inner'[r].base = inner[r].base /\ inner'[r].coordination = inner[r].coordination
            /\ inner'[r].generation = inner[r].generation /\ inner'[r].session = inner[r].session
            /\ inner'[r].policy = inner[r].policy
            /\ \A u \in Caller \ {t} : inner[r].operation = u => inner'[r].operation = u
  <2>1. PICK q : q = inner[r] OBVIOUS
  <2>2. PICK o : o = IF q.operation = t THEN Nobody ELSE q.operation OBVIOUS
  <2>3. inner'[r] = [q EXCEPT !.operation = o] BY <1>2, <2>1, <2>2 DEF Release
  <2>4. q \in InnerType BY <1>2, <2>1
  <2>5. o \in Holder BY <1>3, <2>2, <2>4 DEF InnerType
  <2>6. /\ inner'[r] \in InnerType /\ inner'[r].operation = o
        /\ inner'[r].base = q.base /\ inner'[r].coordination = q.coordination
        /\ inner'[r].generation = q.generation /\ inner'[r].session = q.session
        /\ inner'[r].policy = q.policy
    BY <2>3, <2>4, <2>5 DEF InnerType
  <2>7. QED BY <2>1, <2>2, <2>6
<1>5. ASSUME NEW c \in Runtime
      PROVE /\ coordination'[c] \in LocksType
            /\ coordination'[c].readers = coordination[c].readers \ {t}
            /\ coordination'[c].writer = (IF coordination[c].writer = t THEN Nobody ELSE coordination[c].writer)
            /\ coordination'[c].peers = (IF coordination[c].peers = t THEN Nobody ELSE coordination[c].peers)
  <2>1. PICK q : q = coordination[c] OBVIOUS
  <2>2. q \in LocksType BY <1>2, <2>1
  <2>3. PICK s, w, p, e : /\ s = IF q.sync = t THEN Nobody ELSE q.sync
                          /\ w = IF q.writer = t THEN Nobody ELSE q.writer
                          /\ p = IF q.peers = t THEN Nobody ELSE q.peers
                          /\ e = q.readers \ {t}
    OBVIOUS
  <2>4. coordination'[c] = [sync |-> s, readers |-> e, writer |-> w, peers |-> p]
    BY <1>2, <2>1, <2>3 DEF Release
  <2>5. s \in Holder /\ w \in Holder /\ p \in Holder /\ e \in SUBSET Caller
    BY <1>3, <2>2, <2>3 DEF LocksType
  <2>6. QED BY <2>1, <2>3, <2>4, <2>5 DEF LocksType
<1>6. inner' \in Seq(InnerType) /\ Len(inner') = Len(inner)
  <2>1. DOMAIN inner' = 1 .. Len(inner) /\ inner' = [r \in 1 .. Len(inner) |-> inner'[r]]
    BY <1>2 DEF Release, Runtime
  <2>2. inner' \in [1 .. Len(inner) -> InnerType] BY <1>4, <2>1 DEF Runtime
  <2>3. Len(inner) \in Nat BY <1>1 DEF TypeInv
  <2>4. inner' \in Seq(InnerType) BY <2>2, <2>3, SeqDef
  <2>5. QED BY <2>1, <2>3, <2>4
<1>7. coordination' \in Seq(LocksType) /\ Len(coordination') = Len(coordination)
  <2>1. DOMAIN coordination' = 1 .. Len(inner) /\ coordination' = [c \in 1 .. Len(inner) |-> coordination'[c]]
    BY <1>2 DEF Release, Runtime
  <2>2. coordination' \in [1 .. Len(inner) -> LocksType] BY <1>5, <2>1 DEF Runtime
  <2>3. Len(inner) \in Nat /\ Len(coordination) = Len(inner) BY <1>1 DEF TypeInv
  <2>4. coordination' \in Seq(LocksType) BY <2>2, <2>3, SeqDef
  <2>5. QED BY <2>1, <2>3, <2>4
<1>8. WriterInv'
  <2>1. Runtime' = Runtime BY <1>6 DEF Runtime
  <2>2. QED BY <1>5, <2>1 DEF IInv, WriterInv
<1>9. ASSUME NEW c \in Runtime, NEW u \in Caller \ {t}
      PROVE /\ coordination[c].writer = u => coordination'[c].writer = u
            /\ u \in coordination[c].readers => u \in coordination'[c].readers
            /\ coordination[c].peers = u => coordination'[c].peers = u
  BY <1>5
<1>10. QED BY <1>4, <1>6, <1>7, <1>8, <1>9

\* A call returns.  Nothing is held any more that another caller relies on.
LEMMA ReturnKeeps ==
  ASSUME IInv, NEW t \in Caller, NEW outcome, Return(t, outcome),
         call[t].stage \notin {"idle", "done"}, outcome = "proxy" => call[t].stage = "running"
  PROVE  IInv'
<1> DEFINE d == IF outcome = "proxy" THEN [call[t] EXCEPT !.stage = "done"] ELSE [Idle EXCEPT !.stage = "done"]
<1>1. TypeInv /\ Release(t) /\ call' = [call EXCEPT ![t] = d] /\ handle' = handle /\ registry' = registry
  BY DEF IInv, Return
<1>2. /\ call[t] \in CallType /\ call[t].runtime \in Runtime /\ call[t].op # "none"
  BY AtCall
<1>3. /\ d \in CallType /\ d.stage = "done"
      /\ outcome # "proxy" => d.op = "none"
      /\ outcome = "proxy" => /\ d.op = call[t].op /\ d.runtime = call[t].runtime
                              /\ d.session = call[t].session /\ d.generation = call[t].generation
  <2>1. CASE outcome = "proxy"
    <3>1. PICK q, z : q = call[t] /\ z = "done" OBVIOUS
    <3>2. q \in CallType /\ z \in Stages BY <1>2, <3>1 DEF Stages
    <3>3. PICK e : e = [q EXCEPT !.stage = z] OBVIOUS
    <3>4. /\ e \in CallType /\ e.stage = z /\ e.op = q.op /\ e.runtime = q.runtime
          /\ e.session = q.session /\ e.generation = q.generation
      BY <3>2, <3>3 DEF CallType
    <3>5. QED BY <2>1, <3>1, <3>3, <3>4
  <2>2. CASE outcome # "proxy"
    <3>1. "done" \in Stages BY DEF Stages
    <3>2. d = [Idle EXCEPT !.stage = "done"] BY <2>2
    <3>3. QED BY <2>2, <3>1, <3>2, IdleIs
  <2>3. QED BY <2>1, <2>2
<1> HIDE DEF d
<1>4. /\ call' \in [Caller -> CallType] /\ call'[t] = d
      /\ \A u \in Caller \ {t} : call'[u] = call[u]
  BY <1>1, <1>3, CallIs
<1>5. TypeInv'
  BY <1>1, <1>4, Released DEF TypeInv
<1>6. WriterInv' BY <1>1, Released
<1>7. \A r \in Runtime : inner[r].generation <= inner[r].generation
  BY <1>1, Fields, BrowserRuntimeAssumption DEF InnerType
<1>8. Frame(t) BY <1>1, <1>2, <1>3, <1>4, <1>7, Released DEF Frame
<1>9. outcome = "proxy" => call[t].op = "start" BY DEF IInv, CallerInv, HoldsOf
<1>10. Calm(t)
  <2>1. \A r \in Runtime : inner'[r].session = inner[r].session BY <1>1, Released
  <2>2. QED BY <1>3, <1>4, <1>9, <2>1 DEF Calm, Numbered
<1>11. CallerInv(t)'
  <2>1. HoldsOf(t)' BY <1>3, <1>4, <1>9 DEF HoldsOf, UsesStores, InUse
  <2>2. PolicyOf(t)' BY <1>3, <1>4 DEF PolicyOf
  <2>3. StartOf(t)'
    <3>1. CASE outcome = "proxy"
      <4>1. StartOf(t) BY DEF IInv, CallerInv
      <4>2. /\ inner'[call[t].runtime].session = inner[call[t].runtime].session
            /\ inner'[call[t].runtime].generation = inner[call[t].runtime].generation
        BY <1>1, <1>2, Released
      <4>3. QED BY <1>3, <1>4, <1>9, <3>1, <4>1, <4>2 DEF StartOf
    <3>2. CASE outcome # "proxy" BY <1>3, <1>4, <3>2 DEF StartOf
    <3>3. QED BY <3>1, <3>2
  <2>4. QED BY <2>1, <2>2, <2>3 DEF CallerInv
<1>12. QED BY <1>5, <1>6, <1>8, <1>10, <1>11, StepKeeps

\* How the operations begin.
Begins(op, stage, locks) ==
  \/ stage = "policy" /\ (op \in {"policy", "start"} \/ (op = "request" /\ locks = <<"read">>))
  \/ stage = "lock" /\ op = "read" /\ locks = <<"read">>
  \/ stage = "lock" /\ op = "change" /\ locks = <<"sync", "write">>
  \/ stage = "lock" /\ op = "book" /\ locks = <<"sync", "read", "peers">>
  \/ stage = "maintenance" /\ op = "proxied"
  \/ stage = "generation" /\ op = "start"
  \/ stage = "failed" /\ op # "none"

\* The record of a call that begins.
Begun(op, r, stage, locks, policy) ==
  [Idle EXCEPT !.op = op, !.runtime = r, !.stage = stage, !.locks = locks, !.policy = policy]

\* It has the fields it is given.
LEMMA BegunIs ==
  ASSUME NEW op \in Ops, NEW r \in Nat, NEW stage \in Stages, NEW locks \in LockLists,
         NEW policy \in Policies
  PROVE  LET d == Begun(op, r, stage, locks, policy)
         IN d \in CallType /\ d.op = op /\ d.runtime = r /\ d.stage = stage /\ d.locks = locks
<1>1. PICK f, p, i, e, o, z : /\ f = FALSE /\ p = Initial /\ i = 0 /\ e = <<>>
                              /\ o = "none" /\ z = "idle"
  OBVIOUS
<1>2. PICK q : q = [op |-> op, runtime |-> r, stage |-> stage, locks |-> locks, policy |-> policy,
                    used |-> p, cancelled |-> f, seen |-> f, session |-> Nobody, generation |-> i]
  OBVIOUS
<1>3. Idle = [op |-> o, runtime |-> i, stage |-> z, locks |-> e, policy |-> p, used |-> p,
              cancelled |-> f, seen |-> f, session |-> Nobody, generation |-> i]
  BY <1>1 DEF Idle
<1>4. Begun(op, r, stage, locks, policy) = q
  <2>1. PICK d1 : d1 = [Idle EXCEPT !.op = op] OBVIOUS
  <2>2. PICK d2 : d2 = [d1 EXCEPT !.runtime = r] OBVIOUS
  <2>3. PICK d3 : d3 = [d2 EXCEPT !.stage = stage] OBVIOUS
  <2>4. PICK d4 : d4 = [d3 EXCEPT !.locks = locks] OBVIOUS
  <2>5. PICK d5 : d5 = [d4 EXCEPT !.policy = policy] OBVIOUS
  <2>6. d1 = [op |-> op, runtime |-> i, stage |-> z, locks |-> e, policy |-> p, used |-> p,
              cancelled |-> f, seen |-> f, session |-> Nobody, generation |-> i]
    BY <1>3, <2>1
  <2>7. d2 = [op |-> op, runtime |-> r, stage |-> z, locks |-> e, policy |-> p, used |-> p,
              cancelled |-> f, seen |-> f, session |-> Nobody, generation |-> i]
    BY <2>2, <2>6
  <2>8. d3 = [op |-> op, runtime |-> r, stage |-> stage, locks |-> e, policy |-> p, used |-> p,
              cancelled |-> f, seen |-> f, session |-> Nobody, generation |-> i]
    BY <2>3, <2>7
  <2>9. d4 = [op |-> op, runtime |-> r, stage |-> stage, locks |-> locks, policy |-> p, used |-> p,
              cancelled |-> f, seen |-> f, session |-> Nobody, generation |-> i]
    BY <2>4, <2>8
  <2>10. d5 = q BY <1>2, <2>5, <2>9
  <2>11. QED BY <2>1, <2>2, <2>3, <2>4, <2>5, <2>10 DEF Begun
<1>5. i \in Nat /\ p \in Policies /\ f \in BOOLEAN /\ Nobody \in Holder
  BY <1>1, BrowserRuntimeAssumption DEF Holder
<1>6. q \in CallType BY <1>2, <1>5, CallRecord
<1>7. q.op = op /\ q.runtime = r /\ q.stage = stage /\ q.locks = locks BY <1>2
<1>8. QED BY <1>4, <1>6, <1>7

\* A caller takes up an operation on a runtime that a handle keeps alive.
LEMMA CallKeeps ==
  ASSUME IInv, NEW t \in Caller, NEW op \in Ops, NEW stage \in Stages, NEW locks \in LockLists,
         NEW policy \in Policies, Begins(op, stage, locks), Call(t, op, stage, locks, policy)
  PROVE  IInv'
<1>1. PICK h \in Handle :
        handle[h] # 0 /\ call' = [call EXCEPT ![t] = Begun(op, handle[h], stage, locks, policy)]
  BY DEF Call, Begun
<1>2. handle[h] \in Runtime /\ handle[h] \in Nat /\ Alive(handle[h])
  BY <1>1, BrowserRuntimeAssumption DEF IInv, TypeInv, RefersInv, Runtime, Alive
<1> DEFINE d == Begun(op, handle[h], stage, locks, policy)
<1>3. d \in CallType /\ d.op = op /\ d.runtime = handle[h] /\ d.stage = stage /\ d.locks = locks
  BY <1>2, BegunIs
<1>4. call' = [call EXCEPT ![t] = d] BY <1>1
<1> HIDE DEF d
<1>5. call[t].stage = "idle" /\ UNCHANGED <<handle, inner, coordination, registry>> BY DEF Call
<1>6. /\ TypeInv' /\ Frame(t) /\ WriterInv' /\ call'[t] = d
      /\ \A r \in Runtime : inner'[r].session = inner[r].session
  BY <1>2, <1>3, <1>4, <1>5, OwnRecord
<1>7. Calm(t) BY <1>3, <1>5, <1>6 DEF Calm, Numbered, Begins
<1>8. CallerInv(t)'
  <2>1. HoldsOf(t)'
    <3>1. ~UsesStores(t)' BY <1>3, <1>6 DEF Begins, UsesStores, InUse
    <3>2. /\ call'[t].op = op /\ call'[t].stage = stage /\ call'[t].locks = locks BY <1>3, <1>6
    <3>3. <<"sync", "write">> \in ChangeLocks /\ <<"sync", "read", "peers">> \in BookLocks
      BY DEF ChangeLocks, BookLocks
    <3>4. <<"read">> # <<"peers">> /\ <<"sync", "write">> # <<"peers">> /\ <<"sync", "read", "peers">> # <<"peers">>
      OBVIOUS
    <3>5. "proxied" \in GatewayOps BY DEF GatewayOps
    <3>6. CASE stage # "lock" BY <3>1, <3>2, <3>5, <3>6 DEF HoldsOf, Begins
    <3>7. CASE stage = "lock"
      BY <3>1, <3>2, <3>3, <3>4, <3>7 DEF HoldsOf, Begins
    <3>8. QED BY <3>6, <3>7
  <2>2. PolicyOf(t)' BY <1>3, <1>6 DEF PolicyOf, Begins
  <2>3. StartOf(t)' BY <1>3, <1>6 DEF StartOf, Begins
  <2>4. QED BY <2>1, <2>2, <2>3 DEF CallerInv
<1>9. QED BY <1>6, <1>7, <1>8, StepKeeps

\* The operations of a runtime begin.
LEMMA BeginKeeps ==
  ASSUME IInv, NEW t \in Caller, Begin(t)
  PROVE  IInv'
<1>1. Initial \in Policies BY BrowserRuntimeAssumption
<1>2. /\ <<"read">> \in LockLists /\ <<>> \in LockLists /\ <<"sync", "write">> \in LockLists
      /\ <<"sync", "read", "peers">> \in LockLists
  BY DEF LockLists, BookLocks, ChangeLocks
<1>3. {"policy", "lock", "maintenance", "generation", "failed"} \subseteq Stages BY DEF Stages
<1>4. {"read", "change", "book", "policy", "request", "proxied", "start"} \subseteq Ops
  BY DEF Ops, GatewayOps
<1>5. ASSUME Call(t, "book", "lock", <<"sync", "read", "peers">>, Initial) PROVE IInv'
  BY <1>1, <1>2, <1>3, <1>4, <1>5, CallKeeps DEF Begins
<1>6. ASSUME Call(t, "read", "lock", <<"read">>, Initial) PROVE IInv'
  BY <1>1, <1>2, <1>3, <1>4, <1>6, CallKeeps DEF Begins
<1>7. ASSUME Call(t, "change", "lock", <<"sync", "write">>, Initial) PROVE IInv'
  BY <1>1, <1>2, <1>3, <1>4, <1>7, CallKeeps DEF Begins
<1>8. ASSUME NEW p \in Policies, Call(t, "policy", "policy", <<>>, p) PROVE IInv'
  BY <1>1, <1>2, <1>3, <1>4, <1>8, CallKeeps DEF Begins
<1>9. ASSUME Call(t, "book", "failed", <<>>, Initial) PROVE IInv'
  BY <1>1, <1>2, <1>3, <1>4, <1>9, CallKeeps DEF Begins
<1>10. ASSUME NEW p \in Policies, Call(t, "request", "policy", <<"read">>, p) PROVE IInv'
  BY <1>1, <1>2, <1>3, <1>4, <1>10, CallKeeps DEF Begins
<1>11. ASSUME Call(t, "request", "failed", <<>>, Initial) PROVE IInv'
  BY <1>1, <1>2, <1>3, <1>4, <1>11, CallKeeps DEF Begins
<1>12. ASSUME Call(t, "proxied", "maintenance", <<>>, Initial) PROVE IInv'
  BY <1>1, <1>2, <1>3, <1>4, <1>12, CallKeeps DEF Begins
<1>13. ASSUME NEW p \in Policies, Call(t, "start", "policy", <<>>, p) PROVE IInv'
  BY <1>1, <1>2, <1>3, <1>4, <1>13, CallKeeps DEF Begins
<1>14. ASSUME Call(t, "start", "generation", <<>>, Initial) PROVE IInv'
  BY <1>1, <1>2, <1>3, <1>4, <1>14, CallKeeps DEF Begins
<1>15. QED
  BY <1>5, <1>6, <1>7, <1>8, <1>9, <1>10, <1>11, <1>12, <1>13, <1>14
  DEF Begin, SyncOnce, SyncStatus, ProofDetails, ClearResolverCache, InstallHeaderSnapshot,
      ResetHeadersFromPeers, SetPolicy, AddStaticRelayPeer, RawGatewayRequest,
      RawGatewayRequestBodyToFile, Execute, OpenTunnel, StartProxyWithPolicy, StartProxy

\* A request that brings its own policy and has the maintenance lock goes on.
LEMMA GatewayMoveKeeps ==
  ASSUME IInv, NEW t \in Caller, NEW d \in CallType, call' = [call EXCEPT ![t] = d],
         UNCHANGED <<handle, inner, coordination, registry>>,
         call[t].op \in GatewayOps, call[t].stage \in {"prepare", "check", "work"},
         d.op = call[t].op, d.runtime = call[t].runtime, d.policy = call[t].policy,
         d.stage \in {"check", "work", "answered"}, d.op = "request" => d.used = d.policy
  PROVE  IInv'
<1>1. /\ call[t].op # "none" /\ call[t].runtime \in Runtime /\ Alive(call[t].runtime)
      /\ call[t].op \notin {"start", "change", "policy", "book"}
  BY AtCall DEF GatewayOps
<1>2. /\ TypeInv' /\ Frame(t) /\ WriterInv' /\ call'[t] = d
      /\ \A r \in Runtime : inner'[r].session = inner[r].session
  BY <1>1, OwnRecord
<1>3. Calm(t) BY <1>1, <1>2 DEF Calm, Numbered
<1>4. HoldsOf(t) /\ PolicyOf(t) BY DEF IInv, CallerInv
<1>5. HoldsOf(t)'
  <2>1. UsesStores(t) BY <1>1 DEF UsesStores, InUse
  <2>2. t \in coordination[C(t)].readers BY <1>1, <1>4, <2>1 DEF HoldsOf
  <2>3. C(t)' = C(t) BY <1>2 DEF C
  <2>4. QED BY <1>1, <1>2, <2>2, <2>3 DEF HoldsOf
<1>6. PolicyOf(t)' BY <1>2, <1>4 DEF PolicyOf
<1>7. StartOf(t)' BY <1>1, <1>2 DEF StartOf
<1>8. CallerInv(t)' BY <1>5, <1>6, <1>7 DEF CallerInv
<1>9. QED BY <1>2, <1>3, <1>8, StepKeeps

\* The token of a request is cancelled.
LEMMA CancelKeeps ==
  ASSUME IInv, NEW t \in Caller, Cancel(t)
  PROVE  IInv'
<1>1. PICK q, b : q = call[t] /\ b = TRUE OBVIOUS
<1>2. q \in CallType /\ b \in BOOLEAN BY <1>1, Fields DEF IInv
<1>3. PICK d : d = [q EXCEPT !.cancelled = b] OBVIOUS
<1>4. /\ d \in CallType /\ d.op = q.op /\ d.stage = q.stage /\ d.runtime = q.runtime
      /\ d.locks = q.locks /\ d.policy = q.policy /\ d.used = q.used
  BY <1>2, <1>3 DEF CallType
<1>5. /\ call' = [call EXCEPT ![t] = d] /\ UNCHANGED <<handle, inner, coordination, registry>>
      /\ q.op = "proxied"
  BY <1>1, <1>3 DEF Cancel
<1>6. /\ q.runtime \in Runtime /\ (q.stage \in {"idle", "done"} \/ Alive(q.runtime))
  BY <1>1, <1>5 DEF IInv, RefersInv, Alive
<1>7. /\ TypeInv' /\ Frame(t) /\ WriterInv' /\ call'[t] = d
      /\ \A r \in Runtime : inner'[r].session = inner[r].session
  BY <1>4, <1>5, <1>6, OwnRecord
<1>8. Calm(t) BY <1>1, <1>4, <1>5, <1>7 DEF Calm, Numbered
<1>9. HoldsOf(t) BY DEF IInv, CallerInv
<1>10. C(t)' = C(t) BY <1>1, <1>4, <1>5, <1>7 DEF C
<1>11. HoldsOf(t)'
  BY <1>1, <1>4, <1>5, <1>7, <1>9, <1>10 DEF HoldsOf, UsesStores, InUse
<1>12. PolicyOf(t)' /\ StartOf(t)' BY <1>4, <1>5, <1>7 DEF PolicyOf, StartOf
<1>13. CallerInv(t)' BY <1>11, <1>12 DEF CallerInv
<1>14. QED BY <1>7, <1>8, <1>13, StepKeeps

\* The stage of a caller moves on.
LEMMA StageIs ==
  ASSUME TypeInv, NEW t \in Caller, NEW z \in Stages, Stage(t, z)
  PROVE  \E d \in CallType :
           /\ call' = [call EXCEPT ![t] = d] /\ d.stage = z
           /\ d.op = call[t].op /\ d.runtime = call[t].runtime /\ d.locks = call[t].locks
           /\ d.policy = call[t].policy /\ d.used = call[t].used /\ d.session = call[t].session
           /\ d.generation = call[t].generation /\ d.seen = call[t].seen
<1>1. PICK q : q = call[t] OBVIOUS
<1>2. q \in CallType BY <1>1, Fields
<1>3. PICK d : d = [q EXCEPT !.stage = z] OBVIOUS
<1>4. /\ d \in CallType /\ d.stage = z /\ d.op = q.op /\ d.runtime = q.runtime /\ d.locks = q.locks
      /\ d.policy = q.policy /\ d.used = q.used /\ d.session = q.session
      /\ d.generation = q.generation /\ d.seen = q.seen
  BY <1>2, <1>3 DEF CallType
<1>5. call' = [call EXCEPT ![t] = d] BY <1>1, <1>3 DEF Stage
<1>6. QED BY <1>1, <1>4, <1>5

\* The policy in force goes with a request, or the cache does not open.
LEMMA PrepareKeeps ==
  ASSUME IInv, NEW t \in Caller, Prepare(t)
  PROVE  IInv'
<1>1. call[t].stage = "prepare" BY DEF Prepare
<1>2. CASE Return(t, "error") BY <1>1, <1>2, ReturnKeeps
<1>3. CASE /\ call' = [call EXCEPT ![t].used = inner[call[t].runtime].policy, ![t].stage = "check"]
           /\ UNCHANGED <<handle, inner, coordination, registry>>
  <2>1. PICK q, p, z : q = call[t] /\ p = inner[call[t].runtime].policy /\ z = "check" OBVIOUS
  <2>2. q \in CallType /\ p \in Policies /\ z \in Stages BY <1>1, <2>1, AtCall DEF InnerType,
        Stages
  <2>3. PICK e : e = [q EXCEPT !.used = p] OBVIOUS
  <2>4. /\ e \in CallType /\ e.used = p /\ e.op = q.op /\ e.runtime = q.runtime /\ e.policy = q.policy
    BY <2>2, <2>3 DEF CallType
  <2>5. PICK d : d = [e EXCEPT !.stage = z] OBVIOUS
  <2>6. /\ d \in CallType /\ d.used = p /\ d.op = q.op /\ d.runtime = q.runtime /\ d.policy = q.policy
        /\ d.stage = z
    BY <2>2, <2>4, <2>5 DEF CallType
  <2>7. call' = [call EXCEPT ![t] = d]
    <3>1. t \in DOMAIN call BY DEF IInv, TypeInv
    <3>2. PICK f : f = [call EXCEPT ![t] = e] OBVIOUS
    <3>3. f[t] = e BY <3>1, <3>2
    <3>4. call' = [f EXCEPT ![t] = [f[t] EXCEPT !.stage = z]] BY <1>3, <2>1, <2>3, <3>2
    <3>5. QED BY <2>5, <3>2, <3>3, <3>4
  <2>8. call[t].op \in GatewayOps /\ (call[t].op = "request" => p = q.policy)
    BY <1>1, <2>1 DEF IInv, CallerInv, HoldsOf, PolicyOf
  <2>9. /\ call[t].stage \in {"prepare", "check", "work"} /\ d.stage \in {"check", "work", "answered"}
        /\ d.op = call[t].op /\ d.runtime = call[t].runtime /\ d.policy = call[t].policy
        /\ d.op = "request" => d.used = d.policy
    BY <1>1, <2>1, <2>6, <2>8
  <2>10. UNCHANGED <<handle, inner, coordination, registry>> BY <1>3
  <2>11. d \in CallType /\ call[t].op \in GatewayOps BY <2>6, <2>8
  <2>12. QED BY <2>7, <2>9, <2>10, <2>11, GatewayMoveKeeps
<1>4. QED BY <1>2, <1>3 DEF Prepare

\* The checks of the token.
LEMMA CheckKeeps ==
  ASSUME IInv, NEW t \in Caller, Check(t)
  PROVE  IInv'
<1>1. call[t].stage \in {"check", "answered"} BY DEF Check
<1>2. ASSUME NEW outcome \in {"cancelled", "response"}, Return(t, outcome) PROVE IInv'
  BY <1>1, <1>2, ReturnKeeps
<1>3. ASSUME call[t].stage = "check", Stage(t, "work"), UNCHANGED <<handle, inner, coordination, registry>>
      PROVE IInv'
  <2>1. "work" \in Stages /\ TypeInv BY DEF Stages, IInv
  <2>2. PICK d \in CallType :
          /\ call' = [call EXCEPT ![t] = d] /\ d.stage = "work"
          /\ d.op = call[t].op /\ d.runtime = call[t].runtime
          /\ d.policy = call[t].policy /\ d.used = call[t].used
    BY <1>3, <2>1, StageIs
  <2>3. call[t].op \in GatewayOps /\ (call[t].op = "request" => call[t].used = call[t].policy)
    BY <1>3 DEF IInv, CallerInv, HoldsOf, PolicyOf
  <2>4. QED BY <1>3, <2>2, <2>3, GatewayMoveKeeps
<1>4. QED BY <1>2, <1>3 DEF Check

\* The operation proper ends.
LEMMA WorkKeeps ==
  ASSUME IInv, NEW t \in Caller, Work(t)
  PROVE  IInv'
<1>1. call[t].stage = "work" BY DEF Work
<1>2. ASSUME NEW outcome \in {"status", "error"}, Return(t, outcome) PROVE IInv'
  BY <1>1, <1>2, ReturnKeeps
<1>3. ASSUME call[t].op \in GatewayOps, Stage(t, "answered"),
             UNCHANGED <<handle, inner, coordination, registry>>
      PROVE IInv'
  <2>1. "answered" \in Stages /\ TypeInv BY DEF Stages, IInv
  <2>2. PICK d \in CallType :
          /\ call' = [call EXCEPT ![t] = d] /\ d.stage = "answered"
          /\ d.op = call[t].op /\ d.runtime = call[t].runtime
          /\ d.policy = call[t].policy /\ d.used = call[t].used
    BY <1>3, <2>1, StageIs
  <2>3. call[t].op = "request" => call[t].used = call[t].policy
    BY <1>1 DEF IInv, CallerInv, PolicyOf
  <2>4. QED BY <1>1, <1>3, <2>2, <2>3, GatewayMoveKeeps
<1>4. QED BY <1>2, <1>3 DEF Work

\* A call that failed early, and a proxy that started or did not.
LEMMA RejectKeeps ==
  ASSUME IInv, NEW t \in Caller, Reject(t) \/ Start(t)
  PROVE  IInv'
<1>1. CASE Reject(t) BY <1>1, ReturnKeeps DEF Reject
<1>2. CASE Start(t) BY <1>2, ReturnKeeps DEF Start
<1>3. QED BY <1>1, <1>2

----------------------------------------------------------------------------
(* Locks.                                                                   *)

\* A step that changes the locks of its coordination, other than those of other callers.
LEMMA OwnLocks ==
  ASSUME IInv, NEW t \in Caller, NEW d \in CallType, NEW e \in LocksType,
         call[t].stage \notin {"idle", "done"}, call[t].op # "start",
         call' = [call EXCEPT ![t] = d], coordination' = [coordination EXCEPT ![C(t)] = e],
         UNCHANGED <<handle, inner, registry>>,
         d.op = call[t].op, d.runtime = call[t].runtime,
         e.writer # Nobody => e.readers = {},
         \A u \in Caller \ {t} :
           /\ coordination[C(t)].writer = u => e.writer = u
           /\ u \in coordination[C(t)].readers => u \in e.readers
           /\ coordination[C(t)].peers = u => e.peers = u,
         call[t].stage # "running"
  PROVE  /\ TypeInv' /\ Frame(t) /\ WriterInv' /\ Calm(t)
         /\ call'[t] = d /\ C(t)' = C(t) /\ coordination'[C(t)] = e
         /\ inner'[call[t].runtime] = inner[call[t].runtime]
<1>1. TypeInv BY DEF IInv
<1>2. /\ call[t].op # "none" /\ call[t].runtime \in Runtime /\ Alive(call[t].runtime)
      /\ C(t) \in Runtime
  BY AtCall
<1>3. /\ call' \in [Caller -> CallType] /\ call'[t] = d /\ \A u \in Caller \ {t} : call'[u] = call[u]
  BY <1>1, CallIs
<1>4. /\ coordination' \in Seq(LocksType) /\ Len(coordination') = Len(coordination)
      /\ coordination'[C(t)] = e /\ \A c \in Runtime : c # C(t) => coordination'[c] = coordination[c]
  <2>1. C(t) \in 1 .. Len(coordination) BY <1>1, <1>2 DEF TypeInv, Runtime
  <2>2. PICK s, i, w : s = coordination /\ i = C(t) /\ w = coordination' OBVIOUS
  <2>3. s \in Seq(LocksType) /\ i \in 1 .. Len(s) /\ w = [s EXCEPT ![i] = e] BY <1>1, <2>1,
        <2>2 DEF TypeInv
  <2>4. /\ w \in Seq(LocksType) /\ Len(w) = Len(s) /\ w[i] = e
        /\ \A j \in 1 .. Len(s) : j # i => w[j] = s[j]
    BY <2>3, OneChanges
  <2>5. QED BY <1>1, <2>2, <2>4 DEF TypeInv, Runtime
<1>5. TypeInv' BY <1>1, <1>3, <1>4 DEF TypeInv
<1>6. WriterInv' BY <1>4 DEF IInv, WriterInv, Runtime
<1>7. \A r \in Runtime : inner[r].generation <= inner[r].generation
  BY <1>1, Fields, BrowserRuntimeAssumption DEF InnerType
<1>8. Frame(t) BY <1>2, <1>3, <1>4, <1>7 DEF Frame
<1>9. Calm(t) BY <1>3 DEF Calm, Numbered
<1>10. C(t)' = C(t) BY <1>3 DEF C
<1>11. QED BY <1>3, <1>4, <1>5, <1>6, <1>8, <1>9, <1>10

\* The locks of a coordination with one of them changed.
LEMMA LockIs ==
  ASSUME NEW q \in LocksType, NEW x \in Holder, NEW t \in Caller
  PROVE  /\ \E e \in LocksType : /\ e = [q EXCEPT !.sync = x] /\ e.readers = q.readers
                                 /\ e.writer = q.writer /\ e.peers = q.peers
         /\ \E e \in LocksType : /\ e = [q EXCEPT !.readers = @ \cup {t}] /\ e.readers = q.readers \cup {t}
                                 /\ e.writer = q.writer /\ e.peers = q.peers
         /\ \E e \in LocksType : /\ e = [q EXCEPT !.writer = x] /\ e.readers = q.readers
                                 /\ e.writer = x /\ e.peers = q.peers
         /\ \E e \in LocksType : /\ e = [q EXCEPT !.peers = x] /\ e.readers = q.readers
                                 /\ e.writer = q.writer /\ e.peers = x
<1>1. \E e \in LocksType : /\ e = [q EXCEPT !.sync = x] /\ e.readers = q.readers
                           /\ e.writer = q.writer /\ e.peers = q.peers
  <2>1. PICK e : e = [q EXCEPT !.sync = x] OBVIOUS
  <2>2. e \in LocksType /\ e.readers = q.readers /\ e.writer = q.writer /\ e.peers = q.peers
    BY <2>1 DEF LocksType
  <2>3. QED BY <2>1, <2>2
<1>2. \E e \in LocksType : /\ e = [q EXCEPT !.readers = @ \cup {t}] /\ e.readers = q.readers \cup {t}
                           /\ e.writer = q.writer /\ e.peers = q.peers
  <2>1. PICK s : s = q.readers \cup {t} OBVIOUS
  <2>2. s \in SUBSET Caller BY <2>1 DEF LocksType
  <2>3. PICK e : e = [q EXCEPT !.readers = s] OBVIOUS
  <2>4. e \in LocksType /\ e.readers = s /\ e.writer = q.writer /\ e.peers = q.peers
    BY <2>2, <2>3 DEF LocksType
  <2>5. QED BY <2>1, <2>3, <2>4
<1>3. \E e \in LocksType : /\ e = [q EXCEPT !.writer = x] /\ e.readers = q.readers
                           /\ e.writer = x /\ e.peers = q.peers
  <2>1. PICK e : e = [q EXCEPT !.writer = x] OBVIOUS
  <2>2. e \in LocksType /\ e.readers = q.readers /\ e.writer = x /\ e.peers = q.peers
    BY <2>1 DEF LocksType
  <2>3. QED BY <2>1, <2>2
<1>4. \E e \in LocksType : /\ e = [q EXCEPT !.peers = x] /\ e.readers = q.readers
                           /\ e.writer = q.writer /\ e.peers = x
  <2>1. PICK e : e = [q EXCEPT !.peers = x] OBVIOUS
  <2>2. e \in LocksType /\ e.readers = q.readers /\ e.writer = q.writer /\ e.peers = x
    BY <2>1 DEF LocksType
  <2>3. QED BY <2>1, <2>2
<1>5. QED BY <1>1, <1>2, <1>3, <1>4

\* A request of the loopback proxy takes the maintenance lock, or is cancelled.
LEMMA AcquireKeeps ==
  ASSUME IInv, NEW t \in Caller, AcquireProxyMaintenance(t)
  PROVE  IInv'
<1>1. call[t].stage = "maintenance" BY DEF AcquireProxyMaintenance
<1>2. CASE call[t].cancelled BY <1>1, <1>2, ReturnKeeps DEF AcquireProxyMaintenance
<1>3. CASE ~call[t].cancelled
  <2>1. /\ coordination[C(t)].writer = Nobody /\ Stage(t, "prepare") /\ UNCHANGED <<handle, inner, registry>>
        /\ coordination' = [coordination EXCEPT ![C(t)] = [coordination[C(t)] EXCEPT !.readers = @ \cup {t}]]
    BY <1>3 DEF AcquireProxyMaintenance
  <2>2. "prepare" \in Stages /\ TypeInv BY DEF Stages, IInv
  <2>3. PICK d \in CallType :
          /\ call' = [call EXCEPT ![t] = d] /\ d.stage = "prepare"
          /\ d.op = call[t].op /\ d.runtime = call[t].runtime
    BY <2>1, <2>2, StageIs
  <2>4. coordination[C(t)] \in LocksType /\ C(t) \in Runtime BY <1>1, AtCall
  <2>5. t \in Holder BY DEF Holder
  <2>6. PICK e \in LocksType :
          /\ e = [coordination[C(t)] EXCEPT !.readers = @ \cup {t}]
          /\ e.readers = coordination[C(t)].readers \cup {t}
          /\ e.writer = coordination[C(t)].writer /\ e.peers = coordination[C(t)].peers
    BY <2>4, <2>5, LockIs
  <2>7. coordination' = [coordination EXCEPT ![C(t)] = e] BY <2>1, <2>6
  <2>8. HoldsOf(t) /\ PolicyOf(t) BY DEF IInv, CallerInv
  <2>9. call[t].op \in GatewayOps /\ call[t].op = "proxied"
    BY <1>1, <2>8 DEF HoldsOf, GatewayOps
  <2>10. \A u \in Caller \ {t} :
           /\ coordination[C(t)].writer = u => e.writer = u
           /\ u \in coordination[C(t)].readers => u \in e.readers
           /\ coordination[C(t)].peers = u => e.peers = u
    BY <2>6
  <2>11. e.writer # Nobody => e.readers = {} BY <2>1, <2>6
  <2>12. /\ TypeInv' /\ Frame(t) /\ WriterInv' /\ Calm(t)
         /\ call'[t] = d /\ C(t)' = C(t) /\ coordination'[C(t)] = e
         /\ inner'[call[t].runtime] = inner[call[t].runtime]
    BY <1>1, <2>1, <2>3, <2>7, <2>9, <2>10, <2>11, OwnLocks
  <2>13. t \in e.readers BY <2>6
  <2>14. HoldsOf(t)' BY <2>3, <2>9, <2>12, <2>13 DEF HoldsOf
  <2>15. PolicyOf(t)' /\ StartOf(t)' BY <2>3, <2>9, <2>12 DEF PolicyOf, StartOf
  <2>16. CallerInv(t)' BY <2>14, <2>15 DEF CallerInv
  <2>17. QED BY <2>12, <2>16, StepKeeps
<1>4. QED BY <1>2, <1>3

\* A request takes the peer book, or gives it back; it keeps the maintenance lock.
LEMMA BookKeeps ==
  ASSUME IInv, NEW t \in Caller, LockPeers(t) \/ UnlockPeers(t)
  PROVE  IInv'
<1> DEFINE lock == LockPeers(t)
           q == coordination[C(t)]
           z == IF lock THEN "peers" ELSE "work"
           x == IF lock THEN t ELSE Nobody
<1>1. HoldsOf(t) /\ PolicyOf(t) BY DEF IInv, CallerInv
<1>2. /\ call[t].stage \in {"work", "peers"} /\ call[t].op \in GatewayOps
      /\ call[t].op \notin {"start", "change", "policy", "book", "none"}
  BY <1>1 DEF LockPeers, UnlockPeers, HoldsOf, GatewayOps
<1>3. q \in LocksType /\ C(t) \in Runtime /\ call[t] \in CallType BY <1>2, AtCall
<1>4. q.peers \in {Nobody, t}
  BY <1>1 DEF LockPeers, UnlockPeers, HoldsOf
<1>5. t \in q.readers BY <1>1, <1>2 DEF HoldsOf, UsesStores, InUse
<1>6. PICK d \in CallType :
        /\ call' = [call EXCEPT ![t] = d] /\ d.stage = z /\ d.op = call[t].op
        /\ d.runtime = call[t].runtime /\ d.policy = call[t].policy /\ d.used = call[t].used
  <2>1. CASE lock
    <3>1. PICK r, b, y : r = call[t] /\ b = TRUE /\ y = "peers" OBVIOUS
    <3>2. r \in CallType /\ b \in BOOLEAN /\ y \in Stages BY <1>3, <3>1 DEF Stages
    <3>3. PICK e : e = [r EXCEPT !.stage = y] OBVIOUS
    <3>4. /\ e \in CallType /\ e.stage = y /\ e.op = r.op /\ e.runtime = r.runtime
          /\ e.policy = r.policy /\ e.used = r.used
      BY <3>2, <3>3 DEF CallType
    <3>5. PICK d : d = [e EXCEPT !.seen = b] OBVIOUS
    <3>6. /\ d \in CallType /\ d.stage = y /\ d.op = r.op /\ d.runtime = r.runtime
          /\ d.policy = r.policy /\ d.used = r.used
      BY <3>2, <3>4, <3>5 DEF CallType
    <3>7. call' = [call EXCEPT ![t] = d]
      <4>1. t \in DOMAIN call BY DEF IInv, TypeInv
      <4>2. PICK f : f = [call EXCEPT ![t] = e] OBVIOUS
      <4>3. f[t] = e BY <4>1, <4>2
      <4>4. call' = [f EXCEPT ![t] = [f[t] EXCEPT !.seen = b]]
        BY <2>1, <3>1, <3>3, <4>2 DEF LockPeers
      <4>5. QED BY <3>5, <4>2, <4>3, <4>4
    <3>8. QED BY <2>1, <3>1, <3>6, <3>7
  <2>2. CASE ~lock
    <3>1. Stage(t, "work") /\ "work" \in Stages /\ TypeInv BY <2>2 DEF UnlockPeers, Stages, IInv
    <3>2. QED BY <2>2, <3>1, StageIs
  <2>3. QED BY <2>1, <2>2
<1>7. x \in Holder BY DEF Holder
<1>8. PICK e \in LocksType :
        e = [q EXCEPT !.peers = x] /\ e.readers = q.readers /\ e.writer = q.writer /\ e.peers = x
  BY <1>3, <1>7, LockIs
<1>9. coordination' = [coordination EXCEPT ![C(t)] = e] /\ UNCHANGED <<handle, inner, registry>>
  BY <1>8 DEF LockPeers, UnlockPeers
<1>10. e.writer # Nobody => e.readers = {} BY <1>3, <1>8 DEF IInv, WriterInv
<1>11. \A u \in Caller \ {t} : /\ q.writer = u => e.writer = u
                               /\ u \in q.readers => u \in e.readers
                               /\ q.peers = u => e.peers = u
  BY <1>4, <1>8, BrowserRuntimeAssumption
<1>12. /\ TypeInv' /\ Frame(t) /\ WriterInv' /\ Calm(t)
       /\ call'[t] = d /\ C(t)' = C(t) /\ coordination'[C(t)] = e
       /\ inner'[call[t].runtime] = inner[call[t].runtime]
  BY <1>2, <1>6, <1>9, <1>10, <1>11, OwnLocks
<1>13. z = "peers" => e.peers = t BY <1>8
<1>14. z \in {"peers", "work"} OBVIOUS
<1> HIDE DEF lock, q, z, x
<1>15. HoldsOf(t)'
  BY <1>2, <1>5, <1>6, <1>8, <1>12, <1>13, <1>14 DEF HoldsOf
<1>16. PolicyOf(t)' BY <1>1, <1>2, <1>6, <1>12, <1>14 DEF PolicyOf
<1>17. StartOf(t)' BY <1>2, <1>6, <1>12 DEF StartOf
<1>18. CallerInv(t)' BY <1>15, <1>16, <1>17 DEF CallerInv
<1>19. QED BY <1>12, <1>18, StepKeeps

\* The lists of locks are short.
LEMMA ShortLists ==
  ASSUME NEW a, NEW b, NEW c
  PROVE  /\ Head(<<a>>) = a /\ Tail(<<a>>) = <<>> /\ Len(<<a>>) = 1
         /\ Head(<<a, b>>) = a /\ Tail(<<a, b>>) = <<b>> /\ Len(<<a, b>>) = 2
         /\ Head(<<a, b, c>>) = a /\ Tail(<<a, b, c>>) = <<b, c>> /\ Len(<<a, b, c>>) = 3
OBVIOUS

\* A caller takes a lock and has n left to take.
Took(t, n, z) == call' = [call EXCEPT ![t].locks = n, ![t].stage = z]

\* The record of a caller that takes a lock.
LEMMA LockRecord ==
  ASSUME TypeInv, NEW t \in Caller, NEW n \in LockLists, NEW z \in Stages, Took(t, n, z)
  PROVE  \E d \in CallType :
           /\ call' = [call EXCEPT ![t] = d] /\ d.stage = z /\ d.locks = n /\ d.op = call[t].op
           /\ d.runtime = call[t].runtime /\ d.policy = call[t].policy /\ d.used = call[t].used
<1>1. PICK r : r = call[t] OBVIOUS
<1>2. r \in CallType BY <1>1, Fields
<1>3. PICK p : p = [r EXCEPT !.locks = n] OBVIOUS
<1>4. /\ p \in CallType /\ p.locks = n /\ p.op = r.op /\ p.runtime = r.runtime
      /\ p.policy = r.policy /\ p.used = r.used
  BY <1>2, <1>3 DEF CallType
<1>5. PICK d : d = [p EXCEPT !.stage = z] OBVIOUS
<1>6. /\ d \in CallType /\ d.stage = z /\ d.locks = n /\ d.op = r.op /\ d.runtime = r.runtime
      /\ d.policy = r.policy /\ d.used = r.used
  BY <1>2, <1>4, <1>5 DEF CallType
<1>7. call' = [call EXCEPT ![t] = d]
  <2>1. t \in DOMAIN call BY DEF TypeInv
  <2>2. PICK f : f = [call EXCEPT ![t] = p] OBVIOUS
  <2>3. f[t] = p BY <2>1, <2>2
  <2>4. call' = [f EXCEPT ![t] = [f[t] EXCEPT !.stage = z]] BY <1>1, <1>3, <2>2 DEF Took
  <2>5. QED BY <1>5, <2>2, <2>3, <2>4
<1>8. QED BY <1>1, <1>6, <1>7

\* The locks e have what the next stage of the caller says, and what the others hold.
Reaches(t, n, z, e) ==
  /\ z = "lock" => \/ call[t].op = "change" /\ n \in ChangeLocks
                   \/ call[t].op = "book" /\ n \in BookLocks
  /\ z = "lock" /\ n = <<"peers">> => t \in e.readers
  /\ z = "prepare" => call[t].op = "request"
  /\ z = "work" => call[t].op \in {"change", "read", "book"}
  /\ z # "lock" => IF call[t].op = "change" THEN e.writer = t ELSE t \in e.readers
  /\ z = "work" /\ call[t].op = "book" => e.peers = t
Spares(t, e) ==
  /\ e.writer # Nobody => e.readers = {}
  /\ \A u \in Caller \ {t} :
       /\ coordination[C(t)].writer = u => e.writer = u
       /\ u \in coordination[C(t)].readers => u \in e.readers
       /\ coordination[C(t)].peers = u => e.peers = u

\* A caller that takes a lock comes to hold what its next stage says.
LEMMA LockTaken ==
  ASSUME IInv, NEW t \in Caller, call[t].stage = "lock", call[t].op # "start", NEW n \in LockLists,
         NEW z \in {"lock", "prepare", "work"}, NEW e \in LocksType, NEW d \in CallType,
         call' = [call EXCEPT ![t] = d], d.stage = z, d.locks = n, d.op = call[t].op,
         d.runtime = call[t].runtime, d.policy = call[t].policy, d.used = call[t].used,
         coordination' = [coordination EXCEPT ![C(t)] = e], UNCHANGED <<handle, inner, registry>>,
         Reaches(t, n, z, e), Spares(t, e)
  PROVE  IInv'
<1>1. HoldsOf(t) /\ PolicyOf(t) BY DEF IInv, CallerInv
<1>2. call[t].op # "none" BY AtCall
<1>3. /\ TypeInv' /\ Frame(t) /\ WriterInv' /\ Calm(t)
      /\ call'[t] = d /\ C(t)' = C(t) /\ coordination'[C(t)] = e
      /\ inner'[call[t].runtime] = inner[call[t].runtime]
  BY OwnLocks DEF Spares
<1>4. HoldsOf(t)'
  <2>1. "request" \in GatewayOps BY DEF GatewayOps
  <2>2. CASE z = "lock" BY <1>2, <1>3, <2>2 DEF HoldsOf, Reaches, UsesStores, InUse
  <2>3. CASE z = "prepare" BY <1>2, <1>3, <2>1, <2>3 DEF HoldsOf, Reaches
  <2>4. CASE z = "work" BY <1>2, <1>3, <2>4 DEF HoldsOf, Reaches
  <2>5. QED BY <2>2, <2>3, <2>4
<1>5. PolicyOf(t)' BY <1>1, <1>3 DEF PolicyOf, Reaches
<1>6. StartOf(t)' BY <1>3 DEF StartOf
<1>7. CallerInv(t)' BY <1>4, <1>5, <1>6 DEF CallerInv
<1>8. QED BY <1>3, <1>7, StepKeeps

\* The next lock of an operation.
LEMMA LockKeeps ==
  ASSUME IInv, NEW t \in Caller, Lock(t)
  PROVE  IInv'
<1> DEFINE q == coordination[C(t)]
           op == call[t].op
           l == call[t].locks
           After == IF op \in GatewayOps THEN "prepare" ELSE "work"
<1>1. call[t].stage = "lock" /\ UNCHANGED <<handle, inner, registry>> /\ TypeInv BY DEF Lock, IInv
<1>2. HoldsOf(t) BY DEF IInv, CallerInv
<1>3. q \in LocksType /\ C(t) \in Runtime BY <1>1, AtCall
<1>4. t \in Holder /\ "request" \in GatewayOps /\ {"read", "change", "book"} \cap GatewayOps = {}
  BY DEF Holder, GatewayOps
<1>5. q.writer # Nobody => q.readers = {} BY <1>3 DEF IInv, WriterInv
<1>6. /\ Head(l) = "sync" => q.sync = Nobody /\ coordination' = [coordination EXCEPT ![C(t)] = [q EXCEPT !.sync = t]]
      /\ Head(l) = "read" => /\ q.writer = Nobody
                             /\ coordination' = [coordination EXCEPT ![C(t)] = [q EXCEPT !.readers = @ \cup {t}]]
      /\ Head(l) = "write" => /\ q.writer = Nobody /\ q.readers = {}
                              /\ coordination' = [coordination EXCEPT ![C(t)] = [q EXCEPT !.writer = t]]
      /\ Head(l) = "peers" => /\ q.peers = Nobody
                              /\ coordination' = [coordination EXCEPT ![C(t)] = [q EXCEPT !.peers = t]]
  <2>1. PICK h : h = Head(l) OBVIOUS
  <2>2. CASE h = "sync" BY <2>1, <2>2 DEF Lock
  <2>3. CASE h = "read" BY <2>1, <2>3 DEF Lock
  <2>4. CASE h = "write" BY <2>1, <2>4 DEF Lock
  <2>5. CASE h = "peers" BY <2>1, <2>5 DEF Lock
  <2>6. QED BY <2>1, <2>2, <2>3, <2>4, <2>5
<1>7. /\ Head(l) = "sync" => \E e \in LocksType :
           /\ coordination' = [coordination EXCEPT ![C(t)] = e]
           /\ e.readers = q.readers /\ e.writer = q.writer /\ e.peers = q.peers
      /\ Head(l) = "read" => \E e \in LocksType :
           /\ coordination' = [coordination EXCEPT ![C(t)] = e]
           /\ e.readers = q.readers \cup {t} /\ e.writer = Nobody /\ q.writer = Nobody /\ e.peers = q.peers
      /\ Head(l) = "write" => \E e \in LocksType :
           /\ coordination' = [coordination EXCEPT ![C(t)] = e]
           /\ e.readers = {} /\ q.readers = {} /\ e.writer = t /\ q.writer = Nobody /\ e.peers = q.peers
      /\ Head(l) = "peers" => \E e \in LocksType :
           /\ coordination' = [coordination EXCEPT ![C(t)] = e]
           /\ e.readers = q.readers /\ e.writer = q.writer /\ e.peers = t /\ q.peers = Nobody
  <2>1. CASE Head(l) = "sync"
    <3>1. PICK e \in LocksType : /\ e = [q EXCEPT !.sync = t] /\ e.readers = q.readers
                                 /\ e.writer = q.writer /\ e.peers = q.peers
      BY <1>3, <1>4, LockIs
    <3>2. QED BY <1>6, <2>1, <3>1
  <2>2. CASE Head(l) = "read"
    <3>1. PICK e \in LocksType : /\ e = [q EXCEPT !.readers = @ \cup {t}] /\ e.readers = q.readers \cup {t}
                                 /\ e.writer = q.writer /\ e.peers = q.peers
      BY <1>3, <1>4, LockIs
    <3>2. QED BY <1>6, <2>2, <3>1
  <2>3. CASE Head(l) = "write"
    <3>1. PICK e \in LocksType : /\ e = [q EXCEPT !.writer = t] /\ e.readers = q.readers
                                 /\ e.writer = t /\ e.peers = q.peers
      BY <1>3, <1>4, LockIs
    <3>2. QED BY <1>6, <2>3, <3>1
  <2>4. CASE Head(l) = "peers"
    <3>1. PICK e \in LocksType : /\ e = [q EXCEPT !.peers = t] /\ e.readers = q.readers
                                 /\ e.writer = q.writer /\ e.peers = t
      BY <1>3, <1>4, LockIs
    <3>2. QED BY <1>6, <2>4, <3>1
  <2>5. QED BY <2>1, <2>2, <2>3, <2>4
<1>8. call' = [call EXCEPT ![t].locks = Tail(l), ![t].stage = IF Len(l) > 1 THEN "lock" ELSE After]
  BY DEF Lock
<1>9. ASSUME NEW n \in LockLists, NEW z \in Stages, Tail(l) = n, z = IF Len(l) > 1 THEN "lock" ELSE After
      PROVE \E d \in CallType :
              /\ call' = [call EXCEPT ![t] = d] /\ d.stage = z /\ d.locks = n /\ d.op = call[t].op
              /\ d.runtime = call[t].runtime /\ d.policy = call[t].policy /\ d.used = call[t].used
  <2>1. Took(t, n, z) BY <1>8, <1>9 DEF Took
  <2>2. QED BY <1>1, <2>1, LockRecord
<1>10. CASE l = <<"read">> /\ op \in {"read", "request"}
  <2>1. Tail(l) = <<>> /\ Head(l) = "read" /\ ~(Len(l) > 1) BY <1>10, ShortLists
  <2>2. PICK z : z = After OBVIOUS
  <2>3. /\ z \in {"lock", "prepare", "work"} /\ z \in Stages /\ <<>> \in LockLists
        /\ z = (IF op = "request" THEN "prepare" ELSE "work")
    BY <1>4, <1>10, <2>2 DEF Stages, LockLists
  <2>4. PICK d \in CallType :
          /\ call' = [call EXCEPT ![t] = d] /\ d.stage = z /\ d.locks = <<>> /\ d.op = call[t].op
          /\ d.runtime = call[t].runtime /\ d.policy = call[t].policy /\ d.used = call[t].used
    BY <1>9, <2>1, <2>2, <2>3
  <2>5. PICK e \in LocksType :
          /\ coordination' = [coordination EXCEPT ![C(t)] = e]
          /\ e.readers = q.readers \cup {t} /\ e.writer = Nobody /\ q.writer = Nobody /\ e.peers = q.peers
    BY <1>7, <2>1
  <2>6. Spares(t, e) BY <2>5 DEF Spares
  <2>7. Reaches(t, <<>>, z, e) BY <1>10, <2>3, <2>5 DEF Reaches
  <2>8. op # "start" BY <1>10
  <2>9. QED BY <1>1, <2>3, <2>4, <2>5, <2>6, <2>7, <2>8, LockTaken
<1>11. CASE l = <<"sync", "write">> /\ op = "change"
  <2>1. Tail(l) = <<"write">> /\ Head(l) = "sync" /\ Len(l) > 1 BY <1>11, ShortLists
  <2>2. "lock" \in Stages /\ <<"write">> \in LockLists /\ <<"write">> \in ChangeLocks /\ <<"write">> # <<"peers">>
    BY DEF Stages, LockLists, ChangeLocks, BookLocks
  <2>3. PICK d \in CallType :
          /\ call' = [call EXCEPT ![t] = d] /\ d.stage = "lock" /\ d.locks = <<"write">> /\ d.op = call[t].op
          /\ d.runtime = call[t].runtime /\ d.policy = call[t].policy /\ d.used = call[t].used
    BY <1>9, <2>1, <2>2
  <2>4. PICK e \in LocksType :
          /\ coordination' = [coordination EXCEPT ![C(t)] = e]
          /\ e.readers = q.readers /\ e.writer = q.writer /\ e.peers = q.peers
    BY <1>7, <2>1
  <2>5. Spares(t, e) BY <1>5, <2>4 DEF Spares
  <2>6. Reaches(t, <<"write">>, "lock", e) /\ op # "start" BY <1>11, <2>2 DEF Reaches
  <2>7. QED BY <1>1, <2>2, <2>3, <2>4, <2>5, <2>6, LockTaken
<1>12. CASE l = <<"sync", "read", "peers">> /\ op = "book"
  <2>1. Tail(l) = <<"read", "peers">> /\ Head(l) = "sync" /\ Len(l) > 1 BY <1>12, ShortLists
  <2>2. "lock" \in Stages /\ <<"read", "peers">> \in LockLists /\ <<"read", "peers">> \in BookLocks /\ <<"read", "peers">> # <<"peers">>
    BY DEF Stages, LockLists, ChangeLocks, BookLocks
  <2>3. PICK d \in CallType :
          /\ call' = [call EXCEPT ![t] = d] /\ d.stage = "lock" /\ d.locks = <<"read", "peers">> /\ d.op = call[t].op
          /\ d.runtime = call[t].runtime /\ d.policy = call[t].policy /\ d.used = call[t].used
    BY <1>9, <2>1, <2>2
  <2>4. PICK e \in LocksType :
          /\ coordination' = [coordination EXCEPT ![C(t)] = e]
          /\ e.readers = q.readers /\ e.writer = q.writer /\ e.peers = q.peers
    BY <1>7, <2>1
  <2>5. Spares(t, e) BY <1>5, <2>4 DEF Spares
  <2>6. Reaches(t, <<"read", "peers">>, "lock", e) /\ op # "start" BY <1>12, <2>2 DEF Reaches
  <2>7. QED BY <1>1, <2>2, <2>3, <2>4, <2>5, <2>6, LockTaken
<1>13. CASE l = <<"write">> /\ op = "change"
  <2>1. Tail(l) = <<>> /\ Head(l) = "write" /\ ~(Len(l) > 1) /\ After = "work" BY <1>4, <1>13,
        ShortLists
  <2>2. "work" \in Stages /\ <<>> \in LockLists BY DEF Stages, LockLists
  <2>3. PICK d \in CallType :
          /\ call' = [call EXCEPT ![t] = d] /\ d.stage = "work" /\ d.locks = <<>> /\ d.op = call[t].op
          /\ d.runtime = call[t].runtime /\ d.policy = call[t].policy /\ d.used = call[t].used
    BY <1>9, <2>1, <2>2
  <2>4. PICK e \in LocksType :
          /\ coordination' = [coordination EXCEPT ![C(t)] = e]
          /\ e.readers = {} /\ q.readers = {} /\ e.writer = t /\ q.writer = Nobody /\ e.peers = q.peers
    BY <1>7, <2>1
  <2>5. Spares(t, e) BY <2>4, BrowserRuntimeAssumption DEF Spares
  <2>6. Reaches(t, <<>>, "work", e) /\ op # "start" BY <1>13, <2>4 DEF Reaches
  <2>7. QED BY <1>1, <2>2, <2>3, <2>4, <2>5, <2>6, LockTaken
<1>14. CASE l = <<"read", "peers">> /\ op = "book"
  <2>1. Tail(l) = <<"peers">> /\ Head(l) = "read" /\ Len(l) > 1 BY <1>14, ShortLists
  <2>2. "lock" \in Stages /\ <<"peers">> \in LockLists /\ <<"peers">> \in BookLocks
    BY DEF Stages, LockLists, BookLocks
  <2>3. PICK d \in CallType :
          /\ call' = [call EXCEPT ![t] = d] /\ d.stage = "lock" /\ d.locks = <<"peers">> /\ d.op = call[t].op
          /\ d.runtime = call[t].runtime /\ d.policy = call[t].policy /\ d.used = call[t].used
    BY <1>9, <2>1, <2>2
  <2>4. PICK e \in LocksType :
          /\ coordination' = [coordination EXCEPT ![C(t)] = e]
          /\ e.readers = q.readers \cup {t} /\ e.writer = Nobody /\ q.writer = Nobody /\ e.peers = q.peers
    BY <1>7, <2>1
  <2>5. Spares(t, e) BY <2>4 DEF Spares
  <2>6. Reaches(t, <<"peers">>, "lock", e) /\ op # "start" BY <1>14, <2>2, <2>4 DEF Reaches
  <2>7. QED BY <1>1, <2>2, <2>3, <2>4, <2>5, <2>6, LockTaken
<1>15. CASE l = <<"peers">> /\ op = "book"
  <2>1. Tail(l) = <<>> /\ Head(l) = "peers" /\ ~(Len(l) > 1) /\ After = "work" BY <1>4, <1>15,
        ShortLists
  <2>2. "work" \in Stages /\ <<>> \in LockLists BY DEF Stages, LockLists
  <2>3. PICK d \in CallType :
          /\ call' = [call EXCEPT ![t] = d] /\ d.stage = "work" /\ d.locks = <<>> /\ d.op = call[t].op
          /\ d.runtime = call[t].runtime /\ d.policy = call[t].policy /\ d.used = call[t].used
    BY <1>9, <2>1, <2>2
  <2>4. PICK e \in LocksType :
          /\ coordination' = [coordination EXCEPT ![C(t)] = e]
          /\ e.readers = q.readers /\ e.writer = q.writer /\ e.peers = t /\ q.peers = Nobody
    BY <1>7, <2>1
  <2>5. t \in q.readers BY <1>1, <1>2, <1>15 DEF HoldsOf
  <2>6. Spares(t, e) BY <1>5, <2>4, BrowserRuntimeAssumption DEF Spares
  <2>7. Reaches(t, <<>>, "work", e) /\ op # "start" BY <1>15, <2>4, <2>5 DEF Reaches
  <2>8. QED BY <1>1, <2>2, <2>3, <2>4, <2>6, <2>7, LockTaken
<1>16. QED
  <2>1. \/ op \in {"read", "request"} /\ l = <<"read">>
        \/ op = "change" /\ l \in ChangeLocks
        \/ op = "book" /\ l \in BookLocks
    BY <1>1, <1>2 DEF HoldsOf
  <2>2. QED BY <1>10, <1>11, <1>12, <1>13, <1>14, <1>15, <2>1 DEF ChangeLocks, BookLocks

----------------------------------------------------------------------------
(* Policies, generations and sessions.                                      *)

\* The runtime r becomes e, which is the same runtime to the other callers.
Extends(t, r, e) ==
  /\ e.base = inner[r].base /\ e.coordination = inner[r].coordination
  /\ inner[r].generation <= e.generation
  /\ e.session = inner[r].session \/ (inner[r].session = Nobody /\ e.session = t)
  /\ \A u \in Caller \ {t} : inner[r].operation = u => e.operation = u /\ e.policy = inner[r].policy

\* A step of t that changes its record and its runtime only.
Sets(t, d, r, e) ==
  /\ call' = [call EXCEPT ![t] = d] /\ inner' = [inner EXCEPT ![r] = e]
  /\ UNCHANGED <<handle, coordination, registry>>

\* A step that changes the runtime of its caller.
LEMMA OwnRuntime ==
  ASSUME IInv, NEW t \in Caller, NEW d \in CallType, NEW e \in InnerType, NEW r \in Runtime,
         call[t].stage \notin {"idle", "done"}, r = call[t].runtime,
         Sets(t, d, r, e), d.op = call[t].op, d.runtime = r, Extends(t, r, e)
  PROVE  /\ TypeInv' /\ Frame(t) /\ WriterInv' /\ call'[t] = d /\ inner'[r] = e
         /\ Runtime' = Runtime /\ \A q \in Runtime : q # r => inner'[q] = inner[q]
         /\ \A u \in Caller \ {t} : call'[u] = call[u]
<1>1. TypeInv BY DEF IInv
<1>2. call[t].op # "none" /\ Alive(r) BY AtCall
<1>3. /\ call' \in [Caller -> CallType] /\ call'[t] = d /\ \A u \in Caller \ {t} : call'[u] = call[u]
  BY <1>1, CallIs DEF Sets
<1>4. /\ inner' \in Seq(InnerType) /\ Len(inner') = Len(inner) /\ inner'[r] = e
      /\ \A q \in Runtime : q # r => inner'[q] = inner[q]
  <2>1. inner \in Seq(InnerType) /\ r \in 1 .. Len(inner) BY <1>1 DEF TypeInv, Runtime
  <2>2. PICK s, w : s = inner /\ w = inner' OBVIOUS
  <2>3. s \in Seq(InnerType) /\ r \in 1 .. Len(s) /\ w = [s EXCEPT ![r] = e] BY <2>1,
        <2>2 DEF Sets
  <2>4. /\ w \in Seq(InnerType) /\ Len(w) = Len(s) /\ w[r] = e
        /\ \A j \in 1 .. Len(s) : j # r => w[j] = s[j]
    BY <2>3, OneChanges
  <2>5. QED BY <2>2, <2>4 DEF Runtime
<1>5. TypeInv' BY <1>1, <1>3, <1>4 DEF TypeInv, Sets
<1>6. Runtime' = Runtime BY <1>4 DEF Runtime
<1>7. WriterInv' BY <1>6 DEF IInv, WriterInv, Sets
<1>8. \A q \in Runtime : inner[q].generation <= inner[q].generation
  BY <1>1, Fields, BrowserRuntimeAssumption DEF InnerType
<1>9. ASSUME NEW q \in Runtime
      PROVE /\ inner'[q].base = inner[q].base /\ inner'[q].coordination = inner[q].coordination
            /\ inner[q].generation <= inner'[q].generation
            /\ inner'[q].session = inner[q].session \/ (inner[q].session = Nobody /\ inner'[q].session = t)
            /\ \A u \in Caller \ {t} :
                 inner[q].operation = u => inner'[q].operation = u /\ inner'[q].policy = inner[q].policy
  <2>1. CASE q = r BY <1>4, <2>1 DEF Extends
  <2>2. CASE q # r BY <1>4, <1>8, <2>2
  <2>3. QED BY <2>1, <2>2
<1>10. Frame(t) BY <1>2, <1>3, <1>4, <1>9 DEF Frame, Sets
<1>11. QED BY <1>3, <1>4, <1>5, <1>6, <1>7, <1>10

\* The operation lock and the policy.
LEMMA PolicyOperationKeeps ==
  ASSUME IInv, NEW t \in Caller, WithPolicyOperation(t)
  PROVE  IInv'
<1> DEFINE r == call[t].runtime
           p == call[t].policy
           same == call[t].op # "policy" /\ inner[r].policy = p
           z == IF call[t].op = "start" THEN "generation" ELSE IF call[t].op = "policy" THEN "work" ELSE "lock"
<1>1. call[t].stage = "policy" /\ inner[r].operation = Nobody BY DEF WithPolicyOperation
<1>2. CASE Return(t, "error") BY <1>1, <1>2, ReturnKeeps
<1>3. CASE /\ same \/ p \notin RefusedPolicies
           /\ inner' = [inner EXCEPT ![r] = [inner[r] EXCEPT !.revision = IF same THEN @ ELSE @ + 1,
                                                            !.operation = t, !.policy = p]]
           /\ Stage(t, z) /\ UNCHANGED <<handle, coordination, registry>>
  <2>1. /\ r \in Runtime /\ call[t] \in CallType /\ inner[r] \in InnerType BY <1>1, AtCall
  <2>2. p \in Policies \ RefusedPolicies BY <1>3, <2>1 DEF CallType, InnerType
  <2>3. PICK v : v = IF same THEN inner[r].revision ELSE inner[r].revision + 1 OBVIOUS
  <2>4. v \in Nat BY <2>1, <2>3 DEF InnerType
  <2>5. PICK e \in InnerType :
           /\ inner' = [inner EXCEPT ![r] = e]
           /\ e.base = inner[r].base /\ e.coordination = inner[r].coordination
           /\ e.generation = inner[r].generation /\ e.session = inner[r].session
           /\ e.operation = t /\ e.policy = p
    <3>1. PICK q, y : q = inner[r] /\ y = p OBVIOUS
    <3>2. q \in InnerType /\ y \in Policies \ RefusedPolicies /\ t \in Holder
      BY <2>1, <2>2, <3>1 DEF Holder
    <3>3. PICK e1 : e1 = [q EXCEPT !.revision = v] OBVIOUS
    <3>4. /\ e1 \in InnerType /\ e1.base = q.base /\ e1.coordination = q.coordination
          /\ e1.generation = q.generation /\ e1.session = q.session
      BY <2>4, <3>2, <3>3 DEF InnerType
    <3>5. PICK e2 : e2 = [e1 EXCEPT !.operation = t] OBVIOUS
    <3>6. /\ e2 \in InnerType /\ e2.operation = t
          /\ e2.base = q.base /\ e2.coordination = q.coordination
          /\ e2.generation = q.generation /\ e2.session = q.session
      BY <3>2, <3>4, <3>5 DEF InnerType
    <3>7. PICK e3 : e3 = [e2 EXCEPT !.policy = y] OBVIOUS
    <3>8. /\ e3 \in InnerType /\ e3.operation = t /\ e3.policy = y
          /\ e3.base = q.base /\ e3.coordination = q.coordination
          /\ e3.generation = q.generation /\ e3.session = q.session
      BY <3>2, <3>6, <3>7 DEF InnerType
    <3>9. [q EXCEPT !.revision = v, !.operation = t, !.policy = y] = e3 BY <3>3, <3>5, <3>7
    <3>10. inner' = [inner EXCEPT ![r] = [q EXCEPT !.revision = v, !.operation = t, !.policy = y]]
      BY <1>3, <2>3, <3>1
    <3>11. inner' = [inner EXCEPT ![r] = e3] BY <3>9, <3>10
    <3>12. QED BY <3>1, <3>8, <3>11
  <2>6. z \in Stages /\ TypeInv BY DEF Stages, IInv
  <2>7. PICK d \in CallType :
          /\ call' = [call EXCEPT ![t] = d] /\ d.stage = z
          /\ d.op = call[t].op /\ d.runtime = r /\ d.locks = call[t].locks
          /\ d.policy = p
    BY <1>3, <2>6, StageIs
  <2>8. inner[r].generation <= e.generation
    BY <2>1, <2>5, BrowserRuntimeAssumption DEF InnerType
  <2>9. \A u \in Caller \ {t} : inner[r].operation = u => e.operation = u /\ e.policy = inner[r].policy
    BY <1>1, BrowserRuntimeAssumption
  <2>10. /\ TypeInv' /\ Frame(t) /\ WriterInv' /\ call'[t] = d /\ inner'[r] = e
         /\ Runtime' = Runtime /\ \A q \in Runtime : q # r => inner'[q] = inner[q]
    <3>1. UNCHANGED <<handle, coordination, registry>> BY <1>3
    <3>2. call[t].stage \notin {"idle", "done"} BY <1>1
    <3>3. d.op = call[t].op /\ d.runtime = r /\ Sets(t, d, r, e) BY <2>5, <2>7, <3>1 DEF Sets
    <3>4. Extends(t, r, e) BY <2>5, <2>8, <2>9 DEF Extends
    <3>5. QED BY <2>1, <3>2, <3>3, <3>4, OwnRuntime
  <2>11. HoldsOf(t) BY DEF IInv, CallerInv
  <2>12. \/ call[t].op = "start" /\ z = "generation"
         \/ call[t].op = "policy" /\ z = "work"
         \/ call[t].op = "request" /\ z = "lock" /\ call[t].locks = <<"read">>
    BY <1>1, <2>11 DEF HoldsOf
  <2>13. \A q \in Runtime : inner'[q].session = inner[q].session BY <2>5, <2>10
  <2> HIDE DEF z, same
  <2>14. Calm(t) BY <1>1, <2>7, <2>10, <2>12, <2>13 DEF Calm, Numbered
  <2>15. <<"read">> # <<"peers">> BY ShortLists
  <2>16. HoldsOf(t)' BY <2>7, <2>10, <2>12, <2>15 DEF HoldsOf, UsesStores, InUse
  <2>17. PolicyOf(t)' BY <2>5, <2>7, <2>10, <2>12 DEF PolicyOf
  <2>18. StartOf(t)' BY <2>7, <2>10, <2>12 DEF StartOf
  <2>19. CallerInv(t)' BY <2>16, <2>17, <2>18 DEF CallerInv
  <2>20. QED BY <2>10, <2>14, <2>19, StepKeeps
<1>4. QED BY <1>2, <1>3 DEF WithPolicyOperation

\* A generation nobody has, or none is left.
LEMMA NextGenerationKeeps ==
  ASSUME IInv, NEW t \in Caller, NextGeneration(t)
  PROVE  IInv'
<1> DEFINE r == call[t].runtime
           g == inner[r].generation + 1
<1>1. call[t].stage = "generation" BY DEF NextGeneration
<1>2. CASE Return(t, "exhausted") BY <1>1, <1>2, ReturnKeeps
<1>3. CASE /\ inner[r].generation # MaxGeneration
           /\ inner' = [inner EXCEPT ![r].generation = @ + 1]
           /\ call' = [call EXCEPT ![t].stage = "session", ![t].generation = g]
           /\ UNCHANGED <<handle, coordination, registry>>
  <2>1. /\ r \in Runtime /\ call[t] \in CallType /\ inner[r] \in InnerType BY <1>1, AtCall
  <2>2. inner[r].generation \in Nat /\ g \in 0 .. MaxGeneration
    BY <1>3, <2>1, BrowserRuntimeAssumption DEF InnerType
  <2>3. PICK e \in InnerType :
          /\ inner' = [inner EXCEPT ![r] = e] /\ e.generation = g
          /\ e.base = inner[r].base /\ e.coordination = inner[r].coordination
          /\ e.session = inner[r].session /\ e.operation = inner[r].operation /\ e.policy = inner[r].policy
    <3>1. PICK q, n : q = inner[r] /\ n = g OBVIOUS
    <3>2. q \in InnerType /\ n \in 0 .. MaxGeneration BY <2>1, <2>2, <3>1
    <3>3. PICK e : e = [q EXCEPT !.generation = n] OBVIOUS
    <3>4. /\ e \in InnerType /\ e.generation = n /\ e.base = q.base /\ e.coordination = q.coordination
          /\ e.session = q.session /\ e.operation = q.operation /\ e.policy = q.policy
      BY <3>2, <3>3 DEF InnerType
    <3>5. inner' = [inner EXCEPT ![r] = e] BY <1>3, <3>1, <3>3
    <3>6. QED BY <3>1, <3>4, <3>5
  <2>4. PICK d \in CallType :
          /\ call' = [call EXCEPT ![t] = d] /\ d.stage = "session" /\ d.generation = g
          /\ d.op = call[t].op /\ d.runtime = r
    <3>1. PICK q, z, n : q = call[t] /\ z = "session" /\ n = g OBVIOUS
    <3>2. q \in CallType /\ z \in Stages /\ n \in Nat
      BY <2>1, <2>2, <3>1, BrowserRuntimeAssumption DEF Stages
    <3>3. PICK d1 : d1 = [q EXCEPT !.stage = z] OBVIOUS
    <3>4. d1 \in CallType /\ d1.stage = z /\ d1.op = q.op /\ d1.runtime = q.runtime
      BY <3>2, <3>3 DEF CallType
    <3>5. PICK d : d = [d1 EXCEPT !.generation = n] OBVIOUS
    <3>6. d \in CallType /\ d.stage = z /\ d.generation = n /\ d.op = q.op /\ d.runtime = q.runtime
      BY <3>2, <3>4, <3>5 DEF CallType
    <3>7. call' = [call EXCEPT ![t] = d]
      <4>1. t \in DOMAIN call BY DEF IInv, TypeInv
      <4>2. PICK f : f = [call EXCEPT ![t] = d1] OBVIOUS
      <4>3. f[t] = d1 BY <4>1, <4>2
      <4>4. call' = [f EXCEPT ![t] = [f[t] EXCEPT !.generation = n]] BY <1>3, <3>1, <3>3, <4>2
      <4>5. QED BY <3>5, <4>2, <4>3, <4>4
    <3>8. QED BY <3>1, <3>6, <3>7
  <2>5. Sets(t, d, r, e) BY <1>3, <2>3, <2>4 DEF Sets
  <2>6. Extends(t, r, e) BY <2>2, <2>3 DEF Extends
  <2>7. /\ TypeInv' /\ Frame(t) /\ WriterInv' /\ call'[t] = d /\ inner'[r] = e
        /\ Runtime' = Runtime /\ \A q \in Runtime : q # r => inner'[q] = inner[q]
        /\ \A u \in Caller \ {t} : call'[u] = call[u]
    <3>1. d.op = call[t].op /\ d.runtime = r /\ call[t].stage \notin {"idle", "done"} BY <1>1,
          <2>4
    <3>2. QED BY <2>1, <2>5, <2>6, <3>1, OwnRuntime
  <2>8. call[t].op = "start" BY <1>1 DEF IInv, CallerInv, HoldsOf
  <2>9. HoldsOf(t)' BY <2>4, <2>7, <2>8 DEF HoldsOf, UsesStores, InUse
  <2>10. PolicyOf(t)' BY <2>4, <2>7, <2>8 DEF PolicyOf
  <2>11. StartOf(t)' BY <2>2, <2>3, <2>4, <2>7 DEF StartOf
  <2>12. CallerInv(t)' BY <2>9, <2>10, <2>11 DEF CallerInv
  <2>13. RefersInv' /\ CoordinationInv' /\ \A u \in Caller : CallerInv(u)' BY <2>7, <2>12,
        PartsKeep
  <2>14. \A q \in Runtime : inner'[q].session = inner[q].session BY <2>3, <2>7
  <2>15. SessionInv' BY <1>1, <2>7, <2>14, SessionsKeep
  <2>16. GenerationInv'
    <3>1. ASSUME NEW u \in Caller \ {t}, Numbered(u)', call'[u].runtime = r
          PROVE call'[u].generation # g
      <4>1. call'[u] = call[u] /\ Numbered(u) BY <2>7, <3>1 DEF Numbered
      <4>2. call[u].generation <= inner[r].generation /\ call[u].generation \in Nat
        BY <3>1, <4>1, Fields DEF IInv, CallerInv, StartOf, Numbered, CallType
      <4>3. QED BY <2>2, <4>1, <4>2
    <3>2. ASSUME NEW u \in Caller \ {t}, NEW v \in Caller \ {t}, u # v, Numbered(u)', Numbered(v)',
                 call'[u].runtime = call'[v].runtime
          PROVE call'[u].generation # call'[v].generation
      <4>1. call'[u] = call[u] /\ call'[v] = call[v] BY <2>7
      <4>2. Numbered(u) /\ Numbered(v) BY <3>2, <4>1 DEF Numbered
      <4>3. QED BY <3>2, <4>1, <4>2 DEF IInv, GenerationInv
    <3>3. call'[t].runtime = r /\ call'[t].generation = g BY <2>4, <2>7
    <3>4. QED BY <3>1, <3>2, <3>3 DEF GenerationInv
  <2>17. QED BY <2>7, <2>13, <2>15, <2>16 DEF IInv
<1>4. QED BY <1>2, <1>3 DEF NextGeneration

\* The identifier of the runtime, or one that nobody has.
LEMMA ReadSessionKeeps ==
  ASSUME IInv, NEW t \in Caller, ReadSession(t)
  PROVE  IInv'
<1> DEFINE r == call[t].runtime
           s == inner[r].session
           n == IF s # Nobody THEN s ELSE t
<1>1. call[t].stage = "session" BY DEF ReadSession
<1>2. CASE Return(t, "error") BY <1>1, <1>2, ReturnKeeps
<1>3. CASE /\ call' = [call EXCEPT ![t].stage = "init", ![t].session = n]
           /\ UNCHANGED <<handle, inner, coordination, registry>>
  <2>1. /\ r \in Runtime /\ call[t] \in CallType /\ inner[r] \in InnerType /\ Alive(r) BY <1>1,
        AtCall
  <2>2. n \in Holder BY <2>1 DEF InnerType, Holder
  <2>3. PICK d \in CallType :
          /\ call' = [call EXCEPT ![t] = d] /\ d.stage = "init" /\ d.session = n
          /\ d.op = call[t].op /\ d.runtime = r /\ d.generation = call[t].generation
    <3>1. PICK q, z, y : q = call[t] /\ z = "init" /\ y = n OBVIOUS
    <3>2. q \in CallType /\ z \in Stages /\ y \in Holder BY <2>1, <2>2, <3>1 DEF Stages
    <3>3. PICK d1 : d1 = [q EXCEPT !.stage = z] OBVIOUS
    <3>4. /\ d1 \in CallType /\ d1.stage = z /\ d1.op = q.op /\ d1.runtime = q.runtime
          /\ d1.generation = q.generation
      BY <3>2, <3>3 DEF CallType
    <3>5. PICK d : d = [d1 EXCEPT !.session = y] OBVIOUS
    <3>6. /\ d \in CallType /\ d.stage = z /\ d.session = y /\ d.op = q.op /\ d.runtime = q.runtime
          /\ d.generation = q.generation
      BY <3>2, <3>4, <3>5 DEF CallType
    <3>7. call' = [call EXCEPT ![t] = d]
      <4>1. t \in DOMAIN call BY DEF IInv, TypeInv
      <4>2. PICK f : f = [call EXCEPT ![t] = d1] OBVIOUS
      <4>3. f[t] = d1 BY <4>1, <4>2
      <4>4. call' = [f EXCEPT ![t] = [f[t] EXCEPT !.session = y]] BY <1>3, <3>1, <3>3, <4>2
      <4>5. QED BY <3>5, <4>2, <4>3, <4>4
    <3>8. QED BY <3>1, <3>6, <3>7
  <2>4. UNCHANGED <<handle, inner, coordination, registry>> BY <1>3
  <2>5. /\ TypeInv' /\ Frame(t) /\ WriterInv' /\ call'[t] = d
        /\ \A q \in Runtime : inner'[q].session = inner[q].session
    BY <2>1, <2>3, <2>4, OwnRecord
  <2>6. call[t].op = "start" BY <1>1 DEF IInv, CallerInv, HoldsOf
  <2>7. Calm(t) BY <1>1, <2>3, <2>5, <2>6 DEF Calm, Numbered
  <2>8. HoldsOf(t)' BY <2>3, <2>5, <2>6 DEF HoldsOf, UsesStores, InUse
  <2>9. PolicyOf(t)' BY <2>3, <2>5, <2>6 DEF PolicyOf
  <2>10. StartOf(t)'
    <3>1. call[t].generation <= inner[r].generation BY <1>1, <2>6 DEF IInv, CallerInv, StartOf
    <3>2. \A q \in Runtime : inner[q].session # t BY <1>1 DEF IInv, SessionInv
    <3>3. Runtime' = Runtime BY <2>4 DEF Runtime
    <3>4. \/ n = t /\ \A q \in Runtime : inner[q].session # t
          \/ n = s /\ n # Nobody
      BY <3>2
    <3> HIDE DEF n
    <3>5. QED BY <2>3, <2>4, <2>5, <3>1, <3>3, <3>4 DEF StartOf
  <2>11. CallerInv(t)' BY <2>8, <2>9, <2>10 DEF CallerInv
  <2>12. QED BY <2>5, <2>7, <2>11, StepKeeps
<1>4. QED BY <1>2, <1>3 DEF ReadSession

\* The first identifier stays.
LEMMA InitSessionKeeps ==
  ASSUME IInv, NEW t \in Caller, InitSession(t)
  PROVE  IInv'
<1> DEFINE r == call[t].runtime
           s == IF inner[r].session = Nobody THEN call[t].session ELSE inner[r].session
<1>1. call[t].stage = "init" /\ UNCHANGED <<handle, coordination, registry>> BY DEF InitSession
<1>2. /\ inner' = [inner EXCEPT ![r].session = s]
      /\ call' = [call EXCEPT ![t].stage = "running", ![t].session = s]
  BY DEF InitSession
<1>3. /\ r \in Runtime /\ call[t] \in CallType /\ inner[r] \in InnerType BY <1>1, AtCall
<1>4. s \in Holder BY <1>3 DEF InnerType, CallType
<1>5. call[t].op = "start" BY <1>1 DEF IInv, CallerInv, HoldsOf
<1>6. StartOf(t) BY DEF IInv, CallerInv
<1>7. \/ inner[r].session = Nobody /\ s = t /\ \A q \in Runtime : inner[q].session # t
      \/ inner[r].session # Nobody /\ s = inner[r].session
  BY <1>1, <1>5, <1>6 DEF StartOf
<1>8. PICK e \in InnerType :
        /\ inner' = [inner EXCEPT ![r] = e] /\ e.session = s /\ e.generation = inner[r].generation
        /\ e.base = inner[r].base /\ e.coordination = inner[r].coordination
        /\ e.operation = inner[r].operation /\ e.policy = inner[r].policy
  <2>1. PICK q, n : q = inner[r] /\ n = s OBVIOUS
  <2>2. q \in InnerType /\ n \in Holder BY <1>3, <1>4, <2>1
  <2>3. PICK e : e = [q EXCEPT !.session = n] OBVIOUS
  <2>4. /\ e \in InnerType /\ e.session = n /\ e.base = q.base /\ e.coordination = q.coordination
        /\ e.generation = q.generation /\ e.operation = q.operation /\ e.policy = q.policy
    BY <2>2, <2>3 DEF InnerType
  <2>5. inner' = [inner EXCEPT ![r] = e] BY <1>2, <2>1, <2>3
  <2>6. QED BY <2>1, <2>4, <2>5
<1>9. PICK d \in CallType :
        /\ call' = [call EXCEPT ![t] = d] /\ d.stage = "running" /\ d.session = s
        /\ d.op = call[t].op /\ d.runtime = r /\ d.generation = call[t].generation
  <2>1. PICK q, z, y : q = call[t] /\ z = "running" /\ y = s OBVIOUS
  <2>2. q \in CallType /\ z \in Stages /\ y \in Holder BY <1>3, <1>4, <2>1 DEF Stages
  <2>3. PICK d1 : d1 = [q EXCEPT !.stage = z] OBVIOUS
  <2>4. /\ d1 \in CallType /\ d1.stage = z /\ d1.op = q.op /\ d1.runtime = q.runtime
        /\ d1.generation = q.generation
    BY <2>2, <2>3 DEF CallType
  <2>5. PICK d : d = [d1 EXCEPT !.session = y] OBVIOUS
  <2>6. /\ d \in CallType /\ d.stage = z /\ d.session = y /\ d.op = q.op /\ d.runtime = q.runtime
        /\ d.generation = q.generation
    BY <2>2, <2>4, <2>5 DEF CallType
  <2>7. call' = [call EXCEPT ![t] = d]
    <3>1. t \in DOMAIN call BY DEF IInv, TypeInv
    <3>2. PICK f : f = [call EXCEPT ![t] = d1] OBVIOUS
    <3>3. f[t] = d1 BY <3>1, <3>2
    <3>4. call' = [f EXCEPT ![t] = [f[t] EXCEPT !.session = y]] BY <1>2, <2>1, <2>3, <3>2
    <3>5. QED BY <2>5, <3>2, <3>3, <3>4
  <2>8. QED BY <2>1, <2>6, <2>7
<1> HIDE DEF s
<1>10. Sets(t, d, r, e) BY <1>1, <1>8, <1>9 DEF Sets
<1>11. Extends(t, r, e)
  <2>1. inner[r].generation <= e.generation BY <1>3, <1>8, BrowserRuntimeAssumption DEF InnerType
  <2>2. QED BY <1>7, <1>8, <2>1 DEF Extends
<1>12. /\ TypeInv' /\ Frame(t) /\ WriterInv' /\ call'[t] = d /\ inner'[r] = e
       /\ Runtime' = Runtime /\ \A q \in Runtime : q # r => inner'[q] = inner[q]
       /\ \A u \in Caller \ {t} : call'[u] = call[u]
  <2>1. d.op = call[t].op /\ d.runtime = r /\ call[t].stage \notin {"idle", "done"} BY <1>1, <1>9
  <2>2. QED BY <1>3, <1>10, <1>11, <2>1, OwnRuntime
<1>13. HoldsOf(t)' BY <1>5, <1>9, <1>12 DEF HoldsOf, UsesStores, InUse
<1>14. PolicyOf(t)' BY <1>5, <1>9, <1>12 DEF PolicyOf
<1>15. StartOf(t)'
  <2>1. call[t].generation <= inner[r].generation BY <1>1, <1>5, <1>6 DEF StartOf
  <2>2. s # Nobody BY <1>7, BrowserRuntimeAssumption
  <2>3. QED BY <1>8, <1>9, <1>12, <2>1, <2>2 DEF StartOf
<1>16. CallerInv(t)' BY <1>13, <1>14, <1>15 DEF CallerInv
<1>17. RefersInv' /\ CoordinationInv' /\ \A u \in Caller : CallerInv(u)' BY <1>12, <1>16,
      PartsKeep
<1>18. GenerationInv'
  <2>1. Numbered(t) /\ call'[t].runtime = call[t].runtime /\ call'[t].generation = call[t].generation
    BY <1>1, <1>5, <1>9, <1>12 DEF Numbered
  <2>2. QED BY <1>12, <2>1, GenerationsKeep
<1>19. SessionInv'
  <2>1. CASE inner[r].session # Nobody
    <3>1. \A q \in Runtime : inner'[q].session = inner[q].session BY <1>7, <1>8, <1>12, <2>1
    <3>2. QED BY <1>1, <1>12, <3>1, SessionsKeep
  <2>2. CASE inner[r].session = Nobody
    <3>1. /\ inner'[r].session = t /\ \A q \in Runtime : inner[q].session # t
          /\ \A q \in Runtime : q # r => inner'[q].session = inner[q].session
      BY <1>7, <1>8, <1>12, <2>2
    <3>2. call'[t].stage = "running" BY <1>9, <1>12
    <3>3. ASSUME NEW q \in Runtime, NEW u \in Caller, inner'[q].session = u
          PROVE call'[u].stage \in {"running", "done"}
      <4>1. CASE u = t BY <3>2, <4>1
      <4>2. CASE u # t
        <5>1. q # r /\ inner[q].session = u BY <3>1, <3>3, <4>2
        <5>2. call[u].stage \in {"running", "done"} BY <5>1 DEF IInv, SessionInv
        <5>3. QED BY <1>12, <4>2, <5>2
      <4>3. QED BY <4>1, <4>2
    <3>4. ASSUME NEW p \in Runtime, NEW q \in Runtime, p # q, inner'[p].session = inner'[q].session
          PROVE inner'[p].session = Nobody
      <4>1. p # r /\ q # r BY <3>1, <3>4
      <4>2. QED BY <3>1, <3>4, <4>1 DEF IInv, SessionInv
    <3>5. QED BY <1>12, <3>3, <3>4 DEF SessionInv
  <2>3. QED BY <2>1, <2>2
<1>20. QED BY <1>12, <1>17, <1>18, <1>19 DEF IInv

----------------------------------------------------------------------------
(* Runtimes come and go.                                                    *)

\* A live runtime of the directory counts.
LEMMA CountsLive ==
  ASSUME NEW r \in Runtime, Alive(r), Len(inner) \in Nat
  PROVE  StrongCount(inner[r].coordination) # 0
<1> DEFINE S == {q \in Runtime : Alive(q) /\ inner[q].coordination = inner[r].coordination}
<1>1. r \in S OBVIOUS
<1>2. IsFiniteSet(1 .. Len(inner)) BY FS_Interval
<1>3. S \subseteq 1 .. Len(inner) BY DEF Runtime
<1>4. IsFiniteSet(S) BY <1>2, <1>3, FS_Subset
<1>5. Cardinality(S) # 0 BY <1>1, <1>4, FS_EmptySet
<1>6. QED BY <1>5 DEF StrongCount

\* A new runtime has the coordination that the live runtimes of its directory have.
LEMMA OpenKeeps ==
  ASSUME IInv, NEW h \in Handle, Open(h)
  PROVE  IInv'
<1> DEFINE base == BaseOf[h]
           c == RuntimeCoordination(base)
           n == Len(inner) + 1
<1>1. TypeInv /\ Len(inner) \in Nat /\ Len(coordination) = Len(inner) BY DEF IInv, TypeInv
<1>2. /\ handle[h] = 0 /\ Len(inner) < MaxOpens /\ call' = call
      /\ registry' = [registry EXCEPT ![base] = c]
      /\ coordination' = Append(coordination, Unlocked)
      /\ handle' = [handle EXCEPT ![h] = n]
  BY DEF Open
<1>3. base \in Base /\ registry[base] \in 0 .. Len(inner)
  BY <1>1 DEF Base, IInv, RefersInv, TypeInv
<1>4. c \in 1 .. n /\ c \in 0 .. MaxOpens /\ n \in 1 .. MaxOpens
  BY <1>1, <1>2, <1>3, BrowserRuntimeAssumption DEF RuntimeCoordination
<1>5. PICK e \in InnerType :
        /\ inner' = Append(inner, e) /\ e.base = base /\ e.coordination = c /\ e.session = Nobody
  <2>1. PICK p, b, k, z : p = Initial /\ b = base /\ k = c /\ z = 0 OBVIOUS
  <2>2. PICK e : e = [base |-> b, coordination |-> k, policy |-> p, revision |-> z,
                      session |-> Nobody, generation |-> z, operation |-> Nobody]
    OBVIOUS
  <2>3. /\ b \in Base /\ k \in Nat /\ p \in Policies \ RefusedPolicies /\ z \in Nat
        /\ z \in 0 .. MaxGeneration /\ Nobody \in Holder
    BY <1>1, <1>3, <1>4, <2>1, BrowserRuntimeAssumption DEF Holder
  <2>4. e \in InnerType /\ e.base = b /\ e.coordination = k /\ e.session = Nobody
    BY <2>2, <2>3 DEF InnerType
  <2>5. inner' = Append(inner, e) BY <2>1, <2>2 DEF Open
  <2>6. QED BY <2>1, <2>4, <2>5
<1>6. PICK v \in LocksType : v = Unlocked /\ v.writer = Nobody
  <2>1. PICK x : x = {} OBVIOUS
  <2>2. Unlocked = [sync |-> Nobody, readers |-> x, writer |-> Nobody, peers |-> Nobody]
    BY <2>1 DEF Unlocked
  <2>3. x \in SUBSET Caller /\ Nobody \in Holder BY <2>1 DEF Holder
  <2>4. QED BY <2>2, <2>3 DEF LocksType
<1> HIDE DEF base, c, n
<1>7. /\ inner' \in Seq(InnerType) /\ Len(inner') = n /\ inner'[n] = e
      /\ \A r \in Runtime : inner'[r] = inner[r]
  <2>1. inner \in Seq(InnerType) BY <1>1 DEF TypeInv
  <2>2. PICK s, w : s = inner /\ w = inner' OBVIOUS
  <2>3. w \in Seq(InnerType) /\ Len(w) = Len(s) + 1 /\ w[Len(s) + 1] = e /\ \A i \in 1 .. Len(s) : w[i] = s[i]
    BY <1>5, <2>1, <2>2, AppendProperties
  <2>4. QED BY <2>2, <2>3 DEF Runtime, n
<1>8. /\ coordination' \in Seq(LocksType) /\ Len(coordination') = n /\ coordination'[n].writer = Nobody
      /\ \A r \in Runtime : coordination'[r] = coordination[r]
  <2>1. coordination \in Seq(LocksType) BY <1>1 DEF TypeInv
  <2>2. PICK s, w : s = coordination /\ w = coordination' OBVIOUS
  <2>3. w \in Seq(LocksType) /\ Len(w) = Len(s) + 1 /\ w[Len(s) + 1] = v /\ \A i \in 1 .. Len(s) : w[i] = s[i]
    BY <1>2, <1>6, <2>1, <2>2, AppendProperties
  <2>4. QED BY <1>1, <1>6, <2>2, <2>3 DEF Runtime, n
<1>9. /\ handle'[h] = n /\ \A g \in Handle \ {h} : handle'[g] = handle[g]
      /\ registry'[base] = c /\ \A b \in Base \ {base} : registry'[b] = registry[b]
  BY <1>1, <1>2, <1>3 DEF TypeInv
<1>10. TypeInv'
  <2>1. handle' \in [Handle -> 0 .. MaxOpens] /\ registry' \in [Base -> 0 .. MaxOpens]
    BY <1>1, <1>2, <1>3, <1>4 DEF TypeInv
  <2>2. QED BY <1>1, <1>2, <1>4, <1>7, <1>8, <2>1 DEF TypeInv
<1>11. Runtime' = Runtime \cup {n} /\ n \notin Runtime
  BY <1>1, <1>7 DEF Runtime, n
<1>12. RefersInv'
  <2>1. ASSUME NEW g \in Handle PROVE handle'[g] <= n
    <3>1. handle[g] \in 0 .. MaxOpens /\ handle[g] <= Len(inner) BY DEF IInv, RefersInv, TypeInv
    <3>2. handle[g] <= n /\ n <= n BY <1>1, <3>1 DEF n
    <3>3. QED BY <1>9, <3>2
  <2>2. ASSUME NEW b \in Base PROVE registry'[b] <= n
    <3>1. registry[b] \in 0 .. MaxOpens /\ registry[b] <= Len(inner) BY DEF IInv, RefersInv,
          TypeInv
    <3>2. registry[b] <= n BY <1>1, <3>1 DEF n
    <3>3. c <= n BY <1>4
    <3>4. QED BY <1>9, <3>2, <3>3
  <2>3. \A r \in Runtime' : inner'[r].coordination \in Runtime'
    BY <1>4, <1>5, <1>7, <1>11 DEF IInv, RefersInv, Runtime
  <2>4. \A t \in Caller : call'[t].op # "none" => call'[t].runtime \in Runtime'
    BY <1>2, <1>11 DEF IInv, RefersInv
  <2>5. QED BY <1>7, <2>1, <2>2, <2>3, <2>4 DEF RefersInv
<1>13. CoordinationInv'
  <2>1. ASSUME NEW r \in Runtime, Alive(r)' PROVE inner'[r].coordination = registry'[inner'[r].base]
    <3>1. Alive(r) BY <1>2, <1>9, <1>11, <2>1 DEF Alive
    <3>2. inner[r].coordination = registry[inner[r].base] /\ inner[r].coordination \in Runtime
      BY <3>1 DEF IInv, CoordinationInv, RefersInv
    <3>3. inner[r].base \in Base BY <1>1, Fields DEF InnerType
    <3>4. CASE inner[r].base # base BY <1>7, <1>9, <3>2, <3>3, <3>4
    <3>5. CASE inner[r].base = base
      <4>1. StrongCount(registry[base]) # 0 BY <1>1, <3>1, <3>2, <3>5, CountsLive
      <4>2. registry[base] # 0 BY <3>2, <3>5 DEF Runtime
      <4>3. c = registry[base] BY <4>1, <4>2 DEF c, RuntimeCoordination
      <4>4. QED BY <1>7, <1>9, <3>2, <3>5, <4>3
    <3>6. QED BY <3>4, <3>5
  <2>2. inner'[n].coordination = registry'[inner'[n].base] BY <1>5, <1>7, <1>9
  <2>3. QED BY <1>11, <2>1, <2>2 DEF CoordinationInv
<1>14. WriterInv' BY <1>8, <1>11 DEF IInv, WriterInv
<1>15. ASSUME NEW u \in Caller PROVE CallerInv(u)'
  <2>1. call'[u] = call[u] /\ HoldsOf(u) /\ PolicyOf(u) /\ StartOf(u) BY <1>2 DEF IInv, CallerInv
  <2>2. CASE call[u].op = "none"
    <3>1. call[u].stage \in {"idle", "done"} BY <2>1, <2>2 DEF HoldsOf
    <3>2. HoldsOf(u)' BY <2>1, <2>2, <3>1 DEF HoldsOf, UsesStores, InUse
    <3>3. PolicyOf(u)' /\ StartOf(u)' BY <2>1, <2>2 DEF PolicyOf, StartOf
    <3>4. QED BY <3>2, <3>3 DEF CallerInv
  <2>3. CASE call[u].op # "none"
    <3>1. call[u].runtime \in Runtime BY <2>3 DEF IInv, RefersInv
    <3>2. inner'[call[u].runtime] = inner[call[u].runtime] BY <1>7, <3>1
    <3>3. C(u)' = C(u) /\ C(u) \in Runtime BY <2>1, <3>1, <3>2 DEF C, IInv, RefersInv
    <3>4. coordination'[C(u)] = coordination[C(u)] BY <1>8, <3>3
    <3>5. HoldsOf(u)' BY <2>1, <3>3, <3>4 DEF HoldsOf, UsesStores, InUse
    <3>6. PolicyOf(u)' BY <2>1, <3>2 DEF PolicyOf
    <3>7. ASSUME \A r \in Runtime : inner[r].session # u PROVE \A r \in Runtime' : inner'[r].session # u
      BY <1>5, <1>7, <1>11, <3>7, BrowserRuntimeAssumption
    <3>8. StartOf(u)' BY <2>1, <3>2, <3>7 DEF StartOf
    <3>9. QED BY <3>5, <3>6, <3>8 DEF CallerInv
  <2>4. QED BY <2>2, <2>3
<1>16. GenerationInv' BY <1>2 DEF IInv, GenerationInv, Numbered
<1>17. SessionInv'
  <2>1. inner'[n].session = Nobody /\ \A r \in Runtime : inner'[r].session = inner[r].session
    BY <1>5, <1>7
  <2>2. ASSUME NEW r \in Runtime \cup {n}, NEW t \in Caller, inner'[r].session = t
        PROVE call'[t].stage \in {"running", "done"}
    <3>1. r # n BY <2>1, <2>2, BrowserRuntimeAssumption
    <3>2. inner[r].session = t BY <2>1, <2>2, <3>1
    <3>3. QED BY <1>2, <3>1, <3>2 DEF IInv, SessionInv
  <2>3. ASSUME NEW r \in Runtime \cup {n}, NEW q \in Runtime \cup {n}, r # q,
               inner'[r].session = inner'[q].session
        PROVE inner'[r].session = Nobody
    <3>1. CASE r = n \/ q = n BY <2>1, <2>3, <3>1
    <3>2. CASE r # n /\ q # n BY <2>1, <2>3, <3>2 DEF IInv, SessionInv
    <3>3. QED BY <3>1, <3>2
  <2>4. QED BY <1>11, <2>2, <2>3 DEF SessionInv
<1>18. QED BY <1>10, <1>12, <1>13, <1>14, <1>15, <1>16, <1>17 DEF IInv

\* A handle that is dropped leaves fewer runtimes alive.
LEMMA DropKeeps ==
  ASSUME IInv, NEW h \in Handle, Drop(h)
  PROVE  IInv'
<1>1. /\ handle' = [handle EXCEPT ![h] = 0] /\ handle' \in [Handle -> 0 .. MaxOpens]
      /\ inner' = inner /\ coordination' = coordination /\ registry' = registry /\ call' = call
  BY BrowserRuntimeAssumption DEF Drop, IInv, TypeInv
<1>2. Runtime' = Runtime BY <1>1 DEF Runtime
<1>3. TypeInv' BY <1>1 DEF IInv, TypeInv
<1>4. RefersInv'
  <2>1. \A g \in Handle : handle'[g] <= Len(inner) BY <1>1 DEF IInv, RefersInv, TypeInv
  <2>2. QED BY <1>1, <1>2, <2>1 DEF IInv, RefersInv
<1>5. CoordinationInv'
  <2>1. ASSUME NEW r \in Runtime, Alive(r)' PROVE Alive(r)
    <3>1. r # 0 BY DEF Runtime
    <3>2. QED BY <1>1, <2>1, <3>1 DEF Alive, IInv, TypeInv
  <2>2. QED BY <1>1, <1>2, <2>1 DEF IInv, CoordinationInv
<1>6. WriterInv' /\ GenerationInv' /\ SessionInv'
  BY <1>1, <1>2 DEF IInv, WriterInv, GenerationInv, Numbered, SessionInv
<1>7. ASSUME NEW u \in Caller PROVE CallerInv(u)'
  <2>1. CallerInv(u) BY DEF IInv
  <2>2. HoldsOf(u)' BY <1>1, <2>1 DEF CallerInv, HoldsOf, UsesStores, InUse, C
  <2>3. PolicyOf(u)' BY <1>1, <2>1 DEF CallerInv, PolicyOf
  <2>4. StartOf(u)' BY <1>1, <1>2, <2>1 DEF CallerInv, StartOf
  <2>5. QED BY <2>2, <2>3, <2>4 DEF CallerInv
<1>8. QED BY <1>3, <1>4, <1>5, <1>6, <1>7 DEF IInv

----------------------------------------------------------------------------
(* The specification.                                                       *)

\* Before anything is opened.
LEMMA InitInv == Init => IInv
<1> SUFFICES ASSUME Init PROVE IInv OBVIOUS
<1>1. "idle" \in Stages BY DEF Stages
<1>2. Idle \in CallType /\ Idle.op = "none" /\ Idle.stage = "idle"
  <2>1. PICK f, p, i, e, o, z : /\ f = FALSE /\ p = Initial /\ i = 0 /\ e = <<>>
                                /\ o = "none" /\ z = "idle"
    OBVIOUS
  <2>2. Idle = [op |-> o, runtime |-> i, stage |-> z, locks |-> e, policy |-> p, used |-> p,
                cancelled |-> f, seen |-> f, session |-> Nobody, generation |-> i]
    BY <2>1 DEF Idle
  <2>3. /\ o \in Ops /\ i \in Nat /\ z \in Stages /\ e \in LockLists /\ p \in Policies /\ f \in BOOLEAN
        /\ Nobody \in Holder
    BY <1>1, <2>1, BrowserRuntimeAssumption DEF Ops, LockLists, Holder
  <2>4. Idle \in CallType BY <2>2, <2>3, CallRecord
  <2>5. QED BY <2>1, <2>2, <2>4
<1>3. \A t \in Caller : call[t] \in CallType /\ call[t].op = "none" /\ call[t].stage = "idle"
  BY <1>2 DEF Init
<1>4. inner = <<>> /\ coordination = <<>> /\ Len(inner) = 0 /\ Len(coordination) = 0 /\ Runtime = {}
  BY DEF Init, Runtime
<1>5. TypeInv
  <2>1. call \in [Caller -> CallType] BY <1>3 DEF Init
  <2>2. handle \in [Handle -> 0 .. MaxOpens] /\ registry \in [Base -> 0 .. MaxOpens]
    BY BrowserRuntimeAssumption DEF Init, Base
  <2>3. QED BY <1>4, <2>1, <2>2, BrowserRuntimeAssumption DEF TypeInv
<1>6. RefersInv
  <2>1. (\A h \in Handle : handle[h] <= 0) /\ (\A b \in Base : registry[b] <= 0) BY DEF Init, Base
  <2>2. QED BY <1>3, <1>4, <2>1 DEF RefersInv
<1>7. CoordinationInv /\ WriterInv /\ SessionInv BY <1>4 DEF CoordinationInv, WriterInv,
      SessionInv
<1>8. GenerationInv BY <1>3 DEF GenerationInv, Numbered
<1>9. ASSUME NEW t \in Caller PROVE CallerInv(t)
  BY <1>3 DEF CallerInv, HoldsOf, PolicyOf, StartOf, UsesStores, InUse
<1>10. QED BY <1>5, <1>6, <1>7, <1>8, <1>9 DEF IInv

\* The invariant is inductive.
LEMMA NextKeeps == IInv /\ [Next]_vars => IInv'
<1> SUFFICES ASSUME IInv, [Next]_vars PROVE IInv' OBVIOUS
<1>1. ASSUME NEW h \in Handle, Open(h) \/ Drop(h) PROVE IInv' BY <1>1, OpenKeeps, DropKeeps
<1>2. ASSUME NEW t \in Caller, Begin(t) \/ Cancel(t) PROVE IInv' BY <1>2, BeginKeeps, CancelKeeps
<1>3. ASSUME NEW t \in Caller, Step(t) PROVE IInv'
  <2>1. CASE Reject(t) \/ Start(t) BY <2>1, RejectKeeps
  <2>2. CASE WithPolicyOperation(t) BY <2>2, PolicyOperationKeeps
  <2>3. CASE Lock(t) BY <2>3, LockKeeps
  <2>4. CASE AcquireProxyMaintenance(t) BY <2>4, AcquireKeeps
  <2>5. CASE Prepare(t) BY <2>5, PrepareKeeps
  <2>6. CASE Check(t) BY <2>6, CheckKeeps
  <2>7. CASE LockPeers(t) \/ UnlockPeers(t) BY <2>7, BookKeeps
  <2>8. CASE Work(t) BY <2>8, WorkKeeps
  <2>9. CASE NextGeneration(t) BY <2>9, NextGenerationKeeps
  <2>10. CASE ReadSession(t) BY <2>10, ReadSessionKeeps
  <2>11. CASE InitSession(t) BY <2>11, InitSessionKeeps
  <2>12. QED
    BY <1>3, <2>1, <2>2, <2>3, <2>4, <2>5, <2>6, <2>7, <2>8, <2>9, <2>10, <2>11 DEF Step
<1>4. CASE UNCHANGED vars
  <2>1. /\ handle' = handle /\ inner' = inner /\ coordination' = coordination /\ registry' = registry
        /\ call' = call
    BY <1>4 DEF vars
  <2>2. Runtime' = Runtime BY <2>1 DEF Runtime
  <2>3. TypeInv' /\ RefersInv' /\ WriterInv' /\ GenerationInv' /\ SessionInv'
    BY <2>1, <2>2 DEF IInv, TypeInv, RefersInv, WriterInv, GenerationInv, Numbered, SessionInv
  <2>4. CoordinationInv' BY <2>1, <2>2 DEF IInv, CoordinationInv, Alive
  <2>5. ASSUME NEW u \in Caller PROVE CallerInv(u)'
    <3>1. CallerInv(u) BY DEF IInv
    <3>2. HoldsOf(u)' BY <2>1, <3>1 DEF CallerInv, HoldsOf, UsesStores, InUse, C
    <3>3. PolicyOf(u)' BY <2>1, <3>1 DEF CallerInv, PolicyOf
    <3>4. StartOf(u)' BY <2>1, <2>2, <3>1 DEF CallerInv, StartOf
    <3>5. QED BY <3>2, <3>3, <3>4 DEF CallerInv
  <2>6. QED BY <2>3, <2>4, <2>5 DEF IInv
<1>5. QED BY <1>1, <1>2, <1>3, <1>4 DEF Next

\* Calls on one directory use one coordination, so that what one holds the other waits for.
LEMMA InvIsSafe == IInv => RuntimeSafety
<1> SUFFICES ASSUME IInv PROVE RuntimeSafety OBVIOUS
<1>1. TypeOK
  <2>1. \A r \in Runtime : inner[r] \in InnerType /\ coordination[r] \in LocksType /\ inner[r].coordination \in Runtime
    BY Fields DEF IInv, RefersInv
  <2>2. \A t \in Caller : call[t] \in CallType BY Fields DEF IInv
  <2>3. handle \in [Handle -> 0 .. MaxOpens] /\ Len(inner) \in 0 .. MaxOpens /\ DOMAIN coordination = Runtime
    BY Fields, BrowserRuntimeAssumption DEF IInv, TypeInv
  <2>4. ASSUME NEW r \in Runtime
        PROVE /\ inner[r].base \in {BaseOf[h] : h \in Handle} /\ inner[r].coordination \in Runtime
              /\ inner[r].policy \in Policies \ RefusedPolicies /\ inner[r].revision \in Nat
              /\ inner[r].generation \in 0..MaxGeneration /\ inner[r].operation \in Caller \cup {Nobody}
    BY <2>1 DEF InnerType, Base, Holder
  <2>5. ASSUME NEW c \in Runtime
        PROVE /\ coordination[c].sync \in Caller \cup {Nobody} /\ coordination[c].readers \subseteq Caller
              /\ coordination[c].writer \in Caller \cup {Nobody} /\ coordination[c].peers \in Caller \cup {Nobody}
    BY <2>1 DEF LocksType, Holder
  <2>6. \A b \in DOMAIN registry : registry[b] \in 0 .. MaxOpens BY DEF IInv, TypeInv
  <2>7. \A t \in Caller : call[t].op \in Ops /\ call[t].used \in Policies BY <2>2 DEF CallType
  <2>8. QED BY <2>3, <2>4, <2>5, <2>6, <2>7 DEF TypeOK
<1>2. ASSUME NEW t \in Caller, NEW u \in Caller, SameBase(t, u),
             call[t].stage \notin {"idle", "done"}, call[u].stage \notin {"idle", "done"}
      PROVE C(t) = C(u) /\ C(t) \in Runtime
  <2>1. /\ call[t].runtime \in Runtime /\ Alive(call[t].runtime) /\ C(t) \in Runtime
        /\ call[u].runtime \in Runtime /\ Alive(call[u].runtime)
    BY <1>2, AtCall
  <2>2. QED BY <1>2, <2>1 DEF C, SameBase, IInv, CoordinationInv
<1>3. StoresUndisturbed
  <2>1. SUFFICES ASSUME NEW t \in Caller, NEW u \in Caller, t # u, UsesStores(t), UsesStores(u),
                        SameBase(t, u), call[t].op = "change"
                 PROVE FALSE
    BY DEF StoresUndisturbed
  <2>2. C(t) = C(u) /\ C(t) \in Runtime BY <1>2, <2>1 DEF UsesStores, InUse
  <2>3. coordination[C(t)].writer = t BY <2>1 DEF IInv, CallerInv, HoldsOf
  <2>4. IF call[u].op = "change" THEN coordination[C(u)].writer = u ELSE u \in coordination[C(u)].readers
    BY <2>1 DEF IInv, CallerInv, HoldsOf
  <2>5. coordination[C(t)].readers = {} BY <2>2, <2>3, BrowserRuntimeAssumption DEF IInv,
        WriterInv
  <2>6. QED BY <2>1, <2>2, <2>3, <2>4, <2>5
<1>4. PeerBookExclusive
  <2>1. SUFFICES ASSUME NEW t \in Caller, NEW u \in Caller, t # u,
                        call[t].stage = "peers" \/ (call[t].stage = "work" /\ call[t].op = "book"),
                        call[u].stage = "peers" \/ (call[u].stage = "work" /\ call[u].op = "book"),
                        SameBase(t, u)
                 PROVE FALSE
    BY DEF PeerBookExclusive
  <2>2. C(t) = C(u) BY <1>2, <2>1
  <2>3. coordination[C(t)].peers = t /\ coordination[C(u)].peers = u
    BY <2>1 DEF IInv, CallerInv, HoldsOf
  <2>4. QED BY <2>1, <2>2, <2>3
<1>5. RequestPolicy BY DEF RequestPolicy, IInv, CallerInv, PolicyOf
<1>6. ProxyIdentities
  <2>1. SUFFICES ASSUME NEW t \in Caller, NEW u \in Caller, t # u,
                        call[t].op = "start", call[t].stage \in {"running", "done"}, call[t].session # Nobody,
                        call[u].op = "start", call[u].stage \in {"running", "done"}, call[u].session # Nobody
                 PROVE /\ <<call[t].session, call[t].generation>> # <<call[u].session, call[u].generation>>
                       /\ call[t].runtime = call[u].runtime => call[t].session = call[u].session
    BY DEF ProxyIdentities
  <2>2. /\ call[t].session = inner[call[t].runtime].session
        /\ call[u].session = inner[call[u].runtime].session
    BY <2>1 DEF IInv, CallerInv, StartOf
  <2>3. call[t].runtime \in Runtime /\ call[u].runtime \in Runtime BY <2>1 DEF IInv, RefersInv
  <2>4. ASSUME call[t].session = call[u].session PROVE call[t].generation # call[u].generation
    <3>1. call[t].runtime = call[u].runtime BY <2>1, <2>2, <2>3, <2>4 DEF IInv, SessionInv
    <3>2. QED BY <2>1, <3>1 DEF IInv, GenerationInv, Numbered
  <2>5. QED BY <2>2, <2>4
<1>7. QED BY <1>1, <1>3, <1>4, <1>5, <1>6 DEF RuntimeSafety

\* Concurrent calls on runtimes of one directory (BrowserRuntime, with_policy_operation,
\* runtime_coordination and acquire_proxy_maintenance) keep apart whatever replaces the stores and
\* whatever uses them, share the peer book one at a time, answer each request under the policy it
\* brought, and start proxies that can be told apart; for any number of callers, handles, directories
\* and policies, and however often a directory is opened and let go.
THEOREM RuntimeSafe == Spec => []RuntimeSafety
<1>1. Spec => []IInv BY InitInv, NextKeeps, PTL DEF Spec
<1>2. QED BY <1>1, InvIsSafe, PTL

----------------------------------------------------------------------------
(* The Java interface: module AndroidBridge.                               *)

\* Records the bridge keeps.  The counter of a mailbox and the mailbox itself are
\* typed by what they are, not by a set given beforehand.
Status == [sequence : Nat, seq : Nat, trace : Nat]
ProxyRecord(V, L) ==
  [handle : 0..MaxHandle, active : BOOLEAN, stopping : BOOLEAN, stopped : BOOLEAN,
   next : 0..MaxSequence, epoch : Nat, retained : V, latest : L]
IsProxy(r) ==
  /\ \E V, L : r \in ProxyRecord(V, L)
  /\ DOMAIN r.latest \subseteq Host
  /\ \A x \in DOMAIN r.latest : r.latest[x] \in Status /\ r.latest[x].sequence <= r.next
Delivery == [seq : Nat, removed : Nat, wrapped : BOOLEAN]

JavaStages == {"idle", "read", "write", "use", "start", "bundle", "find", "request", "remove", "join",
               "drain", "stop_all", "join_all", "free", "peek", "acknowledge", "matches"}
JavaOps == {"none", "use", "start", "close", "destroy", "stop", "take", "discard", "matches"}
JavaCallRecord == [op : JavaOps, stage : JavaStages, runtime : 0..MaxRuntimes, proxy : Nat,
                   host : Host \cup {"none"}, pending : Status, epoch : Nat, todo : SUBSET Nat]

\* Types of the state, of the calls and of the mailboxes.
JavaState ==
  /\ runtime \in 0..MaxRuntimes /\ created \in 0..MaxRuntimes /\ freed \subseteq 1..created
  /\ readers \subseteq Thread /\ writer \subseteq Thread
  /\ nextHandle \in 1..(MaxHandle + 1) /\ registered \subseteq Proxy
  /\ observed \in Nat
  /\ \E S : proxies \in Seq(S)
  /\ \A p \in Proxy : IsProxy(proxies[p])
  /\ delivered \in Seq([Host -> Delivery]) /\ Len(delivered) = Len(proxies)
  /\ javaCall \in [Thread -> JavaCallRecord]

\* The types the proof uses give those of the module.
LEMMA JavaStateTypes == JavaState => JavaTypes
<1>1. SUFFICES ASSUME JavaState PROVE JavaTypes OBVIOUS
<1>2. ASSUME NEW p \in Proxy
      PROVE  /\ proxies[p].handle \in 0..MaxHandle /\ proxies[p].next \in 0..MaxSequence
             /\ {proxies[p].active, proxies[p].stopping, proxies[p].stopped} \subseteq BOOLEAN
             /\ DOMAIN proxies[p].latest \subseteq Host
  <2>1. PICK V, L : proxies[p] \in ProxyRecord(V, L) BY <1>1 DEF JavaState, IsProxy
  <2>2. DOMAIN proxies[p].latest \subseteq Host BY <1>1 DEF JavaState, IsProxy
  <2>3. QED BY <2>1, <2>2 DEF ProxyRecord
<1>3. \A t \in Thread : javaCall[t].runtime \in 0..MaxRuntimes BY <1>1 DEF JavaState, JavaCallRecord
<1>4. QED BY <1>1, <1>2, <1>3 DEF JavaTypes, JavaState

\* A thread that is at nothing.
LEMMA IdleIsRecord == JavaIdle \in JavaCallRecord
<1>1. [sequence |-> 0, seq |-> 0, trace |-> 0] \in Status BY DEF Status
<1>2. 0 \in 0..MaxRuntimes BY AndroidAssumption
<1>3. QED BY <1>1, <1>2 DEF JavaIdle, JavaCallRecord, JavaOps, JavaStages

\* One thread moves on.
LEMMA CallMoves ==
  ASSUME NEW t \in Thread, NEW c \in JavaCallRecord, javaCall \in [Thread -> JavaCallRecord],
         javaCall' = [javaCall EXCEPT ![t] = c]
  PROVE  /\ javaCall' \in [Thread -> JavaCallRecord]
         /\ javaCall'[t] = c
         /\ \A s \in Thread : s # t => javaCall'[s] = javaCall[s]
  OBVIOUS

\* What nativeRuntimeStartProxy registers: a mailbox with nothing in it.
LEMMA FreshProxy ==
  ASSUME JavaState
  PROVE  /\ IsProxy(NewProxy) /\ DOMAIN NewProxy.latest = {}
         /\ NewProxy.stopped = FALSE
<1>1. PICK h : h = IF nextHandle <= MaxHandle THEN nextHandle ELSE 0 OBVIOUS
<1>2. h \in 0..MaxHandle BY <1>1, AndroidAssumption DEF JavaState
<1>3. NewProxy \in ProxyRecord({0}, {<<>>})
  <2>1. 0 \in 0..MaxSequence /\ 0 \in Nat BY AndroidAssumption
  <2>2. QED BY <1>1, <1>2, <2>1 DEF NewProxy, ProxyRecord
<1>4. NewProxy.latest = <<>> /\ DOMAIN NewProxy.latest = {} /\ NewProxy.stopped = FALSE BY DEF NewProxy
<1>5. QED BY <1>3, <1>4 DEF IsProxy

\* deactivate empties the mailbox and leaves its counter and epoch.
LEMMA DeactivatedProxy ==
  ASSUME NEW r, IsProxy(r)
  PROVE  LET d == Deactivated(r)
         IN  /\ IsProxy(d) /\ d.latest = <<>> /\ DOMAIN d.latest = {} /\ d.stopped = r.stopped
             /\ d.epoch = r.epoch /\ d.next = r.next
<1>1. PICK V, L : r \in ProxyRecord(V, L) BY DEF IsProxy
<1>2. PICK d : d = Deactivated(r) OBVIOUS
<1>3. d \in ProxyRecord({0}, {<<>>}) BY <1>1, <1>2 DEF Deactivated, ProxyRecord
<1>4. d.latest = <<>> /\ DOMAIN d.latest = {} /\ d.stopped = r.stopped /\ d.epoch = r.epoch /\ d.next = r.next
  BY <1>1, <1>2 DEF Deactivated, ProxyRecord
<1>5. QED BY <1>2, <1>3, <1>4 DEF IsProxy

\* A proxy after the flags of its stop are set.
LEMMA StoppingProxy ==
  ASSUME NEW r, IsProxy(r), NEW d,
         \/ d = [r EXCEPT !.stopping = TRUE]
         \/ d = [r EXCEPT !.stopped = TRUE]
         \/ d = [[r EXCEPT !.stopping = TRUE] EXCEPT !.stopped = TRUE]
  PROVE  /\ IsProxy(d) /\ d.latest = r.latest /\ d.epoch = r.epoch /\ d.next = r.next
         /\ r.stopped => d.stopped
         /\ d.stopped \/ d = [r EXCEPT !.stopping = TRUE]
<1>1. PICK V, L : r \in ProxyRecord(V, L) BY DEF IsProxy
<1>2. d \in ProxyRecord(V, L) /\ d.latest = r.latest /\ d.epoch = r.epoch /\ d.next = r.next /\ (r.stopped => d.stopped)
      /\ (d.stopped \/ d = [r EXCEPT !.stopping = TRUE])
  BY <1>1 DEF ProxyRecord
<1>3. QED BY <1>2 DEF IsProxy

\* What a report leaves in the mailbox.
LEMMA RecordedProxy ==
  ASSUME NEW r, IsProxy(r), NEW x \in Host, NEW seq \in Nat, NEW size \in 0..(MaxTrace + 1)
  PROVE  LET d == Recorded(r, x, seq, size)
         IN  /\ IsProxy(d) /\ d.stopped = r.stopped
             /\ \A y \in DOMAIN d.latest :
                  \/ y = x /\ d.latest[y].seq = seq
                           /\ (d.epoch = r.epoch => d.latest[y].sequence = r.next + 1)
                  \/ y \in DOMAIN r.latest /\ d.latest[y] = r.latest[y] /\ y # x
             /\ d.epoch = r.epoch \/ d.epoch = r.epoch + 1
             /\ d.epoch = r.epoch => d.next = r.next + 1
<1> DEFINE wraps == r.next = MaxSequence
           latest == IF wraps THEN <<>> ELSE [y \in DOMAIN r.latest \ {x} |-> r.latest[y]]
           trace == IF size > MaxTrace THEN 0 ELSE size
           number == IF wraps THEN 1 ELSE r.next + 1
           kept == Kept(latest, trace)
           next == [y \in kept \cup {x} |->
                     IF y = x THEN [sequence |-> number, seq |-> seq, trace |-> trace] ELSE latest[y]]
           count == MapThenSumSet(LAMBDA y : next[y].trace, DOMAIN next)
           d == Recorded(r, x, seq, size)
<1>1. d = [r EXCEPT !.next = number, !.epoch = IF wraps THEN @ + 1 ELSE @, !.latest = next, !.retained = count]
  BY DEF Recorded
<1>2. kept \subseteq DOMAIN latest BY DEF Kept
<1>3. PICK V, L : r \in ProxyRecord(V, L) BY DEF IsProxy
<1>4. r.next \in 0..MaxSequence /\ r.epoch \in Nat /\ DOMAIN r.latest \subseteq Host BY <1>3 DEF ProxyRecord, IsProxy
<1>5. number \in 0..MaxSequence /\ number \in Nat /\ trace \in Nat BY <1>4, AndroidAssumption
<1>6. DOMAIN latest \subseteq DOMAIN r.latest \ {x} /\ \A y \in DOMAIN latest : latest[y] = r.latest[y] /\ ~wraps
  <2>1. CASE wraps BY <2>1
  <2>2. CASE ~wraps BY <2>2
  <2>3. QED BY <2>1, <2>2
<1> HIDE DEF kept, latest, trace
<1>7. \A y \in DOMAIN next : \/ y = x /\ next[y] = [sequence |-> number, seq |-> seq, trace |-> trace]
                             \/ y # x /\ y \in DOMAIN r.latest /\ next[y] = r.latest[y] /\ ~wraps
  BY <1>2, <1>6
<1>8. DOMAIN next \subseteq Host BY <1>2, <1>4, <1>6
<1>9. \A y \in DOMAIN next : next[y] \in Status /\ next[y].sequence <= number
  <2>1. \A y \in DOMAIN r.latest : r.latest[y] \in Status /\ r.latest[y].sequence <= r.next BY DEF IsProxy
  <2>2. TAKE y \in DOMAIN next
  <2>3. CASE y = x
    <3>1. next[y] = [sequence |-> number, seq |-> seq, trace |-> trace] BY <1>7, <2>3
    <3>2. QED BY <1>5, <3>1 DEF Status
  <2>4. CASE y # x
    <3>1. next[y] = r.latest[y] /\ y \in DOMAIN r.latest /\ ~wraps BY <1>7, <2>4
    <3>2. next[y] \in Status /\ next[y].sequence <= r.next /\ next[y].sequence \in Nat BY <2>1, <3>1 DEF Status
    <3>3. r.next <= number BY <1>4, <3>1
    <3>4. QED BY <1>4, <1>5, <3>2, <3>3
  <2>5. QED BY <2>3, <2>4
<1> HIDE DEF next, count
<1>10. /\ d \in ProxyRecord({count}, {next}) /\ d.latest = next /\ d.next = number /\ d.stopped = r.stopped
       /\ d.epoch = IF wraps THEN r.epoch + 1 ELSE r.epoch
  <2>1. (IF wraps THEN r.epoch + 1 ELSE r.epoch) \in Nat BY <1>4
  <2> HIDE DEF number, wraps, d
  <2>2. QED BY <1>1, <1>3, <1>5, <2>1 DEF ProxyRecord
<1>11. d = Recorded(r, x, seq, size) OBVIOUS
<1> HIDE DEF d
<1>12. IsProxy(d) BY <1>8, <1>9, <1>10 DEF IsProxy
<1>13. d.epoch = r.epoch => ~wraps BY <1>4, <1>10
<1>14. ASSUME NEW y \in DOMAIN d.latest
       PROVE  \/ y = x /\ d.latest[y].seq = seq
                       /\ (d.epoch = r.epoch => d.latest[y].sequence = r.next + 1)
              \/ y \in DOMAIN r.latest /\ d.latest[y] = r.latest[y] /\ y # x
  <2>1. CASE y = x
    <3>1. d.latest[y] = [sequence |-> number, seq |-> seq, trace |-> trace] BY <1>7, <1>10, <2>1
    <3>2. QED BY <1>13, <2>1, <3>1
  <2>2. CASE y # x BY <1>7, <1>10, <2>2
  <2>3. QED BY <2>1, <2>2
<1>15. d.epoch = r.epoch => d.next = r.next + 1 BY <1>10, <1>13
<1>16. d.epoch = r.epoch \/ d.epoch = r.epoch + 1 BY <1>10
<1>17. d.stopped = r.stopped BY <1>10
<1> HIDE DEF number, wraps
<1>18. QED BY <1>11, <1>12, <1>14, <1>15, <1>16, <1>17

\* What a call at each place stands for: a call that uses the runtime or starts a
\* proxy holds the lock and the runtime of the map; closeRuntimes holds it alone.
HoldsLock(c) ==
  \/ c.stage \in {"use", "start", "bundle"}
  \/ c.op = "start" /\ c.stage \in {"find", "request", "remove", "join"}
ClosesAll(c) == c.stage \in {"drain", "stop_all", "join_all", "free"}
WaitsFor(c, p) ==
  \/ c.proxy = p /\ c.stage = "join"
  \/ p \in c.todo /\ c.stage \in {"stop_all", "join_all"}

CallOk(c, box, named, all) ==
  /\ c.stage \in {"read", "write"} => c.op \in {"use", "start"}
  /\ c.stage \in {"start", "bundle"} => c.op = "start"
  /\ HoldsLock(c) => box # 0 /\ c.runtime = box
  /\ c.stage \in {"stop_all", "join_all", "free"} => named = {}
  /\ c.stage \in {"bundle", "find", "request", "remove", "join", "peek", "acknowledge", "matches"} =>
       c.proxy \in all
  /\ c.todo \subseteq all

\* One call writes, or several read, and who needs the lock has it.
LocksInv ==
  /\ \A s, t \in writer : s = t
  /\ writer = {} \/ readers = {}
  /\ \A t \in Thread : /\ HoldsLock(javaCall[t]) => t \in readers \cup writer
                       /\ ClosesAll(javaCall[t]) => t \in writer

\* The runtime of the map is not freed, and without one there are no proxies.
BoxInv ==
  /\ runtime \in 0..created /\ runtime \notin freed
  /\ runtime = 0 => registered = {}

\* A proxy has stopped, is registered, or a call waits for it.
CoverInv ==
  \A p \in Proxy : \/ proxies[p].stopped \/ p \in registered
                   \/ \E t \in Thread : WaitsFor(javaCall[t], p)

HandleInv ==
  /\ JavaState /\ LocksInv /\ BoxInv /\ CoverInv
  /\ \A t \in Thread : CallOk(javaCall[t], runtime, registered, Proxy)

\* A thread that is at nothing holds nothing and waits for nobody.
LEMMA IdleIsOk ==
  ASSUME NEW box, NEW named, NEW all
  PROVE  /\ CallOk(JavaIdle, box, named, all) /\ ~HoldsLock(JavaIdle) /\ ~ClosesAll(JavaIdle)
         /\ \A p : ~WaitsFor(JavaIdle, p)
  BY DEF JavaIdle, CallOk, HoldsLock, ClosesAll, WaitsFor

\* The invariant of the handles gives both properties about them.
LEMMA HandleImplies == HandleInv => NoUseAfterDestroy /\ NoProxyLeftBehind
<1> SUFFICES ASSUME HandleInv PROVE NoUseAfterDestroy /\ NoProxyLeftBehind OBVIOUS
<1>1. NoUseAfterDestroy
  <2>1. ASSUME NEW t \in Thread, javaCall[t].stage \in {"use", "start"} PROVE javaCall[t].runtime \notin freed
    <3>1. HoldsLock(javaCall[t]) BY <2>1 DEF HoldsLock
    <3>2. CallOk(javaCall[t], runtime, registered, Proxy) BY DEF HandleInv
    <3>3. javaCall[t].runtime = runtime BY <3>1, <3>2 DEF CallOk
    <3>4. runtime \notin freed BY DEF HandleInv, BoxInv
    <3>5. QED BY <3>3, <3>4
  <2>2. QED BY <2>1 DEF NoUseAfterDestroy
<1>2. \A p \in Proxy : proxies[p].stopped \/ p \in registered \/ InHand(p)
  BY DEF HandleInv, CoverInv, InHand, WaitsFor
<1>3. runtime = 0 => registered = {} BY DEF HandleInv, BoxInv
<1>4. QED BY <1>1, <1>2, <1>3 DEF NoProxyLeftBehind

\* The lock, when one thread moves on with what it holds or lets it go.
LEMMA LockStays ==
  ASSUME HandleInv, NEW t \in Thread, NEW c \in JavaCallRecord,
         javaCall' = [javaCall EXCEPT ![t] = c],
         \/ UNCHANGED <<readers, writer>>
         \/ Unlock(t),
         HoldsLock(c) => t \in readers' \cup writer',
         ClosesAll(c) => t \in writer'
  PROVE  LocksInv' /\ readers' \subseteq readers /\ writer' \subseteq writer
<1>1. /\ javaCall'[t] = c /\ \A s \in Thread : s # t => javaCall'[s] = javaCall[s]
  BY CallMoves DEF HandleInv, JavaState
<1>2. /\ readers' \subseteq readers /\ writer' \subseteq writer
      /\ \A s \in Thread : s # t => (s \in readers' <=> s \in readers) /\ (s \in writer' <=> s \in writer)
  BY DEF Unlock
<1>3. ASSUME NEW s \in Thread
      PROVE  /\ HoldsLock(javaCall'[s]) => s \in readers' \cup writer'
             /\ ClosesAll(javaCall'[s]) => s \in writer'
  <2>1. CASE s = t BY <1>1, <2>1
  <2>2. CASE s # t BY <1>1, <1>2, <2>2 DEF HandleInv, LocksInv
  <2>3. QED BY <2>1, <2>2
<1>4. (\A s, u \in writer' : s = u) /\ (writer' = {} \/ readers' = {}) BY <1>2 DEF HandleInv, LocksInv
<1>5. QED BY <1>2, <1>3, <1>4 DEF LocksInv

\* One thread moves on; the registry and what is left to stop only shrink.
LEMMA ThreadMoves ==
  ASSUME HandleInv, JavaState', LocksInv', NEW t \in Thread, NEW c \in JavaCallRecord,
         javaCall' = [javaCall EXCEPT ![t] = c],
         UNCHANGED <<runtime, created, freed>>, registered' \subseteq registered, Proxy' = Proxy,
         \A p \in Proxy : proxies[p].stopped => proxies'[p].stopped,
         CallOk(c, runtime, registered', Proxy),
         \A p \in Proxy : p \in registered \ registered' \/ WaitsFor(javaCall[t], p) =>
                            proxies'[p].stopped \/ WaitsFor(c, p)
  PROVE  HandleInv'
<1>1. /\ javaCall'[t] = c /\ \A s \in Thread : s # t => javaCall'[s] = javaCall[s]
  BY CallMoves DEF HandleInv, JavaState
<1>2. BoxInv' BY DEF HandleInv, BoxInv
<1>3. \A s \in Thread : CallOk(javaCall'[s], runtime', registered', Proxy')
  <2>1. TAKE s \in Thread
  <2>2. CASE s = t BY <1>1, <2>2
  <2>3. CASE s # t
    <3>1. CallOk(javaCall[s], runtime, registered, Proxy) BY DEF HandleInv
    <3>2. javaCall'[s] = javaCall[s] BY <1>1, <2>3
    <3>3. QED BY <3>1, <3>2 DEF CallOk
  <2>4. QED BY <2>2, <2>3
<1>4. ASSUME NEW p \in Proxy'
      PROVE  proxies'[p].stopped \/ p \in registered' \/ \E s \in Thread : WaitsFor(javaCall'[s], p)
  <2>1. p \in Proxy BY <1>4
  <2>2. proxies[p].stopped \/ p \in registered \/ \E s \in Thread : WaitsFor(javaCall[s], p)
    BY <2>1 DEF HandleInv, CoverInv
  <2>3. CASE \E s \in Thread : s # t /\ WaitsFor(javaCall[s], p) BY <1>1, <2>3
  <2>4. CASE WaitsFor(javaCall[t], p) BY <1>1, <2>1, <2>4
  <2>5. CASE p \in registered BY <1>1, <2>1, <2>5
  <2>6. CASE proxies[p].stopped BY <2>1, <2>6
  <2>7. QED BY <2>2, <2>3, <2>4, <2>5, <2>6
<1>5. CoverInv' BY <1>4 DEF CoverInv
<1>6. QED BY <1>2, <1>3, <1>5 DEF HandleInv

\* ... and nothing but that thread and the lock changes.
LEMMA OnlyCallMoves ==
  ASSUME HandleInv, NEW t \in Thread, NEW c \in JavaCallRecord,
         javaCall' = [javaCall EXCEPT ![t] = c],
         UNCHANGED <<boxVars, proxies, registryVars, observed>>,
         delivered' \in Seq([Host -> Delivery]), Len(delivered') = Len(delivered),
         \/ UNCHANGED <<readers, writer>>
         \/ Unlock(t),
         HoldsLock(c) => HoldsLock(javaCall[t]) /\ c.runtime = javaCall[t].runtime,
         HoldsLock(c) => UNCHANGED <<readers, writer>>,
         ~ClosesAll(c), c.todo \subseteq Proxy,
         c.stage \in {"read", "write"} => c.op \in {"use", "start"},
         c.stage \in {"start", "bundle"} => c.op = "start",
         c.stage \in {"bundle", "find", "request", "remove", "join", "peek", "acknowledge", "matches"} =>
           c.proxy \in Proxy,
         javaCall[t].stage \notin {"join", "stop_all", "join_all"}
  PROVE  HandleInv'
<1>1. CallOk(javaCall[t], runtime, registered, Proxy) BY DEF HandleInv
<1>2. HoldsLock(c) => t \in readers' \cup writer' BY DEF HandleInv, LocksInv
<1>3. LocksInv' /\ readers' \subseteq readers /\ writer' \subseteq writer BY <1>2, LockStays
<1>4. /\ UNCHANGED <<runtime, created, freed, proxies, nextHandle, registered, observed>> /\ Proxy' = Proxy
  BY DEF boxVars, registryVars, Proxy
<1>5. JavaState'
  <2>1. javaCall' \in [Thread -> JavaCallRecord] BY CallMoves DEF HandleInv, JavaState
  <2>2. Len(delivered') = Len(proxies') BY <1>4 DEF HandleInv, JavaState
  <2>3. \A p \in Proxy' : IsProxy(proxies'[p]) BY <1>4 DEF HandleInv, JavaState
  <2>4. \E S : proxies' \in Seq(S) BY <1>4 DEF HandleInv, JavaState
  <2>5. readers' \subseteq Thread /\ writer' \subseteq Thread BY <1>3 DEF HandleInv, JavaState
  <2>6. registered' \subseteq Proxy' BY <1>4 DEF HandleInv, JavaState
  <2>7. QED BY <1>4, <2>1, <2>2, <2>3, <2>4, <2>5, <2>6 DEF HandleInv, JavaState
<1>6. CallOk(c, runtime, registered', Proxy)
  BY <1>1, <1>4 DEF CallOk, ClosesAll
<1>7. \A p : ~WaitsFor(javaCall[t], p) BY DEF WaitsFor
<1>8. QED BY <1>3, <1>4, <1>5, <1>6, <1>7, ThreadMoves

\* The fields of a call that the operations set.
LEMMA RecordMoves ==
  ASSUME NEW c \in JavaCallRecord, NEW stage \in JavaStages, NEW todo \in SUBSET Nat,
         NEW q \in Nat, NEW op \in JavaOps, NEW box \in 0..MaxRuntimes,
         NEW x \in Host, NEW pending \in Status, NEW epoch \in Nat
  PROVE  /\ [c EXCEPT !.stage = stage] \in JavaCallRecord
         /\ [c EXCEPT !.todo = todo, !.stage = stage] \in JavaCallRecord
         /\ [c EXCEPT !.proxy = q, !.stage = stage] \in JavaCallRecord
         /\ [c EXCEPT !.runtime = box, !.stage = stage] \in JavaCallRecord
         /\ [c EXCEPT !.op = op, !.stage = stage] \in JavaCallRecord
         /\ [c EXCEPT !.op = op, !.stage = stage, !.proxy = q] \in JavaCallRecord
         /\ [c EXCEPT !.host = x, !.pending = pending, !.epoch = epoch, !.stage = stage] \in JavaCallRecord
  BY DEF JavaCallRecord

\* The table of proxies, when its length stays.
LEMMA TableStays ==
  ASSUME JavaState, proxies' = [q \in Proxy |-> proxies'[q]],
         \A q \in Proxy : IsProxy(proxies'[q])
  PROVE  /\ Proxy' = Proxy /\ Len(proxies') = Len(proxies) /\ \E S : proxies' \in Seq(S)
         /\ \A q \in Proxy' : IsProxy(proxies'[q])
<1>1. Proxy = 1..Len(proxies) /\ Len(proxies) \in Nat BY DEF JavaState, Proxy
<1>2. PICK n \in Nat : n = Len(proxies) BY <1>1
<1>3. PICK f : f = proxies' OBVIOUS
<1>4. f = [q \in 1..n |-> f[q]] BY <1>1, <1>2, <1>3
<1>5. f \in Seq({f[q] : q \in 1..n}) /\ DOMAIN f = 1..n BY <1>4
<1>6. Len(f) = n BY <1>2, <1>5
<1>7. Proxy' = Proxy BY <1>1, <1>2, <1>3, <1>5 DEF Proxy
<1>8. QED BY <1>2, <1>3, <1>5, <1>6, <1>7

\* One proxy changes, the others stay.
LEMMA ProxyMoves ==
  ASSUME JavaState, NEW p \in Proxy, NEW d, IsProxy(d),
         proxies' = [proxies EXCEPT ![p] = d]
  PROVE  /\ Proxy' = Proxy /\ Len(proxies') = Len(proxies) /\ \E S : proxies' \in Seq(S)
         /\ \A q \in Proxy' : IsProxy(proxies'[q])
         /\ proxies'[p] = d
         /\ \A q \in Proxy : q # p => proxies'[q] = proxies[q]
<1>1. Proxy = DOMAIN proxies /\ \A q \in Proxy : IsProxy(proxies[q]) BY DEF JavaState, Proxy
<1>2. PICK f, g : f = proxies /\ g = proxies' OBVIOUS
<1>3. \E S : f \in Seq(S) BY <1>2 DEF JavaState
<1>4. g = [f EXCEPT ![p] = d] /\ DOMAIN g = DOMAIN f BY <1>2, <1>3
<1>5. /\ g[p] = d /\ \A q \in Proxy : q # p => g[q] = f[q]
      /\ g = [q \in Proxy |-> g[q]]
  BY <1>1, <1>2, <1>3, <1>4
<1>6. \A q \in Proxy : IsProxy(proxies'[q]) BY <1>1, <1>2, <1>5
<1>7. QED BY <1>2, <1>5, <1>6, TableStays

\* withRuntime enters, and will ask for the read lock.
LEMMA WithRuntimeKeeps ==
  ASSUME HandleInv, NEW t \in Thread, NEW op \in {"use", "start"}, WithRuntime(t, op)
  PROVE  HandleInv'
<1> DEFINE c == [JavaIdle EXCEPT !.op = op, !.stage = "read"]
<1>1. c \in JavaCallRecord BY IdleIsRecord DEF JavaCallRecord, JavaOps, JavaStages
<1>2. /\ c.op = op /\ c.stage = "read" /\ c.todo = {}
  BY DEF JavaIdle
<1>3. /\ javaCall' = [javaCall EXCEPT ![t] = c] /\ javaCall[t].stage = "idle"
      /\ UNCHANGED <<readers, writer, boxVars, proxies, registryVars, observed, delivered>>
  BY DEF WithRuntime, Enter, lockVars, statusVars
<1> HIDE DEF c
<1>4. delivered' \in Seq([Host -> Delivery]) /\ Len(delivered') = Len(delivered)
  BY <1>3 DEF HandleInv, JavaState
<1>5. ~HoldsLock(c) /\ ~ClosesAll(c) BY <1>2 DEF HoldsLock, ClosesAll
<1>6. QED BY <1>1, <1>2, <1>3, <1>4, <1>5, OnlyCallMoves

\* A call ends, whatever it held.
LEMMA JavaReturnKeeps ==
  ASSUME HandleInv, NEW t \in Thread, JavaReturn(t),
         UNCHANGED <<boxVars, proxies, registryVars, statusVars>>,
         UNCHANGED <<readers, writer>> \/ Unlock(t),
         javaCall[t].stage \notin {"join", "stop_all", "join_all"}
  PROVE  HandleInv'
<1>1. javaCall' = [javaCall EXCEPT ![t] = JavaIdle] BY DEF JavaReturn
<1>2. /\ UNCHANGED <<boxVars, proxies, registryVars, observed>> /\ delivered' = delivered
  BY DEF statusVars
<1>3. delivered' \in Seq([Host -> Delivery]) /\ Len(delivered') = Len(delivered)
  BY <1>2 DEF HandleInv, JavaState
<1>4. ~HoldsLock(JavaIdle) /\ ~ClosesAll(JavaIdle) /\ JavaIdle.todo = {} /\ JavaIdle.stage = "idle"
  BY IdleIsOk DEF JavaIdle
<1>5. QED BY <1>1, <1>2, <1>3, <1>4, IdleIsRecord, OnlyCallMoves

\* A call on a proxy enters, and has its record if the registry holds it.
LEMMA OnProxyKeeps ==
  ASSUME HandleInv, NEW t \in Thread, NEW op \in {"destroy", "stop", "take", "discard", "matches"},
         NEW stage \in {"find", "peek", "matches"}, OnProxy(t, op, stage)
  PROVE  HandleInv'
<1>1. PICK p \in Proxy :
        javaCall' = [javaCall EXCEPT ![t] = IF p \in registered
                      THEN [JavaIdle EXCEPT !.op = op, !.stage = stage, !.proxy = p] ELSE JavaIdle]
  BY DEF OnProxy
<1>2. /\ javaCall[t].stage = "idle"
      /\ UNCHANGED <<readers, writer, boxVars, proxies, registryVars, observed, delivered>>
  BY DEF OnProxy, Enter, lockVars, statusVars
<1>3. CASE p \notin registered
  <2>1. JavaReturn(t) BY <1>1, <1>3 DEF JavaReturn
  <2>2. QED BY <1>2, <2>1, JavaReturnKeeps DEF statusVars
<1>4. CASE p \in registered
  <2> DEFINE c == [JavaIdle EXCEPT !.op = op, !.stage = stage, !.proxy = p]
  <2>1. p \in Nat BY DEF HandleInv, JavaState, Proxy
  <2>2. c \in JavaCallRecord BY <2>1, IdleIsRecord DEF JavaCallRecord, JavaOps, JavaStages
  <2>3. /\ c.op = op /\ c.stage = stage /\ c.todo = {} /\ c.proxy = p BY DEF JavaIdle
  <2>4. javaCall' = [javaCall EXCEPT ![t] = c] BY <1>1, <1>4
  <2> HIDE DEF c
  <2>5. delivered' \in Seq([Host -> Delivery]) /\ Len(delivered') = Len(delivered)
    BY <1>2 DEF HandleInv, JavaState
  <2>6. ~HoldsLock(c) /\ ~ClosesAll(c) BY <2>3 DEF HoldsLock, ClosesAll
  <2>7. QED BY <1>2, <2>2, <2>3, <2>4, <2>5, <2>6, OnlyCallMoves
<1>5. QED BY <1>3, <1>4

\* The endpoint goes to the application, or the proxy is destroyed.
LEMMA EndpointBundleKeeps ==
  ASSUME HandleInv, NEW t \in Thread, EndpointBundle(t)
  PROVE  HandleInv'
<1>1. CASE Unlock(t) /\ JavaReturn(t)
  BY <1>1, JavaReturnKeeps DEF EndpointBundle, At
<1>2. CASE GoTo(t, "find") /\ UNCHANGED lockVars
  <2> DEFINE c == [javaCall[t] EXCEPT !.stage = "find"]
  <2>1. javaCall[t] \in JavaCallRecord /\ javaCall[t].stage = "bundle"
    BY DEF HandleInv, JavaState, EndpointBundle, At
  <2>2. CallOk(javaCall[t], runtime, registered, Proxy) BY DEF HandleInv
  <2>3. c \in JavaCallRecord BY <2>1 DEF JavaCallRecord, JavaStages
  <2>4. c.op = javaCall[t].op /\ c.stage = "find" /\ c.todo = javaCall[t].todo /\ c.proxy = javaCall[t].proxy
        /\ c.runtime = javaCall[t].runtime
    BY <2>1 DEF JavaCallRecord
  <2>5. javaCall' = [javaCall EXCEPT ![t] = c] BY <1>2 DEF GoTo
  <2>6. UNCHANGED <<readers, writer, boxVars, proxies, registryVars, observed, delivered>>
    BY <1>2 DEF EndpointBundle, lockVars, statusVars
  <2>7. delivered' \in Seq([Host -> Delivery]) /\ Len(delivered') = Len(delivered)
    BY <2>6 DEF HandleInv, JavaState
  <2>8. HoldsLock(javaCall[t]) /\ c.proxy \in Proxy /\ ~ClosesAll(c)
    BY <2>1, <2>2, <2>4 DEF HoldsLock, CallOk, ClosesAll
  <2>9. c.todo \subseteq Proxy BY <2>2, <2>4 DEF CallOk
  <2>10. QED BY <2>1, <2>3, <2>4, <2>5, <2>6, <2>7, <2>8, <2>9, OnlyCallMoves
<1>3. QED BY <1>1, <1>2 DEF EndpointBundle

\* A call begins its block, under the read lock or, if the runtime was not there, alone.
LEMMA BlockBegins ==
  ASSUME HandleInv, NEW t \in Thread, NEW c \in JavaCallRecord,
         javaCall' = [javaCall EXCEPT ![t] = c],
         c.op \in {"use", "start"}, c.stage = c.op, c.todo \subseteq Proxy, c.runtime = runtime',
         javaCall[t].stage \in {"read", "write"}, writer = {},
         \/ runtime # 0 /\ readers' = readers \cup {t} /\ UNCHANGED <<writer, boxVars>>
         \/ runtime # 0 /\ readers = {} /\ writer' = {t} /\ UNCHANGED <<readers, boxVars>>
         \/ /\ runtime = 0 /\ readers = {} /\ writer' = {t} /\ UNCHANGED <<readers, freed>>
            /\ created < MaxRuntimes /\ created' = created + 1 /\ runtime' = created + 1,
         UNCHANGED <<proxies, registryVars, statusVars>>
  PROVE  HandleInv'
<1>1. /\ javaCall'[t] = c /\ \A s \in Thread : s # t => javaCall'[s] = javaCall[s]
      /\ javaCall' \in [Thread -> JavaCallRecord]
  BY CallMoves DEF HandleInv, JavaState
<1>2. /\ UNCHANGED <<proxies, nextHandle, registered, observed, delivered>> /\ Proxy' = Proxy
  BY DEF registryVars, statusVars, Proxy
<1>3. /\ runtime \in 0..MaxRuntimes /\ created \in 0..MaxRuntimes /\ freed \subseteq 1..created
      /\ readers \subseteq Thread /\ writer \subseteq Thread /\ MaxRuntimes \in Nat
      /\ runtime \in 0..created /\ runtime \notin freed /\ (runtime = 0 => registered = {})
  BY AndroidAssumption DEF HandleInv, JavaState, BoxInv
<1>4. /\ runtime' \in 0..created' /\ created' \in 0..MaxRuntimes /\ freed' \subseteq 1..created'
      /\ runtime' \notin freed' /\ runtime' # 0
  <2>1. CASE UNCHANGED boxVars /\ runtime # 0 BY <1>3, <2>1 DEF boxVars
  <2>2. CASE runtime = 0 /\ freed' = freed /\ created < MaxRuntimes /\ created' = created + 1 /\ runtime' = created + 1
    BY <1>3, <2>2
  <2>3. QED BY <2>1, <2>2
<1>5. BoxInv' BY <1>4 DEF BoxInv
<1>6. readers' \subseteq Thread /\ writer' \subseteq Thread BY <1>3
<1>7. JavaState'
  <2>1. runtime' \in 0..MaxRuntimes BY <1>3, <1>4
  <2>2. \A p \in Proxy' : IsProxy(proxies'[p]) BY <1>2 DEF HandleInv, JavaState
  <2>3. \E S : proxies' \in Seq(S) BY <1>2 DEF HandleInv, JavaState
  <2>4. Len(delivered') = Len(proxies') BY <1>2 DEF HandleInv, JavaState
  <2>5. QED BY <1>1, <1>2, <1>4, <1>6, <2>1, <2>2, <2>3, <2>4 DEF HandleInv, JavaState
<1>8. \A s \in Thread : /\ HoldsLock(javaCall[s]) => s \in readers \cup writer
                        /\ ~ClosesAll(javaCall[s])
  BY DEF HandleInv, LocksInv
<1>9. LocksInv'
  <2>1. t \in readers' \cup writer' /\ readers \subseteq readers' /\ writer \subseteq writer' OBVIOUS
  <2>2. ~ClosesAll(c) BY DEF ClosesAll
  <2>3. (\A s, u \in writer' : s = u) /\ (writer' = {} \/ readers' = {})
    BY DEF HandleInv, LocksInv
  <2>4. \A s \in Thread : /\ HoldsLock(javaCall'[s]) => s \in readers' \cup writer'
                          /\ ClosesAll(javaCall'[s]) => s \in writer'
    BY <1>1, <1>8, <2>1, <2>2
  <2>5. QED BY <2>3, <2>4 DEF LocksInv
<1>10. \A s \in Thread : CallOk(javaCall'[s], runtime', registered', Proxy')
  <2>1. TAKE s \in Thread
  <2>2. CASE s = t
    <3>1. CallOk(c, runtime', registered, Proxy) BY <1>4 DEF CallOk, HoldsLock
    <3>2. QED BY <1>1, <1>2, <2>2, <3>1
  <2>3. CASE s # t
    <3>1. CallOk(javaCall[s], runtime, registered, Proxy) BY DEF HandleInv
    <3>2. javaCall'[s] = javaCall[s] BY <1>1, <2>3
    <3>3. HoldsLock(javaCall[s]) => runtime' = runtime BY <1>8 DEF boxVars
    <3>4. QED BY <1>2, <3>1, <3>2, <3>3 DEF CallOk
  <2>4. QED BY <2>2, <2>3
<1>11. CoverInv'
  <2>1. \A p : ~WaitsFor(javaCall[t], p) BY DEF WaitsFor
  <2>2. QED BY <1>1, <1>2, <2>1 DEF HandleInv, CoverInv
<1>12. QED BY <1>5, <1>7, <1>9, <1>10, <1>11 DEF HandleInv

\* The runtime is found under the read lock, or the write lock is asked for.
LEMMA FindRuntimeKeeps ==
  ASSUME HandleInv, NEW t \in Thread, FindRuntime(t)
  PROVE  HandleInv'
<1>1. /\ javaCall[t].stage = "read" /\ writer = {} /\ javaCall[t] \in JavaCallRecord
      /\ CallOk(javaCall[t], runtime, registered, Proxy)
      /\ UNCHANGED <<writer, boxVars, proxies, registryVars, statusVars>>
  BY DEF FindRuntime, At, HandleInv, JavaState
<1>2. CASE runtime # 0
  <2> DEFINE c == [javaCall[t] EXCEPT !.runtime = runtime, !.stage = javaCall[t].op]
  <2>1. javaCall' = [javaCall EXCEPT ![t] = c] /\ readers' = readers \cup {t}
    BY <1>2 DEF FindRuntime
  <2>2. javaCall[t].op \in {"use", "start"} /\ javaCall[t].todo \subseteq Proxy BY <1>1 DEF CallOk
  <2>3. runtime \in 0..MaxRuntimes /\ runtime' = runtime BY <1>1 DEF HandleInv, JavaState, boxVars
  <2>4. c \in JavaCallRecord BY <1>1, <2>2, <2>3 DEF JavaCallRecord, JavaStages
  <2>5. c.op = javaCall[t].op /\ c.stage = javaCall[t].op /\ c.todo = javaCall[t].todo /\ c.runtime = runtime
    BY <1>1 DEF JavaCallRecord
  <2> HIDE DEF c
  <2>6. QED BY <1>1, <1>2, <2>1, <2>2, <2>3, <2>4, <2>5, BlockBegins
<1>3. CASE runtime = 0
  <2> DEFINE c == [javaCall[t] EXCEPT !.stage = "write"]
  <2>1. javaCall' = [javaCall EXCEPT ![t] = c] /\ readers' = readers BY <1>3 DEF FindRuntime, GoTo
  <2>2. c \in JavaCallRecord /\ c.op = javaCall[t].op /\ c.stage = "write" /\ c.todo = javaCall[t].todo
    BY <1>1 DEF JavaCallRecord, JavaStages
  <2> HIDE DEF c
  <2>3. c.op \in {"use", "start"} /\ c.todo \subseteq Proxy BY <1>1, <2>2 DEF CallOk
  <2>4. ~HoldsLock(c) /\ ~ClosesAll(c) BY <2>2 DEF HoldsLock, ClosesAll
  <2>5. UNCHANGED <<boxVars, proxies, registryVars, observed>> /\ delivered' = delivered
    BY <1>1 DEF statusVars
  <2>6. delivered' \in Seq([Host -> Delivery]) /\ Len(delivered') = Len(delivered)
    BY <2>5 DEF HandleInv, JavaState
  <2>7. QED BY <1>1, <2>1, <2>2, <2>3, <2>4, <2>5, <2>6, OnlyCallMoves
<1>4. QED BY <1>2, <1>3

\* The runtime is looked for again, or created, under the write lock.
LEMMA MakeRuntimeKeeps ==
  ASSUME HandleInv, NEW t \in Thread, MakeRuntime(t)
  PROVE  HandleInv'
<1>1. /\ javaCall[t].stage = "write" /\ writer = {} /\ readers = {} /\ javaCall[t] \in JavaCallRecord
      /\ CallOk(javaCall[t], runtime, registered, Proxy)
      /\ UNCHANGED <<readers, proxies, registryVars, statusVars>>
  BY DEF MakeRuntime, At, HandleInv, JavaState
<1>2. javaCall[t].op \in {"use", "start"} /\ javaCall[t].todo \subseteq Proxy BY <1>1 DEF CallOk
<1>3. runtime \in 0..MaxRuntimes /\ created \in 0..MaxRuntimes /\ MaxRuntimes \in Nat
  BY AndroidAssumption DEF HandleInv, JavaState
<1>4. ASSUME NEW box \in 0..MaxRuntimes
      PROVE  LET c == [javaCall[t] EXCEPT !.runtime = box, !.stage = javaCall[t].op]
             IN  /\ c \in JavaCallRecord /\ c.op = javaCall[t].op /\ c.stage = javaCall[t].op
                 /\ c.todo = javaCall[t].todo /\ c.runtime = box
  BY <1>1, <1>2 DEF JavaCallRecord, JavaStages
<1>5. CASE /\ runtime # 0 /\ writer' = {t}
           /\ javaCall' = [javaCall EXCEPT ![t].runtime = runtime, ![t].stage = javaCall[t].op]
           /\ UNCHANGED boxVars
  <2>1. PICK c : c = [javaCall[t] EXCEPT !.runtime = runtime, !.stage = javaCall[t].op] OBVIOUS
  <2>2. javaCall' = [javaCall EXCEPT ![t] = c] /\ runtime' = runtime BY <1>5, <2>1 DEF boxVars
  <2>3. /\ c \in JavaCallRecord /\ c.op = javaCall[t].op /\ c.stage = javaCall[t].op
        /\ c.todo = javaCall[t].todo /\ c.runtime = runtime'
    BY <1>3, <1>4, <2>1, <2>2
  <2>4. QED BY <1>1, <1>2, <1>5, <2>2, <2>3, BlockBegins
<1>6. CASE /\ runtime = 0 /\ created < MaxRuntimes /\ writer' = {t}
           /\ created' = created + 1 /\ runtime' = created + 1
           /\ javaCall' = [javaCall EXCEPT ![t].runtime = created + 1, ![t].stage = javaCall[t].op]
           /\ UNCHANGED freed
  <2>1. PICK c : c = [javaCall[t] EXCEPT !.runtime = created + 1, !.stage = javaCall[t].op] OBVIOUS
  <2>2. javaCall' = [javaCall EXCEPT ![t] = c] BY <1>6, <2>1
  <2>3. created + 1 \in 0..MaxRuntimes BY <1>3, <1>6
  <2>4. /\ c \in JavaCallRecord /\ c.op = javaCall[t].op /\ c.stage = javaCall[t].op
        /\ c.todo = javaCall[t].todo /\ c.runtime = runtime'
    BY <1>4, <1>6, <2>1, <2>3
  <2>5. QED BY <1>1, <1>2, <1>6, <2>2, <2>4, BlockBegins
<1>7. CASE runtime = 0 /\ JavaReturn(t) /\ UNCHANGED <<writer, boxVars>>
  BY <1>1, <1>7, JavaReturnKeeps
<1>8. QED BY <1>5, <1>6, <1>7 DEF MakeRuntime

\* closeRuntimes takes the write lock, which waits for every reader.
LEMMA CloseRuntimesKeeps ==
  ASSUME HandleInv, NEW t \in Thread, CloseRuntimes(t)
  PROVE  HandleInv'
<1> DEFINE c == [JavaIdle EXCEPT !.op = "close", !.stage = "drain"]
<1>1. /\ javaCall[t].stage = "idle" /\ writer = {} /\ readers = {} /\ writer' = {t} /\ readers' = readers
      /\ javaCall' = [javaCall EXCEPT ![t] = c]
      /\ UNCHANGED <<runtime, created, freed, proxies, nextHandle, registered, observed, delivered>>
  BY DEF CloseRuntimes, Enter, boxVars, registryVars, statusVars
<1>2. Proxy' = Proxy BY <1>1 DEF Proxy
<1>3. c \in JavaCallRecord BY IdleIsRecord DEF JavaCallRecord, JavaStages, JavaOps
<1>4. c.stage = "drain" /\ c.op = "close" /\ c.todo = {} BY DEF JavaIdle
<1> HIDE DEF c
<1>5. /\ javaCall'[t] = c /\ \A s \in Thread : s # t => javaCall'[s] = javaCall[s]
      /\ javaCall' \in [Thread -> JavaCallRecord]
  BY <1>1, <1>3, CallMoves DEF HandleInv, JavaState
<1>6. \A s \in Thread : ~HoldsLock(javaCall[s]) /\ ~ClosesAll(javaCall[s])
  BY <1>1 DEF HandleInv, LocksInv
<1>7. LocksInv'
  <2>1. ~HoldsLock(c) BY <1>4 DEF HoldsLock
  <2>2. QED BY <1>1, <1>5, <1>6, <2>1 DEF LocksInv
<1>8. JavaState'
  <2>1. \A p \in Proxy' : IsProxy(proxies'[p]) BY <1>1, <1>2 DEF HandleInv, JavaState
  <2>2. \E S : proxies' \in Seq(S) BY <1>1 DEF HandleInv, JavaState
  <2>3. Len(delivered') = Len(proxies') BY <1>1 DEF HandleInv, JavaState
  <2>4. QED BY <1>1, <1>2, <1>5, <2>1, <2>2, <2>3 DEF HandleInv, JavaState
<1>9. CallOk(c, runtime, registered', Proxy) BY <1>4 DEF CallOk, HoldsLock
<1>10. \A p : ~WaitsFor(javaCall[t], p) BY <1>1 DEF WaitsFor
<1>11. QED BY <1>1, <1>2, <1>3, <1>7, <1>8, <1>9, <1>10, ThreadMoves

\* One thread moves on and the table of proxies changes with it, but not its length.
LEMMA TableMoves ==
  ASSUME HandleInv, NEW t \in Thread, NEW c \in JavaCallRecord,
         javaCall' = [javaCall EXCEPT ![t] = c],
         UNCHANGED <<boxVars, nextHandle, observed>>, registered' \subseteq registered,
         delivered' \in Seq([Host -> Delivery]), Len(delivered') = Len(delivered),
         Proxy' = Proxy, Len(proxies') = Len(proxies), \E S : proxies' \in Seq(S),
         \A p \in Proxy' : IsProxy(proxies'[p]),
         \A p \in Proxy : proxies[p].stopped => proxies'[p].stopped,
         \/ UNCHANGED <<readers, writer>>
         \/ Unlock(t),
         HoldsLock(c) => t \in readers' \cup writer',
         ClosesAll(c) => t \in writer',
         CallOk(c, runtime, registered', Proxy),
         \A p \in Proxy : p \in registered \ registered' \/ WaitsFor(javaCall[t], p) =>
                            proxies'[p].stopped \/ WaitsFor(c, p)
  PROVE  HandleInv'
<1>1. LocksInv' /\ readers' \subseteq readers /\ writer' \subseteq writer BY LockStays
<1>2. UNCHANGED <<runtime, created, freed>> BY DEF boxVars
<1>3. javaCall' \in [Thread -> JavaCallRecord] BY CallMoves DEF HandleInv, JavaState
<1>4. JavaState'
  <2>1. Len(delivered') = Len(proxies') BY DEF HandleInv, JavaState
  <2>2. readers' \subseteq Thread /\ writer' \subseteq Thread BY <1>1 DEF HandleInv, JavaState
  <2>3. registered' \subseteq Proxy' BY DEF HandleInv, JavaState
  <2>4. /\ runtime' \in 0..MaxRuntimes /\ created' \in 0..MaxRuntimes /\ freed' \subseteq 1..created'
        /\ nextHandle' \in 1..(MaxHandle + 1) /\ observed' \in Nat
    BY <1>2 DEF HandleInv, JavaState
  <2>5. QED BY <1>3, <2>1, <2>2, <2>3, <2>4 DEF JavaState
<1>5. QED BY <1>1, <1>2, <1>4, ThreadMoves

\* The table as it was is one of those.
LEMMA TableSame ==
  ASSUME JavaState, proxies' = proxies
  PROVE  /\ Proxy' = Proxy /\ Len(proxies') = Len(proxies) /\ \E S : proxies' \in Seq(S)
         /\ \A p \in Proxy' : IsProxy(proxies'[p])
<1>1. Proxy' = Proxy BY DEF Proxy
<1>2. QED BY <1>1 DEF JavaState

\* What the invariant says of one call.
LEMMA CallNow ==
  ASSUME HandleInv, NEW t \in Thread
  PROVE  /\ javaCall[t] \in JavaCallRecord /\ CallOk(javaCall[t], runtime, registered, Proxy)
         /\ HoldsLock(javaCall[t]) => t \in readers \cup writer
         /\ ClosesAll(javaCall[t]) => t \in writer
         /\ JavaState /\ delivered \in Seq([Host -> Delivery])
  BY DEF HandleInv, LocksInv, JavaState

\* A call moves to another stage and keeps the rest.
LEMMA StageMoves ==
  ASSUME NEW r \in JavaCallRecord, NEW stage \in JavaStages, NEW c, c = [r EXCEPT !.stage = stage]
  PROVE  /\ c \in JavaCallRecord /\ c.op = r.op /\ c.stage = stage /\ c.todo = r.todo
         /\ c.proxy = r.proxy /\ c.runtime = r.runtime
  BY DEF JavaCallRecord

\* The record in hand is deactivated.
LEMMA DeactivateProxyKeeps ==
  ASSUME HandleInv, NEW t \in Thread, DeactivateProxy(t)
  PROVE  HandleInv'
<1>1. javaCall[t].stage = "find" /\ UNCHANGED <<boxVars, registryVars, statusVars>>
  BY DEF DeactivateProxy, At
<1>2. CASE Unlock(t) /\ JavaReturn(t) /\ UNCHANGED proxies
  BY <1>1, <1>2, JavaReturnKeeps
<1>3. CASE /\ proxies' = [proxies EXCEPT ![javaCall[t].proxy] = Deactivated(@)]
           /\ GoTo(t, "request") /\ UNCHANGED lockVars
  <2>1. PICK c : c = [javaCall[t] EXCEPT !.stage = "request"] OBVIOUS
  <2>2. /\ c \in JavaCallRecord /\ c.op = javaCall[t].op /\ c.stage = "request" /\ c.todo = javaCall[t].todo
        /\ c.proxy = javaCall[t].proxy /\ c.runtime = javaCall[t].runtime
    BY <2>1, CallNow, StageMoves DEF JavaStages
  <2>3. PICK p : p = javaCall[t].proxy OBVIOUS
  <2>4. p \in Proxy BY <1>1, <2>3, CallNow DEF CallOk
  <2>5. IsProxy(proxies[p]) BY <2>4, CallNow DEF JavaState
  <2>6. PICK d : d = Deactivated(proxies[p]) OBVIOUS
  <2>7. IsProxy(d) /\ d.stopped = proxies[p].stopped BY <2>5, <2>6, DeactivatedProxy
  <2>8. proxies' = [proxies EXCEPT ![p] = d] BY <1>3, <2>3, <2>6
  <2>9. /\ Proxy' = Proxy /\ Len(proxies') = Len(proxies) /\ (\E S : proxies' \in Seq(S))
        /\ \A q \in Proxy' : IsProxy(proxies'[q])
        /\ \A q \in Proxy : proxies[q].stopped => proxies'[q].stopped
    BY <2>4, <2>7, <2>8, ProxyMoves, CallNow
  <2>10. javaCall' = [javaCall EXCEPT ![t] = c] BY <1>3, <2>1 DEF GoTo
  <2>11. /\ UNCHANGED <<boxVars, nextHandle, observed, registered, delivered, readers, writer>>
    BY <1>1, <1>3 DEF registryVars, statusVars, lockVars
  <2>12. HoldsLock(c) <=> HoldsLock(javaCall[t]) BY <1>1, <2>2 DEF HoldsLock
  <2>13. ~ClosesAll(c) BY <2>2 DEF ClosesAll
  <2>14. CallOk(c, runtime, registered', Proxy)
    BY <2>2, <2>3, <2>4, <2>11, <2>12, CallNow DEF CallOk
  <2>15. \A q : ~WaitsFor(javaCall[t], q) BY <1>1 DEF WaitsFor
  <2>16. HoldsLock(c) => t \in readers' \cup writer' BY <2>11, <2>12, CallNow
  <2>17. delivered' \in Seq([Host -> Delivery]) /\ Len(delivered') = Len(delivered) BY <2>11, CallNow
  <2>18. registered' \subseteq registered /\ registered \ registered' = {} BY <2>11
  <2>19. QED BY <2>2, <2>9, <2>10, <2>11, <2>13, <2>14, <2>15, <2>16, <2>17, <2>18, TableMoves
<1>4. QED BY <1>2, <1>3 DEF DeactivateProxy

\* Its server is asked to stop.
LEMMA RequestStopKeeps ==
  ASSUME HandleInv, NEW t \in Thread, RequestStop(t)
  PROVE  HandleInv'
<1>1. /\ javaCall[t].stage = "request" /\ UNCHANGED <<lockVars, boxVars, registryVars, statusVars>>
  BY DEF RequestStop, At
<1>2. PICK p : p = javaCall[t].proxy OBVIOUS
<1>3. p \in Proxy BY <1>1, <1>2, CallNow DEF CallOk
<1>4. IsProxy(proxies[p]) BY <1>3, CallNow DEF JavaState
<1>5. PICK d : d = [proxies[p] EXCEPT !.stopping = TRUE] OBVIOUS
<1>6. IsProxy(d) /\ (proxies[p].stopped => d.stopped) BY <1>4, <1>5, StoppingProxy
<1>7. proxies' = [proxies EXCEPT ![p] = d] BY <1>2, <1>5 DEF RequestStop
<1>8. /\ Proxy' = Proxy /\ Len(proxies') = Len(proxies) /\ (\E S : proxies' \in Seq(S))
      /\ \A q \in Proxy' : IsProxy(proxies'[q])
      /\ \A q \in Proxy : proxies[q].stopped => proxies'[q].stopped
  BY <1>3, <1>6, <1>7, ProxyMoves, CallNow
<1>9. UNCHANGED <<boxVars, nextHandle, observed, registered, delivered, readers, writer>>
  BY <1>1 DEF registryVars, statusVars, lockVars
<1>10. \A q : ~WaitsFor(javaCall[t], q) BY <1>1 DEF WaitsFor
<1>11. delivered' \in Seq([Host -> Delivery]) /\ Len(delivered') = Len(delivered) BY <1>9, CallNow
<1>12. registered' \subseteq registered /\ registered \ registered' = {} BY <1>9
<1>13. PICK c \in JavaCallRecord :
         /\ javaCall' = [javaCall EXCEPT ![t] = c]
         /\ \/ c = JavaIdle
            \/ c.stage = "remove" /\ c.op = javaCall[t].op /\ c.todo = javaCall[t].todo /\ c.proxy = p
                 /\ c.runtime = javaCall[t].runtime
  <2>1. CASE JavaReturn(t) BY <2>1, IdleIsRecord DEF JavaReturn
  <2>2. CASE GoTo(t, "remove")
    <3>1. PICK c : c = [javaCall[t] EXCEPT !.stage = "remove"] OBVIOUS
    <3>2. javaCall' = [javaCall EXCEPT ![t] = c] BY <2>2, <3>1 DEF GoTo
    <3>3. /\ c \in JavaCallRecord /\ c.op = javaCall[t].op /\ c.stage = "remove" /\ c.todo = javaCall[t].todo
          /\ c.proxy = javaCall[t].proxy /\ c.runtime = javaCall[t].runtime
      BY <3>1, CallNow, StageMoves DEF JavaStages
    <3>4. QED BY <1>2, <3>2, <3>3
  <2>3. QED BY <2>1, <2>2 DEF RequestStop
<1>14. (HoldsLock(c) => HoldsLock(javaCall[t])) /\ ~ClosesAll(c) BY <1>1, <1>13, IdleIsOk DEF HoldsLock, ClosesAll
<1>15. CallOk(c, runtime, registered', Proxy)
  <2>1. CASE c = JavaIdle BY <2>1, IdleIsOk
  <2>2. CASE c # JavaIdle BY <1>3, <1>9, <1>13, <1>14, <2>2, CallNow DEF CallOk
  <2>3. QED BY <2>1, <2>2
<1>16. HoldsLock(c) => t \in readers' \cup writer' BY <1>9, <1>14, CallNow
<1>17. QED BY <1>8, <1>9, <1>10, <1>11, <1>12, <1>13, <1>14, <1>15, <1>16, TableMoves

\* remove_proxy: who takes the proxy out of the registry waits for it.
LEMMA RemoveProxyKeeps ==
  ASSUME HandleInv, NEW t \in Thread, RemoveProxy(t)
  PROVE  HandleInv'
<1>1. javaCall[t].stage = "remove" /\ UNCHANGED <<boxVars, proxies, nextHandle, statusVars>>
  BY DEF RemoveProxy, At
<1>2. CASE javaCall[t].proxy \notin registered
  BY <1>1, <1>2, JavaReturnKeeps DEF RemoveProxy, registryVars
<1>3. CASE javaCall[t].proxy \in registered
  <2>1. PICK c : c = [javaCall[t] EXCEPT !.stage = "join"] OBVIOUS
  <2>2. /\ c \in JavaCallRecord /\ c.op = javaCall[t].op /\ c.stage = "join" /\ c.todo = javaCall[t].todo
        /\ c.proxy = javaCall[t].proxy /\ c.runtime = javaCall[t].runtime
    BY <2>1, CallNow, StageMoves DEF JavaStages
  <2>3. /\ javaCall' = [javaCall EXCEPT ![t] = c] /\ registered' = registered \ {c.proxy}
        /\ UNCHANGED <<readers, writer>>
    BY <1>3, <2>1, <2>2 DEF RemoveProxy, GoTo, lockVars
  <2>4. UNCHANGED <<boxVars, nextHandle, observed, delivered>> BY <1>1 DEF statusVars
  <2>5. delivered' \in Seq([Host -> Delivery]) /\ Len(delivered') = Len(delivered) BY <2>4, CallNow
  <2>6. /\ Proxy' = Proxy /\ Len(proxies') = Len(proxies) /\ (\E S : proxies' \in Seq(S))
        /\ \A q \in Proxy' : IsProxy(proxies'[q])
    BY <1>1, TableSame, CallNow
  <2>7. \A q \in Proxy : proxies[q].stopped => proxies'[q].stopped BY <1>1
  <2>8. HoldsLock(c) <=> HoldsLock(javaCall[t]) BY <1>1, <2>2 DEF HoldsLock
  <2>9. ~ClosesAll(c) BY <2>2 DEF ClosesAll
  <2>10. CallOk(c, runtime, registered', Proxy) BY <1>1, <2>2, <2>8, CallNow DEF CallOk
  <2>11. \A q : ~WaitsFor(javaCall[t], q) BY <1>1 DEF WaitsFor
  <2>12. \A q \in registered \ registered' : WaitsFor(c, q) BY <2>2, <2>3 DEF WaitsFor
  <2>13. HoldsLock(c) => t \in readers' \cup writer' BY <2>3, <2>8, CallNow
  <2>14. registered' \subseteq registered BY <2>3
  <2>15. QED BY <2>2, <2>3, <2>4, <2>5, <2>6, <2>7, <2>9, <2>10, <2>11, <2>12, <2>13, <2>14, TableMoves
<1>4. QED BY <1>2, <1>3

\* BrowserProxy::stop has waited, and the proxy has stopped.
LEMMA JoinProxyKeeps ==
  ASSUME HandleInv, NEW t \in Thread, JoinProxy(t)
  PROVE  HandleInv'
<1>1. /\ javaCall[t].stage = "join" /\ Unlock(t) /\ UNCHANGED <<boxVars, registryVars, statusVars>>
      /\ javaCall' = [javaCall EXCEPT ![t] = JavaIdle]
  BY DEF JoinProxy, At, JavaReturn
<1>2. PICK p : p = javaCall[t].proxy OBVIOUS
<1>3. p \in Proxy BY <1>1, <1>2, CallNow DEF CallOk
<1>4. IsProxy(proxies[p]) BY <1>3, CallNow DEF JavaState
<1>5. PICK d : d = [[proxies[p] EXCEPT !.stopping = TRUE] EXCEPT !.stopped = TRUE] OBVIOUS
<1>6. IsProxy(d) /\ d.stopped
  <2>1. IsProxy(d) BY <1>4, <1>5, StoppingProxy
  <2>2. PICK V, L : proxies[p] \in ProxyRecord(V, L) BY <1>4 DEF IsProxy
  <2>3. d.stopped BY <1>5, <2>2 DEF ProxyRecord
  <2>4. QED BY <2>1, <2>3
<1>7. proxies' = [proxies EXCEPT ![p] = d]
  <2>1. proxies' = [proxies EXCEPT ![p].stopping = TRUE, ![p].stopped = TRUE] BY <1>2 DEF JoinProxy
  <2>2. DOMAIN proxies = Proxy BY DEF Proxy
  <2>3. PICK f : f = proxies OBVIOUS
  <2>4. \E S : f \in Seq(S) BY <2>3, CallNow DEF JavaState
  <2>5. p \in DOMAIN f BY <1>3, <2>2, <2>3
  <2>6. [f EXCEPT ![p].stopping = TRUE, ![p].stopped = TRUE] = [f EXCEPT ![p] = [[f[p] EXCEPT !.stopping = TRUE] EXCEPT !.stopped = TRUE]]
    BY <2>4, <2>5
  <2>7. QED BY <1>5, <2>1, <2>3, <2>6
<1>8. /\ Proxy' = Proxy /\ Len(proxies') = Len(proxies) /\ (\E S : proxies' \in Seq(S))
      /\ \A q \in Proxy' : IsProxy(proxies'[q])
      /\ \A q \in Proxy : proxies[q].stopped => proxies'[q].stopped
      /\ proxies'[p].stopped
  BY <1>3, <1>6, <1>7, ProxyMoves, CallNow
<1>9. UNCHANGED <<boxVars, nextHandle, observed, registered, delivered>>
  BY <1>1 DEF registryVars, statusVars
<1>10. delivered' \in Seq([Host -> Delivery]) /\ Len(delivered') = Len(delivered) BY <1>9, CallNow
<1>11. registered' \subseteq registered /\ registered \ registered' = {} BY <1>9
<1>12. \A q : WaitsFor(javaCall[t], q) => q = p BY <1>1, <1>2 DEF WaitsFor
<1>13. ~HoldsLock(JavaIdle) /\ ~ClosesAll(JavaIdle) /\ CallOk(JavaIdle, runtime, registered', Proxy) BY IdleIsOk
<1>14. QED BY <1>1, <1>8, <1>9, <1>10, <1>11, <1>12, <1>13, IdleIsRecord, TableMoves

\* destroy_all_proxies takes every proxy out of the registry.
LEMMA DrainProxiesKeeps ==
  ASSUME HandleInv, NEW t \in Thread, DrainProxies(t)
  PROVE  HandleInv'
<1>1. PICK c : c = [javaCall[t] EXCEPT !.todo = registered, !.stage = "stop_all"] OBVIOUS
<1>2. /\ javaCall[t].stage = "drain" /\ registered' = {} /\ javaCall' = [javaCall EXCEPT ![t] = c]
      /\ UNCHANGED <<readers, writer, boxVars, proxies, nextHandle, observed, delivered>>
  BY <1>1 DEF DrainProxies, At, lockVars, statusVars
<1>3. registered \subseteq Proxy /\ Proxy \subseteq Nat BY CallNow DEF JavaState, Proxy
<1>4. /\ c \in JavaCallRecord /\ c.op = javaCall[t].op /\ c.stage = "stop_all" /\ c.todo = registered
      /\ c.runtime = javaCall[t].runtime
  BY <1>1, <1>3, CallNow DEF JavaCallRecord, JavaStages
<1>5. delivered' \in Seq([Host -> Delivery]) /\ Len(delivered') = Len(delivered) BY <1>2, CallNow
<1>6. /\ Proxy' = Proxy /\ Len(proxies') = Len(proxies) /\ (\E S : proxies' \in Seq(S))
      /\ \A q \in Proxy' : IsProxy(proxies'[q])
  BY <1>2, TableSame, CallNow
<1>7. \A q \in Proxy : proxies[q].stopped => proxies'[q].stopped BY <1>2
<1>8. ClosesAll(c) => t \in writer' BY <1>2, CallNow DEF ClosesAll
<1>9. ~HoldsLock(c) BY <1>2, <1>4 DEF HoldsLock
<1>10. CallOk(c, runtime, registered', Proxy) BY <1>2, <1>3, <1>4, <1>9 DEF CallOk
<1>11. \A q : ~WaitsFor(javaCall[t], q) BY <1>2 DEF WaitsFor
<1>12. \A q \in registered : WaitsFor(c, q) BY <1>4 DEF WaitsFor
<1>13. registered' \subseteq registered /\ UNCHANGED <<boxVars, nextHandle, observed>> BY <1>2
<1>14. QED BY <1>2, <1>4, <1>5, <1>6, <1>7, <1>8, <1>9, <1>10, <1>11, <1>12, <1>13, TableMoves

\* closeRuntimes goes on from one of its last stages to the next, over all it took.
LEMMA ClosingMoves ==
  ASSUME HandleInv, NEW t \in Thread, NEW stage \in {"join_all", "free"}, GoTo(t, stage),
         javaCall[t].stage \in {"stop_all", "join_all"},
         UNCHANGED <<lockVars, boxVars, registryVars, statusVars>>,
         proxies' = [q \in Proxy |-> proxies'[q]],
         \A q \in Proxy : IsProxy(proxies'[q]) /\ (proxies[q].stopped => proxies'[q].stopped),
         stage = "free" => \A q \in Proxy : WaitsFor(javaCall[t], q) => proxies'[q].stopped
  PROVE  HandleInv'
<1>1. PICK c : c = [javaCall[t] EXCEPT !.stage = stage] OBVIOUS
<1>2. /\ c \in JavaCallRecord /\ c.op = javaCall[t].op /\ c.stage = stage /\ c.todo = javaCall[t].todo
      /\ c.proxy = javaCall[t].proxy /\ c.runtime = javaCall[t].runtime
  BY <1>1, CallNow, StageMoves DEF JavaStages
<1>3. /\ UNCHANGED <<readers, writer, boxVars, nextHandle, registered, observed, delivered>>
      /\ javaCall' = [javaCall EXCEPT ![t] = c]
  BY <1>1 DEF GoTo, lockVars, registryVars, statusVars
<1>4. /\ Proxy' = Proxy /\ Len(proxies') = Len(proxies) /\ (\E S : proxies' \in Seq(S))
      /\ \A q \in Proxy' : IsProxy(proxies'[q])
  BY TableStays, CallNow
<1>5. delivered' \in Seq([Host -> Delivery]) /\ Len(delivered') = Len(delivered) BY <1>3, CallNow
<1>6. ClosesAll(c) => t \in writer' BY <1>3, CallNow DEF ClosesAll
<1>7. ~HoldsLock(c) BY <1>2 DEF HoldsLock
<1>8. CallOk(javaCall[t], runtime, registered, Proxy) BY CallNow
<1>9. CallOk(c, runtime, registered', Proxy) BY <1>2, <1>3, <1>7, <1>8 DEF CallOk
<1>10. \A q \in Proxy : WaitsFor(javaCall[t], q) => proxies'[q].stopped \/ WaitsFor(c, q)
  BY <1>2 DEF WaitsFor
<1>11. registered' \subseteq registered /\ registered \ registered' = {} BY <1>3
<1>12. QED BY <1>2, <1>3, <1>4, <1>5, <1>6, <1>7, <1>9, <1>10, <1>11, TableMoves

\* It deactivates and asks each of them.
LEMMA StopAllKeeps ==
  ASSUME HandleInv, NEW t \in Thread, StopAll(t)
  PROVE  HandleInv'
<1>1. proxies' = [q \in Proxy |-> proxies'[q]] BY DEF StopAll
<1>2. ASSUME NEW q \in Proxy PROVE IsProxy(proxies'[q]) /\ (proxies[q].stopped => proxies'[q].stopped)
  <2>1. IsProxy(proxies[q]) BY CallNow DEF JavaState
  <2>2. CASE proxies'[q] = proxies[q] BY <2>1, <2>2
  <2>3. CASE proxies'[q] = [Deactivated(proxies[q]) EXCEPT !.stopping = TRUE]
    <3>1. PICK d : d = Deactivated(proxies[q]) OBVIOUS
    <3>2. IsProxy(d) /\ d.stopped = proxies[q].stopped BY <2>1, <3>1, DeactivatedProxy
    <3>3. QED BY <2>3, <3>1, <3>2, StoppingProxy
  <2>4. QED BY <2>2, <2>3 DEF StopAll
<1>3. QED BY <1>1, <1>2, ClosingMoves DEF StopAll, At

\* It waits for each of them.
LEMMA JoinAllKeeps ==
  ASSUME HandleInv, NEW t \in Thread, JoinAll(t)
  PROVE  HandleInv'
<1>1. proxies' = [q \in Proxy |-> proxies'[q]] BY DEF JoinAll
<1>2. javaCall[t].stage = "join_all" BY DEF JoinAll, At
<1>3. ASSUME NEW q \in Proxy
      PROVE  /\ IsProxy(proxies'[q]) /\ (proxies[q].stopped => proxies'[q].stopped)
             /\ WaitsFor(javaCall[t], q) => proxies'[q].stopped
  <2>1. IsProxy(proxies[q]) BY CallNow DEF JavaState
  <2>2. CASE q \notin javaCall[t].todo
    <3>1. proxies'[q] = proxies[q] BY <2>2 DEF JoinAll
    <3>2. ~WaitsFor(javaCall[t], q) BY <1>2, <2>2 DEF WaitsFor
    <3>3. QED BY <2>1, <3>1, <3>2
  <2>3. CASE q \in javaCall[t].todo
    <3>1. PICK d : d = [proxies[q] EXCEPT !.stopped = TRUE] OBVIOUS
    <3>2. PICK V, L : proxies[q] \in ProxyRecord(V, L) BY <2>1 DEF IsProxy
    <3>3. d.stopped BY <3>1, <3>2 DEF ProxyRecord
    <3>4. IsProxy(d) BY <2>1, <3>1, StoppingProxy
    <3>5. proxies'[q] = d BY <2>3, <3>1 DEF JoinAll
    <3>6. QED BY <3>3, <3>4, <3>5
  <2>4. QED BY <2>2, <2>3
<1>4. QED BY <1>1, <1>2, <1>3, ClosingMoves DEF JoinAll

\* No other call is in a block or owns a runtime while closeRuntimes holds the lock.
LEMMA Alone ==
  ASSUME HandleInv, NEW t \in Thread, HoldsLock(javaCall[t]) \/ ClosesAll(javaCall[t])
  PROVE  \A s \in Thread : s # t =>
           /\ ~ClosesAll(javaCall[s])
           /\ HoldsLock(javaCall[s]) => ~ClosesAll(javaCall[t])
  BY DEF HandleInv, LocksInv

\* It frees the runtime, with no reader and no proxy left.
LEMMA FreeRuntimesKeeps ==
  ASSUME HandleInv, NEW t \in Thread, FreeRuntimes(t)
  PROVE  HandleInv'
<1>1. /\ javaCall[t].stage = "free" /\ freed' = freed \cup ({runtime} \ {0}) /\ runtime' = 0 /\ Unlock(t)
      /\ javaCall' = [javaCall EXCEPT ![t] = JavaIdle]
      /\ UNCHANGED <<created, proxies, nextHandle, registered, observed, delivered>>
  BY DEF FreeRuntimes, At, JavaReturn, registryVars, statusVars
<1>2. ClosesAll(javaCall[t]) /\ \A q : ~WaitsFor(javaCall[t], q) BY <1>1 DEF ClosesAll, WaitsFor
<1>3. \A s \in Thread : s # t => ~ClosesAll(javaCall[s]) /\ ~HoldsLock(javaCall[s]) BY <1>2, Alone
<1>4. registered = {} BY <1>1, CallNow DEF CallOk
<1>5. /\ javaCall'[t] = JavaIdle /\ \A s \in Thread : s # t => javaCall'[s] = javaCall[s]
      /\ javaCall' \in [Thread -> JavaCallRecord]
  BY <1>1, CallMoves, IdleIsRecord DEF HandleInv, JavaState
<1>6. ~HoldsLock(JavaIdle) /\ ~ClosesAll(JavaIdle) BY IdleIsOk
<1>7. LocksInv' /\ readers' \subseteq readers /\ writer' \subseteq writer
  BY <1>1, <1>6, IdleIsRecord, LockStays
<1>8. Proxy' = Proxy BY <1>1 DEF Proxy
<1>9. BoxInv'
  <2>1. runtime \in 0..created /\ created \in 0..MaxRuntimes /\ freed \subseteq 1..created
    BY DEF HandleInv, BoxInv, JavaState
  <2>2. QED BY <1>1, <1>4, <2>1, AndroidAssumption DEF BoxInv
<1>10. JavaState'
  <2>1. freed' \subseteq 1..created' /\ runtime' \in 0..MaxRuntimes
    <3>1. runtime \in 0..created /\ created \in 0..MaxRuntimes /\ freed \subseteq 1..created /\ MaxRuntimes \in Nat
      BY AndroidAssumption DEF HandleInv, BoxInv, JavaState
    <3>2. QED BY <1>1, <3>1
  <2>2. readers' \subseteq Thread /\ writer' \subseteq Thread BY <1>7 DEF HandleInv, JavaState
  <2>3. /\ (\E S : proxies' \in Seq(S)) /\ \A p \in Proxy' : IsProxy(proxies'[p])
    BY <1>1, TableSame, CallNow
  <2>4. Len(delivered') = Len(proxies') BY <1>1 DEF HandleInv, JavaState
  <2>5. QED BY <1>1, <1>4, <1>5, <2>1, <2>2, <2>3, <2>4 DEF HandleInv, JavaState
<1>11. \A s \in Thread : CallOk(javaCall'[s], runtime', registered', Proxy')
  <2>1. TAKE s \in Thread
  <2>2. CASE s = t BY <1>5, <2>2, IdleIsOk
  <2>3. CASE s # t
    <3>1. CallOk(javaCall[s], runtime, registered, Proxy) BY CallNow
    <3>2. javaCall'[s] = javaCall[s] /\ ~HoldsLock(javaCall[s]) BY <1>3, <1>5, <2>3
    <3>3. QED BY <1>1, <1>8, <3>1, <3>2 DEF CallOk
  <2>4. QED BY <2>2, <2>3
<1>12. CoverInv' BY <1>1, <1>2, <1>5, <1>8 DEF HandleInv, CoverInv
<1>13. QED BY <1>7, <1>9, <1>10, <1>11, <1>12 DEF HandleInv

\* Calls that answer and let the lock go.
LEMMA ReturnedKeeps ==
  ASSUME HandleInv, NEW t \in Thread,
         \/ UseRuntime(t) \/ StatusBundleFails(t) \/ MatchesLocalCertificate(t)
  PROVE  HandleInv'
<1>1. CASE UseRuntime(t) BY <1>1, JavaReturnKeeps DEF UseRuntime, At
<1>2. CASE StatusBundleFails(t) BY <1>2, JavaReturnKeeps DEF StatusBundleFails, At, lockVars
<1>3. CASE MatchesLocalCertificate(t) BY <1>3, JavaReturnKeeps DEF MatchesLocalCertificate, At, lockVars
<1>4. QED BY <1>1, <1>2, <1>3

\* A table one longer.
LEMMA TableGrows ==
  ASSUME JavaState, NEW d, IsProxy(d), proxies' = Append(proxies, d),
         NEW e \in [Host -> Delivery], delivered' = Append(delivered, e)
  PROVE  /\ Proxy' = Proxy \cup {Len(proxies) + 1} /\ \E S : proxies' \in Seq(S)
         /\ \A q \in Proxy' : IsProxy(proxies'[q])
         /\ Len(proxies) \in Nat /\ Len(proxies) + 1 \notin Proxy /\ Proxy \subseteq Nat
         /\ proxies'[Len(proxies) + 1] = d /\ \A q \in Proxy : proxies'[q] = proxies[q]
         /\ delivered' \in Seq([Host -> Delivery]) /\ Len(delivered') = Len(proxies')
         /\ delivered'[Len(proxies) + 1] = e /\ \A q \in Proxy : delivered'[q] = delivered[q]
<1>1. PICK f : f = proxies OBVIOUS
<1>2. PICK S : f \in Seq(S) BY <1>1 DEF JavaState
<1>3. PICK n \in Nat : n = Len(f) BY <1>2
<1>4. f \in Seq(S \cup {d}) /\ DOMAIN f = 1..n BY <1>2, <1>3
<1>5. PICK g : g = Append(f, d) OBVIOUS
<1>6. /\ g \in Seq(S \cup {d}) /\ Len(g) = n + 1 /\ DOMAIN g = 1..(n + 1) /\ g[n + 1] = d
      /\ \A q \in 1..n : g[q] = f[q]
  BY <1>3, <1>4, <1>5
<1>7. Proxy = 1..n /\ Proxy' = 1..(n + 1) BY <1>1, <1>4, <1>5, <1>6 DEF Proxy
<1>8. \A q \in Proxy : IsProxy(proxies[q]) BY DEF JavaState
<1>9. \A q \in Proxy' : IsProxy(proxies'[q])
  <2>1. TAKE q \in Proxy'
  <2>2. CASE q = n + 1 BY <1>1, <1>5, <1>6, <2>2
  <2>3. CASE q # n + 1 BY <1>1, <1>3, <1>5, <1>6, <1>7, <1>8, <2>3
  <2>4. QED BY <2>2, <2>3
<1>10. delivered \in Seq([Host -> Delivery]) /\ Len(delivered) = n BY <1>1, <1>3 DEF JavaState
<1>11. /\ delivered' \in Seq([Host -> Delivery]) /\ Len(delivered') = n + 1
       /\ delivered'[n + 1] = e /\ \A q \in 1..n : delivered'[q] = delivered[q]
  BY <1>3, <1>10
<1>12. QED BY <1>1, <1>3, <1>5, <1>6, <1>7, <1>9, <1>11

\* A proxy is started under the lock, and registered or stopped at once.
LEMMA StartProxyKeeps ==
  ASSUME HandleInv, NEW t \in Thread, NativeStartProxy(t)
  PROVE  HandleInv'
<1>1. javaCall[t].stage = "start" /\ UNCHANGED <<boxVars, observed>> BY DEF NativeStartProxy, At
<1>2. CASE Unlock(t) /\ JavaReturn(t) /\ UNCHANGED <<proxies, registryVars, delivered>>
  BY <1>1, <1>2, JavaReturnKeeps DEF statusVars
<1>3. CASE /\ proxies' = Append(proxies, NewProxy)
           /\ delivered' = Append(delivered, [x \in Host |-> Undelivered])
           /\ nextHandle' = IF nextHandle <= MaxHandle THEN nextHandle + 1 ELSE nextHandle
           /\ registered' = IF Registers THEN registered \cup {Len(proxies) + 1} ELSE registered
           /\ javaCall' = [javaCall EXCEPT ![t].proxy = Len(proxies) + 1,
                                           ![t].stage = IF Registers THEN "bundle" ELSE "join"]
           /\ UNCHANGED lockVars
  <2>1. PICK q : q = Len(proxies) + 1 OBVIOUS
  <2>2. PICK d : d = NewProxy OBVIOUS
  <2>3. IsProxy(d) BY <2>2, FreshProxy, CallNow
  <2>4. PICK e \in [Host -> Delivery] : e = [x \in Host |-> Undelivered] BY DEF Undelivered, Delivery
  <2>5. /\ Proxy' = Proxy \cup {q} /\ (\E S : proxies' \in Seq(S)) /\ (\A r \in Proxy' : IsProxy(proxies'[r]))
        /\ q \in Nat /\ q \notin Proxy /\ Proxy \subseteq Nat /\ \A r \in Proxy : proxies'[r] = proxies[r]
        /\ delivered' \in Seq([Host -> Delivery]) /\ Len(delivered') = Len(proxies')
    <3>1. proxies' = Append(proxies, d) /\ delivered' = Append(delivered, e) BY <1>3, <2>2, <2>4
    <3>2. JavaState BY CallNow
    <3>3. /\ Proxy' = Proxy \cup {Len(proxies) + 1} /\ \E S : proxies' \in Seq(S)
          /\ \A r \in Proxy' : IsProxy(proxies'[r])
          /\ Len(proxies) \in Nat /\ Len(proxies) + 1 \notin Proxy /\ Proxy \subseteq Nat
          /\ \A r \in Proxy : proxies'[r] = proxies[r]
          /\ delivered' \in Seq([Host -> Delivery]) /\ Len(delivered') = Len(proxies')
      BY <2>3, <3>1, <3>2, TableGrows
    <3>4. QED BY <2>1, <3>3
  <2>6. PICK stage \in {"bundle", "join"} : stage = IF Registers THEN "bundle" ELSE "join" OBVIOUS
  <2>7. PICK c : c = [javaCall[t] EXCEPT !.proxy = q, !.stage = stage] OBVIOUS
  <2>8. /\ c \in JavaCallRecord /\ c.op = javaCall[t].op /\ c.stage = stage /\ c.todo = javaCall[t].todo
        /\ c.proxy = q /\ c.runtime = javaCall[t].runtime
    BY <2>5, <2>6, <2>7, CallNow DEF JavaCallRecord, JavaStages
  <2>9. javaCall' = [javaCall EXCEPT ![t] = c] BY <1>3, <2>1, <2>6, <2>7
  <2>10. UNCHANGED <<runtime, created, freed, readers, writer, observed>> BY <1>1, <1>3 DEF boxVars, lockVars
  <2>11. /\ javaCall'[t] = c /\ \A s \in Thread : s # t => javaCall'[s] = javaCall[s]
         /\ javaCall' \in [Thread -> JavaCallRecord]
    BY <2>8, <2>9, CallMoves DEF HandleInv, JavaState
  <2>12. CallOk(javaCall[t], runtime, registered, Proxy) BY CallNow
  <2>13. HoldsLock(javaCall[t]) /\ javaCall[t].op = "start" BY <1>1, <2>12 DEF HoldsLock, CallOk
  <2>14. registered' \subseteq Proxy' /\ registered \subseteq registered' BY <1>3, <2>1, <2>5, CallNow DEF JavaState
  <2>15. q \in registered' \/ stage = "join" BY <1>3, <2>1, <2>6
  <2>16. nextHandle' \in 1..(MaxHandle + 1)
    <3>1. nextHandle \in 1..(MaxHandle + 1) /\ MaxHandle \in Nat BY AndroidAssumption, CallNow DEF JavaState
    <3>2. QED BY <1>3, <3>1
  <2>17. JavaState' BY <2>5, <2>10, <2>11, <2>14, <2>16, CallNow DEF JavaState
  <2>18. ~ClosesAll(c) BY <2>6, <2>8 DEF ClosesAll
  <2>19. LocksInv'
    <3>1. HoldsLock(c) => t \in readers' \cup writer' BY <2>10, <2>13, CallNow
    <3>2. QED BY <2>8, <2>9, <2>10, <2>18, <3>1, LockStays
  <2>20. runtime # 0 BY <2>12, <2>13 DEF CallOk
  <2>21. BoxInv' BY <2>10, <2>20 DEF HandleInv, BoxInv
  <2>22. \A s \in Thread : CallOk(javaCall'[s], runtime', registered', Proxy')
    <3>1. TAKE s \in Thread
    <3>2. CASE s = t
      <4>1. CallOk(c, runtime', registered', Proxy')
        BY <2>5, <2>6, <2>8, <2>10, <2>12, <2>13 DEF CallOk
      <4>2. QED BY <2>11, <3>2, <4>1
    <3>3. CASE s # t
      <4>1. CallOk(javaCall[s], runtime, registered, Proxy) BY CallNow
      <4>2. javaCall'[s] = javaCall[s] /\ ~ClosesAll(javaCall[s]) BY <2>11, <2>13, <3>3, Alone
      <4>3. javaCall[s].stage \notin {"stop_all", "join_all", "free"} BY <4>2 DEF ClosesAll
      <4>4. QED BY <2>5, <2>10, <4>1, <4>2, <4>3 DEF CallOk
    <3>4. QED BY <3>2, <3>3
  <2>23. ASSUME NEW r \in Proxy'
         PROVE  proxies'[r].stopped \/ r \in registered' \/ \E s \in Thread : WaitsFor(javaCall'[s], r)
    <3>1. CASE r = q
      <4>1. stage = "join" => WaitsFor(c, q) BY <2>8 DEF WaitsFor
      <4>2. QED BY <2>11, <2>15, <3>1, <4>1
    <3>2. CASE r # q
      <4>1. r \in Proxy /\ proxies'[r] = proxies[r] BY <2>5, <3>2
      <4>2. proxies[r].stopped \/ r \in registered \/ \E s \in Thread : WaitsFor(javaCall[s], r)
        BY <4>1 DEF HandleInv, CoverInv
      <4>3. ~WaitsFor(javaCall[t], r) BY <1>1 DEF WaitsFor
      <4>4. QED BY <2>11, <2>14, <4>1, <4>2, <4>3
    <3>3. QED BY <3>1, <3>2
  <2>24. CoverInv' BY <2>23 DEF CoverInv
  <2>25. QED BY <2>17, <2>19, <2>21, <2>22, <2>24 DEF HandleInv
<1>4. QED BY <1>2, <1>3 DEF NativeStartProxy

\* peek_matching reads the newest status of a host.
LEMMA PeekMatchingKeeps ==
  ASSUME HandleInv, NEW t \in Thread, PeekMatching(t)
  PROVE  HandleInv'
<1>1. /\ javaCall[t].stage = "peek"
      /\ UNCHANGED <<readers, writer, boxVars, proxies, registryVars, observed, delivered>>
  BY DEF PeekMatching, At, lockVars, statusVars
<1>2. PICK p : p = javaCall[t].proxy OBVIOUS
<1>3. CallOk(javaCall[t], runtime, registered, Proxy) BY CallNow
<1>4. p \in Proxy BY <1>1, <1>2, <1>3 DEF CallOk
<1>5. PICK x \in Host :
        IF proxies[p].active /\ x \in DOMAIN proxies[p].latest
        THEN javaCall' = [javaCall EXCEPT ![t].host = x, ![t].pending = proxies[p].latest[x],
                                          ![t].epoch = proxies[p].epoch, ![t].stage = "acknowledge"]
        ELSE JavaReturn(t)
  BY <1>2 DEF PeekMatching
<1>6. CASE JavaReturn(t) BY <1>1, <1>6, JavaReturnKeeps DEF statusVars
<1>7. CASE x \in DOMAIN proxies[p].latest /\ ~JavaReturn(t)
  <2>1. IsProxy(proxies[p]) BY <1>4, CallNow DEF JavaState
  <2>2. PICK pending \in Status : pending = proxies[p].latest[x] BY <1>7, <2>1 DEF IsProxy
  <2>3. PICK epoch \in Nat : epoch = proxies[p].epoch BY <2>1 DEF IsProxy, ProxyRecord
  <2>4. PICK c : c = [javaCall[t] EXCEPT !.host = x, !.pending = pending, !.epoch = epoch, !.stage = "acknowledge"]
    OBVIOUS
  <2>5. /\ c \in JavaCallRecord /\ c.op = javaCall[t].op /\ c.stage = "acknowledge" /\ c.todo = javaCall[t].todo
        /\ c.proxy = p /\ c.runtime = javaCall[t].runtime
    BY <1>2, <2>4, CallNow DEF JavaCallRecord, JavaStages
  <2>6. javaCall' = [javaCall EXCEPT ![t] = c] BY <1>5, <1>7, <2>2, <2>3, <2>4
  <2>7. delivered' \in Seq([Host -> Delivery]) /\ Len(delivered') = Len(delivered) BY <1>1, CallNow
  <2>8. ~HoldsLock(c) /\ ~ClosesAll(c) BY <2>5 DEF HoldsLock, ClosesAll
  <2>9. c.todo \subseteq Proxy BY <1>3, <2>5 DEF CallOk
  <2>10. QED BY <1>1, <1>4, <2>5, <2>6, <2>7, <2>8, <2>9, OnlyCallMoves
<1>8. QED BY <1>5, <1>6, <1>7

\* What acknowledge_matching leaves of a proxy.
Acknowledged(r, x) == [r EXCEPT !.retained = @ - r.latest[x].trace,
                                !.latest = [y \in DOMAIN r.latest \ {x} |-> r.latest[y]]]

\* acknowledge takes one host out of the mailbox.
LEMMA AcknowledgedProxy ==
  ASSUME NEW r, IsProxy(r), NEW x
  PROVE  LET d == Acknowledged(r, x)
         IN  /\ IsProxy(d) /\ DOMAIN d.latest = DOMAIN r.latest \ {x} /\ d.stopped = r.stopped
             /\ \A y \in DOMAIN d.latest : d.latest[y] = r.latest[y]
             /\ d.epoch = r.epoch /\ d.next = r.next
<1>1. PICK V, L : r \in ProxyRecord(V, L) BY DEF IsProxy
<1>2. PICK latest : latest = [y \in DOMAIN r.latest \ {x} |-> r.latest[y]] OBVIOUS
<1>3. PICK retained : retained = r.retained - r.latest[x].trace OBVIOUS
<1>4. PICK d : d = Acknowledged(r, x) OBVIOUS
<1>5. d = [r EXCEPT !.retained = retained, !.latest = latest]
  BY <1>1, <1>2, <1>3, <1>4 DEF Acknowledged, ProxyRecord
<1>6. /\ d \in ProxyRecord({retained}, {latest}) /\ d.latest = latest /\ d.stopped = r.stopped
      /\ d.epoch = r.epoch /\ d.next = r.next
  BY <1>1, <1>5 DEF ProxyRecord
<1>7. DOMAIN latest = DOMAIN r.latest \ {x} /\ \A y \in DOMAIN latest : latest[y] = r.latest[y] BY <1>2
<1>8. IsProxy(d) BY <1>6, <1>7 DEF IsProxy
<1>9. QED BY <1>4, <1>6, <1>7, <1>8

\* acknowledge_matching, under the lock of the mailbox.
LEMMA AcknowledgeKeeps ==
  ASSUME HandleInv, NEW t \in Thread, AcknowledgeMatching(t)
  PROVE  HandleInv'
<1>1. /\ javaCall[t].stage = "acknowledge" /\ JavaReturn(t)
      /\ UNCHANGED <<readers, writer, boxVars, nextHandle, registered, observed>>
  BY DEF AcknowledgeMatching, At, lockVars, registryVars
<1>2. PICK p : p = javaCall[t].proxy OBVIOUS
<1>3. p \in Proxy BY <1>1, <1>2, CallNow DEF CallOk
<1>4. PICK x : x = javaCall[t].host OBVIOUS
<1>5. CASE UNCHANGED <<proxies, delivered>>
  BY <1>1, <1>5, JavaReturnKeeps DEF registryVars, statusVars
<1>6. CASE /\ Acknowledges(proxies[p], x, javaCall[t].pending)
           /\ proxies' = [proxies EXCEPT ![p] = Acknowledged(proxies[p], x)]
           /\ delivered' = IF javaCall[t].op # "take" THEN delivered
                           ELSE [delivered EXCEPT ![p][x] =
                             [seq |-> javaCall[t].pending.seq, removed |-> proxies[p].latest[x].seq,
                              wrapped |-> proxies[p].epoch # javaCall[t].epoch]]
  <2>1. IsProxy(proxies[p]) BY <1>3, CallNow DEF JavaState
  <2>2. x \in Host BY <1>6, <2>1 DEF Acknowledges, IsProxy
  <2>3. PICK d : d = Acknowledged(proxies[p], x) OBVIOUS
  <2>4. IsProxy(d) /\ d.stopped = proxies[p].stopped BY <2>1, <2>3, AcknowledgedProxy
  <2>5. /\ Proxy' = Proxy /\ Len(proxies') = Len(proxies) /\ (\E S : proxies' \in Seq(S))
        /\ \A q \in Proxy' : IsProxy(proxies'[q])
        /\ \A q \in Proxy : proxies[q].stopped => proxies'[q].stopped
    BY <1>3, <1>6, <2>3, <2>4, ProxyMoves, CallNow
  <2>6. delivered' \in Seq([Host -> Delivery]) /\ Len(delivered') = Len(delivered)
    <3>1. PICK e : e = [seq |-> javaCall[t].pending.seq, removed |-> proxies[p].latest[x].seq,
                        wrapped |-> proxies[p].epoch # javaCall[t].epoch]
      OBVIOUS
    <3>2. e \in Delivery
      <4>1. javaCall[t].pending.seq \in Nat BY CallNow DEF JavaCallRecord, Status
      <4>2. proxies[p].latest[x].seq \in Nat BY <1>6, <2>1 DEF Acknowledges, IsProxy, Status
      <4>3. QED BY <3>1, <4>1, <4>2 DEF Delivery
    <3>3. delivered' = delivered \/ delivered' = [delivered EXCEPT ![p][x] = e] BY <1>6, <3>1
    <3>4. QED BY <2>2, <3>2, <3>3, CallNow
  <2>7. CallOk(JavaIdle, runtime, registered', Proxy) /\ ~HoldsLock(JavaIdle) /\ ~ClosesAll(JavaIdle) BY IdleIsOk
  <2>8. \A q : ~WaitsFor(javaCall[t], q) BY <1>1 DEF WaitsFor
  <2>9. registered' \subseteq registered /\ registered \ registered' = {} BY <1>1
  <2>10. javaCall' = [javaCall EXCEPT ![t] = JavaIdle] BY <1>1 DEF JavaReturn
  <2>11. QED BY <1>1, <2>5, <2>6, <2>7, <2>8, <2>9, <2>10, IdleIsRecord, TableMoves
<1>7. QED BY <1>2, <1>4, <1>5, <1>6 DEF AcknowledgeMatching, Acknowledged

\* The observer of a proxy records a status.
LEMMA ObserveStatusKeeps ==
  ASSUME HandleInv, NEW p \in Proxy, ObserveStatus(p)
  PROVE  HandleInv'
<1>1. /\ observed' = observed + 1
      /\ UNCHANGED <<readers, writer, runtime, created, freed, nextHandle, registered, delivered, javaCall>>
  BY DEF ObserveStatus, lockVars, boxVars, registryVars
<1>2. PICK x \in Host, size \in 0..(MaxTrace + 1) :
        proxies' = [proxies EXCEPT ![p] = Recorded(proxies[p], x, observed + 1, size)]
  BY DEF ObserveStatus
<1>3. JavaState BY DEF HandleInv
<1>4. IsProxy(proxies[p]) /\ observed + 1 \in Nat BY <1>3 DEF JavaState
<1>5. PICK d : d = Recorded(proxies[p], x, observed + 1, size) OBVIOUS
<1>6. IsProxy(d) /\ d.stopped = proxies[p].stopped BY <1>4, <1>5, RecordedProxy
<1>7. /\ Proxy' = Proxy /\ Len(proxies') = Len(proxies) /\ (\E S : proxies' \in Seq(S))
      /\ \A q \in Proxy' : IsProxy(proxies'[q])
      /\ \A q \in Proxy : proxies[q].stopped => proxies'[q].stopped
  BY <1>2, <1>3, <1>5, <1>6, ProxyMoves
<1>8. JavaState' BY <1>1, <1>3, <1>4, <1>7 DEF JavaState
<1>9. LocksInv' /\ BoxInv' BY <1>1 DEF HandleInv, LocksInv, BoxInv
<1>10. CoverInv' BY <1>1, <1>7 DEF HandleInv, CoverInv
<1>11. \A s \in Thread : CallOk(javaCall'[s], runtime', registered', Proxy') BY <1>1, <1>7 DEF HandleInv
<1>12. QED BY <1>8, <1>9, <1>10, <1>11 DEF HandleInv

\* What a take or discard read is still what its number names, until the
\* numbering starts again.
StillNamed(c, r, reports) ==
  c.stage = "acknowledge" =>
    /\ c.pending.seq <= reports /\ c.epoch <= r.epoch
    /\ c.epoch = r.epoch =>
         /\ c.pending.sequence <= r.next
         /\ c.host \in DOMAIN r.latest /\ r.latest[c.host].sequence = c.pending.sequence =>
              r.latest[c.host].seq = c.pending.seq

\* A status kept for a host is newer than the one delivered last, and what was
\* delivered is what was removed.
StatusInv ==
  /\ \A p \in Proxy : \A x \in DOMAIN proxies[p].latest :
       proxies[p].latest[x].seq <= observed /\ proxies[p].latest[x].seq > delivered[p][x].seq
  /\ \A p \in Proxy, x \in Host :
       /\ delivered[p][x].seq <= observed
       /\ delivered[p][x].wrapped \/ delivered[p][x].seq = delivered[p][x].removed
  /\ \A t \in Thread : StillNamed(javaCall[t], proxies[javaCall[t].proxy], observed)

\* A mailbox that only loses statuses.
Loses(r, s) ==
  /\ s.epoch = r.epoch /\ s.next = r.next
  /\ DOMAIN s.latest \subseteq DOMAIN r.latest /\ \A x \in DOMAIN s.latest : s.latest[x] = r.latest[x]

\* A mailbox that stays loses nothing.
LEMMA LosesItself == \A r : Loses(r, r) BY DEF Loses

\* Steps that record no status and hold none to acknowledge.
LEMMA StatusQuiet ==
  ASSUME HandleInv, StatusInv, UNCHANGED <<observed, delivered>>, Proxy' = Proxy,
         \A p \in Proxy : Loses(proxies[p], proxies'[p]),
         \A s \in Thread : javaCall'[s].stage = "acknowledge" => javaCall'[s] = javaCall[s]
  PROVE  StatusInv'
<1>1. ASSUME NEW p \in Proxy'
      PROVE  \A x \in DOMAIN proxies'[p].latest :
               /\ proxies'[p].latest[x].seq <= observed'
               /\ proxies'[p].latest[x].seq > delivered'[p][x].seq
  <2>1. p \in Proxy BY <1>1
  <2>2. Loses(proxies[p], proxies'[p]) BY <2>1
  <2>3. QED BY <2>1, <2>2 DEF StatusInv, Loses
<1>2. \A p \in Proxy', x \in Host :
        /\ delivered'[p][x].seq <= observed'
        /\ delivered'[p][x].wrapped \/ delivered'[p][x].seq = delivered'[p][x].removed
  BY DEF StatusInv
<1>3. ASSUME NEW s \in Thread
      PROVE  StillNamed(javaCall'[s], proxies'[javaCall'[s].proxy], observed')
  <2>1. CASE javaCall'[s].stage # "acknowledge" BY <2>1 DEF StillNamed
  <2>2. CASE javaCall'[s].stage = "acknowledge"
    <3>1. PICK c : c = javaCall[s] OBVIOUS
    <3>2. javaCall'[s] = c /\ c.stage = "acknowledge" BY <2>2, <3>1
    <3>3. c.proxy \in Proxy BY <3>1, <3>2, CallNow DEF CallOk
    <3>4. PICK p \in Proxy : p = c.proxy BY <3>3
    <3>5. StillNamed(c, proxies[p], observed) BY <3>1, <3>4 DEF StatusInv
    <3>6. Loses(proxies[p], proxies'[p]) OBVIOUS
    <3>7. StillNamed(c, proxies'[p], observed) BY <3>5, <3>6 DEF StillNamed, Loses
    <3>8. QED BY <3>2, <3>4, <3>7
  <2>3. QED BY <2>1, <2>2
<1>4. QED BY <1>1, <1>2, <1>3 DEF StatusInv

\* A thread that leaves its place, for one where no status is held.
LEMMA LeavesPlace ==
  ASSUME HandleInv, NEW t \in Thread, NEW c, javaCall' = [javaCall EXCEPT ![t] = c],
         c.stage # "acknowledge"
  PROVE  \A s \in Thread : javaCall'[s].stage = "acknowledge" => javaCall'[s] = javaCall[s]
<1>1. javaCall \in [Thread -> JavaCallRecord] BY DEF HandleInv, JavaState
<1>2. QED BY <1>1

\* A call goes on to another place, and the mailboxes stay.
LEMMA PlainStatus ==
  ASSUME HandleInv, StatusInv, NEW t \in Thread, NEW c, javaCall' = [javaCall EXCEPT ![t] = c],
         c.stage # "acknowledge", UNCHANGED <<observed, delivered, proxies>>
  PROVE  StatusInv'
<1>1. Proxy' = Proxy BY DEF Proxy
<1>2. \A p \in Proxy : Loses(proxies[p], proxies'[p]) BY LosesItself
<1>3. QED BY <1>1, <1>2, LeavesPlace, StatusQuiet

\* The call goes on.
LEMMA GoToStatus ==
  ASSUME HandleInv, NEW t \in Thread, NEW stage, stage # "acknowledge", GoTo(t, stage)
  PROVE  \E c : javaCall' = [javaCall EXCEPT ![t] = c] /\ c.stage # "acknowledge"
<1>1. PICK c : c = [javaCall[t] EXCEPT !.stage = stage] OBVIOUS
<1>2. c.stage = stage BY <1>1, CallNow DEF JavaCallRecord
<1>3. QED BY <1>1, <1>2 DEF GoTo

\* The call returns.
LEMMA ReturnStatus ==
  ASSUME NEW t \in Thread, JavaReturn(t)
  PROVE  \E c : javaCall' = [javaCall EXCEPT ![t] = c] /\ c.stage # "acknowledge"
<1>1. JavaIdle.stage # "acknowledge" BY DEF JavaIdle
<1>2. QED BY <1>1 DEF JavaReturn

\* Calls that begin or move on without a word to the mailbox.
LEMMA BeginStatus ==
  ASSUME HandleInv, StatusInv, NEW t \in Thread, NEW op, NEW stage, stage # "acknowledge",
         WithRuntime(t, op) \/ OnProxy(t, op, stage) \/ CloseRuntimes(t)
  PROVE  StatusInv'
<1>1. UNCHANGED <<observed, delivered, proxies>> BY DEF WithRuntime, OnProxy, CloseRuntimes, statusVars
<1>2. [JavaIdle EXCEPT !.op = op, !.stage = "read"].stage # "acknowledge" BY DEF JavaIdle
<1>3. [JavaIdle EXCEPT !.op = "close", !.stage = "drain"].stage # "acknowledge" BY DEF JavaIdle
<1>4. JavaIdle.stage # "acknowledge" BY DEF JavaIdle
<1>5. \A p : [JavaIdle EXCEPT !.op = op, !.stage = stage, !.proxy = p].stage # "acknowledge" BY DEF JavaIdle
<1>6. \E c : javaCall' = [javaCall EXCEPT ![t] = c] /\ c.stage # "acknowledge"
  <2>1. CASE WithRuntime(t, op) BY <1>2, <2>1 DEF WithRuntime
  <2>2. CASE CloseRuntimes(t) BY <1>3, <2>2 DEF CloseRuntimes
  <2>3. CASE OnProxy(t, op, stage)
    <3>1. PICK p \in Proxy :
            javaCall' = [javaCall EXCEPT ![t] = IF p \in registered
                     THEN [JavaIdle EXCEPT !.op = op, !.stage = stage, !.proxy = p] ELSE JavaIdle]
      BY <2>3 DEF OnProxy
    <3>2. QED BY <1>4, <1>5, <3>1
  <2>4. QED BY <2>1, <2>2, <2>3
<1>7. QED BY <1>1, <1>6, PlainStatus

\* Steps that touch no mailbox.
LEMMA PassStatus ==
  ASSUME HandleInv, StatusInv, NEW t \in Thread,
         \/ FindRuntime(t) \/ MakeRuntime(t) \/ UseRuntime(t) \/ EndpointBundle(t) \/ RemoveProxy(t)
         \/ DrainProxies(t) \/ FreeRuntimes(t) \/ StatusBundleFails(t) \/ MatchesLocalCertificate(t)
  PROVE  StatusInv'
<1>1. UNCHANGED <<observed, delivered, proxies>>
  BY DEF FindRuntime, MakeRuntime, UseRuntime, EndpointBundle, RemoveProxy, DrainProxies, FreeRuntimes,
         StatusBundleFails, MatchesLocalCertificate, statusVars
<1>2. javaCall[t] \in JavaCallRecord /\ CallOk(javaCall[t], runtime, registered, Proxy) BY CallNow
<1>3. javaCall[t].stage \in {"read", "write"} => javaCall[t].op # "acknowledge" BY <1>2 DEF CallOk
<1>4. \A box : [javaCall[t] EXCEPT !.runtime = box, !.stage = javaCall[t].op].stage = javaCall[t].op
  BY <1>2 DEF JavaCallRecord
<1>5. [javaCall[t] EXCEPT !.todo = registered, !.stage = "stop_all"].stage = "stop_all" BY <1>2 DEF JavaCallRecord
<1>6. \E c : javaCall' = [javaCall EXCEPT ![t] = c] /\ c.stage # "acknowledge"
  <2>1. CASE FindRuntime(t)
    <3>1. CASE GoTo(t, "write") BY <3>1, GoToStatus
    <3>2. CASE javaCall' = [javaCall EXCEPT ![t].runtime = runtime, ![t].stage = javaCall[t].op]
      <4>1. PICK c : c = [javaCall[t] EXCEPT !.runtime = runtime, !.stage = javaCall[t].op] OBVIOUS
      <4>2. javaCall' = [javaCall EXCEPT ![t] = c] BY <3>2, <4>1
      <4>3. QED BY <1>3, <1>4, <2>1, <4>1, <4>2 DEF FindRuntime, At
    <3>3. QED BY <2>1, <3>1, <3>2 DEF FindRuntime
  <2>2. CASE MakeRuntime(t)
    <3>1. CASE JavaReturn(t) BY <3>1, ReturnStatus
    <3>2. CASE \E box : javaCall' = [javaCall EXCEPT ![t].runtime = box, ![t].stage = javaCall[t].op]
      <4>1. PICK box : javaCall' = [javaCall EXCEPT ![t].runtime = box, ![t].stage = javaCall[t].op] BY <3>2
      <4>2. PICK c : c = [javaCall[t] EXCEPT !.runtime = box, !.stage = javaCall[t].op] OBVIOUS
      <4>3. javaCall' = [javaCall EXCEPT ![t] = c] BY <4>1, <4>2
      <4>4. QED BY <1>3, <1>4, <2>2, <4>2, <4>3 DEF MakeRuntime, At
    <3>3. QED BY <2>2, <3>1, <3>2 DEF MakeRuntime
  <2>3. CASE UseRuntime(t) \/ FreeRuntimes(t) \/ StatusBundleFails(t) \/ MatchesLocalCertificate(t)
    BY <2>3, ReturnStatus DEF UseRuntime, FreeRuntimes, StatusBundleFails, MatchesLocalCertificate
  <2>4. CASE EndpointBundle(t) BY <2>4, ReturnStatus, GoToStatus DEF EndpointBundle
  <2>5. CASE RemoveProxy(t) BY <2>5, ReturnStatus, GoToStatus DEF RemoveProxy
  <2>6. CASE DrainProxies(t)
    <3>1. PICK c : c = [javaCall[t] EXCEPT !.todo = registered, !.stage = "stop_all"] OBVIOUS
    <3>2. javaCall' = [javaCall EXCEPT ![t] = c] BY <2>6, <3>1 DEF DrainProxies
    <3>3. QED BY <1>5, <3>1, <3>2
  <2>7. QED BY <2>1, <2>2, <2>3, <2>4, <2>5, <2>6
<1>7. QED BY <1>1, <1>6, PlainStatus

\* A deactivated mailbox is empty.
LEMMA DeactivateStatus ==
  ASSUME HandleInv, StatusInv, NEW t \in Thread, DeactivateProxy(t)
  PROVE  StatusInv'
<1>1. UNCHANGED <<observed, delivered>> /\ javaCall[t].stage = "find" BY DEF DeactivateProxy, statusVars, At
<1>2. CASE JavaReturn(t) /\ UNCHANGED proxies BY <1>1, <1>2, ReturnStatus, PlainStatus
<1>3. CASE proxies' = [proxies EXCEPT ![javaCall[t].proxy] = Deactivated(@)] /\ GoTo(t, "request")
  <2>1. PICK p : p = javaCall[t].proxy OBVIOUS
  <2>2. p \in Proxy BY <1>1, <2>1, CallNow DEF CallOk
  <2>3. IsProxy(proxies[p]) BY <2>2, CallNow DEF JavaState
  <2>4. PICK d : d = Deactivated(proxies[p]) OBVIOUS
  <2>5. IsProxy(d) /\ DOMAIN d.latest = {} /\ d.epoch = proxies[p].epoch /\ d.next = proxies[p].next
    BY <2>3, <2>4, DeactivatedProxy
  <2>6. proxies' = [proxies EXCEPT ![p] = d] BY <1>3, <2>1, <2>4
  <2>7. Proxy' = Proxy /\ proxies'[p] = d /\ \A q \in Proxy : q # p => proxies'[q] = proxies[q]
    BY <2>2, <2>5, <2>6, ProxyMoves, CallNow
  <2>8. Loses(proxies[p], d) BY <2>5 DEF Loses
  <2>9. \A q \in Proxy : Loses(proxies[q], proxies'[q]) BY <2>7, <2>8, LosesItself
  <2>10. \A s \in Thread : javaCall'[s].stage = "acknowledge" => javaCall'[s] = javaCall[s]
    BY <1>3, GoToStatus, LeavesPlace
  <2>11. QED BY <1>1, <2>7, <2>9, <2>10, StatusQuiet
<1>4. QED BY <1>2, <1>3 DEF DeactivateProxy

\* A proxy whose flags change keeps its mailbox.
LEMMA FlagStatus ==
  ASSUME HandleInv, StatusInv, NEW t \in Thread, NEW d, javaCall[t].proxy \in Proxy,
         \/ d = [proxies[javaCall[t].proxy] EXCEPT !.stopping = TRUE]
         \/ d = [[proxies[javaCall[t].proxy] EXCEPT !.stopping = TRUE] EXCEPT !.stopped = TRUE],
         proxies' = [proxies EXCEPT ![javaCall[t].proxy] = d],
         UNCHANGED <<observed, delivered>>,
         NEW c, javaCall' = [javaCall EXCEPT ![t] = c], c.stage # "acknowledge"
  PROVE  StatusInv'
<1>1. PICK p \in Proxy : p = javaCall[t].proxy OBVIOUS
<1>2. IsProxy(proxies[p]) BY CallNow DEF JavaState
<1>3. /\ IsProxy(d) /\ d.latest = proxies[p].latest /\ d.epoch = proxies[p].epoch /\ d.next = proxies[p].next
  BY <1>1, <1>2, StoppingProxy
<1>4. proxies' = [proxies EXCEPT ![p] = d] BY <1>1
<1>5. Proxy' = Proxy /\ proxies'[p] = d /\ \A q \in Proxy : q # p => proxies'[q] = proxies[q]
  BY <1>3, <1>4, ProxyMoves, CallNow
<1>6. Loses(proxies[p], d) BY <1>3 DEF Loses
<1>7. \A q \in Proxy : Loses(proxies[q], proxies'[q]) BY <1>5, <1>6, LosesItself
<1>8. QED BY <1>5, <1>7, LeavesPlace, StatusQuiet

\* The flags of a stop leave the mailbox.
LEMMA StopStatus ==
  ASSUME HandleInv, StatusInv, NEW t \in Thread, RequestStop(t) \/ JoinProxy(t)
  PROVE  StatusInv'
<1>1. PICK p : p = javaCall[t].proxy OBVIOUS
<1>2. UNCHANGED <<observed, delivered>> /\ javaCall[t].stage \in {"request", "join"}
  BY DEF RequestStop, JoinProxy, At, statusVars
<1>3. p \in Proxy BY <1>1, <1>2, CallNow DEF CallOk
<1>4. \E c : javaCall' = [javaCall EXCEPT ![t] = c] /\ c.stage # "acknowledge"
  BY ReturnStatus, GoToStatus DEF RequestStop, JoinProxy
<1>5. PICK f : f = proxies OBVIOUS
<1>6. (\E S : f \in Seq(S)) /\ p \in DOMAIN f BY <1>3, <1>5, CallNow DEF JavaState, Proxy
<1>7. CASE RequestStop(t)
  <2>1. PICK d : d = [f[p] EXCEPT !.stopping = TRUE] OBVIOUS
  <2>2. proxies' = [f EXCEPT ![p].stopping = TRUE] BY <1>1, <1>5, <1>7 DEF RequestStop
  <2>3. proxies' = [f EXCEPT ![p] = d] BY <1>6, <2>1, <2>2
  <2>4. QED BY <1>1, <1>2, <1>3, <1>4, <1>5, <2>1, <2>3, FlagStatus
<1>8. CASE JoinProxy(t)
  <2>1. PICK d : d = [[f[p] EXCEPT !.stopping = TRUE] EXCEPT !.stopped = TRUE] OBVIOUS
  <2>2. proxies' = [f EXCEPT ![p].stopping = TRUE, ![p].stopped = TRUE] BY <1>1, <1>5, <1>8 DEF JoinProxy
  <2>3. proxies' = [f EXCEPT ![p] = d] BY <1>6, <2>1, <2>2
  <2>4. QED BY <1>1, <1>2, <1>3, <1>4, <1>5, <2>1, <2>3, FlagStatus
<1>9. QED BY <1>7, <1>8

\* closeRuntimes leaves empty mailboxes.
LEMMA AllStatus ==
  ASSUME HandleInv, StatusInv, NEW t \in Thread, StopAll(t) \/ JoinAll(t)
  PROVE  StatusInv'
<1>1. UNCHANGED <<observed, delivered>> /\ proxies' = [q \in Proxy |-> proxies'[q]]
  BY DEF StopAll, JoinAll, statusVars
<1>2. ASSUME NEW q \in Proxy PROVE IsProxy(proxies'[q]) /\ Loses(proxies[q], proxies'[q])
  <2>1. IsProxy(proxies[q]) BY CallNow DEF JavaState
  <2>2. CASE proxies'[q] = proxies[q] BY <2>1, <2>2, LosesItself
  <2>3. CASE proxies'[q] = [Deactivated(proxies[q]) EXCEPT !.stopping = TRUE]
    <3>1. PICK d : d = Deactivated(proxies[q]) OBVIOUS
    <3>2. /\ IsProxy(d) /\ DOMAIN d.latest = {} /\ d.epoch = proxies[q].epoch /\ d.next = proxies[q].next
      BY <2>1, <3>1, DeactivatedProxy
    <3>3. PICK e : e = [d EXCEPT !.stopping = TRUE] OBVIOUS
    <3>4. IsProxy(e) /\ e.latest = d.latest /\ e.epoch = d.epoch /\ e.next = d.next BY <3>2, <3>3, StoppingProxy
    <3>5. Loses(proxies[q], e) BY <3>2, <3>4 DEF Loses
    <3>6. QED BY <2>3, <3>1, <3>3, <3>4, <3>5
  <2>4. CASE proxies'[q] = [proxies[q] EXCEPT !.stopped = TRUE]
    <3>1. PICK e : e = [proxies[q] EXCEPT !.stopped = TRUE] OBVIOUS
    <3>2. /\ IsProxy(e) /\ e.latest = proxies[q].latest /\ e.epoch = proxies[q].epoch
          /\ e.next = proxies[q].next
      BY <2>1, <3>1, StoppingProxy
    <3>3. Loses(proxies[q], e) BY <3>2 DEF Loses
    <3>4. QED BY <2>4, <3>1, <3>2, <3>3
  <2>5. QED BY <2>2, <2>3, <2>4 DEF StopAll, JoinAll
<1>3. Proxy' = Proxy BY <1>1, <1>2, TableStays, CallNow
<1>4. \E c : javaCall' = [javaCall EXCEPT ![t] = c] /\ c.stage # "acknowledge"
  BY GoToStatus DEF StopAll, JoinAll
<1>5. QED BY <1>1, <1>2, <1>3, <1>4, LeavesPlace, StatusQuiet

\* A started proxy has delivered nothing and keeps nothing.
LEMMA StartStatus ==
  ASSUME HandleInv, StatusInv, NEW t \in Thread, NativeStartProxy(t)
  PROVE  StatusInv'
<1>1. observed' = observed BY DEF NativeStartProxy
<1>2. CASE JavaReturn(t) /\ UNCHANGED <<proxies, delivered>> BY <1>1, <1>2, ReturnStatus, PlainStatus
<1>3. CASE /\ proxies' = Append(proxies, NewProxy)
           /\ delivered' = Append(delivered, [x \in Host |-> Undelivered])
           /\ javaCall' = [javaCall EXCEPT ![t].proxy = Len(proxies) + 1,
                                           ![t].stage = IF Registers THEN "bundle" ELSE "join"]
  <2>1. PICK q : q = Len(proxies) + 1 OBVIOUS
  <2>2. PICK d : d = NewProxy OBVIOUS
  <2>3. IsProxy(d) /\ DOMAIN d.latest = {} BY <2>2, FreshProxy, CallNow
  <2>4. PICK e \in [Host -> Delivery] : e = [x \in Host |-> Undelivered] BY DEF Undelivered, Delivery
  <2>5. proxies' = Append(proxies, d) /\ delivered' = Append(delivered, e) BY <1>3, <2>2, <2>4
  <2>6. JavaState BY CallNow
  <2>7. /\ Proxy' = Proxy \cup {Len(proxies) + 1}
        /\ proxies'[Len(proxies) + 1] = d /\ \A r \in Proxy : proxies'[r] = proxies[r]
        /\ delivered'[Len(proxies) + 1] = e /\ \A r \in Proxy : delivered'[r] = delivered[r]
        /\ Len(proxies) + 1 \notin Proxy
    BY <2>3, <2>5, <2>6, TableGrows
  <2>8. observed \in Nat BY <2>6 DEF JavaState
  <2>9. \A x \in Host : e[x].seq = 0 /\ e[x].removed = 0 BY <2>4 DEF Undelivered
  <2>10. \A p \in Proxy' : \A x \in DOMAIN proxies'[p].latest :
           proxies'[p].latest[x].seq <= observed' /\ proxies'[p].latest[x].seq > delivered'[p][x].seq
    <3>1. TAKE p \in Proxy'
    <3>2. CASE p \in Proxy BY <1>1, <2>7, <3>2 DEF StatusInv
    <3>3. CASE p \notin Proxy BY <2>3, <2>7, <3>3
    <3>4. QED BY <3>2, <3>3
  <2>11. \A p \in Proxy', x \in Host :
           /\ delivered'[p][x].seq <= observed'
           /\ delivered'[p][x].wrapped \/ delivered'[p][x].seq = delivered'[p][x].removed
    <3>1. TAKE p \in Proxy', x \in Host
    <3>2. CASE p \in Proxy BY <1>1, <2>7, <3>2 DEF StatusInv
    <3>3. CASE p \notin Proxy BY <1>1, <2>7, <2>8, <2>9, <3>3
    <3>4. QED BY <3>2, <3>3
  <2>12. ASSUME NEW s \in Thread
         PROVE  StillNamed(javaCall'[s], proxies'[javaCall'[s].proxy], observed')
    <3>1. PICK c : c = [javaCall[t] EXCEPT !.proxy = q, !.stage = IF Registers THEN "bundle" ELSE "join"] OBVIOUS
    <3>2. c.stage \in {"bundle", "join"} BY <3>1, CallNow DEF JavaCallRecord
    <3>3. javaCall' = [javaCall EXCEPT ![t] = c] BY <1>3, <2>1, <3>1
    <3>4. javaCall'[s].stage = "acknowledge" => javaCall'[s] = javaCall[s] BY <3>2, <3>3, LeavesPlace
    <3>5. CASE javaCall'[s].stage # "acknowledge" BY <3>5 DEF StillNamed
    <3>6. CASE javaCall'[s].stage = "acknowledge"
      <4>1. javaCall[s].proxy \in Proxy BY <3>4, <3>6, CallNow DEF CallOk
      <4>2. proxies'[javaCall[s].proxy] = proxies[javaCall[s].proxy] BY <2>7, <4>1
      <4>3. QED BY <1>1, <3>4, <3>6, <4>2 DEF StatusInv
    <3>7. QED BY <3>5, <3>6
  <2>13. QED BY <2>10, <2>11, <2>12 DEF StatusInv
<1>4. QED BY <1>2, <1>3 DEF NativeStartProxy

\* peek_matching holds the status that the mailbox has, until it is acknowledged.
LEMMA PeekStatus ==
  ASSUME HandleInv, StatusInv, NEW t \in Thread, PeekMatching(t)
  PROVE  StatusInv'
<1>1. javaCall[t].stage = "peek" /\ UNCHANGED <<proxies, observed, delivered>>
  BY DEF PeekMatching, At, statusVars
<1>2. PICK p : p = javaCall[t].proxy OBVIOUS
<1>3. p \in Proxy BY <1>1, <1>2, CallNow DEF CallOk
<1>4. PICK x \in Host :
        IF proxies[p].active /\ x \in DOMAIN proxies[p].latest
        THEN javaCall' = [javaCall EXCEPT ![t].host = x, ![t].pending = proxies[p].latest[x],
                                          ![t].epoch = proxies[p].epoch, ![t].stage = "acknowledge"]
        ELSE JavaReturn(t)
  BY <1>2 DEF PeekMatching
<1>5. CASE JavaReturn(t) BY <1>1, <1>5, ReturnStatus, PlainStatus
<1>6. CASE x \in DOMAIN proxies[p].latest /\ ~JavaReturn(t)
  <2>1. IsProxy(proxies[p]) BY <1>3, CallNow DEF JavaState
  <2>2. PICK pending \in Status : pending = proxies[p].latest[x] BY <1>6, <2>1 DEF IsProxy
  <2>3. PICK epoch \in Nat : epoch = proxies[p].epoch BY <2>1 DEF IsProxy, ProxyRecord
  <2>4. PICK c : c = [javaCall[t] EXCEPT !.host = x, !.pending = pending, !.epoch = epoch, !.stage = "acknowledge"]
    OBVIOUS
  <2>5. c.stage = "acknowledge" /\ c.proxy = p /\ c.host = x /\ c.pending = pending /\ c.epoch = epoch
        /\ c \in JavaCallRecord
    BY <1>2, <2>4, CallNow DEF JavaCallRecord, JavaStages
  <2>6. javaCall' = [javaCall EXCEPT ![t] = c] BY <1>4, <1>6, <2>2, <2>3, <2>4
  <2>7. javaCall'[t] = c /\ \A s \in Thread : s # t => javaCall'[s] = javaCall[s]
    BY <2>5, <2>6, CallMoves, CallNow DEF JavaState
  <2>8. pending.sequence <= proxies[p].next /\ pending.seq <= observed
    BY <1>3, <1>6, <2>1, <2>2 DEF IsProxy, StatusInv
  <2>9. StillNamed(c, proxies[p], observed) BY <2>2, <2>3, <2>5, <2>8 DEF StillNamed
  <2>10. \A s \in Thread : StillNamed(javaCall'[s], proxies'[javaCall'[s].proxy], observed')
    <3>1. TAKE s \in Thread
    <3>2. CASE s = t BY <1>1, <2>5, <2>7, <2>9, <3>2
    <3>3. CASE s # t BY <1>1, <2>7, <3>3 DEF StatusInv
    <3>4. QED BY <3>2, <3>3
  <2>11. Proxy' = Proxy BY <1>1 DEF Proxy
  <2>12. QED BY <1>1, <2>10, <2>11 DEF StatusInv
<1>7. QED BY <1>4, <1>5, <1>6

\* acknowledge_matching removes the status only if its number is still the newest one.
LEMMA AcknowledgeStatus ==
  ASSUME HandleInv, StatusInv, NEW t \in Thread, AcknowledgeMatching(t)
  PROVE  StatusInv'
<1>1. javaCall[t].stage = "acknowledge" /\ JavaReturn(t) /\ observed' = observed
  BY DEF AcknowledgeMatching, At
<1>2. PICK p : p = javaCall[t].proxy OBVIOUS
<1>3. p \in Proxy BY <1>1, <1>2, CallNow DEF CallOk
<1>4. PICK x : x = javaCall[t].host OBVIOUS
<1>5. CASE UNCHANGED <<proxies, delivered>> BY <1>1, <1>5, ReturnStatus, PlainStatus
<1>6. CASE /\ Acknowledges(proxies[p], x, javaCall[t].pending)
           /\ proxies' = [proxies EXCEPT ![p] = Acknowledged(proxies[p], x)]
           /\ delivered' = IF javaCall[t].op # "take" THEN delivered
                           ELSE [delivered EXCEPT ![p][x] =
                             [seq |-> javaCall[t].pending.seq, removed |-> proxies[p].latest[x].seq,
                              wrapped |-> proxies[p].epoch # javaCall[t].epoch]]
  <2>1. IsProxy(proxies[p]) BY <1>3, CallNow DEF JavaState
  <2>2. PICK r : r = proxies[p] OBVIOUS
  <2>3. x \in DOMAIN r.latest /\ r.latest[x].sequence = javaCall[t].pending.sequence /\ x \in Host
    BY <1>6, <2>1, <2>2 DEF Acknowledges, IsProxy
  <2>4. PICK d : d = Acknowledged(r, x) OBVIOUS
  <2>5. /\ IsProxy(d) /\ DOMAIN d.latest = DOMAIN r.latest \ {x}
        /\ \A y \in DOMAIN d.latest : d.latest[y] = r.latest[y]
        /\ d.epoch = r.epoch /\ d.next = r.next
    BY <2>1, <2>2, <2>4, AcknowledgedProxy
  <2>6. Loses(r, d) BY <2>5 DEF Loses
  <2>7. proxies' = [proxies EXCEPT ![p] = d] BY <1>6, <2>2, <2>4
  <2>8. Proxy' = Proxy /\ proxies'[p] = d /\ \A q \in Proxy : q # p => proxies'[q] = proxies[q]
    BY <1>3, <2>5, <2>7, ProxyMoves, CallNow
  <2>9. \A q \in Proxy : Loses(proxies[q], proxies'[q]) BY <2>2, <2>6, <2>8, LosesItself
  <2>10. \A s \in Thread : javaCall'[s].stage = "acknowledge" => javaCall'[s] = javaCall[s]
    BY <1>1, ReturnStatus, LeavesPlace
  <2>11. CASE delivered' = delivered BY <1>1, <2>8, <2>9, <2>10, <2>11, StatusQuiet
  <2>12. CASE delivered' # delivered
    <3>1. PICK e : e = [seq |-> javaCall[t].pending.seq, removed |-> r.latest[x].seq,
                        wrapped |-> r.epoch # javaCall[t].epoch]
      OBVIOUS
    <3>2. delivered' = [delivered EXCEPT ![p][x] = e] BY <1>6, <2>2, <2>12, <3>1
    <3>3. StillNamed(javaCall[t], r, observed) BY <1>2, <2>2 DEF StatusInv
    <3>4. javaCall[t].pending.seq \in Nat /\ javaCall[t].epoch \in Nat
      BY CallNow DEF JavaCallRecord, Status
    <3>5. e.seq <= observed /\ (e.wrapped \/ e.seq = e.removed)
      <4>1. e.seq = javaCall[t].pending.seq /\ e.removed = r.latest[x].seq
            /\ e.wrapped = (r.epoch # javaCall[t].epoch)
        BY <3>1
      <4>2. javaCall[t].pending.seq <= observed BY <1>1, <3>3 DEF StillNamed
      <4>3. javaCall[t].epoch = r.epoch => r.latest[x].seq = javaCall[t].pending.seq
        BY <1>1, <1>4, <2>3, <3>3 DEF StillNamed
      <4>4. QED BY <4>1, <4>2, <4>3
    <3>6. delivered \in Seq([Host -> Delivery]) /\ p \in 1..Len(delivered) /\ \A q \in Proxy : q \in 1..Len(delivered)
      <4>1. \E S : proxies \in Seq(S) BY CallNow DEF JavaState
      <4>2. Proxy = 1..Len(proxies) BY <4>1 DEF Proxy
      <4>3. QED BY <1>3, <4>2, CallNow DEF JavaState
    <3>7. \A q \in Proxy, y \in Host :
            delivered'[q][y] = IF q = p /\ y = x THEN e ELSE delivered[q][y]
      BY <1>3, <2>3, <3>2, <3>6
    <3>8. \A q \in Proxy', y \in Host :
            /\ delivered'[q][y].seq <= observed'
            /\ delivered'[q][y].wrapped \/ delivered'[q][y].seq = delivered'[q][y].removed
      BY <1>1, <2>8, <3>5, <3>7 DEF StatusInv
    <3>9. \A q \in Proxy' : \A y \in DOMAIN proxies'[q].latest :
            proxies'[q].latest[y].seq <= observed' /\ proxies'[q].latest[y].seq > delivered'[q][y].seq
      <4>1. TAKE q \in Proxy'
      <4>2. TAKE y \in DOMAIN proxies'[q].latest
      <4>3. q \in Proxy /\ Loses(proxies[q], proxies'[q]) BY <2>8, <2>9
      <4>4. /\ y \in DOMAIN proxies[q].latest /\ proxies'[q].latest[y] = proxies[q].latest[y]
            /\ ~(q = p /\ y = x)
        BY <2>5, <2>8, <4>3 DEF Loses
      <4>5. y \in Host
        <5>1. IsProxy(proxies[q]) BY <4>3, CallNow DEF JavaState
        <5>2. QED BY <4>4, <5>1 DEF IsProxy
      <4>6. delivered'[q][y] = delivered[q][y] BY <3>7, <4>3, <4>4, <4>5
      <4>7. proxies[q].latest[y].seq <= observed /\ proxies[q].latest[y].seq > delivered[q][y].seq
        BY <4>3, <4>4 DEF StatusInv
      <4>8. QED BY <1>1, <4>4, <4>6, <4>7
    <3>10. ASSUME NEW s \in Thread
           PROVE  StillNamed(javaCall'[s], proxies'[javaCall'[s].proxy], observed')
      <4>1. CASE javaCall'[s].stage # "acknowledge" BY <4>1 DEF StillNamed
      <4>2. CASE javaCall'[s].stage = "acknowledge"
        <5>1. javaCall'[s] = javaCall[s] BY <2>10, <4>2
        <5>2. PICK c : c = javaCall[s] OBVIOUS
        <5>3. PICK q \in Proxy : q = c.proxy BY <4>2, <5>1, <5>2, CallNow DEF CallOk
        <5>4. StillNamed(c, proxies[q], observed) BY <5>2, <5>3 DEF StatusInv
        <5>5. Loses(proxies[q], proxies'[q]) BY <2>9
        <5>6. StillNamed(c, proxies'[q], observed) BY <5>4, <5>5 DEF StillNamed, Loses
        <5>7. QED BY <1>1, <5>1, <5>2, <5>3, <5>6
      <4>3. QED BY <4>1, <4>2
    <3>11. QED BY <3>8, <3>9, <3>10 DEF StatusInv
  <2>13. QED BY <2>11, <2>12
<1>7. QED BY <1>2, <1>4, <1>5, <1>6 DEF AcknowledgeMatching, Acknowledged

\* A new status replaces that of its host, with the next number.
LEMMA ObserveStatusStatus ==
  ASSUME HandleInv, StatusInv, NEW p \in Proxy, ObserveStatus(p)
  PROVE  StatusInv'
<1>1. observed' = observed + 1 /\ UNCHANGED <<delivered, javaCall>> BY DEF ObserveStatus
<1>2. PICK x \in Host, size \in 0..(MaxTrace + 1) :
        proxies' = [proxies EXCEPT ![p] = Recorded(proxies[p], x, observed + 1, size)]
  BY DEF ObserveStatus
<1>3. JavaState BY DEF HandleInv
<1>4. IsProxy(proxies[p]) /\ observed \in Nat /\ observed + 1 \in Nat BY <1>3 DEF JavaState
<1>5. PICK r : r = proxies[p] OBVIOUS
<1>6. PICK d : d = Recorded(r, x, observed + 1, size) OBVIOUS
<1>7. /\ IsProxy(d)
      /\ \A y \in DOMAIN d.latest :
           \/ y = x /\ d.latest[y].seq = observed + 1
                    /\ (d.epoch = r.epoch => d.latest[y].sequence = r.next + 1)
           \/ y \in DOMAIN r.latest /\ d.latest[y] = r.latest[y] /\ y # x
      /\ d.epoch = r.epoch \/ d.epoch = r.epoch + 1
      /\ d.epoch = r.epoch => d.next = r.next + 1
  BY <1>4, <1>5, <1>6, RecordedProxy
<1>8. proxies' = [proxies EXCEPT ![p] = d] BY <1>2, <1>5, <1>6
<1>9. Proxy' = Proxy /\ proxies'[p] = d /\ \A q \in Proxy : q # p => proxies'[q] = proxies[q]
  BY <1>3, <1>7, <1>8, ProxyMoves
<1>10. \A q \in Proxy, y \in Host : delivered[q][y].seq \in Nat /\ delivered[q][y].seq <= observed
  <2>1. \E S : proxies \in Seq(S) BY <1>3 DEF JavaState
  <2>2. Proxy = 1..Len(proxies) BY <2>1 DEF Proxy
  <2>3. \A q \in Proxy : delivered[q] \in [Host -> Delivery] BY <1>3, <2>2 DEF JavaState
  <2>4. QED BY <2>3 DEF StatusInv, Delivery
<1>11. \A q \in Proxy', y \in Host :
         /\ delivered'[q][y].seq <= observed'
         /\ delivered'[q][y].wrapped \/ delivered'[q][y].seq = delivered'[q][y].removed
  BY <1>1, <1>4, <1>9, <1>10 DEF StatusInv
<1>12. \A q \in Proxy' : \A y \in DOMAIN proxies'[q].latest :
         proxies'[q].latest[y].seq <= observed' /\ proxies'[q].latest[y].seq > delivered'[q][y].seq
  <2>1. ASSUME NEW q \in Proxy, NEW y \in DOMAIN proxies[q].latest
        PROVE  proxies[q].latest[y].seq <= observed + 1 /\ proxies[q].latest[y].seq > delivered[q][y].seq
    <3>1. proxies[q].latest[y].seq <= observed /\ proxies[q].latest[y].seq > delivered[q][y].seq
      BY DEF StatusInv
    <3>2. IsProxy(proxies[q]) BY <1>3 DEF JavaState
    <3>3. proxies[q].latest[y].seq \in Nat BY <3>2 DEF IsProxy, Status
    <3>4. QED BY <1>4, <3>1, <3>3
  <2>2. TAKE q \in Proxy'
  <2>3. TAKE y \in DOMAIN proxies'[q].latest
  <2>4. CASE q # p BY <1>1, <1>9, <2>1, <2>4
  <2>5. CASE q = p
    <3>1. CASE y = x /\ d.latest[y].seq = observed + 1 BY <1>1, <1>4, <1>9, <1>10, <2>5, <3>1
    <3>2. CASE y \in DOMAIN r.latest /\ d.latest[y] = r.latest[y] BY <1>1, <1>5, <1>9, <2>1, <2>5, <3>2
    <3>3. QED BY <1>7, <1>9, <2>5, <3>1, <3>2
  <2>6. QED BY <2>4, <2>5
<1>13. ASSUME NEW s \in Thread
       PROVE  StillNamed(javaCall'[s], proxies'[javaCall'[s].proxy], observed')
  <2>1. PICK c \in JavaCallRecord : c = javaCall[s] BY CallNow
  <2>2. CASE c.stage # "acknowledge" BY <1>1, <2>1, <2>2 DEF StillNamed
  <2>3. CASE c.stage = "acknowledge"
    <3>1. PICK q \in Proxy : q = c.proxy BY <2>1, <2>3, CallNow DEF CallOk
    <3>2. StillNamed(c, proxies[q], observed) BY <2>1, <3>1 DEF StatusInv
    <3>3. c.pending.seq \in Nat /\ c.pending.sequence \in Nat /\ c.epoch \in Nat
      BY DEF JavaCallRecord, Status
    <3>4. CASE q # p
      <4>1. proxies'[q] = proxies[q] BY <1>9, <3>4
      <4>2. StillNamed(c, proxies[q], observed + 1) BY <1>4, <3>2, <3>3 DEF StillNamed
      <4>3. QED BY <1>1, <2>1, <3>1, <4>1, <4>2
    <3>5. CASE q = p
      <4>1. r.epoch \in Nat /\ r.next \in Nat BY <1>4, <1>5 DEF IsProxy, ProxyRecord
      <4>2. StillNamed(c, r, observed) BY <1>5, <3>2, <3>5
      <4>3. c.pending.seq <= observed + 1 /\ c.epoch <= d.epoch
        BY <1>4, <1>7, <2>3, <3>3, <4>1, <4>2 DEF StillNamed
      <4>4. c.epoch = d.epoch => d.epoch = r.epoch BY <1>7, <2>3, <3>3, <4>1, <4>2 DEF StillNamed
      <4>5. ASSUME c.epoch = d.epoch
            PROVE  /\ c.pending.sequence <= d.next
                   /\ c.host \in DOMAIN d.latest /\ d.latest[c.host].sequence = c.pending.sequence =>
                        d.latest[c.host].seq = c.pending.seq
        <5>1. c.epoch = r.epoch /\ d.next = r.next + 1 BY <1>7, <4>4, <4>5
        <5>2. /\ c.pending.sequence <= r.next
              /\ c.host \in DOMAIN r.latest /\ r.latest[c.host].sequence = c.pending.sequence =>
                   r.latest[c.host].seq = c.pending.seq
          BY <2>3, <4>2, <5>1 DEF StillNamed
        <5>3. c.host = x /\ c.host \in DOMAIN d.latest /\ ~(c.host \in DOMAIN r.latest /\ d.latest[c.host] = r.latest[c.host])
                => d.latest[c.host].sequence = r.next + 1
          BY <1>7, <4>4, <4>5
        <5>4. c.host \in DOMAIN d.latest =>
                \/ d.latest[c.host].sequence = r.next + 1
                \/ c.host \in DOMAIN r.latest /\ d.latest[c.host] = r.latest[c.host]
          BY <1>7, <4>4, <4>5
        <5>5. QED BY <3>3, <4>1, <5>1, <5>2, <5>4
      <4>6. StillNamed(c, d, observed + 1) BY <4>3, <4>5 DEF StillNamed
      <4>7. QED BY <1>1, <1>9, <2>1, <3>1, <3>5, <4>6
    <3>6. QED BY <3>4, <3>5
  <2>4. QED BY <2>2, <2>3
<1>14. QED BY <1>11, <1>12, <1>13 DEF StatusInv

----
\* Nothing moves.
LEMMA HandleStutters == HandleInv /\ UNCHANGED javaVars => HandleInv'
<1>1. SUFFICES ASSUME HandleInv, UNCHANGED javaVars PROVE HandleInv' OBVIOUS
<1>2. /\ UNCHANGED <<runtime, created, freed, readers, writer, nextHandle, proxies, registered,
                     observed, delivered, javaCall>>
      /\ Proxy' = Proxy
  BY <1>1 DEF javaVars, Proxy
<1>3. JavaState BY <1>1 DEF HandleInv
<1>4. JavaState' BY <1>2, <1>3 DEF JavaState
<1>5. LocksInv' /\ BoxInv' /\ CoverInv' BY <1>1, <1>2 DEF HandleInv, LocksInv, BoxInv, CoverInv
<1>6. \A t \in Thread : CallOk(javaCall'[t], runtime', registered', Proxy') BY <1>1, <1>2 DEF HandleInv
<1>7. QED BY <1>4, <1>5, <1>6 DEF HandleInv

\* Nothing moves.
LEMMA StatusStutters == HandleInv /\ StatusInv /\ UNCHANGED javaVars => StatusInv'
<1>1. SUFFICES ASSUME HandleInv, StatusInv, UNCHANGED javaVars PROVE StatusInv' OBVIOUS
<1>2. UNCHANGED <<proxies, observed, delivered, javaCall>> /\ Proxy' = Proxy BY <1>1 DEF javaVars, Proxy
<1>3. QED BY <1>1, <1>2 DEF StatusInv

\* Every step keeps the invariant of the handles.
LEMMA HandleSteps == HandleInv /\ JavaNext => HandleInv'
<1>1. SUFFICES ASSUME HandleInv, JavaNext PROVE HandleInv' OBVIOUS
<1>2. ASSUME NEW t \in Thread,
             \/ WithRuntime(t, "use") \/ WithRuntime(t, "start") \/ FindRuntime(t) \/ MakeRuntime(t) \/ UseRuntime(t)
             \/ NativeStartProxy(t) \/ EndpointBundle(t)
             \/ CloseRuntimes(t) \/ DrainProxies(t) \/ StopAll(t) \/ JoinAll(t) \/ FreeRuntimes(t)
             \/ OnProxy(t, "destroy", "find") \/ OnProxy(t, "stop", "find")
             \/ DeactivateProxy(t) \/ RequestStop(t) \/ RemoveProxy(t) \/ JoinProxy(t)
             \/ OnProxy(t, "take", "peek") \/ OnProxy(t, "discard", "peek")
             \/ PeekMatching(t) \/ StatusBundleFails(t) \/ AcknowledgeMatching(t)
             \/ OnProxy(t, "matches", "matches") \/ MatchesLocalCertificate(t)
      PROVE  HandleInv'
  BY <1>1, <1>2, WithRuntimeKeeps, FindRuntimeKeeps, MakeRuntimeKeeps, ReturnedKeeps, StartProxyKeeps,
     EndpointBundleKeeps, CloseRuntimesKeeps, DrainProxiesKeeps, StopAllKeeps, JoinAllKeeps, FreeRuntimesKeeps,
     OnProxyKeeps, DeactivateProxyKeeps, RequestStopKeeps, RemoveProxyKeeps, JoinProxyKeeps, PeekMatchingKeeps,
     AcknowledgeKeeps
<1>3. QED
  BY <1>1, <1>2, ObserveStatusKeeps
  DEF JavaNext, RuntimeSyncOnce, RuntimeSyncStatus, RuntimeAddStaticRelayPeer, RuntimeClearResolverCache,
      RuntimeInstallHeaderSnapshot, RuntimeResetHeadersFromPeers, RuntimeHnsProofDetails,
      RuntimeGatewayHttpResponse, RuntimeGatewayHttpResponseBodyToFile, RuntimeStartProxy,
      ProxyDestroy, ProxyRequestStop, ProxyTakeMainFrameStatus, ProxyDiscardMainFrameStatus,
      ProxyMatchesLocalCertificate

\* Every step keeps the invariant of the statuses.
LEMMA StatusSteps == HandleInv /\ StatusInv /\ JavaNext => StatusInv'
<1>1. SUFFICES ASSUME HandleInv, StatusInv, JavaNext PROVE StatusInv' OBVIOUS
<1>2. ASSUME NEW t \in Thread,
             \/ WithRuntime(t, "use") \/ WithRuntime(t, "start") \/ FindRuntime(t) \/ MakeRuntime(t) \/ UseRuntime(t)
             \/ NativeStartProxy(t) \/ EndpointBundle(t)
             \/ CloseRuntimes(t) \/ DrainProxies(t) \/ StopAll(t) \/ JoinAll(t) \/ FreeRuntimes(t)
             \/ OnProxy(t, "destroy", "find") \/ OnProxy(t, "stop", "find")
             \/ DeactivateProxy(t) \/ RequestStop(t) \/ RemoveProxy(t) \/ JoinProxy(t)
             \/ OnProxy(t, "take", "peek") \/ OnProxy(t, "discard", "peek")
             \/ PeekMatching(t) \/ StatusBundleFails(t) \/ AcknowledgeMatching(t)
             \/ OnProxy(t, "matches", "matches") \/ MatchesLocalCertificate(t)
      PROVE  StatusInv'
  <2>1. CASE WithRuntime(t, "use") \/ WithRuntime(t, "start") \/ CloseRuntimes(t)
    BY <1>1, <2>1, BeginStatus
  <2>2. CASE \/ OnProxy(t, "destroy", "find") \/ OnProxy(t, "stop", "find") \/ OnProxy(t, "take", "peek")
             \/ OnProxy(t, "discard", "peek") \/ OnProxy(t, "matches", "matches")
    BY <1>1, <2>2, BeginStatus
  <2>3. CASE \/ FindRuntime(t) \/ MakeRuntime(t) \/ UseRuntime(t) \/ EndpointBundle(t) \/ RemoveProxy(t)
             \/ DrainProxies(t) \/ FreeRuntimes(t) \/ StatusBundleFails(t) \/ MatchesLocalCertificate(t)
    BY <1>1, <2>3, PassStatus
  <2>4. CASE NativeStartProxy(t) \/ DeactivateProxy(t) \/ StopAll(t) \/ JoinAll(t) \/ RequestStop(t) \/ JoinProxy(t)
    BY <1>1, <2>4, StartStatus, DeactivateStatus, AllStatus, StopStatus
  <2>5. CASE PeekMatching(t) \/ AcknowledgeMatching(t) BY <1>1, <2>5, PeekStatus, AcknowledgeStatus
  <2>6. QED BY <1>2, <2>1, <2>2, <2>3, <2>4, <2>5
<1>3. QED
  BY <1>1, <1>2, ObserveStatusStatus
  DEF JavaNext, RuntimeSyncOnce, RuntimeSyncStatus, RuntimeAddStaticRelayPeer, RuntimeClearResolverCache,
      RuntimeInstallHeaderSnapshot, RuntimeResetHeadersFromPeers, RuntimeHnsProofDetails,
      RuntimeGatewayHttpResponse, RuntimeGatewayHttpResponseBodyToFile, RuntimeStartProxy,
      ProxyDestroy, ProxyRequestStop, ProxyTakeMainFrameStatus, ProxyDiscardMainFrameStatus,
      ProxyMatchesLocalCertificate

\* The library starts with both invariants.
LEMMA JavaStarts == JavaInit => HandleInv /\ StatusInv
<1>1. SUFFICES ASSUME JavaInit PROVE HandleInv /\ StatusInv OBVIOUS
<1>2. Proxy = {} BY <1>1 DEF JavaInit, Proxy
<1>3. javaCall \in [Thread -> JavaCallRecord] /\ \A t \in Thread : javaCall[t] = JavaIdle
  BY <1>1, IdleIsRecord DEF JavaInit
<1>4. JavaState
  <2>1. proxies \in Seq({}) /\ delivered \in Seq([Host -> Delivery]) /\ Len(delivered) = Len(proxies)
    BY <1>1 DEF JavaInit
  <2>2. nextHandle \in 1..(MaxHandle + 1) /\ 0 \in 0..MaxRuntimes BY <1>1, AndroidAssumption DEF JavaInit
  <2>3. QED BY <1>1, <1>2, <1>3, <2>1, <2>2 DEF JavaInit, JavaState
<1>5. LocksInv BY <1>1, <1>3, IdleIsOk DEF JavaInit, LocksInv
<1>6. BoxInv /\ CoverInv BY <1>1, <1>2 DEF JavaInit, BoxInv, CoverInv
<1>7. \A t \in Thread : CallOk(javaCall[t], runtime, registered, Proxy) BY <1>3, IdleIsOk
<1>8. JavaIdle.stage # "acknowledge" BY DEF JavaIdle
<1>9. StatusInv BY <1>2, <1>3, <1>8 DEF StatusInv, StillNamed
<1>10. QED BY <1>4, <1>5, <1>6, <1>7, <1>9 DEF HandleInv

\* Both invariants give the property.
LEMMA JavaImplies == HandleInv /\ StatusInv => AndroidSafety
<1>1. SUFFICES ASSUME HandleInv, StatusInv PROVE AndroidSafety OBVIOUS
<1>2. JavaTypes BY <1>1, JavaStateTypes DEF HandleInv
<1>3. NoUseAfterDestroy /\ NoProxyLeftBehind BY <1>1, HandleImplies
<1>4. NewestStatusKept BY <1>1 DEF StatusInv, NewestStatusKept
<1>5. QED BY <1>2, <1>3, <1>4 DEF AndroidSafety

\* However the calls of the Java interface overlap (NativeBridge.withRuntime and
\* closeRuntimes, register_proxy and destroy_proxy, peek_matching and
\* acknowledge_matching of android-ffi), no call uses a runtime that was freed, no
\* proxy that runs is out of everybody's reach, and a take that was overtaken leaves
\* the newer status: until the numbering starts again, what it removes is what it
\* delivers; for any threads, hosts and limits.
THEOREM JavaIsSafe == JavaSpec => []AndroidSafety
<1>1. HandleInv /\ StatusInv /\ [JavaNext]_javaVars => (HandleInv /\ StatusInv)'
  BY HandleSteps, StatusSteps, HandleStutters, StatusStutters
<1>2. QED BY JavaStarts, JavaImplies, <1>1, PTL DEF JavaSpec

----------------------------------------------------------------------------
(* The C interface: module IosBridge.                                       *)

\* A started proxy; its mailbox and the holder of its lock are whatever they are.
IosProxyRecord(B, L) ==
  [runtime : 1..MaxIosHandle, handle : 0..MaxIosHandle, revision : Nat, active : BOOLEAN, accepting : BOOLEAN,
   stopping : BOOLEAN, stopped : BOOLEAN, box : B, lock : L]
IsIosProxy(r) == \E B, L : r \in IosProxyRecord(B, L)

\* A proxy of which less is left: nothing revives it, and it keeps what it was started with.
Weaker(r, s) ==
  /\ IsIosProxy(s) /\ s.runtime = r.runtime /\ s.revision = r.revision
  /\ s.active => r.active
  /\ r.stopping => s.stopping
  /\ r.stopped => s.stopped

IosEntry == [proxy : Nat, join : BOOLEAN]
StopStages == {"deactivate", "close", "revoke", "clear", "join"}
IosStages == StopStages \cup
  {"idle", "open", "publish", "operate", "start", "insert", "active", "endpoint", "take", "remove"}
IosOps == {"none", "create", "destroy", "policy", "json", "start", "stop", "endpoint", "matches", "take"}
IosCallRecord ==
  [op : IosOps, stage : IosStages, runtime : 0..MaxIosHandle, proxy : Nat, revision : Nat,
   todo : Seq(IosEntry), late : BOOLEAN, code : Codes]

Entries(todo) == {todo[i] : i \in DOMAIN todo}
Has(c, p) == \E e \in Entries(c.todo) : e.proxy = p
Joins(c, p) == \E e \in Entries(c.todo) : e.proxy = p /\ e.join

IosState ==
  /\ iosHandle \in 1..(MaxIosHandle + 1) /\ runtimes \subseteq 1..MaxIosHandle
  /\ revision \in [1..MaxIosHandle -> Nat] /\ iosRegistered \subseteq IosProxy
  /\ \E S : iosProxies \in Seq(S)
  /\ \A p \in IosProxy : IsIosProxy(iosProxies[p])
  /\ iosCall \in [IosThread -> IosCallRecord] /\ lastError \in [IosThread -> Codes]

\* What is true of a call at each place.  A proxy that a call will wait for has
\* left the registry, or was never in it; one it has deactivated does not serve.
IosCallOk(c, table, named) ==
  /\ c.todo # <<>> <=> c.stage \in StopStages \cup {"insert"}
  /\ \A e \in Entries(c.todo) : e.proxy \in DOMAIN table /\ (e.join => e.proxy \notin named)
  /\ c.stage \in {"close", "revoke", "clear"} => ~table[Head(c.todo).proxy].active
  /\ c.stage = "join" => Head(c.todo).join
  /\ c.stage = "insert" =>
       /\ c.todo = <<[proxy |-> c.proxy, join |-> TRUE]>>
       /\ table[c.proxy].runtime = c.runtime /\ table[c.proxy].revision = c.revision
  /\ c.stage \in {"start", "publish"} => c.runtime \in 1..MaxIosHandle
  /\ c.stage = "active" => c.op \in {"endpoint", "matches", "take"}
  /\ c.stage \in {"active", "endpoint", "take", "remove"} => c.proxy \in DOMAIN table
  /\ c.late => c.stage = "idle" \/ (c.stage = "active" /\ ~(table[c.proxy].active /\ ~table[c.proxy].stopping))

\* A proxy that is about to be registered is in the hands of one call alone.
InsertInv ==
  \A s, t \in IosThread : iosCall[t].stage = "insert" /\ s # t => ~Has(iosCall[s], iosCall[t].proxy)

\* A serving proxy of a replaced policy is in a list of what to stop.
PolicyInv ==
  \A p \in iosRegistered :
    (iosProxies[p].active /\ revision[iosProxies[p].runtime] # iosProxies[p].revision) =>
      \E t \in IosThread : Has(iosCall[t], p)

\* A proxy has stopped, is registered with its runtime, or a call will wait for it.
ReachInv ==
  \A p \in IosProxy : \/ iosProxies[p].stopped
                      \/ p \in iosRegistered /\ iosProxies[p].runtime \in runtimes
                      \/ \E t \in IosThread : Joins(iosCall[t], p)

IosInv ==
  /\ IosState /\ InsertInv /\ PolicyInv /\ ReachInv /\ OneActiveProxy /\ StoppedIsSilent
  /\ \A t \in IosThread : IosCallOk(iosCall[t], iosProxies, iosRegistered)

\* The types the proof uses give those of the module.
LEMMA IosStateTypes == IosState => IosTypes
<1>1. SUFFICES ASSUME IosState PROVE IosTypes OBVIOUS
<1>2. ASSUME NEW p \in IosProxy
      PROVE  /\ iosProxies[p].runtime \in 1..MaxIosHandle /\ iosProxies[p].handle \in 0..MaxIosHandle
             /\ {iosProxies[p].active, iosProxies[p].accepting,
                 iosProxies[p].stopping, iosProxies[p].stopped} \subseteq BOOLEAN
  <2>1. PICK B, L : iosProxies[p] \in IosProxyRecord(B, L) BY <1>1 DEF IosState, IsIosProxy
  <2>2. QED BY <2>1 DEF IosProxyRecord
<1>3. \A t \in IosThread : iosCall[t].code \in Codes /\ lastError[t] \in Codes BY <1>1 DEF IosState, IosCallRecord
<1>4. QED BY <1>1, <1>2, <1>3 DEF IosTypes, IosState

\* A thread that is at nothing, and whether what it found was late.
LEMMA IosIdleIsRecord ==
  ASSUME NEW late \in BOOLEAN
  PROVE  /\ [IosIdle EXCEPT !.late = late] \in IosCallRecord
         /\ [IosIdle EXCEPT !.late = late].todo = <<>>
         /\ [IosIdle EXCEPT !.late = late].stage = "idle"
         /\ [IosIdle EXCEPT !.late = late].late = late
<1>1. 0 \in 0..MaxIosHandle /\ <<>> \in Seq(IosEntry) BY IosAssumption
<1>2. QED BY <1>1 DEF IosIdle, IosCallRecord, IosOps, IosStages, StopStages, Codes

\* A thread that is at nothing.
LEMMA PlainIdleIsRecord ==
  IosIdle \in IosCallRecord /\ IosIdle.todo = <<>> /\ IosIdle.stage = "idle" /\ IosIdle.late = FALSE
<1>1. 0 \in 0..MaxIosHandle /\ <<>> \in Seq(IosEntry) BY IosAssumption
<1>2. QED BY <1>1 DEF IosIdle, IosCallRecord, IosOps, IosStages, StopStages, Codes

\* The entries of a list that is empty, has one, is taken from the front, or is joined to another.
LEMMA EntriesFacts ==
  /\ Entries(<<>>) = {}
  /\ \A x : Entries(<<x>>) = {x}
  /\ \A s \in Seq(IosEntry) : /\ Entries(s) \subseteq IosEntry
                              /\ s # <<>> => /\ Head(s) \in Entries(s) /\ Tail(s) \in Seq(IosEntry)
                                             /\ Entries(s) = {Head(s)} \cup Entries(Tail(s))
  /\ \A s, u \in Seq(IosEntry) : s \o u \in Seq(IosEntry) /\ Entries(s \o u) = Entries(s) \cup Entries(u)
<1>1. Entries(<<>>) = {} BY DEF Entries
<1>2. \A x : Entries(<<x>>) = {x} BY DEF Entries
<1>3. ASSUME NEW s \in Seq(IosEntry)
      PROVE  /\ Entries(s) \subseteq IosEntry
             /\ s # <<>> => /\ Head(s) \in Entries(s) /\ Tail(s) \in Seq(IosEntry)
                            /\ Entries(s) = {Head(s)} \cup Entries(Tail(s))
  <2>1. Entries(s) \subseteq IosEntry BY DEF Entries
  <2>2. ASSUME s # <<>>
        PROVE  /\ Head(s) \in Entries(s) /\ Tail(s) \in Seq(IosEntry)
               /\ Entries(s) = {Head(s)} \cup Entries(Tail(s))
    <3>1. Len(s) \in Nat /\ Len(s) >= 1 /\ DOMAIN s = 1..Len(s) BY <2>2
    <3>2. /\ Tail(s) \in Seq(IosEntry) /\ Len(Tail(s)) = Len(s) - 1 /\ DOMAIN Tail(s) = 1..(Len(s) - 1)
          /\ \A i \in 1..(Len(s) - 1) : Tail(s)[i] = s[i + 1]
      BY <2>2, <3>1
    <3>3. Head(s) = s[1] /\ 1 \in DOMAIN s BY <2>2, <3>1
    <3>4. Entries(s) \subseteq {Head(s)} \cup Entries(Tail(s))
      <4>1. ASSUME NEW i \in DOMAIN s PROVE s[i] = Head(s) \/ s[i] \in Entries(Tail(s))
        <5>1. CASE i = 1 BY <3>3, <5>1
        <5>2. CASE i # 1
          <6>1. i - 1 \in 1..(Len(s) - 1) BY <3>1, <5>2
          <6>2. Tail(s)[i - 1] = s[(i - 1) + 1] BY <3>2, <6>1
          <6>3. (i - 1) + 1 = i BY <3>1
          <6>4. s[i] = Tail(s)[i - 1] BY <6>2, <6>3
          <6>5. QED BY <3>2, <6>1, <6>4 DEF Entries
        <5>3. QED BY <5>1, <5>2
      <4>2. QED BY <4>1 DEF Entries
    <3>5. Entries(Tail(s)) \subseteq Entries(s)
      <4>1. ASSUME NEW i \in DOMAIN Tail(s) PROVE Tail(s)[i] \in Entries(s)
        <5>1. i + 1 \in DOMAIN s /\ Tail(s)[i] = s[i + 1] BY <3>1, <3>2
        <5>2. QED BY <5>1 DEF Entries
      <4>2. QED BY <4>1 DEF Entries
    <3>6. Head(s) \in Entries(s) BY <3>3 DEF Entries
    <3>7. QED BY <3>2, <3>4, <3>5, <3>6
  <2>3. QED BY <2>1, <2>2
<1>4. ASSUME NEW s \in Seq(IosEntry), NEW u \in Seq(IosEntry)
      PROVE  s \o u \in Seq(IosEntry) /\ Entries(s \o u) = Entries(s) \cup Entries(u)
  <2>1. /\ s \o u \in Seq(IosEntry) /\ DOMAIN (s \o u) = 1..(Len(s) + Len(u))
        /\ DOMAIN s = 1..Len(s) /\ DOMAIN u = 1..Len(u) /\ Len(s) \in Nat /\ Len(u) \in Nat
    OBVIOUS
  <2>2. \A i \in 1..(Len(s) + Len(u)) : (s \o u)[i] = IF i <= Len(s) THEN s[i] ELSE u[i - Len(s)]
    OBVIOUS
  <2>3. Entries(s \o u) \subseteq Entries(s) \cup Entries(u)
    <3>1. ASSUME NEW i \in 1..(Len(s) + Len(u)) PROVE (s \o u)[i] \in Entries(s) \cup Entries(u)
      <4>1. CASE i <= Len(s)
        <5>1. i \in DOMAIN s /\ (s \o u)[i] = s[i] BY <2>1, <2>2, <4>1
        <5>2. QED BY <5>1 DEF Entries
      <4>2. CASE ~(i <= Len(s))
        <5>1. i - Len(s) \in DOMAIN u /\ (s \o u)[i] = u[i - Len(s)] BY <2>1, <2>2, <4>2
        <5>2. QED BY <5>1 DEF Entries
      <4>3. QED BY <4>1, <4>2
    <3>2. QED BY <2>1, <3>1 DEF Entries
  <2>4. Entries(s) \subseteq Entries(s \o u)
    <3>1. ASSUME NEW i \in DOMAIN s PROVE s[i] \in Entries(s \o u)
      <4>1. i \in DOMAIN (s \o u) /\ (s \o u)[i] = s[i] BY <2>1, <2>2
      <4>2. QED BY <4>1 DEF Entries
    <3>2. QED BY <3>1 DEF Entries
  <2>5. Entries(u) \subseteq Entries(s \o u)
    <3>1. ASSUME NEW i \in DOMAIN u PROVE u[i] \in Entries(s \o u)
      <4>1. i + Len(s) \in DOMAIN (s \o u) BY <2>1
      <4>2. (s \o u)[i + Len(s)] = u[(i + Len(s)) - Len(s)] BY <2>1, <2>2
      <4>3. (i + Len(s)) - Len(s) = i BY <2>1
      <4>4. QED BY <4>1, <4>2, <4>3 DEF Entries
    <3>2. QED BY <3>1 DEF Entries
  <2>6. QED BY <2>1, <2>3, <2>4, <2>5
<1>5. QED BY <1>1, <1>2, <1>3, <1>4

\* The list of stops of a set of proxies names each of them, and no other.
LEMMA StopsFacts ==
  ASSUME NEW ps, IsFiniteSet(ps), ps \subseteq Nat, NEW join \in BOOLEAN, NEW todo \in Stops(ps, join)
  PROVE  /\ todo \in Seq(IosEntry)
         /\ Entries(todo) = {[proxy |-> p, join |-> join] : p \in ps}
         /\ todo = <<>> <=> ps = {}
<1>1. PICK s \in SetToSeqs(ps) : todo = [i \in DOMAIN s |-> [proxy |-> s[i], join |-> join]] BY DEF Stops
<1>2. PICK n \in Nat : n = Cardinality(ps) BY FS_CardinalityType
<1>3. s \in [1..n -> ps] /\ \A i, j \in 1..n : i # j => s[i] # s[j] BY <1>1, <1>2 DEF SetToSeqs
<1>4. \A p \in ps : \E i \in 1..n : s[i] = p
  <2>1. s \in Injection(1..n, ps) BY <1>3 DEF Injection, IsInjective
  <2>2. IsFiniteSet(1..n) /\ Cardinality(1..n) = n
    BY FS_Interval
  <2>3. s \in Surjection(1..n, ps) BY <1>2, <2>1, <2>2, FS_Injection
  <2>4. QED BY <2>3 DEF Surjection
<1>5. todo = [i \in 1..n |-> [proxy |-> s[i], join |-> join]] BY <1>1, <1>3
<1>6. \A i \in 1..n : [proxy |-> s[i], join |-> join] \in IosEntry BY <1>3 DEF IosEntry
<1>7. todo \in Seq(IosEntry) /\ DOMAIN todo = 1..n BY <1>5, <1>6
<1>8. Entries(todo) = {[proxy |-> p, join |-> join] : p \in ps}
  <2>1. Entries(todo) = {[proxy |-> s[i], join |-> join] : i \in 1..n} BY <1>5, <1>7 DEF Entries
  <2>2. {s[i] : i \in 1..n} = ps BY <1>3, <1>4
  <2>3. QED BY <2>1, <2>2
<1>9. todo = <<>> <=> ps = {}
  <2>1. todo = <<>> <=> n = 0 BY <1>7
  <2>2. n = 0 <=> ps = {} BY <1>2, FS_EmptySet
  <2>3. QED BY <2>1, <2>2
<1>10. QED BY <1>7, <1>8, <1>9

\* Setting one flag of a proxy weakens it.
LEMMA FlagsWeaken ==
  ASSUME NEW r, IsIosProxy(r), NEW s,
         \/ s = [r EXCEPT !["active"] = FALSE]
         \/ s = [r EXCEPT !["accepting"] = FALSE]
         \/ s = [r EXCEPT !["stopping"] = TRUE]
  PROVE  Weaker(r, s) /\ (s = [r EXCEPT !["active"] = FALSE] => ~s.active)
<1>1. PICK B, L : r \in IosProxyRecord(B, L) BY DEF IsIosProxy
<1>2. s \in IosProxyRecord(B, L) BY <1>1 DEF IosProxyRecord
<1>3. QED BY <1>1, <1>2 DEF IosProxyRecord, Weaker, IsIosProxy

\* What the invariant says of one call.
LEMMA IosNow ==
  ASSUME IosInv, NEW t \in IosThread
  PROVE  /\ IosState /\ iosCall[t] \in IosCallRecord /\ IosCallOk(iosCall[t], iosProxies, iosRegistered)
         /\ iosCall[t].todo \in Seq(IosEntry) /\ lastError \in [IosThread -> Codes]
         /\ iosCall[t].late \in BOOLEAN
  BY DEF IosInv, IosState, IosCallRecord

\* What holds of a call still holds when proxies are weakened and leave the registry.
LEMMA CallStaysOk ==
  ASSUME NEW c \in IosCallRecord, NEW table, NEW next, NEW named, NEW left,
         IosCallOk(c, table, named), left \subseteq named, DOMAIN next = DOMAIN table,
         \A p \in DOMAIN table : Weaker(table[p], next[p])
  PROVE  IosCallOk(c, next, left)
<1>1. c.todo \in Seq(IosEntry) BY DEF IosCallRecord
<1>2. \A e \in Entries(c.todo) : e.proxy \in DOMAIN next /\ (e.join => e.proxy \notin left) BY DEF IosCallOk
<1>3. c.todo # <<>> => Head(c.todo).proxy \in DOMAIN table
  BY <1>1, EntriesFacts DEF IosCallOk
<1>4. c.stage \in {"close", "revoke", "clear"} => ~next[Head(c.todo).proxy].active
  <2>1. c.stage \in {"close", "revoke", "clear"} => c.todo # <<>> BY DEF IosCallOk, StopStages
  <2>2. QED BY <1>3, <2>1 DEF IosCallOk, Weaker
<1>5. c.stage = "insert" =>
        /\ c.todo = <<[proxy |-> c.proxy, join |-> TRUE]>>
        /\ next[c.proxy].runtime = c.runtime /\ next[c.proxy].revision = c.revision
  <2>1. SUFFICES ASSUME c.stage = "insert"
                 PROVE  /\ c.todo = <<[proxy |-> c.proxy, join |-> TRUE]>>
                        /\ next[c.proxy].runtime = c.runtime /\ next[c.proxy].revision = c.revision
    OBVIOUS
  <2>2. c.todo = <<[proxy |-> c.proxy, join |-> TRUE]>> BY <2>1 DEF IosCallOk
  <2>3. Head(c.todo) = [proxy |-> c.proxy, join |-> TRUE] /\ c.todo # <<>> BY <2>2
  <2>4. c.proxy \in DOMAIN table BY <1>3, <2>3
  <2>5. QED BY <2>1, <2>2, <2>4 DEF IosCallOk, Weaker
<1>6. c.late => c.stage = "idle" \/ (c.stage = "active" /\ ~(next[c.proxy].active /\ ~next[c.proxy].stopping))
  BY DEF IosCallOk, Weaker
<1>7. QED BY <1>2, <1>4, <1>5, <1>6 DEF IosCallOk

\* One thread moves on, from any place, while proxies are weakened and leave the registry.
LEMMA IosThreadMoves ==
  ASSUME IosInv, NEW t \in IosThread, NEW c \in IosCallRecord, iosCall' = [iosCall EXCEPT ![t] = c],
         lastError' \in [IosThread -> Codes], \A s \in IosThread : s # t => lastError'[s] = lastError[s],
         c.stage = "idle" /\ c.late => lastError'[t] # "ok",
         iosHandle' \in 1..(MaxIosHandle + 1), runtimes' \subseteq 1..MaxIosHandle, revision' = revision,
         iosRegistered' \subseteq iosRegistered,
         \A p \in iosRegistered' : iosProxies[p].runtime \in runtimes => iosProxies[p].runtime \in runtimes',
         IosProxy' = IosProxy, \E S : iosProxies' \in Seq(S),
         \A p \in IosProxy : Weaker(iosProxies[p], iosProxies'[p]),
         IosCallOk(c, iosProxies', iosRegistered'), c.stage # "insert",
         \A e \in Entries(c.todo) : e \in Entries(iosCall[t].todo) \/ e.proxy \in iosRegistered,
         \A p \in iosRegistered' : Has(iosCall[t], p) /\ iosProxies'[p].active => Has(c, p),
         \A p \in IosProxy : p \in iosRegistered \ iosRegistered' \/ Joins(iosCall[t], p) =>
                               iosProxies'[p].stopped \/ Joins(c, p)
  PROVE  IosInv'
<1>1. IosState BY DEF IosInv
<1>2. /\ iosCall'[t] = c /\ \A s \in IosThread : s # t => iosCall'[s] = iosCall[s]
      /\ iosCall' \in [IosThread -> IosCallRecord]
  BY <1>1 DEF IosState
<1>3. IosState'
  <2>1. \A p \in IosProxy' : IsIosProxy(iosProxies'[p]) BY DEF Weaker
  <2>2. iosRegistered' \subseteq IosProxy' BY <1>1 DEF IosState
  <2>3. revision' \in [1..MaxIosHandle -> Nat] BY <1>1 DEF IosState
  <2>4. QED BY <1>2, <2>1, <2>2, <2>3 DEF IosState
<1>4. \A s \in IosThread : IosCallOk(iosCall'[s], iosProxies', iosRegistered')
  <2>1. TAKE s \in IosThread
  <2>2. CASE s = t BY <1>2, <2>2
  <2>3. CASE s # t
    <3>1. iosCall[s] \in IosCallRecord /\ IosCallOk(iosCall[s], iosProxies, iosRegistered) BY IosNow
    <3>2. DOMAIN iosProxies' = DOMAIN iosProxies BY DEF IosProxy
    <3>3. \A p \in DOMAIN iosProxies : Weaker(iosProxies[p], iosProxies'[p]) BY DEF IosProxy
    <3>4. IosCallOk(iosCall[s], iosProxies', iosRegistered') BY <3>1, <3>2, <3>3, CallStaysOk
    <3>5. QED BY <1>2, <2>3, <3>4
  <2>4. QED BY <2>2, <2>3
<1>5. InsertInv'
  <2>1. SUFFICES ASSUME NEW s \in IosThread, NEW u \in IosThread, iosCall'[u].stage = "insert", s # u,
                        Has(iosCall'[s], iosCall'[u].proxy)
                 PROVE  FALSE
    BY DEF InsertInv
  <2>2. iosCall'[u] = iosCall[u] BY <1>2, <2>1
  <2>3. CASE s # t BY <1>2, <2>1, <2>2, <2>3 DEF IosInv, InsertInv
  <2>4. CASE s = t
    <3>1. PICK e \in Entries(c.todo) : e.proxy = iosCall[u].proxy BY <1>2, <2>1, <2>2, <2>4 DEF Has
    <3>2. CASE e \in Entries(iosCall[t].todo)
      <4>1. Has(iosCall[t], iosCall[u].proxy) BY <3>1, <3>2 DEF Has
      <4>2. QED BY <2>1, <2>2, <2>4, <4>1 DEF IosInv, InsertInv
    <3>3. CASE e.proxy \in iosRegistered
      <4>1. IosCallOk(iosCall[u], iosProxies, iosRegistered) BY IosNow
      <4>2. iosCall[u].todo = <<[proxy |-> iosCall[u].proxy, join |-> TRUE]>> BY <2>1, <2>2, <4>1 DEF IosCallOk
      <4>3. \A x : Entries(<<x>>) = {x} BY EntriesFacts
      <4>4. [proxy |-> iosCall[u].proxy, join |-> TRUE] \in Entries(iosCall[u].todo) BY <4>2, <4>3
      <4>5. [proxy |-> iosCall[u].proxy, join |-> TRUE].proxy \notin iosRegistered BY <4>1, <4>4 DEF IosCallOk
      <4>6. QED BY <3>1, <3>3, <4>5
    <3>4. QED BY <3>1, <3>2, <3>3
  <2>5. QED BY <2>3, <2>4
<1>6. PolicyInv'
  <2>1. SUFFICES ASSUME NEW p \in iosRegistered', iosProxies'[p].active,
                        revision[iosProxies'[p].runtime] # iosProxies'[p].revision
                 PROVE  \E u \in IosThread : Has(iosCall'[u], p)
    BY DEF PolicyInv
  <2>2. p \in iosRegistered /\ p \in IosProxy BY <1>1 DEF IosState
  <2>3. iosProxies[p].active /\ revision[iosProxies[p].runtime] # iosProxies[p].revision
    BY <2>1, <2>2 DEF Weaker
  <2>4. PICK u \in IosThread : Has(iosCall[u], p) BY <2>2, <2>3 DEF IosInv, PolicyInv
  <2>5. CASE u = t BY <1>2, <2>1, <2>4, <2>5
  <2>6. CASE u # t BY <1>2, <2>4, <2>6
  <2>7. QED BY <2>5, <2>6
<1>7. ReachInv'
  <2>1. SUFFICES ASSUME NEW p \in IosProxy
                 PROVE  \/ iosProxies'[p].stopped
                        \/ p \in iosRegistered' /\ iosProxies'[p].runtime \in runtimes'
                        \/ \E u \in IosThread : Joins(iosCall'[u], p)
    BY DEF ReachInv
  <2>2. Weaker(iosProxies[p], iosProxies'[p]) OBVIOUS
  <2>3. CASE iosProxies[p].stopped BY <2>2, <2>3 DEF Weaker
  <2>4. CASE p \in iosRegistered /\ iosProxies[p].runtime \in runtimes
    <3>1. CASE p \in iosRegistered' BY <2>2, <2>4, <3>1 DEF Weaker
    <3>2. CASE p \notin iosRegistered' BY <1>2, <2>4, <3>2
    <3>3. QED BY <3>1, <3>2
  <2>5. CASE \E u \in IosThread : Joins(iosCall[u], p)
    <3>1. PICK u \in IosThread : Joins(iosCall[u], p) BY <2>5
    <3>2. CASE u = t BY <1>2, <3>1, <3>2
    <3>3. CASE u # t BY <1>2, <3>1, <3>3
    <3>4. QED BY <3>2, <3>3
  <2>6. QED BY <2>3, <2>4, <2>5 DEF IosInv, ReachInv
<1>8. OneActiveProxy'
  <2>1. \A p \in iosRegistered' : p \in IosProxy /\ p \in iosRegistered BY <1>1 DEF IosState
  <2>2. \A p \in iosRegistered' : Weaker(iosProxies[p], iosProxies'[p]) BY <2>1
  <2>3. \A p, q \in iosRegistered' :
          (iosProxies'[p].runtime = iosProxies'[q].runtime
             /\ (iosProxies'[p].active /\ ~iosProxies'[p].stopping /\ ~iosProxies'[p].stopped)
             /\ (iosProxies'[q].active /\ ~iosProxies'[q].stopping /\ ~iosProxies'[q].stopped)) => p = q
    BY <2>1, <2>2 DEF IosInv, OneActiveProxy, Active, Weaker
  <2>4. QED BY <2>3 DEF OneActiveProxy, Active
<1>9. StoppedIsSilent'
  <2>1. SUFFICES ASSUME NEW s \in IosThread, iosCall'[s].stage = "idle", iosCall'[s].late
                 PROVE  lastError'[s] # "ok"
    BY DEF StoppedIsSilent
  <2>2. CASE s = t BY <1>2, <2>1, <2>2
  <2>3. CASE s # t BY <1>2, <2>1, <2>3 DEF IosInv, StoppedIsSilent
  <2>4. QED BY <2>2, <2>3
<1>10. QED BY <1>3, <1>4, <1>5, <1>6, <1>7, <1>8, <1>9 DEF IosInv

\* A proxy that stays is no more than it was.
LEMMA WeakerItself == \A r : IsIosProxy(r) => Weaker(r, r) BY DEF Weaker

\* No proxy changes.
LEMMA IosTableSame ==
  ASSUME IosState, iosProxies' = iosProxies
  PROVE  /\ IosProxy' = IosProxy /\ (\E S : iosProxies' \in Seq(S))
         /\ \A p \in IosProxy : Weaker(iosProxies[p], iosProxies'[p])
<1>1. IosProxy' = IosProxy BY DEF IosProxy
<1>2. \A p \in IosProxy : Weaker(iosProxies[p], iosProxies'[p]) BY WeakerItself DEF IosState
<1>3. QED BY <1>1, <1>2 DEF IosState

\* One proxy is weakened.
LEMMA IosProxyMoves ==
  ASSUME IosState, NEW p \in IosProxy, NEW d, Weaker(iosProxies[p], d),
         iosProxies' = [iosProxies EXCEPT ![p] = d]
  PROVE  /\ IosProxy' = IosProxy /\ (\E S : iosProxies' \in Seq(S))
         /\ \A q \in IosProxy : Weaker(iosProxies[q], iosProxies'[q])
         /\ iosProxies'[p] = d /\ \A q \in IosProxy : q # p => iosProxies'[q] = iosProxies[q]
<1>1. PICK f, g : f = iosProxies /\ g = iosProxies' OBVIOUS
<1>2. PICK S : f \in Seq(S) BY <1>1 DEF IosState
<1>3. p \in DOMAIN f /\ g = [f EXCEPT ![p] = d] BY <1>1 DEF IosProxy
<1>4. /\ DOMAIN g = DOMAIN f /\ g \in Seq(S \cup {d}) /\ g[p] = d
      /\ \A q \in DOMAIN f : q # p => g[q] = f[q]
  BY <1>2, <1>3
<1>5. IosProxy' = IosProxy BY <1>1, <1>4 DEF IosProxy
<1>6. \A q \in IosProxy : q # p => iosProxies'[q] = iosProxies[q] BY <1>1, <1>4 DEF IosProxy
<1>7. iosProxies'[p] = d BY <1>1, <1>4
<1>8. ASSUME NEW q \in IosProxy PROVE Weaker(iosProxies[q], iosProxies'[q])
  <2>1. CASE q = p BY <1>7, <2>1
  <2>2. CASE q # p
    <3>1. Weaker(iosProxies[q], iosProxies[q]) BY WeakerItself DEF IosState
    <3>2. QED BY <1>6, <2>2, <3>1
  <2>3. QED BY <2>1, <2>2
<1>9. \E T : iosProxies' \in Seq(T) BY <1>1, <1>4
<1>10. QED BY <1>5, <1>6, <1>7, <1>8, <1>9

\* A call with nothing to stop moves on, to a place where it has nothing to stop.
LEMMA IosPlainMoves ==
  ASSUME IosInv, NEW t \in IosThread, NEW c \in IosCallRecord, iosCall' = [iosCall EXCEPT ![t] = c],
         lastError' \in [IosThread -> Codes], \A s \in IosThread : s # t => lastError'[s] = lastError[s],
         c.stage = "idle" /\ c.late => lastError'[t] # "ok",
         iosHandle' \in 1..(MaxIosHandle + 1), runtimes' \subseteq 1..MaxIosHandle, runtimes \subseteq runtimes',
         revision' = revision, iosRegistered' = iosRegistered,
         IosProxy' = IosProxy, \E S : iosProxies' \in Seq(S),
         \A p \in IosProxy : Weaker(iosProxies[p], iosProxies'[p]),
         iosCall[t].todo = <<>>, c.todo = <<>>, IosCallOk(c, iosProxies', iosRegistered')
  PROVE  IosInv'
<1>1. Entries(<<>>) = {} BY EntriesFacts
<1>2. c.stage # "insert" BY DEF IosCallOk
<1>3. \A p : ~Has(iosCall[t], p) /\ ~Joins(iosCall[t], p) BY <1>1 DEF Has, Joins
<1>4. \A e \in Entries(c.todo) : e \in Entries(iosCall[t].todo) \/ e.proxy \in iosRegistered BY <1>1
<1>5. \A p \in iosRegistered' : iosProxies[p].runtime \in runtimes => iosProxies[p].runtime \in runtimes' OBVIOUS
<1>6. QED BY <1>2, <1>3, <1>4, <1>5, IosThreadMoves

\* A call with nothing to stop and none of the states it must not have.
LEMMA PlainCallOk ==
  ASSUME NEW c, NEW table, NEW named, c.todo = <<>>,
         c.stage \in {"idle", "open", "publish", "operate", "start", "active", "endpoint", "take", "remove"},
         c.stage \in {"start", "publish"} => c.runtime \in 1..MaxIosHandle,
         c.stage = "active" => c.op \in {"endpoint", "matches", "take"},
         c.stage \in {"active", "endpoint", "take", "remove"} => c.proxy \in DOMAIN table,
         c.late => c.stage = "idle" \/ (c.stage = "active" /\ ~(table[c.proxy].active /\ ~table[c.proxy].stopping))
  PROVE  IosCallOk(c, table, named)
<1>1. Entries(<<>>) = {} BY EntriesFacts
<1>2. c.stage \notin StopStages \cup {"insert"} BY DEF StopStages
<1>3. QED BY <1>1, <1>2 DEF IosCallOk

\* A call that is not about to stop anything has nothing to stop.
LEMMA IosEntersWithNothing ==
  ASSUME IosInv, NEW t \in IosThread, iosCall[t].stage \notin StopStages \cup {"insert"}
  PROVE  iosCall[t].todo = <<>>
BY IosNow DEF IosCallOk

\* The registry and the proxies as they were, while the handles may grow.
HandlesGrow ==
  /\ iosHandle' \in 1..(MaxIosHandle + 1) /\ runtimes' \subseteq 1..MaxIosHandle /\ runtimes \subseteq runtimes'
  /\ revision' = revision /\ iosRegistered' = iosRegistered

\* A call returns with a code.
LEMMA IosReturns ==
  ASSUME IosInv, NEW t \in IosThread, NEW code \in Codes, IosReturn(t, code), HandlesGrow,
         IosProxy' = IosProxy, \E S : iosProxies' \in Seq(S),
         \A p \in IosProxy : Weaker(iosProxies[p], iosProxies'[p]),
         iosCall[t].stage \notin StopStages \cup {"insert"}, iosCall[t].late => code # "ok"
  PROVE  IosInv'
<1>1. PICK late : late = iosCall[t].late /\ late \in BOOLEAN BY IosNow
<1>2. PICK c : c = [IosIdle EXCEPT !.late = late] OBVIOUS
<1>3. c \in IosCallRecord /\ c.todo = <<>> /\ c.stage = "idle" /\ c.late = late BY <1>1, <1>2, IosIdleIsRecord
<1>4. iosCall' = [iosCall EXCEPT ![t] = c] BY <1>1, <1>2 DEF IosReturn
<1>5. lastError \in [IosThread -> Codes] BY IosNow
<1>6. /\ lastError' \in [IosThread -> Codes] /\ \A s \in IosThread : s # t => lastError'[s] = lastError[s]
      /\ lastError'[t] = code
  BY <1>5 DEF IosReturn
<1>7. iosCall[t].todo = <<>> BY IosEntersWithNothing
<1>8. IosCallOk(c, iosProxies', iosRegistered') BY <1>3, PlainCallOk
<1>9. c.stage = "idle" /\ c.late => lastError'[t] # "ok" BY <1>1, <1>3, <1>6
<1>10. QED BY <1>3, <1>4, <1>6, <1>7, <1>8, <1>9, IosPlainMoves DEF HandlesGrow

\* The state of the registry and the proxies, which most calls leave alone.
LEMMA HandlesStay ==
  ASSUME IosInv, UNCHANGED handleVars
  PROVE  HandlesGrow
BY DEF handleVars, HandlesGrow, IosInv, IosState

\* A call returns with a code and changes no proxy.
LEMMA IosReturnsOnly ==
  ASSUME IosInv, NEW t \in IosThread, NEW code \in Codes, IosReturn(t, code), HandlesGrow, iosProxies' = iosProxies,
         iosCall[t].stage \notin StopStages \cup {"insert"}, iosCall[t].late => code # "ok"
  PROVE  IosInv'
<1>1. /\ IosProxy' = IosProxy /\ (\E S : iosProxies' \in Seq(S))
      /\ \A p \in IosProxy : Weaker(iosProxies[p], iosProxies'[p])
  BY IosTableSame DEF IosInv
<1>2. QED BY <1>1, IosReturns

\* A call that sets its record afresh: it has nothing to stop, and nothing of it is left.
LEMMA IosStarts ==
  ASSUME IosInv, NEW t \in IosThread, NEW c \in IosCallRecord, iosCall' = [iosCall EXCEPT ![t] = c],
         lastError' \in [IosThread -> Codes], \A s \in IosThread : s # t => lastError'[s] = lastError[s],
         iosCall[t].stage \notin StopStages \cup {"insert"},
         UNCHANGED <<handleVars, iosProxies>>, c.stage # "idle" \/ ~c.late,
         c.todo = <<>>, IosCallOk(c, iosProxies, iosRegistered)
  PROVE  IosInv'
<1>1. /\ IosProxy' = IosProxy /\ (\E S : iosProxies' \in Seq(S))
      /\ \A p \in IosProxy : Weaker(iosProxies[p], iosProxies'[p])
  BY IosTableSame DEF IosInv
<1>2. HandlesGrow BY HandlesStay
<1>3. iosCall[t].todo = <<>> BY IosEntersWithNothing
<1>4. IosCallOk(c, iosProxies', iosRegistered') BY <1>2 DEF HandlesGrow
<1>5. QED BY <1>1, <1>2, <1>3, <1>4, IosPlainMoves DEF HandlesGrow

\* A call is refused before it begins.
LEMMA IosRejects ==
  ASSUME IosInv, NEW t \in IosThread, NEW code \in Codes, IosReject(t, code),
         iosCall[t].stage \notin StopStages \cup {"insert"}, UNCHANGED <<handleVars, iosProxies>>
  PROVE  IosInv'
<1>1. PICK c : c = IosIdle OBVIOUS
<1>2. c \in IosCallRecord /\ c.todo = <<>> /\ c.stage = "idle" /\ c.late = FALSE BY <1>1, PlainIdleIsRecord
<1>3. iosCall' = [iosCall EXCEPT ![t] = c] BY <1>1 DEF IosReject
<1>4. lastError \in [IosThread -> Codes] BY IosNow
<1>5. lastError' \in [IosThread -> Codes] /\ \A s \in IosThread : s # t => lastError'[s] = lastError[s]
  BY <1>4 DEF IosReject
<1>6. IosCallOk(c, iosProxies, iosRegistered) BY <1>2, PlainCallOk
<1>7. QED BY <1>2, <1>3, <1>5, <1>6, IosStarts

\* A call begins with its arguments.
LEMMA IosBegins ==
  ASSUME IosInv, NEW t \in IosThread, NEW op \in IosOps, NEW h \in 0..MaxIosHandle, NEW p \in Nat, NEW late \in BOOLEAN,
         NEW stage \in {"open", "publish", "operate", "start", "active"}, IosBegin(t, op, stage, h, p, late),
         stage \in {"start", "publish"} => h \in 1..MaxIosHandle,
         stage = "active" => op \in {"endpoint", "matches", "take"} /\ p \in IosProxy,
         late => stage = "active" /\ ~(iosProxies[p].active /\ ~iosProxies[p].stopping),
         iosCall[t].stage \notin StopStages \cup {"insert"}, UNCHANGED <<handleVars, iosProxies>>
  PROVE  IosInv'
<1>1. PICK c : c = [IosIdle EXCEPT !.op = op, !.stage = stage, !.runtime = h, !.proxy = p, !.late = late] OBVIOUS
<1>2. /\ c \in IosCallRecord /\ c.op = op /\ c.stage = stage /\ c.runtime = h /\ c.proxy = p /\ c.late = late
      /\ c.todo = <<>>
  <2>1. stage \in IosStages BY DEF IosStages
  <2>2. <<>> \in Seq(IosEntry) OBVIOUS
  <2>3. QED BY <1>1, <2>1, <2>2 DEF IosIdle, IosCallRecord, Codes
<1>3. iosCall' = [iosCall EXCEPT ![t] = c] BY <1>1 DEF IosBegin
<1>4. lastError \in [IosThread -> Codes] BY IosNow
<1>5. lastError' \in [IosThread -> Codes] /\ \A s \in IosThread : s # t => lastError'[s] = lastError[s]
  BY <1>4 DEF IosBegin, Codes
<1>6. IosCallOk(c, iosProxies, iosRegistered) BY <1>2, PlainCallOk DEF IosProxy
<1>7. QED BY <1>2, <1>3, <1>5, <1>6, IosStarts

\* The codes a call may end with.
LEMMA IosCodes ==
  {"ok", "invalid", "not_found", "not_ready", "exhausted", "runtime_error", "proxy_error", "buffer_error"} \subseteq Codes
BY DEF Codes

\* A thread that enters has nothing to stop.
LEMMA IosEntered ==
  ASSUME NEW t \in IosThread, IosEnter(t)
  PROVE  iosCall[t].stage \notin StopStages \cup {"insert"}
BY DEF IosEnter, StopStages

\* A handle the application passes is one that was given, or none.
LEMMA PassedInRange ==
  ASSUME IosInv, NEW h \in Passed
  PROVE  h \in 0..MaxIosHandle /\ (RuntimeEntry(h) => h \in 1..MaxIosHandle)
BY IosAssumption DEF IosInv, IosState, Passed, RuntimeEntry

\* A call with a place that is not about stopping has nothing late left.
LEMMA NeverLate ==
  ASSUME IosInv, NEW t \in IosThread, iosCall[t].stage \notin {"idle", "active"}
  PROVE  ~iosCall[t].late
BY IosNow DEF IosCallOk

\* The calls on buffers and names change no handle.
LEMMA BufferSteps ==
  ASSUME IosInv, NEW t \in IosThread,
         \/ BufferFree(t) \/ LastError(t) \/ CoreVersion(t) \/ DiagnosticsJson(t) \/ CanonicalHost(t)
         \/ HnsRoot(t) \/ ClassifyName(t)
  PROVE  IosInv'
<1>1. CASE BufferFree(t)
  <2>1. iosCall[t].stage \notin StopStages \cup {"insert"} BY <1>1, IosEntered DEF BufferFree
  <2>2. (\E code \in Codes : IosReject(t, code)) /\ UNCHANGED <<handleVars, iosProxies>>
    <3>1. IosReject(t, "ok") \/ IosReject(t, "buffer_error") BY <1>1 DEF BufferFree
    <3>2. QED BY <1>1, <3>1, IosCodes DEF BufferFree
  <2>3. QED BY <2>1, <2>2, IosRejects
<1>2. CASE LastError(t)
  <2>1. iosCall[t].stage \notin StopStages \cup {"insert"} BY <1>2, IosEntered DEF LastError
  <2>2. UNCHANGED <<handleVars, iosProxies>> BY <1>2 DEF LastError
  <2>3. CASE iosCall' = [iosCall EXCEPT ![t] = IosIdle] /\ UNCHANGED lastError
    <3>1. PICK c : c = IosIdle OBVIOUS
    <3>2. c \in IosCallRecord /\ c.todo = <<>> /\ c.stage = "idle" /\ c.late = FALSE BY <3>1, PlainIdleIsRecord
    <3>3. iosCall' = [iosCall EXCEPT ![t] = c] BY <2>3, <3>1
    <3>4. lastError' \in [IosThread -> Codes] /\ \A s \in IosThread : s # t => lastError'[s] = lastError[s]
      BY <2>3, IosNow
    <3>5. IosCallOk(c, iosProxies, iosRegistered) BY <3>2, PlainCallOk
    <3>6. QED BY <2>1, <2>2, <3>2, <3>3, <3>4, <3>5, IosStarts
  <2>4. CASE IosReject(t, "exhausted") BY <2>1, <2>2, <2>4, IosCodes, IosRejects
  <2>5. QED BY <1>2, <2>3, <2>4 DEF LastError
<1>3. ASSUME NEW found \in BOOLEAN, Text(t, found) PROVE IosInv'
  <2>1. iosCall[t].stage \notin StopStages \cup {"insert"} BY <1>3, IosEntered DEF Text
  <2>2. (\E code \in Codes : IosReject(t, code)) /\ UNCHANGED <<handleVars, iosProxies>>
    <3>1. \/ IosReject(t, "ok") \/ IosReject(t, "invalid") \/ IosReject(t, "not_found") \/ IosReject(t, "exhausted")
      BY <1>3 DEF Text, BadInput
    <3>2. UNCHANGED <<handleVars, iosProxies>> BY <1>3 DEF Text
    <3>3. QED BY <3>1, <3>2, IosCodes
  <2>3. QED BY <2>1, <2>2, IosRejects
<1>4. CASE ClassifyName(t)
  <2>1. iosCall[t].stage \notin StopStages \cup {"insert"} BY <1>4, IosEntered DEF ClassifyName
  <2>2. (\E code \in Codes : IosReject(t, code)) /\ UNCHANGED <<handleVars, iosProxies>>
    BY <1>4, IosCodes DEF ClassifyName, BadInput
  <2>3. QED BY <2>1, <2>2, IosRejects
<1>5. QED BY <1>1, <1>2, <1>3, <1>4 DEF CoreVersion, DiagnosticsJson, CanonicalHost, HnsRoot

\* The calls on a runtime begin, after their checks.
LEMMA RuntimeStarts ==
  ASSUME IosInv, NEW t \in IosThread, RuntimeCreate(t) \/ IosSetPolicy(t) \/ StatusJson(t) \/ ProxyStart(t)
  PROVE  IosInv'
<1>1. iosCall[t].stage \notin StopStages \cup {"insert"} /\ UNCHANGED <<handleVars, iosProxies>>
  BY IosEntered DEF RuntimeCreate, IosSetPolicy, StatusJson, ProxyStart
<1>2. CASE \E code \in Codes : IosReject(t, code) BY <1>1, <1>2, IosRejects
<1>3. CASE \E op \in IosOps, h \in 0..MaxIosHandle, stage \in {"open", "publish", "operate", "start", "active"} :
             /\ IosBegin(t, op, stage, h, 0, FALSE) /\ stage # "active"
             /\ stage \in {"start", "publish"} => h \in 1..MaxIosHandle
  <2>1. PICK op \in IosOps, h \in 0..MaxIosHandle, stage \in {"open", "publish", "operate", "start", "active"} :
          /\ IosBegin(t, op, stage, h, 0, FALSE) /\ stage # "active"
          /\ stage \in {"start", "publish"} => h \in 1..MaxIosHandle
    BY <1>3
  <2>2. 0 \in Nat /\ FALSE \in BOOLEAN OBVIOUS
  <2>3. QED BY <1>1, <2>1, <2>2, IosBegins
<1>4. CASE RuntimeCreate(t)
  <2>1. IosReject(t, "invalid") \/ IosReject(t, "exhausted") \/ IosBegin(t, "create", "open", 0, 0, FALSE)
    BY <1>4 DEF RuntimeCreate, BadFields
  <2>2. "create" \in IosOps /\ 0 \in 0..MaxIosHandle BY IosAssumption DEF IosOps
  <2>3. QED BY <1>2, <1>3, <2>1, <2>2, IosCodes
<1>5. CASE IosSetPolicy(t)
  <2>1. \/ IosReject(t, "invalid") \/ IosReject(t, "not_found")
        \/ \E h \in Passed : RuntimeEntry(h) /\ IosBegin(t, "policy", "publish", h, 0, FALSE)
    BY <1>5 DEF IosSetPolicy, BadFields
  <2>2. "policy" \in IosOps BY DEF IosOps
  <2>3. ASSUME NEW h \in Passed, RuntimeEntry(h), IosBegin(t, "policy", "publish", h, 0, FALSE) PROVE IosInv'
    <3>1. h \in 0..MaxIosHandle /\ h \in 1..MaxIosHandle BY <2>3, PassedInRange
    <3>2. QED BY <1>3, <2>2, <2>3, <3>1
  <2>4. QED BY <1>2, <2>1, <2>3, IosCodes
<1>6. CASE StatusJson(t)
  <2>1. \/ IosReject(t, "invalid") \/ IosReject(t, "not_found")
        \/ \E h \in Passed : RuntimeEntry(h) /\ IosBegin(t, "json", "operate", h, 0, FALSE)
    BY <1>6 DEF StatusJson, BadInput
  <2>2. "json" \in IosOps BY DEF IosOps
  <2>3. ASSUME NEW h \in Passed, RuntimeEntry(h), IosBegin(t, "json", "operate", h, 0, FALSE) PROVE IosInv'
    <3>1. h \in 0..MaxIosHandle BY <2>3, PassedInRange
    <3>2. QED BY <1>3, <2>2, <2>3, <3>1
  <2>4. QED BY <1>2, <2>1, <2>3, IosCodes
<1>7. CASE ProxyStart(t)
  <2>1. \/ IosReject(t, "invalid") \/ IosReject(t, "not_found") \/ IosReject(t, "exhausted") \/ IosReject(t, "proxy_error")
        \/ \E h \in Passed : RuntimeEntry(h) /\ IosBegin(t, "start", "start", h, 0, FALSE)
    BY <1>7 DEF ProxyStart, BadInput
  <2>2. "start" \in IosOps BY DEF IosOps
  <2>3. ASSUME NEW h \in Passed, RuntimeEntry(h), IosBegin(t, "start", "start", h, 0, FALSE) PROVE IosInv'
    <3>1. h \in 0..MaxIosHandle /\ h \in 1..MaxIosHandle BY <2>3, PassedInRange
    <3>2. QED BY <1>3, <2>2, <2>3, <3>1
  <2>4. QED BY <1>2, <2>1, <2>3, IosCodes
<1>8. QED BY <1>4, <1>5, <1>6, <1>7

\* The calls that ask a proxy something begin.
LEMMA QueryStep ==
  ASSUME IosInv, NEW t \in IosThread, NEW op \in {"endpoint", "matches", "take"}, Query(t, op)
  PROVE  IosInv'
<1>1. iosCall[t].stage \notin StopStages \cup {"insert"} /\ UNCHANGED <<handleVars, iosProxies>>
  BY IosEntered DEF Query
<1>2. CASE IosReject(t, "invalid") \/ IosReject(t, "not_found") BY <1>1, <1>2, IosCodes, IosRejects
<1>3. ASSUME NEW h \in Passed, NEW p \in ProxyEntry(h),
             IosBegin(t, op, "active", iosProxies[p].runtime, p, ~iosProxies[p].active \/ iosProxies[p].stopping)
      PROVE  IosInv'
  <2>1. p \in IosProxy /\ p \in Nat
    <3>1. p \in IosProxy BY DEF ProxyEntry, IosInv, IosState
    <3>2. PICK f : f = iosProxies OBVIOUS
    <3>3. PICK S : f \in Seq(S) BY <3>2 DEF IosInv, IosState
    <3>4. DOMAIN f \subseteq Nat BY <3>3
    <3>5. QED BY <3>1, <3>2, <3>4 DEF IosProxy
  <2>2. IsIosProxy(iosProxies[p]) BY <2>1 DEF IosInv, IosState
  <2>3. PICK B, L : iosProxies[p] \in IosProxyRecord(B, L) BY <2>2 DEF IsIosProxy
  <2>4. iosProxies[p].runtime \in 0..MaxIosHandle /\ (~iosProxies[p].active \/ iosProxies[p].stopping) \in BOOLEAN
    BY <2>3 DEF IosProxyRecord
  <2>5. PICK r, late : r = iosProxies[p].runtime /\ late = (~iosProxies[p].active \/ iosProxies[p].stopping) OBVIOUS
  <2>6. op \in IosOps BY DEF IosOps
  <2>7. late => ~(iosProxies[p].active /\ ~iosProxies[p].stopping) BY <2>5
  <2>8. IosBegin(t, op, "active", r, p, late) BY <1>3, <2>5
  <2>9. r \in 0..MaxIosHandle /\ late \in BOOLEAN BY <2>4, <2>5
  <2>10. QED BY <1>1, <2>1, <2>6, <2>7, <2>8, <2>9, IosBegins
<1>4. QED BY <1>2, <1>3 DEF Query, BadInput

\* Nobody moves, while proxies are weakened.
LEMMA IosTableMoves ==
  ASSUME IosInv, iosCall' = iosCall, lastError' = lastError, UNCHANGED handleVars,
         IosProxy' = IosProxy, \E S : iosProxies' \in Seq(S),
         \A p \in IosProxy : Weaker(iosProxies[p], iosProxies'[p])
  PROVE  IosInv'
<1>1. IosState /\ iosHandle' = iosHandle /\ runtimes' = runtimes /\ revision' = revision /\ iosRegistered' = iosRegistered
  BY DEF IosInv, handleVars
<1>2. IosState'
  <2>1. \A p \in IosProxy' : IsIosProxy(iosProxies'[p]) BY DEF Weaker
  <2>2. QED BY <1>1, <2>1 DEF IosState
<1>3. \A s \in IosThread : IosCallOk(iosCall'[s], iosProxies', iosRegistered')
  <2>1. TAKE s \in IosThread
  <2>2. iosCall[s] \in IosCallRecord /\ IosCallOk(iosCall[s], iosProxies, iosRegistered) BY IosNow
  <2>3. DOMAIN iosProxies' = DOMAIN iosProxies BY DEF IosProxy
  <2>4. \A p \in DOMAIN iosProxies : Weaker(iosProxies[p], iosProxies'[p]) BY DEF IosProxy
  <2>5. IosCallOk(iosCall[s], iosProxies', iosRegistered') BY <1>1, <2>2, <2>3, <2>4, CallStaysOk
  <2>6. QED BY <2>5
<1>4. InsertInv' BY DEF IosInv, InsertInv
<1>5. PolicyInv'
  <2>1. \A p \in iosRegistered : p \in IosProxy BY <1>1 DEF IosState
  <2>2. QED BY <1>1, <2>1 DEF IosInv, PolicyInv, Weaker
<1>6. ReachInv' BY <1>1 DEF IosInv, ReachInv, Weaker
<1>7. OneActiveProxy'
  <2>1. \A p \in iosRegistered : p \in IosProxy BY <1>1 DEF IosState
  <2>2. QED BY <1>1, <2>1 DEF IosInv, OneActiveProxy, Active, Weaker
<1>8. StoppedIsSilent' BY DEF IosInv, StoppedIsSilent
<1>9. QED BY <1>2, <1>3, <1>4, <1>5, <1>6, <1>7, <1>8 DEF IosInv

\* No call and no handle moves.
LEMMA IosStutter ==
  ASSUME IosInv, iosCall' = iosCall, lastError' = lastError, UNCHANGED <<handleVars, iosProxies>>
  PROVE  IosInv'
<1>1. /\ IosProxy' = IosProxy /\ (\E S : iosProxies' \in Seq(S))
      /\ \A p \in IosProxy : Weaker(iosProxies[p], iosProxies'[p])
  BY IosTableSame DEF IosInv
<1>2. QED BY <1>1, IosTableMoves

\* The mailbox and its lock are nobody's business but their own.
LEMMA BoxWeakens ==
  ASSUME NEW r, IsIosProxy(r), NEW lock, NEW box
  PROVE  Weaker(r, [r EXCEPT !.lock = lock]) /\ Weaker(r, [r EXCEPT !.box = box])
         /\ Weaker(r, [r EXCEPT !.lock = lock, !.box = box])
<1>1. PICK B, L : r \in IosProxyRecord(B, L) BY DEF IsIosProxy
<1>2. /\ [r EXCEPT !.lock = lock] \in IosProxyRecord(B, {lock})
      /\ [r EXCEPT !.box = box] \in IosProxyRecord({box}, L)
      /\ [r EXCEPT !.lock = lock, !.box = box] \in IosProxyRecord({box}, {lock})
  BY <1>1 DEF IosProxyRecord
<1>3. QED BY <1>1, <1>2 DEF IosProxyRecord, Weaker, IsIosProxy

\* A mailbox or its lock changes; the proxy it belongs to does not.
LEMMA BoxMoves ==
  ASSUME IosInv, NEW p \in IosProxy, NEW lock, NEW box,
         \/ iosProxies' = [iosProxies EXCEPT ![p].lock = lock]
         \/ iosProxies' = [iosProxies EXCEPT ![p].box = box]
         \/ iosProxies' = [iosProxies EXCEPT ![p].lock = lock, ![p].box = box]
  PROVE  /\ IosProxy' = IosProxy /\ (\E S : iosProxies' \in Seq(S))
         /\ \A q \in IosProxy : Weaker(iosProxies[q], iosProxies'[q])
<1>1. IosState /\ IsIosProxy(iosProxies[p]) BY DEF IosInv, IosState
<1>2. \E d : Weaker(iosProxies[p], d) /\ iosProxies' = [iosProxies EXCEPT ![p] = d]
  <2>1. CASE iosProxies' = [iosProxies EXCEPT ![p].lock = lock] BY <1>1, <2>1, BoxWeakens
  <2>2. CASE iosProxies' = [iosProxies EXCEPT ![p].box = box] BY <1>1, <2>2, BoxWeakens
  <2>3. CASE iosProxies' = [iosProxies EXCEPT ![p].lock = lock, ![p].box = box]
    <3>1. iosProxies' = [iosProxies EXCEPT ![p] = [iosProxies[p] EXCEPT !.lock = lock, !.box = box]] BY <2>3 DEF IosProxy
    <3>2. QED BY <1>1, <3>1, BoxWeakens
  <2>4. QED BY <2>1, <2>2, <2>3
<1>3. PICK d : Weaker(iosProxies[p], d) /\ iosProxies' = [iosProxies EXCEPT ![p] = d] BY <1>2
<1>4. QED BY <1>1, <1>3, IosProxyMoves

\* The observer of a proxy records and queues a status.
LEMMA WorkerSteps ==
  ASSUME IosInv, NEW p \in IosProxy, IosObserveStatus(p) \/ QueueStatus(p)
  PROVE  IosInv'
<1>1. iosCall' = iosCall /\ lastError' = lastError /\ UNCHANGED handleVars BY DEF IosObserveStatus, QueueStatus
<1>2. \E lock, box : \/ iosProxies' = [iosProxies EXCEPT ![p].lock = lock]
                     \/ iosProxies' = [iosProxies EXCEPT ![p].lock = lock, ![p].box = box]
  <2>1. CASE IosObserveStatus(p) BY <2>1 DEF IosObserveStatus
  <2>2. CASE QueueStatus(p)
    <3>1. PICK x \in IosHost : iosProxies' = [iosProxies EXCEPT ![p].lock = "free",
                                       ![p].box = Queued(@, [host |-> x, seq |-> iosObserved + 1])]
      BY <2>2 DEF QueueStatus
    <3>2. iosProxies' = [iosProxies EXCEPT ![p].lock = "free",
                           ![p].box = Queued(iosProxies[p].box, [host |-> x, seq |-> iosObserved + 1])]
      BY <3>1
    <3>3. QED BY <3>2
  <2>3. QED BY <2>1, <2>2
<1>3. PICK lock, box : \/ iosProxies' = [iosProxies EXCEPT ![p].lock = lock]
                       \/ iosProxies' = [iosProxies EXCEPT ![p].lock = lock, ![p].box = box]
  BY <1>2
<1>4. /\ IosProxy' = IosProxy /\ (\E S : iosProxies' \in Seq(S))
      /\ \A q \in IosProxy : Weaker(iosProxies[q], iosProxies'[q])
  BY <1>3, BoxMoves
<1>5. QED BY <1>1, <1>4, IosTableMoves

\* A status is taken out of the mailbox.
LEMMA TakeStep ==
  ASSUME IosInv, NEW t \in IosThread, TakeStatus(t)
  PROVE  IosInv'
<1>1. iosCall[t].stage = "remove" /\ UNCHANGED handleVars BY DEF TakeStatus, IosAt
<1>2. PICK p : p = iosCall[t].proxy OBVIOUS
<1>3. p \in IosProxy BY <1>1, <1>2, IosNow DEF IosCallOk, IosProxy
<1>4. iosCall[t].stage \notin StopStages \cup {"insert"} /\ ~iosCall[t].late BY <1>1, NeverLate DEF StopStages
<1>5. \E code \in Codes : IosReturn(t, code)
  <2>1. IosReturn(t, "not_ready") \/ IosReturn(t, "exhausted") \/ IosReturn(t, "ok") BY DEF TakeStatus
  <2>2. QED BY <2>1, IosCodes
<1>6. \E box : \/ iosProxies' = [iosProxies EXCEPT ![p].lock = "free"]
               \/ iosProxies' = [iosProxies EXCEPT ![p].lock = "free", ![p].box = box]
  <2>1. \/ iosProxies' = [iosProxies EXCEPT ![p].lock = "free"]
        \/ \E x \in IosHost : iosProxies' = [iosProxies EXCEPT ![p].lock = "free",
                                               ![p].box = SelectSeq(@, LAMBDA s : s.host # x)]
    BY <1>2 DEF TakeStatus
  <2>2. ASSUME NEW x \in IosHost,
               iosProxies' = [iosProxies EXCEPT ![p].lock = "free", ![p].box = SelectSeq(@, LAMBDA s : s.host # x)]
        PROVE  \E box : iosProxies' = [iosProxies EXCEPT ![p].lock = "free", ![p].box = box]
    BY <2>2
  <2>3. QED BY <2>1, <2>2
<1>7. PICK box : \/ iosProxies' = [iosProxies EXCEPT ![p].lock = "free"]
                 \/ iosProxies' = [iosProxies EXCEPT ![p].lock = "free", ![p].box = box]
  BY <1>6
<1>8. /\ IosProxy' = IosProxy /\ (\E S : iosProxies' \in Seq(S))
      /\ \A q \in IosProxy : Weaker(iosProxies[q], iosProxies'[q])
  BY <1>3, <1>7, BoxMoves
<1>9. HandlesGrow BY <1>1, HandlesStay
<1>10. QED BY <1>4, <1>5, <1>8, <1>9, IosReturns

\* A call is done with its runtime or its proxy.
LEMMA OperateSteps ==
  ASSUME IosInv, NEW t \in IosThread, Operate(t) \/ Endpoint(t)
  PROVE  IosInv'
<1>1. /\ iosCall[t].stage \in {"operate", "endpoint"} /\ UNCHANGED handleVars /\ iosProxies' = iosProxies
  BY DEF Operate, Endpoint, IosAt
<1>2. iosCall[t].stage \notin StopStages \cup {"insert"} /\ ~iosCall[t].late BY <1>1, NeverLate DEF StopStages
<1>3. \E code \in Codes : IosReturn(t, code)
  <2>1. IosReturn(t, "runtime_error") \/ IosReturn(t, "exhausted") \/ IosReturn(t, "ok") BY DEF Operate, Endpoint, Answer
  <2>2. QED BY <2>1, IosCodes
<1>4. HandlesGrow BY <1>1, HandlesStay
<1>5. QED BY <1>1, <1>2, <1>3, <1>4, IosReturnsOnly

\* A new runtime gets its handle.
LEMMA InsertRuntimeStep ==
  ASSUME IosInv, NEW t \in IosThread, InsertRuntime(t)
  PROVE  IosInv'
<1>1. iosCall[t].stage = "open" /\ revision' = revision /\ iosRegistered' = iosRegistered /\ iosProxies' = iosProxies
  BY DEF InsertRuntime, IosAt
<1>2. iosCall[t].stage \notin StopStages \cup {"insert"} /\ ~iosCall[t].late BY <1>1, NeverLate DEF StopStages
<1>3. \E code \in Codes : IosReturn(t, code)
  <2>1. IosReturn(t, "runtime_error") \/ IosReturn(t, "exhausted") \/ IosReturn(t, "ok") BY DEF InsertRuntime
  <2>2. QED BY <2>1, IosCodes
<1>4. HandlesGrow
  <2>1. iosHandle \in 1..(MaxIosHandle + 1) /\ runtimes \subseteq 1..MaxIosHandle BY DEF IosInv, IosState
  <2>2. CASE UNCHANGED <<iosHandle, runtimes>> BY <1>1, <2>1, <2>2 DEF HandlesGrow
  <2>3. CASE HandleLeft /\ iosHandle' = iosHandle + 1
    <3>1. iosHandle \in 1..MaxIosHandle /\ iosHandle' \in 1..(MaxIosHandle + 1)
      BY <2>1, <2>3, IosAssumption DEF HandleLeft
    <3>2. runtimes' = runtimes \cup {iosHandle} \/ runtimes' = runtimes BY <2>3, IosAssumption, <2>1 DEF InsertRuntime
    <3>3. QED BY <1>1, <2>1, <3>1, <3>2 DEF HandlesGrow
  <2>4. QED BY <2>2, <2>3 DEF InsertRuntime
<1>5. QED BY <1>1, <1>2, <1>3, <1>4, IosReturnsOnly

\* A call goes on at another place.
LEMMA IosGoesOn ==
  ASSUME IosInv, NEW t \in IosThread, NEW stage \in {"endpoint", "take", "remove"}, IosGoTo(t, stage),
         HandlesGrow, IosProxy' = IosProxy, \E S : iosProxies' \in Seq(S),
         \A p \in IosProxy : Weaker(iosProxies[p], iosProxies'[p]),
         iosCall[t].stage \in {"active", "take"}, ~iosCall[t].late
  PROVE  IosInv'
<1>1. PICK c : c = [iosCall[t] EXCEPT !.stage = stage] OBVIOUS
<1>2. iosCall[t] \in IosCallRecord /\ stage \in IosStages BY IosNow DEF IosStages
<1>3. /\ c \in IosCallRecord /\ c.stage = stage /\ c.todo = iosCall[t].todo /\ c.late = iosCall[t].late
      /\ c.proxy = iosCall[t].proxy
  BY <1>1, <1>2 DEF IosCallRecord
<1>4. iosCall[t].todo = <<>> BY IosEntersWithNothing DEF StopStages
<1>5. c.proxy \in DOMAIN iosProxies' BY <1>3, IosNow DEF IosCallOk, IosProxy
<1>6. IosCallOk(c, iosProxies', iosRegistered') BY <1>3, <1>4, <1>5, PlainCallOk
<1>7. iosCall' = [iosCall EXCEPT ![t] = c]
  <2>1. iosCall \in [IosThread -> IosCallRecord] BY DEF IosInv, IosState
  <2>2. QED BY <1>1, <2>1 DEF IosGoTo
<1>8. lastError' \in [IosThread -> Codes] /\ \A s \in IosThread : s # t => lastError'[s] = lastError[s]
  BY IosNow DEF IosGoTo
<1>9. ~(c.stage = "idle" /\ c.late) BY <1>3
<1>10. QED BY <1>3, <1>4, <1>6, <1>7, <1>8, <1>9, IosPlainMoves DEF HandlesGrow

\* A call has the lock of a mailbox.
LEMMA LockStep ==
  ASSUME IosInv, NEW t \in IosThread, LockMailbox(t)
  PROVE  IosInv'
<1>1. iosCall[t].stage = "take" /\ IosGoTo(t, "remove") /\ UNCHANGED handleVars BY DEF LockMailbox, IosAt
<1>2. PICK p : p = iosCall[t].proxy OBVIOUS
<1>3. p \in IosProxy BY <1>1, <1>2, IosNow DEF IosCallOk, IosProxy
<1>4. iosProxies' = [iosProxies EXCEPT ![p].lock = t] BY <1>2 DEF LockMailbox
<1>5. /\ IosProxy' = IosProxy /\ (\E S : iosProxies' \in Seq(S))
      /\ \A q \in IosProxy : Weaker(iosProxies[q], iosProxies'[q])
  BY <1>3, <1>4, BoxMoves
<1>6. HandlesGrow /\ ~iosCall[t].late BY <1>1, HandlesStay, NeverLate
<1>7. QED BY <1>1, <1>5, <1>6, IosGoesOn

\* A call finds its proxy active, or ends.
LEMMA EnsureActiveStep ==
  ASSUME IosInv, NEW t \in IosThread, EnsureActive(t)
  PROVE  IosInv'
<1>1. iosCall[t].stage = "active" /\ UNCHANGED handleVars /\ iosProxies' = iosProxies BY DEF EnsureActive, IosAt
<1>2. HandlesGrow BY <1>1, HandlesStay
<1>3. iosCall[t].stage \notin StopStages \cup {"insert"} BY <1>1 DEF StopStages
<1>4. IosCallOk(iosCall[t], iosProxies, iosRegistered) BY IosNow
<1>5. CASE Active(iosCall[t].proxy)
  <2>1. ~iosCall[t].late BY <1>1, <1>4, <1>5 DEF IosCallOk, Active
  <2>2. CASE iosCall[t].op = "matches"
    <3>1. IosReturn(t, "ok") BY <1>5, <2>2 DEF EnsureActive
    <3>2. QED BY <1>1, <1>2, <1>3, <2>1, <3>1, IosCodes, IosReturnsOnly
  <2>3. CASE iosCall[t].op # "matches"
    <3>1. PICK op : op = iosCall[t].op OBVIOUS
    <3>2. op \in {"endpoint", "take", "remove"} BY <1>1, <1>4, <2>3, <3>1 DEF IosCallOk
    <3>3. IosGoTo(t, op) BY <1>5, <2>3, <3>1 DEF EnsureActive
    <3>4. /\ IosProxy' = IosProxy /\ (\E S : iosProxies' \in Seq(S))
          /\ \A p \in IosProxy : Weaker(iosProxies[p], iosProxies'[p])
      BY <1>1, IosTableSame DEF IosInv
    <3>5. QED BY <1>1, <1>2, <2>1, <3>2, <3>3, <3>4, IosGoesOn
  <2>4. QED BY <2>2, <2>3
<1>6. CASE ~Active(iosCall[t].proxy)
  <2>1. IosReturn(t, "not_found") BY <1>6 DEF EnsureActive
  <2>2. QED BY <1>1, <1>2, <1>3, <2>1, IosCodes, IosReturnsOnly
<1>7. QED BY <1>5, <1>6

\* A call that goes on with a list of stops, or returns when it is empty.
LEMMA StopFirstCall ==
  ASSUME IosInv, NEW t \in IosThread, NEW todo \in Seq(IosEntry), NEW code \in Codes, StopFirst(t, todo, code),
         ~iosCall[t].late, NEW table, NEW named,
         \A e \in Entries(todo) : e.proxy \in DOMAIN table /\ (e.join => e.proxy \notin named)
  PROVE  /\ \E c \in IosCallRecord : /\ iosCall' = [iosCall EXCEPT ![t] = c] /\ c.todo = todo /\ ~c.late
                                     /\ c.stage # "insert" /\ IosCallOk(c, table, named)
         /\ lastError' \in [IosThread -> Codes] /\ \A s \in IosThread : s # t => lastError'[s] = lastError[s]
<1>1. iosCall \in [IosThread -> IosCallRecord] /\ lastError \in [IosThread -> Codes] BY DEF IosInv, IosState
<1>2. CASE todo = <<>>
  <2>1. IosReturn(t, code) BY <1>2 DEF StopFirst
  <2>2. PICK c : c = [IosIdle EXCEPT !.late = FALSE] OBVIOUS
  <2>3. c \in IosCallRecord /\ c.todo = <<>> /\ c.stage = "idle" /\ c.late = FALSE BY <2>2, IosIdleIsRecord
  <2>4. iosCall[t].late = FALSE BY <1>1 DEF IosCallRecord
  <2>5. iosCall' = [iosCall EXCEPT ![t] = c] BY <2>1, <2>2, <2>4 DEF IosReturn
  <2>6. IosCallOk(c, table, named) BY <2>3, PlainCallOk
  <2>7. lastError' \in [IosThread -> Codes] /\ \A s \in IosThread : s # t => lastError'[s] = lastError[s]
    BY <1>1, <2>1 DEF IosReturn
  <2>8. QED BY <1>2, <2>3, <2>5, <2>6, <2>7
<1>3. CASE todo # <<>>
  <2>1. /\ iosCall' = [iosCall EXCEPT ![t].todo = todo, ![t].code = code, ![t].stage = "deactivate"]
        /\ UNCHANGED lastError
    BY <1>3 DEF StopFirst
  <2>2. PICK d : d = iosCall[t] /\ d \in IosCallRecord BY <1>1
  <2>3. PICK c : c = [d EXCEPT !.todo = todo, !.code = code, !.stage = "deactivate"] OBVIOUS
  <2>4. "deactivate" \in IosStages /\ "deactivate" \in StopStages BY DEF IosStages, StopStages
  <2>5. c \in IosCallRecord /\ c.todo = todo /\ c.stage = "deactivate" /\ c.late = d.late
    BY <2>2, <2>3, <2>4 DEF IosCallRecord
  <2>6. iosCall' = [iosCall EXCEPT ![t] = c] BY <1>1, <2>1, <2>2, <2>3
  <2>7. ~c.late BY <2>2, <2>5
  <2>8. IosCallOk(c, table, named) BY <1>3, <2>4, <2>5, <2>7 DEF IosCallOk
  <2>9. QED BY <1>1, <2>1, <2>5, <2>6, <2>7, <2>8
<1>4. QED BY <1>2, <1>3

\* What a call that stops proxies has at hand.
LEMMA AtHand ==
  ASSUME IosInv, NEW t \in IosThread, iosCall[t].stage \in StopStages
  PROVE  /\ iosCall[t].todo \in Seq(IosEntry) /\ iosCall[t].todo # <<>> /\ ~iosCall[t].late
         /\ Head(iosCall[t].todo) \in IosEntry /\ Stopped(t) \in IosProxy
         /\ Tail(iosCall[t].todo) \in Seq(IosEntry)
         /\ Entries(iosCall[t].todo) = {Head(iosCall[t].todo)} \cup Entries(Tail(iosCall[t].todo))
         /\ \A e \in Entries(iosCall[t].todo) : e.proxy \in DOMAIN iosProxies /\ (e.join => e.proxy \notin iosRegistered)
         /\ iosCall[t].code \in Codes
<1>1. PICK c : c = iosCall[t] OBVIOUS
<1>2. c \in IosCallRecord /\ c.todo \in Seq(IosEntry) /\ IosCallOk(c, iosProxies, iosRegistered) BY <1>1, IosNow
<1>3. c.stage \in StopStages BY <1>1
<1>4. c.todo # <<>> BY <1>2, <1>3 DEF IosCallOk
<1>5. PICK todo : todo = c.todo OBVIOUS
<1>6. todo \in Seq(IosEntry) /\ todo # <<>> BY <1>2, <1>4, <1>5
<1>7. /\ Entries(todo) \subseteq IosEntry /\ Head(todo) \in Entries(todo) /\ Tail(todo) \in Seq(IosEntry)
      /\ Entries(todo) = {Head(todo)} \cup Entries(Tail(todo))
  BY <1>6, EntriesFacts
<1>8. ~c.late BY <1>2, <1>3 DEF IosCallOk, StopStages
<1>9. \A e \in Entries(todo) : e.proxy \in DOMAIN iosProxies /\ (e.join => e.proxy \notin iosRegistered)
  BY <1>2, <1>5 DEF IosCallOk
<1>10. Stopped(t) = Head(todo).proxy BY <1>1, <1>5 DEF Stopped
<1>11. Stopped(t) \in IosProxy BY <1>7, <1>9, <1>10 DEF IosProxy
<1>12. c.code \in Codes BY <1>2 DEF IosCallRecord
<1>13. QED BY <1>1, <1>5, <1>6, <1>7, <1>8, <1>9, <1>11, <1>12

\* A call goes on with the stop it is at.
LEMMA StopGoesOn ==
  ASSUME IosInv, NEW t \in IosThread, iosCall[t].stage \in StopStages, NEW stage \in StopStages, IosGoTo(t, stage),
         UNCHANGED handleVars, IosProxy' = IosProxy, \E S : iosProxies' \in Seq(S),
         \A p \in IosProxy : Weaker(iosProxies[p], iosProxies'[p]),
         stage \in {"close", "revoke", "clear"} => ~iosProxies'[Stopped(t)].active,
         stage = "join" => Head(iosCall[t].todo).join
  PROVE  IosInv'
<1>1. PICK d : d = iosCall[t] OBVIOUS
<1>2. d \in IosCallRecord /\ IosCallOk(d, iosProxies, iosRegistered) BY <1>1, IosNow
<1>3. PICK c : c = [d EXCEPT !.stage = stage] OBVIOUS
<1>4. /\ c \in IosCallRecord /\ c.stage = stage /\ c.todo = d.todo /\ c.late = d.late
  BY <1>2, <1>3 DEF IosCallRecord, IosStages
<1>5. iosCall' = [iosCall EXCEPT ![t] = c]
  <2>1. iosCall \in [IosThread -> IosCallRecord] BY DEF IosInv, IosState
  <2>2. QED BY <1>1, <1>3, <2>1 DEF IosGoTo
<1>6. d.todo # <<>> /\ ~d.late BY <1>1, AtHand
<1>7. \A e \in Entries(d.todo) : e.proxy \in DOMAIN iosProxies /\ (e.join => e.proxy \notin iosRegistered)
  BY <1>1, AtHand
<1>8. DOMAIN iosProxies' = DOMAIN iosProxies /\ iosRegistered' = iosRegistered BY DEF IosProxy, handleVars
<1>9. Stopped(t) = Head(d.todo).proxy BY <1>1 DEF Stopped
<1>10. IosCallOk(c, iosProxies', iosRegistered')
  BY <1>1, <1>4, <1>6, <1>7, <1>8, <1>9 DEF IosCallOk, StopStages
<1>11. lastError' \in [IosThread -> Codes] /\ \A s \in IosThread : s # t => lastError'[s] = lastError[s]
  BY IosNow DEF IosGoTo
<1>12. HandlesGrow BY HandlesStay
<1>13. \A p : (Has(iosCall[t], p) <=> Has(c, p)) /\ (Joins(iosCall[t], p) <=> Joins(c, p)) BY <1>1, <1>4 DEF Has, Joins
<1>14. \A e \in Entries(c.todo) : e \in Entries(iosCall[t].todo) \/ e.proxy \in iosRegistered BY <1>1, <1>4
<1>15. c.stage # "insert" /\ ~(c.stage = "idle" /\ c.late) BY <1>4 DEF StopStages
<1>16. \A p \in IosProxy : p \in iosRegistered \ iosRegistered' \/ Joins(iosCall[t], p) =>
                             iosProxies'[p].stopped \/ Joins(c, p)
  BY <1>8, <1>13
<1>17. QED BY <1>4, <1>5, <1>8, <1>10, <1>11, <1>12, <1>13, <1>14, <1>15, <1>16, IosThreadMoves DEF HandlesGrow

\* A call is done with the first of its stops.
LEMMA StopDone ==
  ASSUME IosInv, NEW t \in IosThread, iosCall[t].stage \in StopStages,
         StopFirst(t, Tail(iosCall[t].todo), iosCall[t].code),
         UNCHANGED handleVars, IosProxy' = IosProxy, \E S : iosProxies' \in Seq(S),
         \A p \in IosProxy : Weaker(iosProxies[p], iosProxies'[p]),
         Stopped(t) \in iosRegistered => ~iosProxies'[Stopped(t)].active,
         Head(iosCall[t].todo).join => iosProxies'[Stopped(t)].stopped
  PROVE  IosInv'
<1>1. PICK todo, rest, first, code : /\ todo = iosCall[t].todo /\ rest = Tail(todo) /\ first = Head(todo)
                                     /\ code = iosCall[t].code
  OBVIOUS
<1>2. /\ rest \in Seq(IosEntry) /\ Entries(todo) = {first} \cup Entries(rest) /\ ~iosCall[t].late /\ code \in Codes
      /\ \A e \in Entries(todo) : e.proxy \in DOMAIN iosProxies /\ (e.join => e.proxy \notin iosRegistered)
  BY <1>1, AtHand
<1>3. DOMAIN iosProxies' = DOMAIN iosProxies /\ iosRegistered' = iosRegistered BY DEF IosProxy, handleVars
<1>4. \A e \in Entries(rest) : e.proxy \in DOMAIN iosProxies' /\ (e.join => e.proxy \notin iosRegistered')
  BY <1>2, <1>3
<1>5. StopFirst(t, rest, code) BY <1>1
<1>6. /\ \E c \in IosCallRecord : /\ iosCall' = [iosCall EXCEPT ![t] = c] /\ c.todo = rest /\ ~c.late
                                  /\ c.stage # "insert" /\ IosCallOk(c, iosProxies', iosRegistered')
      /\ lastError' \in [IosThread -> Codes] /\ \A s \in IosThread : s # t => lastError'[s] = lastError[s]
  BY <1>2, <1>4, <1>5, StopFirstCall
<1>7. PICK c \in IosCallRecord : /\ iosCall' = [iosCall EXCEPT ![t] = c] /\ c.todo = rest /\ ~c.late
                                 /\ c.stage # "insert" /\ IosCallOk(c, iosProxies', iosRegistered')
  BY <1>6
<1>8. Stopped(t) = first.proxy BY <1>1 DEF Stopped
<1>9. \A e \in Entries(c.todo) : e \in Entries(iosCall[t].todo) \/ e.proxy \in iosRegistered BY <1>1, <1>2, <1>7
<1>10. \A p \in iosRegistered' : Has(iosCall[t], p) /\ iosProxies'[p].active => Has(c, p)
  BY <1>1, <1>2, <1>3, <1>7, <1>8 DEF Has
<1>11. \A p \in IosProxy : p \in iosRegistered \ iosRegistered' \/ Joins(iosCall[t], p) =>
                             iosProxies'[p].stopped \/ Joins(c, p)
  BY <1>1, <1>2, <1>3, <1>7, <1>8 DEF Joins
<1>12. HandlesGrow BY HandlesStay
<1>13. QED BY <1>3, <1>6, <1>7, <1>9, <1>10, <1>11, <1>12, IosThreadMoves DEF HandlesGrow

\* A step of a stop sets one flag of the proxy at hand.
LEMMA StopStepMoves ==
  ASSUME IosInv, NEW t \in IosThread, iosCall[t].stage \in StopStages, NEW field, NEW value,
         \/ field = "active" /\ value = FALSE
         \/ field = "accepting" /\ value = FALSE
         \/ field = "stopping" /\ value = TRUE,
         iosProxies' = [iosProxies EXCEPT ![Stopped(t)] = [@ EXCEPT ![field] = value]]
  PROVE  /\ IosProxy' = IosProxy /\ (\E S : iosProxies' \in Seq(S))
         /\ \A q \in IosProxy : Weaker(iosProxies[q], iosProxies'[q])
         /\ field = "active" => ~iosProxies'[Stopped(t)].active
<1>1. PICK p : p = Stopped(t) OBVIOUS
<1>2. IosState /\ p \in IosProxy BY <1>1, AtHand DEF IosInv
<1>3. PICK d : d = [iosProxies[p] EXCEPT ![field] = value] OBVIOUS
<1>4. iosProxies' = [iosProxies EXCEPT ![p] = d] BY <1>1, <1>3
<1>5. IsIosProxy(iosProxies[p]) BY <1>2 DEF IosState
<1>6. Weaker(iosProxies[p], d) /\ (field = "active" => ~d.active)
  <2>1. PICK r : r = iosProxies[p] OBVIOUS
  <2>2. IsIosProxy(r) BY <1>5, <2>1
  <2>3. CASE field = "active" /\ value = FALSE
    <3>1. d = [r EXCEPT !["active"] = FALSE] BY <1>3, <2>1, <2>3
    <3>2. QED BY <2>1, <2>2, <3>1, FlagsWeaken
  <2>4. CASE field = "accepting" /\ value = FALSE
    <3>1. d = [r EXCEPT !["accepting"] = FALSE] BY <1>3, <2>1, <2>4
    <3>2. QED BY <2>1, <2>2, <2>4, <3>1, FlagsWeaken
  <2>5. CASE field = "stopping" /\ value = TRUE
    <3>1. d = [r EXCEPT !["stopping"] = TRUE] BY <1>3, <2>1, <2>5
    <3>2. QED BY <2>1, <2>2, <2>5, <3>1, FlagsWeaken
  <2>6. QED BY <2>3, <2>4, <2>5
<1>7. QED BY <1>1, <1>2, <1>4, <1>6, IosProxyMoves

\* deactivate, the closing of the mailbox and the request to stop.
LEMMA FlagSteps ==
  ASSUME IosInv, NEW t \in IosThread, Deactivate(t) \/ CloseMailbox(t) \/ Revoke(t)
  PROVE  IosInv'
<1>1. ASSUME iosCall[t].stage \in StopStages, NEW field, NEW value, NEW stage \in {"close", "revoke", "clear"},
             \/ field = "active" /\ value = FALSE
             \/ field = "accepting" /\ value = FALSE
             \/ field = "stopping" /\ value = TRUE,
             StopStep(t, field, value, stage),
             field # "active" => iosCall[t].stage \in {"close", "revoke", "clear"}
      PROVE  IosInv'
  <2>1. iosProxies' = [iosProxies EXCEPT ![Stopped(t)] = [@ EXCEPT ![field] = value]] /\ IosGoTo(t, stage)
        /\ UNCHANGED handleVars
    BY <1>1 DEF StopStep
  <2>2. /\ IosProxy' = IosProxy /\ (\E S : iosProxies' \in Seq(S))
        /\ \A q \in IosProxy : Weaker(iosProxies[q], iosProxies'[q])
        /\ field = "active" => ~iosProxies'[Stopped(t)].active
    BY <1>1, <2>1, StopStepMoves
  <2>3. ~iosProxies'[Stopped(t)].active
    <3>1. CASE field = "active" BY <2>2, <3>1
    <3>2. CASE field # "active"
      <4>1. ~iosProxies[Stopped(t)].active BY <1>1, <3>2, IosNow DEF IosCallOk, Stopped
      <4>2. Stopped(t) \in IosProxy BY <1>1, AtHand
      <4>3. QED BY <2>2, <4>1, <4>2 DEF Weaker
    <3>3. QED BY <3>1, <3>2
  <2>4. stage \in StopStages /\ stage # "join" BY DEF StopStages
  <2>5. QED BY <1>1, <2>1, <2>2, <2>3, <2>4, StopGoesOn
<1>2. CASE Deactivate(t)
  <2>1. iosCall[t].stage \in StopStages /\ StopStep(t, "active", FALSE, "close") BY <1>2 DEF Deactivate, IosAt, StopStages
  <2>2. QED BY <1>1, <2>1
<1>3. CASE CloseMailbox(t)
  <2>1. /\ iosCall[t].stage \in StopStages /\ iosCall[t].stage = "close"
        /\ StopStep(t, "accepting", FALSE, "revoke")
    BY <1>3 DEF CloseMailbox, IosAt, StopStages
  <2>2. QED BY <1>1, <2>1
<1>4. CASE Revoke(t)
  <2>1. iosCall[t].stage \in StopStages /\ iosCall[t].stage = "revoke" /\ StopStep(t, "stopping", TRUE, "clear")
    BY <1>4 DEF Revoke, IosAt, StopStages
  <2>2. QED BY <1>1, <2>1
<1>5. QED BY <1>2, <1>3, <1>4

\* The mailbox is cleared, and the proxy is waited for or left.
LEMMA ClearStep ==
  ASSUME IosInv, NEW t \in IosThread, ClearMailbox(t)
  PROVE  IosInv'
<1>1. iosCall[t].stage = "clear" /\ iosCall[t].stage \in StopStages /\ UNCHANGED handleVars
  BY DEF ClearMailbox, IosAt, StopStages
<1>2. Stopped(t) \in IosProxy /\ Head(iosCall[t].todo) \in IosEntry BY <1>1, AtHand
<1>3. ~iosProxies[Stopped(t)].active BY <1>1, IosNow DEF IosCallOk, Stopped
<1>4. /\ IosProxy' = IosProxy /\ (\E S : iosProxies' \in Seq(S))
      /\ \A q \in IosProxy : Weaker(iosProxies[q], iosProxies'[q])
  <2>1. CASE iosProxies' = iosProxies BY <2>1, IosTableSame DEF IosInv
  <2>2. CASE iosProxies' = [iosProxies EXCEPT ![Stopped(t)].box = <<>>]
    <3>1. PICK p, box : p = Stopped(t) /\ box = <<>> OBVIOUS
    <3>2. iosProxies' = [iosProxies EXCEPT ![p].box = box] BY <2>2, <3>1
    <3>3. p \in IosProxy BY <1>2, <3>1
    <3>4. QED BY <3>2, <3>3, BoxMoves
  <2>3. QED BY <2>1, <2>2 DEF ClearMailbox
<1>5. ~iosProxies'[Stopped(t)].active BY <1>2, <1>3, <1>4 DEF Weaker
<1>6. CASE Head(iosCall[t].todo).join
  <2>1. IosGoTo(t, "join") /\ "join" \in StopStages BY <1>6 DEF ClearMailbox, StopStages
  <2>2. QED BY <1>1, <1>4, <1>5, <1>6, <2>1, StopGoesOn
<1>7. CASE ~Head(iosCall[t].todo).join
  <2>1. StopFirst(t, Tail(iosCall[t].todo), iosCall[t].code) BY <1>7 DEF ClearMailbox
  <2>2. QED BY <1>1, <1>4, <1>5, <1>7, <2>1, StopDone
<1>8. QED BY <1>6, <1>7

\* A proxy has been waited for, and the next one is at hand.
LEMMA JoinStep ==
  ASSUME IosInv, NEW t \in IosThread, Join(t)
  PROVE  IosInv'
<1>1. /\ iosCall[t].stage = "join" /\ iosCall[t].stage \in StopStages /\ UNCHANGED handleVars
      /\ StopFirst(t, Tail(iosCall[t].todo), iosCall[t].code)
  BY DEF Join, IosAt, StopStages
<1>2. PICK p : p = Stopped(t) OBVIOUS
<1>3. IosState /\ p \in IosProxy BY <1>1, <1>2, AtHand DEF IosInv
<1>4. PICK r : r = iosProxies[p] /\ IsIosProxy(r) BY <1>3 DEF IosState
<1>5. PICK d : d = [r EXCEPT !.stopping = TRUE, !.stopped = TRUE] OBVIOUS
<1>6. Weaker(r, d) /\ d.stopped
  <2>1. PICK B, L : r \in IosProxyRecord(B, L) BY <1>4 DEF IsIosProxy
  <2>2. d \in IosProxyRecord(B, L) BY <1>5, <2>1 DEF IosProxyRecord
  <2>3. QED BY <1>5, <2>1, <2>2 DEF IosProxyRecord, Weaker, IsIosProxy
<1>7. iosProxies' = [iosProxies EXCEPT ![p].stopping = TRUE, ![p].stopped = TRUE] BY <1>2 DEF Join
<1>8. iosProxies' = [iosProxies EXCEPT ![p] = d] BY <1>3, <1>4, <1>5, <1>7 DEF IosProxy
<1>9. /\ IosProxy' = IosProxy /\ (\E S : iosProxies' \in Seq(S))
      /\ \A q \in IosProxy : Weaker(iosProxies[q], iosProxies'[q])
      /\ iosProxies'[p] = d
  BY <1>3, <1>4, <1>6, <1>8, IosProxyMoves
<1>10. iosProxies'[Stopped(t)].stopped BY <1>2, <1>6, <1>9
<1>11. Stopped(t) \notin iosRegistered
  <2>1. Head(iosCall[t].todo).join BY <1>1, IosNow DEF IosCallOk
  <2>2. Head(iosCall[t].todo) \in Entries(iosCall[t].todo) BY <1>1, AtHand
  <2>3. QED BY <1>1, <2>1, <2>2, AtHand DEF Stopped
<1>12. QED BY <1>1, <1>9, <1>10, <1>11, StopDone

\* Proxies are numbered in the order they were started.
LEMMA ProxiesNumbered ==
  ASSUME IosState
  PROVE  /\ Len(iosProxies) \in Nat /\ IosProxy = 1..Len(iosProxies)
         /\ \A ps : ps \subseteq IosProxy => IsFiniteSet(ps) /\ ps \subseteq Nat
<1>1. PICK f : f = iosProxies OBVIOUS
<1>2. PICK S : f \in Seq(S) BY <1>1 DEF IosState
<1>3. Len(f) \in Nat /\ DOMAIN f = 1..Len(f) BY <1>2
<1>4. PICK n \in Nat : n = Len(f) BY <1>3
<1>5. IsFiniteSet(1..n) BY FS_Interval
<1>6. ASSUME NEW ps, ps \subseteq 1..n PROVE IsFiniteSet(ps) /\ ps \subseteq Nat
  <2>1. PICK D : D = 1..n OBVIOUS
  <2>2. ps \in SUBSET D /\ IsFiniteSet(D) BY <1>5, <1>6, <2>1
  <2>3. IsFiniteSet(ps) BY <2>2, FS_Subset
  <2>4. QED BY <1>6, <2>3
<1>7. QED BY <1>1, <1>3, <1>4, <1>6 DEF IosProxy

\* A call that begins with a list of stops, and takes what it will wait for out of the registry.
LEMMA IosStopsBegin ==
  ASSUME IosInv, NEW t \in IosThread, NEW c \in IosCallRecord, iosCall' = [iosCall EXCEPT ![t] = c],
         lastError' = [lastError EXCEPT ![t] = "ok"], iosCall[t].stage = "idle", iosProxies' = iosProxies,
         c.stage = "deactivate", ~c.late, c.todo # <<>>, iosHandle' = iosHandle, revision' = revision,
         runtimes' \subseteq runtimes, iosRegistered' \subseteq iosRegistered,
         \A p \in iosRegistered' : iosProxies[p].runtime \in runtimes => iosProxies[p].runtime \in runtimes',
         \A e \in Entries(c.todo) : e.proxy \in iosRegistered /\ (e.join => e.proxy \notin iosRegistered'),
         \A p \in iosRegistered \ iosRegistered' : Joins(c, p)
  PROVE  IosInv'
<1>1. IosState BY DEF IosInv
<1>2. /\ IosProxy' = IosProxy /\ (\E S : iosProxies' \in Seq(S))
      /\ \A p \in IosProxy : Weaker(iosProxies[p], iosProxies'[p])
  BY <1>1, IosTableSame
<1>3. iosCall[t].todo = <<>> BY IosEntersWithNothing DEF StopStages
<1>4. Entries(<<>>) = {} BY EntriesFacts
<1>5. \A p : ~Has(iosCall[t], p) /\ ~Joins(iosCall[t], p) BY <1>3, <1>4 DEF Has, Joins
<1>6. IosCallOk(c, iosProxies', iosRegistered')
  <2>1. \A e \in Entries(c.todo) : e.proxy \in DOMAIN iosProxies' /\ (e.join => e.proxy \notin iosRegistered')
    BY <1>1 DEF IosState, IosProxy
  <2>2. QED BY <2>1 DEF IosCallOk, StopStages
<1>7. lastError' \in [IosThread -> Codes] /\ \A s \in IosThread : s # t => lastError'[s] = lastError[s]
  BY <1>1 DEF IosState, Codes
<1>8. iosHandle' \in 1..(MaxIosHandle + 1) /\ runtimes' \subseteq 1..MaxIosHandle BY <1>1 DEF IosState
<1>9. QED BY <1>2, <1>5, <1>6, <1>7, <1>8, IosThreadMoves

\* hns_browser_proxy_request_stop and hns_browser_proxy_destroy begin.
LEMMA StopCallStep ==
  ASSUME IosInv, NEW t \in IosThread, NEW op \in IosOps, NEW join \in BOOLEAN, StopCall(t, op, join)
  PROVE  IosInv'
<1>1. iosCall[t].stage = "idle" /\ iosCall[t].stage \notin StopStages \cup {"insert"} BY DEF StopCall, IosEnter, StopStages
<1>2. /\ iosHandle' = iosHandle /\ runtimes' = runtimes /\ revision' = revision /\ iosProxies' = iosProxies
  BY DEF StopCall
<1>3. CASE IosReject(t, "not_found") /\ UNCHANGED iosRegistered
  <2>1. UNCHANGED <<handleVars, iosProxies>> BY <1>2, <1>3 DEF handleVars
  <2>2. QED BY <1>1, <1>3, <2>1, IosCodes, IosRejects
<1>4. ASSUME NEW h \in Passed, NEW p \in ProxyEntry(h),
             iosRegistered' = IF join THEN iosRegistered \ {p} ELSE iosRegistered,
             iosCall' = [iosCall EXCEPT ![t] = [IosIdle EXCEPT !.op = op, !.stage = "deactivate", !.proxy = p,
                                                               !.todo = <<[proxy |-> p, join |-> join]>>]],
             lastError' = [lastError EXCEPT ![t] = "ok"]
      PROVE  IosInv'
  <2>1. p \in iosRegistered /\ IosState BY DEF ProxyEntry, IosInv
  <2>2. p \in Nat
    <3>1. iosRegistered \subseteq IosProxy BY <2>1 DEF IosState
    <3>2. IosProxy \subseteq Nat BY <2>1, ProxiesNumbered
    <3>3. QED BY <2>1, <3>1, <3>2
  <2>3. PICK c : c = [IosIdle EXCEPT !.op = op, !.stage = "deactivate", !.proxy = p,
                                     !.todo = <<[proxy |-> p, join |-> join]>>]
    OBVIOUS
  <2>4. c \in IosCallRecord /\ c.stage = "deactivate" /\ c.todo = <<[proxy |-> p, join |-> join]>> /\ ~c.late
    <3>1. [proxy |-> p, join |-> join] \in IosEntry BY <2>2 DEF IosEntry
    <3>2. <<[proxy |-> p, join |-> join]>> \in Seq(IosEntry) BY <3>1
    <3>3. 0 \in 0..MaxIosHandle BY IosAssumption
    <3>4. QED BY <2>2, <2>3, <3>2, <3>3 DEF IosIdle, IosCallRecord, IosStages, StopStages, Codes
  <2>5. iosCall' = [iosCall EXCEPT ![t] = c] BY <1>4, <2>3
  <2>6. \A x : Entries(<<x>>) = {x} BY EntriesFacts
  <2>7. Entries(c.todo) = {[proxy |-> p, join |-> join]} BY <2>4, <2>6
  <2>8. \A e \in Entries(c.todo) : e.proxy \in iosRegistered /\ (e.join => e.proxy \notin iosRegistered')
    BY <1>4, <2>1, <2>7
  <2>9. \A q \in iosRegistered \ iosRegistered' : Joins(c, q) BY <1>4, <2>7 DEF Joins
  <2>10. iosRegistered' \subseteq iosRegistered /\ c.todo # <<>> BY <1>4, <2>4
  <2>11. QED BY <1>1, <1>2, <1>4, <2>4, <2>5, <2>8, <2>9, <2>10, IosStopsBegin
<1>5. QED BY <1>3, <1>4 DEF StopCall

\* The proxies of a runtime are finitely many and in the registry.
LEMMA OwnedFacts ==
  ASSUME IosInv, NEW h
  PROVE  IsFiniteSet(Owned(h)) /\ Owned(h) \subseteq Nat /\ Owned(h) \subseteq iosRegistered /\ Owned(h) \subseteq IosProxy
<1>1. IosState BY DEF IosInv
<1>2. Owned(h) \subseteq iosRegistered /\ Owned(h) \subseteq IosProxy BY <1>1 DEF Owned, IosState
<1>3. PICK ps : ps = Owned(h) OBVIOUS
<1>4. IsFiniteSet(ps) /\ ps \subseteq Nat BY <1>1, <1>2, <1>3, ProxiesNumbered
<1>5. QED BY <1>2, <1>3, <1>4

\* hns_browser_runtime_destroy takes the proxies of the runtime along, all of them to stop.
LEMMA RuntimeDestroyStep ==
  ASSUME IosInv, NEW t \in IosThread, RuntimeDestroy(t)
  PROVE  IosInv'
<1>1. iosCall[t].stage = "idle" /\ iosCall[t].stage \notin StopStages \cup {"insert"}
  BY DEF RuntimeDestroy, IosEnter, StopStages
<1>2. iosHandle' = iosHandle /\ revision' = revision /\ iosProxies' = iosProxies BY DEF RuntimeDestroy
<1>3. CASE IosReject(t, "not_found") /\ UNCHANGED <<runtimes, iosRegistered>>
  <2>1. UNCHANGED <<handleVars, iosProxies>> BY <1>2, <1>3 DEF handleVars
  <2>2. QED BY <1>1, <1>3, <2>1, IosCodes, IosRejects
<1>4. ASSUME NEW h \in Passed, RuntimeEntry(h), NEW first \in Stops(Owned(h), FALSE), NEW then \in Stops(Owned(h), TRUE),
             runtimes' = runtimes \ {h}, iosRegistered' = iosRegistered \ Owned(h),
             IF first = <<>> THEN IosReject(t, "ok")
             ELSE /\ iosCall' = [iosCall EXCEPT ![t] = [IosIdle EXCEPT !.op = "destroy", !.runtime = h,
                                  !.todo = first \o then, !.stage = "deactivate"]]
                  /\ lastError' = [lastError EXCEPT ![t] = "ok"]
      PROVE  IosInv'
  <2>1. PICK ps : ps = Owned(h) OBVIOUS
  <2>2. IsFiniteSet(ps) /\ ps \subseteq Nat /\ ps \subseteq iosRegistered BY <2>1, OwnedFacts
  <2>3. /\ first \in Seq(IosEntry) /\ Entries(first) = {[proxy |-> p, join |-> FALSE] : p \in ps}
        /\ first = <<>> <=> ps = {}
    <3>1. first \in Stops(ps, FALSE) BY <2>1
    <3>2. QED BY <2>2, <3>1, StopsFacts
  <2>4. then \in Seq(IosEntry) /\ Entries(then) = {[proxy |-> p, join |-> TRUE] : p \in ps}
    <3>1. then \in Stops(ps, TRUE) BY <2>1
    <3>2. QED BY <2>2, <3>1, StopsFacts
  <2>5. \A p \in iosRegistered' : iosProxies[p].runtime \in runtimes => iosProxies[p].runtime \in runtimes'
    BY <1>4 DEF Owned
  <2>6. IosState BY DEF IosInv
  <2>7. CASE first = <<>>
    <3>1. PICK c : c = IosIdle OBVIOUS
    <3>2. c \in IosCallRecord /\ c.todo = <<>> /\ c.stage = "idle" /\ c.late = FALSE BY <3>1, PlainIdleIsRecord
    <3>3. iosCall' = [iosCall EXCEPT ![t] = c] /\ lastError' = [lastError EXCEPT ![t] = "ok"]
      BY <1>4, <2>7, <3>1 DEF IosReject
    <3>4. lastError' \in [IosThread -> Codes] /\ \A s \in IosThread : s # t => lastError'[s] = lastError[s]
      BY <2>6, <3>3 DEF IosState, Codes
    <3>5. iosCall[t].todo = <<>> BY <1>1, IosEntersWithNothing
    <3>6. Entries(<<>>) = {} BY EntriesFacts
    <3>7. \A p : ~Has(iosCall[t], p) /\ ~Joins(iosCall[t], p) BY <3>5, <3>6 DEF Has, Joins
    <3>8. iosRegistered' = iosRegistered BY <1>4, <2>1, <2>3, <2>7
    <3>9. IosCallOk(c, iosProxies', iosRegistered') BY <3>2, PlainCallOk
    <3>10. /\ IosProxy' = IosProxy /\ (\E S : iosProxies' \in Seq(S))
           /\ \A p \in IosProxy : Weaker(iosProxies[p], iosProxies'[p])
      BY <1>2, <2>6, IosTableSame
    <3>11. iosHandle' \in 1..(MaxIosHandle + 1) /\ runtimes' \subseteq 1..MaxIosHandle BY <1>2, <1>4, <2>6 DEF IosState
    <3>12. QED BY <1>2, <2>5, <3>2, <3>3, <3>4, <3>6, <3>7, <3>8, <3>9, <3>10, <3>11, IosThreadMoves
  <2>8. CASE first # <<>>
    <3>1. PICK todo : todo = first \o then OBVIOUS
    <3>2. todo \in Seq(IosEntry) /\ Entries(todo) = Entries(first) \cup Entries(then) BY <2>3, <2>4, <3>1, EntriesFacts
    <3>3. PICK c : c = [IosIdle EXCEPT !.op = "destroy", !.runtime = h, !.todo = todo, !.stage = "deactivate"] OBVIOUS
    <3>4. c \in IosCallRecord /\ c.stage = "deactivate" /\ c.todo = todo /\ ~c.late
      <4>1. h \in 0..MaxIosHandle BY PassedInRange
      <4>2. QED BY <3>2, <3>3, <4>1 DEF IosIdle, IosCallRecord, IosStages, StopStages, IosOps, Codes
    <3>5. iosCall' = [iosCall EXCEPT ![t] = c] /\ lastError' = [lastError EXCEPT ![t] = "ok"]
      BY <1>4, <2>8, <3>1, <3>3
    <3>6. \A e \in Entries(c.todo) : e.proxy \in iosRegistered /\ (e.join => e.proxy \notin iosRegistered')
      BY <1>4, <2>1, <2>2, <2>3, <2>4, <3>2, <3>4
    <3>7. \A q \in iosRegistered \ iosRegistered' : Joins(c, q)
      <4>1. TAKE q \in iosRegistered \ iosRegistered'
      <4>2. q \in ps BY <1>4, <2>1
      <4>3. [proxy |-> q, join |-> TRUE] \in Entries(c.todo) BY <2>4, <3>2, <3>4, <4>2
      <4>4. QED BY <4>3 DEF Joins
    <3>8. c.todo # <<>>
      <4>1. Entries(<<>>) = {} BY EntriesFacts
      <4>2. ps # {} BY <2>3, <2>8
      <4>3. Entries(c.todo) # {} BY <2>3, <3>2, <3>4, <4>2
      <4>4. QED BY <4>1, <4>3
    <3>9. runtimes' \subseteq runtimes /\ iosRegistered' \subseteq iosRegistered BY <1>4
    <3>10. QED BY <1>1, <1>2, <2>5, <3>4, <3>5, <3>6, <3>7, <3>8, <3>9, IosStopsBegin
  <2>9. QED BY <2>7, <2>8
<1>5. QED BY <1>3, <1>4 DEF RuntimeDestroy

\* A call that was about to register its proxy holds that one alone.
LEMMA InsertAtHand ==
  ASSUME IosInv, NEW t \in IosThread, iosCall[t].stage = "insert"
  PROVE  /\ iosCall[t].todo \in Seq(IosEntry) /\ iosCall[t].todo # <<>> /\ ~iosCall[t].late
         /\ Entries(iosCall[t].todo) = {[proxy |-> iosCall[t].proxy, join |-> TRUE]}
         /\ iosCall[t].proxy \in IosProxy /\ iosCall[t].proxy \notin iosRegistered
         /\ iosProxies[iosCall[t].proxy].runtime = iosCall[t].runtime
         /\ iosProxies[iosCall[t].proxy].revision = iosCall[t].revision
<1>1. PICK c : c = iosCall[t] OBVIOUS
<1>2. c \in IosCallRecord /\ c.todo \in Seq(IosEntry) /\ IosCallOk(c, iosProxies, iosRegistered) BY <1>1, IosNow
<1>3. c.stage = "insert" /\ ~c.late BY <1>1, <1>2, NeverLate
<1>4. c.todo = <<[proxy |-> c.proxy, join |-> TRUE]>> BY <1>2, <1>3 DEF IosCallOk
<1>5. \A x : Entries(<<x>>) = {x} BY EntriesFacts
<1>6. Entries(c.todo) = {[proxy |-> c.proxy, join |-> TRUE]} BY <1>4, <1>5
<1>7. c.proxy \in DOMAIN iosProxies /\ c.proxy \notin iosRegistered BY <1>2, <1>6 DEF IosCallOk
<1>8. iosProxies[c.proxy].runtime = c.runtime /\ iosProxies[c.proxy].revision = c.revision BY <1>2, <1>3 DEF IosCallOk
<1>9. c.todo # <<>> BY <1>4
<1>10. QED BY <1>1, <1>2, <1>3, <1>6, <1>7, <1>8, <1>9 DEF IosProxy

\* insert_proxy refuses, and the proxy is stopped instead.
LEMMA InsertRefused ==
  ASSUME IosInv, NEW t \in IosThread, iosCall[t].stage = "insert", NEW code \in Codes,
         StopFirst(t, iosCall[t].todo, code), UNCHANGED <<handleVars, iosProxies>>
  PROVE  IosInv'
<1>1. IosState BY DEF IosInv
<1>2. PICK todo : todo = iosCall[t].todo OBVIOUS
<1>3. todo \in Seq(IosEntry) /\ todo # <<>> /\ ~iosCall[t].late BY <1>2, InsertAtHand
<1>4. \A e \in Entries(todo) : e.proxy \in DOMAIN iosProxies /\ (e.join => e.proxy \notin iosRegistered)
  BY <1>2, InsertAtHand DEF IosProxy
<1>5. StopFirst(t, todo, code) BY <1>2
<1>6. /\ \E c \in IosCallRecord : /\ iosCall' = [iosCall EXCEPT ![t] = c] /\ c.todo = todo /\ ~c.late
                                  /\ c.stage # "insert" /\ IosCallOk(c, iosProxies, iosRegistered)
      /\ lastError' \in [IosThread -> Codes] /\ \A s \in IosThread : s # t => lastError'[s] = lastError[s]
  BY <1>3, <1>4, <1>5, StopFirstCall
<1>7. PICK c \in IosCallRecord : /\ iosCall' = [iosCall EXCEPT ![t] = c] /\ c.todo = todo /\ ~c.late
                                 /\ c.stage # "insert" /\ IosCallOk(c, iosProxies, iosRegistered)
  BY <1>6
<1>8. /\ IosProxy' = IosProxy /\ (\E S : iosProxies' \in Seq(S))
      /\ \A p \in IosProxy : Weaker(iosProxies[p], iosProxies'[p])
  BY <1>1, IosTableSame
<1>9. HandlesGrow BY HandlesStay
<1>10. \A p : (Has(iosCall[t], p) <=> Has(c, p)) /\ (Joins(iosCall[t], p) <=> Joins(c, p)) BY <1>2, <1>7 DEF Has, Joins
<1>11. IosCallOk(c, iosProxies', iosRegistered') BY <1>7, <1>9 DEF HandlesGrow
<1>12. \A e \in Entries(c.todo) : e \in Entries(iosCall[t].todo) \/ e.proxy \in iosRegistered BY <1>2, <1>7
<1>13. QED BY <1>6, <1>7, <1>8, <1>9, <1>10, <1>11, <1>12, IosThreadMoves DEF HandlesGrow

\* insert_proxy finds the runtime alive, the policy unchanged and no active proxy.
LEMMA InsertAccepted ==
  ASSUME IosInv, NEW t \in IosThread, iosCall[t].stage = "insert", Insertion(t) = "ok", IosReturn(t, "ok"),
         iosRegistered' = iosRegistered \cup {iosCall[t].proxy},
         iosHandle' = iosHandle, runtimes' = runtimes, revision' = revision, iosProxies' = iosProxies
  PROVE  IosInv'
<1>1. IosState BY DEF IosInv
<1>2. PICK p, h : p = iosCall[t].proxy /\ h = iosCall[t].runtime OBVIOUS
<1>3. /\ p \in IosProxy /\ p \notin iosRegistered /\ ~iosCall[t].late
      /\ iosProxies[p].runtime = h /\ iosProxies[p].revision = iosCall[t].revision
      /\ Entries(iosCall[t].todo) = {[proxy |-> p, join |-> TRUE]}
  BY <1>2, InsertAtHand
<1>4. h \in runtimes /\ revision[h] = iosCall[t].revision /\ ~HasActive(h) BY <1>2 DEF Insertion
<1>5. PICK c : c = [IosIdle EXCEPT !.late = FALSE] OBVIOUS
<1>6. c \in IosCallRecord /\ c.todo = <<>> /\ c.stage = "idle" /\ c.late = FALSE BY <1>5, IosIdleIsRecord
<1>7. iosCall[t].late = FALSE BY <1>1, <1>3 DEF IosState, IosCallRecord
<1>8. /\ iosCall'[t] = c /\ \A s \in IosThread : s # t => iosCall'[s] = iosCall[s]
      /\ iosCall' \in [IosThread -> IosCallRecord]
      /\ lastError' \in [IosThread -> Codes] /\ \A s \in IosThread : s # t => lastError'[s] = lastError[s]
  BY <1>1, <1>5, <1>6, <1>7, IosCodes DEF IosState, IosReturn
<1>9. iosRegistered' = iosRegistered \cup {p} BY <1>2
<1>10. \A s \in IosThread : s # t => ~Has(iosCall[s], p) BY <1>2 DEF IosInv, InsertInv
<1>11. Entries(<<>>) = {} BY EntriesFacts
<1>12. \A q : Has(iosCall[t], q) => q = p BY <1>3 DEF Has
<1>13. \A s \in IosThread : \A q : q # p /\ Has(iosCall[s], q) => s # t /\ Has(iosCall'[s], q) BY <1>8, <1>12
<1>14. IosState' BY <1>1, <1>3, <1>8, <1>9 DEF IosState, IosProxy
<1>15. \A s \in IosThread : IosCallOk(iosCall'[s], iosProxies', iosRegistered')
  <2>1. TAKE s \in IosThread
  <2>2. CASE s = t BY <1>6, <1>8, <2>2, PlainCallOk
  <2>3. CASE s # t
    <3>1. IosCallOk(iosCall[s], iosProxies, iosRegistered) BY IosNow
    <3>2. \A e \in Entries(iosCall[s].todo) : e.proxy # p BY <1>10, <2>3 DEF Has
    <3>3. IosCallOk(iosCall[s], iosProxies, iosRegistered') BY <1>9, <3>1, <3>2 DEF IosCallOk
    <3>4. QED BY <1>8, <2>3, <3>3
  <2>4. QED BY <2>2, <2>3
<1>16. InsertInv'
  <2>1. SUFFICES ASSUME NEW s \in IosThread, NEW u \in IosThread, iosCall'[u].stage = "insert", s # u,
                        Has(iosCall'[s], iosCall'[u].proxy)
                 PROVE  FALSE
    BY DEF InsertInv
  <2>2. u # t BY <1>6, <1>8, <2>1
  <2>3. s # t BY <1>6, <1>8, <1>11, <2>1 DEF Has
  <2>4. QED BY <1>8, <2>1, <2>2, <2>3 DEF IosInv, InsertInv
<1>17. PolicyInv'
  <2>1. SUFFICES ASSUME NEW q \in iosRegistered', iosProxies[q].active,
                        revision[iosProxies[q].runtime] # iosProxies[q].revision
                 PROVE  \E u \in IosThread : Has(iosCall'[u], q)
    BY DEF PolicyInv
  <2>2. q # p BY <1>3, <1>4, <2>1
  <2>3. q \in iosRegistered BY <1>9, <2>1, <2>2
  <2>4. PICK u \in IosThread : Has(iosCall[u], q) BY <2>1, <2>3 DEF IosInv, PolicyInv
  <2>5. QED BY <1>13, <2>2, <2>4
<1>18. ReachInv'
  <2>1. SUFFICES ASSUME NEW q \in IosProxy
                 PROVE  \/ iosProxies[q].stopped
                        \/ q \in iosRegistered' /\ iosProxies[q].runtime \in runtimes
                        \/ \E u \in IosThread : Joins(iosCall'[u], q)
    BY DEF ReachInv, IosProxy
  <2>2. CASE q = p BY <1>3, <1>4, <1>9, <2>2
  <2>3. CASE q # p
    <3>1. \A s \in IosThread : Joins(iosCall[s], q) => Joins(iosCall'[s], q)
      <4>1. TAKE s \in IosThread
      <4>2. CASE s = t BY <1>3, <2>3, <4>2 DEF Joins
      <4>3. CASE s # t BY <1>8, <4>3
      <4>4. QED BY <4>2, <4>3
    <3>2. QED BY <1>9, <2>1, <3>1 DEF IosInv, ReachInv
  <2>4. QED BY <2>2, <2>3
<1>19. OneActiveProxy'
  <2>1. \A q \in iosRegistered : iosProxies[q].runtime = h => ~(iosProxies[q].active /\ ~iosProxies[q].stopped)
    BY <1>4 DEF HasActive, Owned
  <2>2. \A q, r \in iosRegistered' :
          (iosProxies[q].runtime = iosProxies[r].runtime
             /\ (iosProxies[q].active /\ ~iosProxies[q].stopping /\ ~iosProxies[q].stopped)
             /\ (iosProxies[r].active /\ ~iosProxies[r].stopping /\ ~iosProxies[r].stopped)) => q = r
    BY <1>3, <1>9, <2>1 DEF IosInv, OneActiveProxy, Active
  <2>3. QED BY <2>2 DEF OneActiveProxy, Active
<1>20. StoppedIsSilent'
  <2>1. \A s \in IosThread : iosCall'[s].stage = "idle" /\ iosCall'[s].late => lastError'[s] # "ok"
    BY <1>6, <1>8 DEF IosInv, StoppedIsSilent
  <2>2. QED BY <2>1 DEF StoppedIsSilent
<1>21. QED BY <1>14, <1>15, <1>16, <1>17, <1>18, <1>19, <1>20 DEF IosInv

\* insert_proxy, under the lock of the registry.
LEMMA InsertProxyStep ==
  ASSUME IosInv, NEW t \in IosThread, InsertProxy(t)
  PROVE  IosInv'
<1>1. /\ iosCall[t].stage = "insert" /\ iosHandle' = iosHandle /\ runtimes' = runtimes /\ revision' = revision
      /\ iosProxies' = iosProxies
  BY DEF InsertProxy, IosAt
<1>2. CASE Insertion(t) = "ok"
  <2>1. iosRegistered' = iosRegistered \cup {iosCall[t].proxy} /\ IosReturn(t, "ok") BY <1>2 DEF InsertProxy
  <2>2. QED BY <1>1, <1>2, <2>1, InsertAccepted
<1>3. CASE Insertion(t) # "ok"
  <2>1. PICK code : code = Insertion(t) OBVIOUS
  <2>2. code \in Codes BY <2>1, IosCodes DEF Insertion
  <2>3. StopFirst(t, iosCall[t].todo, code) /\ UNCHANGED <<handleVars, iosProxies>>
    BY <1>1, <1>3, <2>1 DEF InsertProxy, handleVars
  <2>4. QED BY <1>1, <2>2, <2>3, InsertRefused
<1>4. QED BY <1>2, <1>3

\* The policy of a runtime is replaced, and every proxy under the old one is to stop.
LEMMA PolicyPublished ==
  ASSUME IosInv, NEW t \in IosThread, iosCall[t].stage = "publish", NEW h \in 1..MaxIosHandle,
         revision' = [revision EXCEPT ![h] = @ + 1], NEW todo \in Stops(Owned(h), FALSE), StopFirst(t, todo, "ok"),
         iosHandle' = iosHandle, runtimes' = runtimes, iosRegistered' = iosRegistered, iosProxies' = iosProxies
  PROVE  IosInv'
<1>1. IosState BY DEF IosInv
<1>2. PICK ps : ps = Owned(h) OBVIOUS
<1>3. IsFiniteSet(ps) /\ ps \subseteq Nat /\ ps \subseteq iosRegistered /\ ps \subseteq IosProxy BY <1>2, OwnedFacts
<1>4. todo \in Seq(IosEntry) /\ Entries(todo) = {[proxy |-> p, join |-> FALSE] : p \in ps}
  <2>1. todo \in Stops(ps, FALSE) BY <1>2
  <2>2. QED BY <1>3, <2>1, StopsFacts
<1>5. ~iosCall[t].late /\ iosCall[t].todo = <<>> BY NeverLate, IosEntersWithNothing DEF StopStages
<1>6. \A e \in Entries(todo) : e.proxy \in DOMAIN iosProxies /\ (e.join => e.proxy \notin iosRegistered)
  BY <1>3, <1>4 DEF IosProxy
<1>7. "ok" \in Codes BY IosCodes
<1>8. /\ \E c \in IosCallRecord : /\ iosCall' = [iosCall EXCEPT ![t] = c] /\ c.todo = todo /\ ~c.late
                                  /\ c.stage # "insert" /\ IosCallOk(c, iosProxies, iosRegistered)
      /\ lastError' \in [IosThread -> Codes] /\ \A s \in IosThread : s # t => lastError'[s] = lastError[s]
  BY <1>4, <1>5, <1>6, <1>7, StopFirstCall
<1>9. PICK c \in IosCallRecord : /\ iosCall' = [iosCall EXCEPT ![t] = c] /\ c.todo = todo /\ ~c.late
                                 /\ c.stage # "insert" /\ IosCallOk(c, iosProxies, iosRegistered)
  BY <1>8
<1>10. /\ iosCall'[t] = c /\ \A s \in IosThread : s # t => iosCall'[s] = iosCall[s]
       /\ iosCall' \in [IosThread -> IosCallRecord]
  BY <1>1, <1>9 DEF IosState
<1>11. Entries(<<>>) = {} BY EntriesFacts
<1>12. \A p : ~Has(iosCall[t], p) /\ ~Joins(iosCall[t], p) BY <1>5, <1>11 DEF Has, Joins
<1>13. revision' \in [1..MaxIosHandle -> Nat] /\ \A r \in 1..MaxIosHandle : r # h => revision'[r] = revision[r]
  BY <1>1 DEF IosState
<1>14. IosState' BY <1>1, <1>8, <1>10, <1>13 DEF IosState, IosProxy
<1>15. \A s \in IosThread : IosCallOk(iosCall'[s], iosProxies', iosRegistered')
  <2>1. \A s \in IosThread : IosCallOk(iosCall[s], iosProxies, iosRegistered) BY IosNow
  <2>2. QED BY <1>9, <1>10, <2>1
<1>16. InsertInv'
  <2>1. SUFFICES ASSUME NEW s \in IosThread, NEW u \in IosThread, iosCall'[u].stage = "insert", s # u,
                        Has(iosCall'[s], iosCall'[u].proxy)
                 PROVE  FALSE
    BY DEF InsertInv
  <2>2. u # t BY <1>9, <1>10, <2>1
  <2>3. iosCall[u].stage = "insert" /\ iosCall'[u] = iosCall[u] BY <1>10, <2>1, <2>2
  <2>4. CASE s # t BY <1>10, <2>1, <2>3, <2>4 DEF IosInv, InsertInv
  <2>5. CASE s = t
    <3>1. PICK e \in Entries(todo) : e.proxy = iosCall[u].proxy BY <1>9, <1>10, <2>1, <2>3, <2>5 DEF Has
    <3>2. e.proxy \in iosRegistered BY <1>3, <1>4
    <3>3. iosCall[u].proxy \notin iosRegistered BY <2>3, InsertAtHand
    <3>4. QED BY <3>1, <3>2, <3>3
  <2>6. QED BY <2>4, <2>5
<1>17. PolicyInv'
  <2>1. SUFFICES ASSUME NEW p \in iosRegistered, iosProxies[p].active,
                        revision'[iosProxies[p].runtime] # iosProxies[p].revision
                 PROVE  \E u \in IosThread : Has(iosCall'[u], p)
    BY DEF PolicyInv
  <2>2. CASE iosProxies[p].runtime = h
    <3>1. p \in ps BY <1>2, <2>2 DEF Owned
    <3>2. [proxy |-> p, join |-> FALSE] \in Entries(c.todo) BY <1>4, <1>9, <3>1
    <3>3. Has(c, p) BY <3>2 DEF Has
    <3>4. QED BY <1>10, <3>3
  <2>3. CASE iosProxies[p].runtime # h
    <3>1. iosProxies[p].runtime \in 1..MaxIosHandle
      <4>1. IsIosProxy(iosProxies[p]) BY <1>1 DEF IosState
      <4>2. PICK B, L : iosProxies[p] \in IosProxyRecord(B, L) BY <4>1 DEF IsIosProxy
      <4>3. QED BY <4>2 DEF IosProxyRecord
    <3>2. revision[iosProxies[p].runtime] # iosProxies[p].revision BY <1>13, <2>1, <2>3, <3>1
    <3>3. PICK u \in IosThread : Has(iosCall[u], p) BY <2>1, <3>2 DEF IosInv, PolicyInv
    <3>4. u # t BY <1>12, <3>3
    <3>5. QED BY <1>10, <3>3, <3>4
  <2>4. QED BY <2>2, <2>3
<1>18. ReachInv'
  <2>1. \A p, u : u \in IosThread /\ Joins(iosCall[u], p) => Joins(iosCall'[u], p) BY <1>10, <1>12
  <2>2. QED BY <2>1 DEF IosInv, ReachInv, IosProxy
<1>19. OneActiveProxy' BY DEF IosInv, OneActiveProxy, Active
<1>20. StoppedIsSilent'
  <2>1. \A s \in IosThread : iosCall'[s].stage = "idle" /\ iosCall'[s].late => lastError'[s] # "ok"
    BY <1>8, <1>9, <1>10 DEF IosInv, StoppedIsSilent
  <2>2. QED BY <2>1 DEF StoppedIsSilent
<1>21. QED BY <1>14, <1>15, <1>16, <1>17, <1>18, <1>19, <1>20 DEF IosInv

\* hns_browser_runtime_set_policy publishes, or finds the runtime gone.
LEMMA PublishStep ==
  ASSUME IosInv, NEW t \in IosThread, PublishPolicy(t)
  PROVE  IosInv'
<1>1. /\ iosCall[t].stage = "publish" /\ iosHandle' = iosHandle /\ runtimes' = runtimes
      /\ iosRegistered' = iosRegistered /\ iosProxies' = iosProxies
  BY DEF PublishPolicy, IosAt
<1>2. iosCall[t].stage \notin StopStages \cup {"insert"} /\ ~iosCall[t].late BY <1>1, NeverLate DEF StopStages
<1>3. CASE (IosReturn(t, "not_found") \/ IosReturn(t, "runtime_error")) /\ UNCHANGED revision
  <2>1. HandlesGrow BY <1>1, <1>3, HandlesStay DEF handleVars
  <2>2. QED BY <1>1, <1>2, <1>3, <2>1, IosCodes, IosReturnsOnly
<1>4. CASE /\ revision' = [revision EXCEPT ![iosCall[t].runtime] = @ + 1]
           /\ \E todo \in Stops(Owned(iosCall[t].runtime), FALSE) : StopFirst(t, todo, "ok")
  <2>1. PICK h : h = iosCall[t].runtime OBVIOUS
  <2>2. h \in 1..MaxIosHandle BY <1>1, <2>1, IosNow DEF IosCallOk
  <2>3. revision' = [revision EXCEPT ![h] = @ + 1] BY <1>4, <2>1
  <2>4. PICK todo \in Stops(Owned(h), FALSE) : StopFirst(t, todo, "ok") BY <1>4, <2>1
  <2>5. QED BY <1>1, <2>2, <2>3, <2>4, PolicyPublished
<1>5. QED BY <1>3, <1>4 DEF PublishPolicy

\* A proxy is started: it is in nobody's hands but those of the call that started it.
LEMMA ProxyJoins ==
  ASSUME IosInv, NEW t \in IosThread, iosCall[t].stage = "start", NEW p, NEW c \in IosCallRecord,
         IosProxy' = IosProxy \cup {p}, p \notin IosProxy, p \notin iosRegistered, IsIosProxy(iosProxies'[p]),
         \A q \in IosProxy : iosProxies'[q] = iosProxies[q], \E S : iosProxies' \in Seq(S),
         c.proxy = p, Joins(c, p), \A q : Has(c, q) => q = p, ~c.late, IosCallOk(c, iosProxies', iosRegistered'),
         iosCall' = [iosCall EXCEPT ![t] = c],
         iosHandle' \in 1..(MaxIosHandle + 1), runtimes' = runtimes, revision' = revision,
         iosRegistered' = iosRegistered, lastError' = lastError
  PROVE  IosInv'
<1>1. IosState BY DEF IosInv
<1>2. /\ iosCall'[t] = c /\ \A s \in IosThread : s # t => iosCall'[s] = iosCall[s]
       /\ iosCall' \in [IosThread -> IosCallRecord]
  BY <1>1 DEF IosState
<1>3. iosCall[t].todo = <<>> /\ Entries(<<>>) = {} BY IosEntersWithNothing, EntriesFacts DEF StopStages
<1>4. \A q : ~Has(iosCall[t], q) /\ ~Joins(iosCall[t], q) BY <1>3 DEF Has, Joins
<1>5. \A s \in IosThread : \A q : Has(iosCall[s], q) => q \in IosProxy
  <2>1. \A s \in IosThread : IosCallOk(iosCall[s], iosProxies, iosRegistered) BY IosNow
  <2>2. \A s \in IosThread : \A e \in Entries(iosCall[s].todo) : e.proxy \in DOMAIN iosProxies BY <2>1 DEF IosCallOk
  <2>3. QED BY <2>2 DEF Has, IosProxy
<1>6. IosState'
  <2>1. \A q \in IosProxy' : IsIosProxy(iosProxies'[q]) BY <1>1 DEF IosState
  <2>2. QED BY <1>1, <1>2, <2>1 DEF IosState
<1>7. \A s \in IosThread : IosCallOk(iosCall'[s], iosProxies', iosRegistered')
  <2>1. TAKE s \in IosThread
  <2>2. CASE s = t BY <1>2, <2>2
  <2>3. CASE s # t
    <3>1. PICK e : e = iosCall[s] OBVIOUS
    <3>2. e \in IosCallRecord /\ IosCallOk(e, iosProxies, iosRegistered) BY <3>1, IosNow
    <3>3. PICK first : first = Head(e.todo).proxy OBVIOUS
    <3>4. e.todo # <<>> => first \in IosProxy
      <4>1. e.todo \in Seq(IosEntry) BY <3>2 DEF IosCallRecord
      <4>2. e.todo # <<>> => Head(e.todo) \in Entries(e.todo) BY <4>1, EntriesFacts
      <4>3. QED BY <3>2, <3>3, <4>2 DEF IosCallOk, IosProxy
    <3>5. e.stage \in StopStages \cup {"insert"} => iosProxies'[first] = iosProxies[first]
      BY <3>2, <3>4 DEF IosCallOk
    <3>6. e.stage = "insert" => iosProxies'[e.proxy] = iosProxies[e.proxy]
      BY <3>1, InsertAtHand
    <3>7. e.stage = "active" => iosProxies'[e.proxy] = iosProxies[e.proxy] BY <3>2 DEF IosCallOk, IosProxy
    <3>8. DOMAIN iosProxies \subseteq DOMAIN iosProxies' BY DEF IosProxy
    <3>9. IosCallOk(e, iosProxies', iosRegistered') BY <3>2, <3>3, <3>5, <3>6, <3>7, <3>8 DEF IosCallOk, StopStages
    <3>10. QED BY <1>2, <2>3, <3>1, <3>9
  <2>4. QED BY <2>2, <2>3
<1>8. InsertInv'
  <2>1. SUFFICES ASSUME NEW s \in IosThread, NEW u \in IosThread, iosCall'[u].stage = "insert", s # u,
                        Has(iosCall'[s], iosCall'[u].proxy)
                 PROVE  FALSE
    BY DEF InsertInv
  <2>2. CASE u = t
    <3>1. iosCall[s] = iosCall'[s] /\ iosCall'[u].proxy = p BY <1>2, <2>1, <2>2
    <3>2. QED BY <1>5, <2>1, <3>1
  <2>3. CASE u # t
    <3>1. iosCall[u] = iosCall'[u] /\ iosCall[u].stage = "insert" BY <1>2, <2>1, <2>3
    <3>2. CASE s = t
      <4>1. Has(c, iosCall[u].proxy) BY <1>2, <2>1, <3>1, <3>2
      <4>2. iosCall[u].proxy = p BY <4>1
      <4>3. iosCall[u].proxy \in IosProxy BY <3>1, InsertAtHand
      <4>4. QED BY <4>2, <4>3
    <3>3. CASE s # t BY <1>2, <2>1, <3>1, <3>3 DEF IosInv, InsertInv
    <3>4. QED BY <3>2, <3>3
  <2>4. QED BY <2>2, <2>3
<1>9. \A q, u : u \in IosThread /\ Has(iosCall[u], q) => Has(iosCall'[u], q) BY <1>2, <1>4
<1>10. \A q, u : u \in IosThread /\ Joins(iosCall[u], q) => Joins(iosCall'[u], q) BY <1>2, <1>4
<1>11. \A q \in iosRegistered : q \in IosProxy /\ iosProxies'[q] = iosProxies[q] BY <1>1 DEF IosState
<1>12. PolicyInv'
  <2>1. SUFFICES ASSUME NEW q \in iosRegistered, iosProxies'[q].active,
                        revision[iosProxies'[q].runtime] # iosProxies'[q].revision
                 PROVE  \E u \in IosThread : Has(iosCall'[u], q)
    BY DEF PolicyInv
  <2>2. iosProxies[q].active /\ revision[iosProxies[q].runtime] # iosProxies[q].revision BY <1>11, <2>1
  <2>3. PICK u \in IosThread : Has(iosCall[u], q) BY <2>2 DEF IosInv, PolicyInv
  <2>4. QED BY <1>9, <2>3
<1>13. ReachInv'
  <2>1. SUFFICES ASSUME NEW q \in IosProxy'
                 PROVE  \/ iosProxies'[q].stopped
                        \/ q \in iosRegistered /\ iosProxies'[q].runtime \in runtimes
                        \/ \E u \in IosThread : Joins(iosCall'[u], q)
    BY DEF ReachInv
  <2>2. CASE q = p
    <3>1. Joins(iosCall'[t], p) BY <1>2
    <3>2. QED BY <2>2, <3>1
  <2>3. CASE q \in IosProxy
    <3>1. \/ iosProxies[q].stopped
          \/ q \in iosRegistered /\ iosProxies[q].runtime \in runtimes
          \/ \E u \in IosThread : Joins(iosCall[u], q)
      BY <2>3 DEF IosInv, ReachInv
    <3>2. iosProxies'[q] = iosProxies[q] BY <2>3
    <3>3. QED BY <1>10, <3>1, <3>2
  <2>4. QED BY <2>1, <2>2, <2>3
<1>14. OneActiveProxy' BY <1>11 DEF IosInv, OneActiveProxy, Active
<1>15. StoppedIsSilent'
  <2>1. \A s \in IosThread : iosCall'[s].stage = "idle" /\ iosCall'[s].late => lastError'[s] # "ok"
    BY <1>2 DEF IosInv, StoppedIsSilent
  <2>2. QED BY <2>1 DEF StoppedIsSilent
<1>16. QED BY <1>6, <1>7, <1>8, <1>12, <1>13, <1>14, <1>15 DEF IosInv

\* A proxy is started: it is in nobody's hands but those of the call that started it.
LEMMA ProxyStarted ==
  ASSUME IosInv, NEW t \in IosThread, iosCall[t].stage = "start", NEW r, IsIosProxy(r),
         r.runtime = iosCall[t].runtime, NEW rev \in Nat, r.revision = rev,
         iosProxies' = Append(iosProxies, r), NEW stage \in {"insert", "join"},
         iosCall' = [iosCall EXCEPT ![t].proxy = Len(iosProxies) + 1, ![t].revision = rev, ![t].stage = stage,
                                    ![t].todo = <<[proxy |-> Len(iosProxies) + 1, join |-> TRUE]>>,
                                    ![t].code = "exhausted"],
         iosHandle' \in 1..(MaxIosHandle + 1), runtimes' = runtimes, revision' = revision,
         iosRegistered' = iosRegistered, lastError' = lastError
  PROVE  IosInv'
<1>1. IosState BY DEF IosInv
<1>2. PICK f, g : f = iosProxies /\ g = iosProxies' OBVIOUS
<1>3. PICK S : f \in Seq(S) BY <1>1, <1>2 DEF IosState
<1>4. PICK p : p = Len(f) + 1 OBVIOUS
<1>5. /\ g \in Seq(S \cup {r}) /\ DOMAIN g = DOMAIN f \cup {p} /\ g[p] = r /\ p \notin DOMAIN f /\ p \in Nat
      /\ \A q \in DOMAIN f : g[q] = f[q]
  <2>1. g = Append(f, r) BY <1>2
  <2>2. f \in Seq(S \cup {r}) /\ r \in S \cup {r} BY <1>3
  <2>3. QED BY <1>3, <1>4, <2>1, <2>2
<1>6. /\ IosProxy' = IosProxy \cup {p} /\ p \notin IosProxy /\ p \notin iosRegistered /\ iosProxies'[p] = r
      /\ \A q \in IosProxy : iosProxies'[q] = iosProxies[q]
  BY <1>1, <1>2, <1>5 DEF IosProxy, IosState
<1>7. PICK d : d = iosCall[t] /\ d \in IosCallRecord BY <1>1 DEF IosState
<1>8. PICK todo : todo = <<[proxy |-> p, join |-> TRUE]>> OBVIOUS
<1>9. /\ todo \in Seq(IosEntry) /\ todo # <<>> /\ Entries(todo) = {[proxy |-> p, join |-> TRUE]}
      /\ Head(todo) = [proxy |-> p, join |-> TRUE]
  <2>1. PICK e : e = [proxy |-> p, join |-> TRUE] OBVIOUS
  <2>2. e \in IosEntry BY <1>5, <2>1 DEF IosEntry
  <2>3. \A x : Entries(<<x>>) = {x} BY EntriesFacts
  <2>4. todo = <<e>> BY <1>8, <2>1
  <2>5. todo \in Seq(IosEntry) /\ todo # <<>> /\ Head(todo) = e BY <2>2, <2>4
  <2>6. Entries(todo) = {e} BY <2>3, <2>4
  <2>7. QED BY <2>1, <2>5, <2>6
<1>10. PICK c : c = [d EXCEPT !.proxy = p, !.revision = rev, !.stage = stage, !.todo = todo, !.code = "exhausted"]
  OBVIOUS
<1>11. /\ c \in IosCallRecord /\ c.proxy = p /\ c.revision = rev /\ c.stage = stage /\ c.todo = todo
       /\ c.runtime = d.runtime /\ c.late = d.late
  BY <1>5, <1>7, <1>9, <1>10, IosCodes DEF IosCallRecord, IosStages, StopStages
<1>12. iosCall' = [iosCall EXCEPT ![t] = c]
  <2>1. iosCall' = [iosCall EXCEPT ![t].proxy = p, ![t].revision = rev, ![t].stage = stage,
                                   ![t].todo = todo, ![t].code = "exhausted"]
    BY <1>2, <1>4, <1>8
  <2>2. iosCall \in [IosThread -> IosCallRecord] BY <1>1 DEF IosState
  <2>3. DOMAIN iosCall' = IosThread /\ \A s \in IosThread : s # t => iosCall'[s] = iosCall[s] BY <2>1, <2>2
  <2>4. iosCall'[t] = [[[[[d EXCEPT !.proxy = p] EXCEPT !.revision = rev] EXCEPT !.stage = stage]
                         EXCEPT !.todo = todo] EXCEPT !.code = "exhausted"]
    BY <1>7, <2>1, <2>2
  <2>5. iosCall'[t] = c BY <1>10, <2>4
  <2>6. iosCall' = [s \in IosThread |-> IF s = t THEN c ELSE iosCall[s]] BY <2>1, <2>2, <2>3, <2>5
  <2>7. QED BY <2>2, <2>6
<1>13. iosProxies'[c.proxy].runtime = c.runtime /\ iosProxies'[c.proxy].revision = c.revision BY <1>6, <1>7, <1>11
<1>14. ~c.late BY <1>7, <1>11, NeverLate
<1>15. IsIosProxy(iosProxies'[p]) /\ \E T : iosProxies' \in Seq(T) BY <1>2, <1>5, <1>6
<1>16. IosCallOk(c, iosProxies', iosRegistered')
  <2>1. p \in DOMAIN iosProxies' BY <1>6 DEF IosProxy
  <2>2. c.stage \in StopStages \cup {"insert"} BY <1>11 DEF StopStages
  <2>3. \A e \in Entries(c.todo) : e.proxy \in DOMAIN iosProxies' /\ (e.join => e.proxy \notin iosRegistered')
    BY <1>6, <1>9, <1>11, <2>1
  <2>4. c.todo = <<[proxy |-> c.proxy, join |-> TRUE]>> BY <1>8, <1>11
  <2>5. Head(c.todo).join BY <1>9, <1>11
  <2>6. QED BY <1>9, <1>11, <1>13, <1>14, <2>2, <2>3, <2>4, <2>5 DEF IosCallOk
<1>17. Joins(c, p) /\ \A q : Has(c, q) => q = p
  <2>1. PICK e : e = [proxy |-> p, join |-> TRUE] OBVIOUS
  <2>2. Entries(c.todo) = {e} BY <1>9, <1>11, <2>1
  <2>3. e.proxy = p /\ e.join BY <2>1
  <2>4. e \in Entries(c.todo) /\ \A d1 \in Entries(c.todo) : d1 = e BY <2>2
  <2>5. Joins(c, p) BY <2>3, <2>4, Zenon DEF Joins
  <2>6. \A q : Has(c, q) => q = p BY <2>3, <2>4, Zenon DEF Has
  <2>7. QED BY <2>5, <2>6
<1>18. QED BY <1>6, <1>11, <1>12, <1>14, <1>15, <1>16, <1>17, ProxyJoins

\* A server is started without the lock of the registry.
LEMMA StartProxyStep ==
  ASSUME IosInv, NEW t \in IosThread, IosStartProxy(t)
  PROVE  IosInv'
<1>1. /\ iosCall[t].stage = "start" /\ runtimes' = runtimes /\ revision' = revision
      /\ iosRegistered' = iosRegistered
  BY DEF IosStartProxy, IosAt
<1>2. IosState BY DEF IosInv
<1>3. CASE IosReturn(t, "proxy_error") /\ UNCHANGED <<iosProxies, taken, iosHandle>>
  <2>1. iosCall[t].stage \notin StopStages \cup {"insert"} /\ ~iosCall[t].late BY <1>1, NeverLate DEF StopStages
  <2>2. UNCHANGED handleVars BY <1>1, <1>3 DEF handleVars
  <2>3. HandlesGrow BY <2>2, HandlesStay
  <2>4. QED BY <1>3, <2>1, <2>3, IosCodes, IosReturnsOnly
<1>4. CASE ~(IosReturn(t, "proxy_error") /\ UNCHANGED <<iosProxies, taken, iosHandle>>)
  <2>1. PICK h, number, rev, stage : /\ h = iosCall[t].runtime /\ number = (IF HandleLeft THEN iosHandle ELSE 0)
                                     /\ rev = revision[h] /\ stage = (IF HandleLeft THEN "insert" ELSE "join")
    OBVIOUS
  <2>2. PICK box : box = <<>> OBVIOUS
  <2>3. PICK r : r = [runtime |-> h, handle |-> number, revision |-> rev, active |-> TRUE, accepting |-> TRUE,
                      stopping |-> FALSE, stopped |-> FALSE, box |-> box, lock |-> "free"]
    OBVIOUS
  <2>4. /\ iosProxies' = Append(iosProxies, r)
        /\ iosHandle' = IF HandleLeft THEN iosHandle + 1 ELSE iosHandle
        /\ iosCall' = [iosCall EXCEPT ![t].proxy = Len(iosProxies) + 1, ![t].revision = rev, ![t].stage = stage,
                                      ![t].todo = <<[proxy |-> Len(iosProxies) + 1, join |-> TRUE]>>,
                                      ![t].code = "exhausted"]
        /\ lastError' = lastError
    BY <1>4, <2>1, <2>2, <2>3 DEF IosStartProxy
  <2>5. h \in 1..MaxIosHandle BY <1>1, <2>1, IosNow DEF IosCallOk
  <2>6. rev \in Nat BY <1>2, <2>1, <2>5 DEF IosState
  <2>7. number \in 0..MaxIosHandle /\ iosHandle' \in 1..(MaxIosHandle + 1)
    BY <1>2, <2>1, <2>4, IosAssumption DEF IosState, HandleLeft
  <2>8. stage \in {"insert", "join"} BY <2>1
  <2>9. IsIosProxy(r) /\ r.runtime = h /\ r.revision = rev
    <3>1. r \in IosProxyRecord({box}, {"free"}) BY <2>3, <2>5, <2>6, <2>7 DEF IosProxyRecord
    <3>2. QED BY <2>3, <3>1 DEF IsIosProxy
  <2>10. r.runtime = iosCall[t].runtime BY <2>1, <2>9
  <2>11. QED BY <1>1, <2>4, <2>6, <2>7, <2>8, <2>9, <2>10, ProxyStarted
<1>5. QED BY <1>3, <1>4

\* Every step keeps the invariant.
LEMMA IosSteps ==
  ASSUME IosInv, IosNext
  PROVE  IosInv'
<1>1. ASSUME NEW p \in IosProxy, IosObserveStatus(p) \/ QueueStatus(p) PROVE IosInv' BY <1>1, WorkerSteps
<1>2. ASSUME NEW t \in IosThread, Stop(t) PROVE IosInv' BY <1>2, FlagSteps, ClearStep, JoinStep DEF Stop
<1>3. ASSUME NEW t \in IosThread, Proceed(t) PROVE IosInv'
  BY <1>2, <1>3, InsertRuntimeStep, PublishStep, OperateSteps, StartProxyStep, InsertProxyStep, EnsureActiveStep,
     LockStep, TakeStep DEF Proceed
<1>4. ASSUME NEW t \in IosThread, RuntimeCreate(t) \/ RuntimeDestroy(t) \/ IosSetPolicy(t) \/ ProxyStart(t)
      PROVE  IosInv'
  BY <1>4, RuntimeStarts, RuntimeDestroyStep
<1>5. ASSUME NEW t \in IosThread, IosProxyRequestStop(t) \/ IosProxyDestroy(t) PROVE IosInv'
  <2>1. "stop" \in IosOps /\ "destroy" \in IosOps BY DEF IosOps
  <2>2. QED BY <1>5, <2>1, StopCallStep DEF IosProxyRequestStop, IosProxyDestroy
<1>6. ASSUME NEW t \in IosThread,
             \/ ProxyEndpoint(t) \/ TakeMainFrameStatus(t) \/ MatchesInstance(t)
             \/ MatchesAuthenticationChallenge(t) \/ IosMatchesLocalCertificate(t)
      PROVE  IosInv'
  BY <1>6, QueryStep DEF ProxyEndpoint, TakeMainFrameStatus, MatchesInstance, MatchesAuthenticationChallenge,
                         IosMatchesLocalCertificate
<1>7. ASSUME NEW t \in IosThread,
             \/ IosSyncOnce(t) \/ IosSyncStatus(t) \/ IosAddStaticRelayPeer(t) \/ IosClearResolverCache(t)
             \/ IosInstallHeaderSnapshot(t) \/ IosResetHeadersFromPeers(t) \/ IosProofDetails(t)
      PROVE  IosInv'
  <2>1. StatusJson(t) BY <1>7 DEF IosSyncOnce, IosSyncStatus, IosAddStaticRelayPeer, IosClearResolverCache,
                                  IosInstallHeaderSnapshot, IosResetHeadersFromPeers, IosProofDetails
  <2>2. QED BY <2>1, RuntimeStarts
<1>8. ASSUME NEW t \in IosThread,
             \/ CoreVersion(t) \/ DiagnosticsJson(t) \/ CanonicalHost(t) \/ HnsRoot(t) \/ ClassifyName(t)
             \/ BufferFree(t) \/ LastError(t)
      PROVE  IosInv'
  BY <1>8, BufferSteps
<1>9. QED BY <1>1, <1>3, <1>4, <1>5, <1>6, <1>7, <1>8 DEF IosNext

\* The library starts with the invariant.
LEMMA IosBeginning == IosInit => IosInv
<1>1. SUFFICES ASSUME IosInit PROVE IosInv OBVIOUS
<1>2. IosProxy = {} BY <1>1 DEF IosInit, IosProxy
<1>3. \A t \in IosThread : iosCall[t] = IosIdle /\ lastError[t] = "ok" BY <1>1 DEF IosInit
<1>4. IosState
  <2>1. iosCall \in [IosThread -> IosCallRecord] BY <1>1, PlainIdleIsRecord DEF IosInit
  <2>2. lastError \in [IosThread -> Codes] BY <1>1, IosCodes DEF IosInit
  <2>3. iosProxies \in Seq({}) BY <1>1 DEF IosInit
  <2>4. iosHandle \in 1..(MaxIosHandle + 1) BY <1>1, IosAssumption DEF IosInit
  <2>5. QED BY <1>1, <1>2, <2>1, <2>2, <2>3, <2>4 DEF IosInit, IosState
<1>5. \A t \in IosThread : IosCallOk(iosCall[t], iosProxies, iosRegistered)
  <2>1. IosCallOk(IosIdle, iosProxies, iosRegistered) BY PlainIdleIsRecord, PlainCallOk
  <2>2. QED BY <1>3, <2>1
<1>6. InsertInv /\ StoppedIsSilent BY <1>3, PlainIdleIsRecord DEF InsertInv, StoppedIsSilent
<1>7. PolicyInv /\ OneActiveProxy BY <1>1 DEF IosInit, PolicyInv, OneActiveProxy
<1>8. ReachInv BY <1>2 DEF ReachInv
<1>9. QED BY <1>4, <1>5, <1>6, <1>7, <1>8 DEF IosInv

\* The invariant gives the property.
LEMMA IosInvIsSafe == IosInv => IosSafety
<1>1. SUFFICES ASSUME IosInv PROVE IosSafety OBVIOUS
<1>2. IosState BY <1>1 DEF IosInv
<1>3. ASSUME NEW t \in IosThread, NEW p, Has(iosCall[t], p) PROVE BeingStopped(p)
  <2>1. PICK i \in DOMAIN iosCall[t].todo : iosCall[t].todo[i].proxy = p BY <1>3 DEF Has, Entries
  <2>2. iosCall[t].todo # <<>>
    <3>1. Entries(iosCall[t].todo) # {} BY <1>3 DEF Has
    <3>2. Entries(<<>>) = {} BY EntriesFacts
    <3>3. QED BY <3>1, <3>2
  <2>3. iosCall[t].stage # "idle" BY <1>1, <2>2, IosNow DEF IosCallOk, StopStages
  <2>4. QED BY <2>1, <2>3 DEF BeingStopped
<1>4. NoStalePolicy BY <1>1, <1>3 DEF IosInv, PolicyInv, NoStalePolicy
<1>5. NoOrphanProxy
  <2>1. \A t \in IosThread : \A p : Joins(iosCall[t], p) => Has(iosCall[t], p) BY DEF Joins, Has
  <2>2. QED BY <1>1, <1>3, <2>1 DEF IosInv, ReachInv, NoOrphanProxy
<1>6. QED BY <1>1, <1>2, <1>4, <1>5, IosStateTypes DEF IosInv, IosSafety

\* However the calls of the C interface overlap (hns_browser_proxy_start, which
\* starts its proxy without the lock of the registry, against
\* hns_browser_runtime_set_policy, hns_browser_runtime_destroy and the stops of
\* ProxyEntry), no proxy serves on under a replaced policy, a runtime has one
\* serving proxy at most, every proxy that runs can be reached, and a stopped proxy
\* answers no more; for any threads, hosts and limits.
THEOREM IosIsSafe == IosSpec => []IosSafety
<1>1. IosInv /\ UNCHANGED iosVars => IosInv'
  <2>1. SUFFICES ASSUME IosInv, UNCHANGED iosVars PROVE IosInv' OBVIOUS
  <2>2. iosCall' = iosCall /\ lastError' = lastError /\ UNCHANGED <<handleVars, iosProxies>>
    BY <2>1 DEF iosVars, handleVars
  <2>3. QED BY <2>1, <2>2, IosStutter
<1>2. IosInv /\ [IosNext]_iosVars => IosInv' BY <1>1, IosSteps
<1>3. QED BY <1>2, IosBeginning, IosInvIsSafe, PTL DEF IosSpec
=============================================================================
