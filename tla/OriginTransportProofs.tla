------------------------ MODULE OriginTransportProofs ------------------------
(* Proof of AuthenticatedOrigin and TransportSafety for any number of        *)
(* threads, requests, policies and certificates and any cache capacities.    *)
(*                                                                           *)
(* What a response is worth is settled long before it is returned: by the    *)
(* handshake that made a pooled connection, or by an earlier one that left a *)
(* session ticket.  The inductive invariant says that whatever the shared    *)
(* caches hold under a policy was accepted by that policy (PoolInv,          *)
(* StoresInv, VerifiersInv), that a number means one verifier, session store *)
(* or connection as long as anyone holds it, and what a thread has           *)
(* established at every place of a fetch (SendsOf, ConnOf, VerifierOf,       *)
(* StoreOf).                                                                 *)
EXTENDS OriginTransport, FiniteSetTheorems, TLAPS

\* The verdict of a policy on a certificate a host presents.
Good(policy, host, cert) == VerifyServerCert(PolicyOf[policy], host, CertOf[cert]).ok
Verdicts(policy, host) ==
    {VerifyServerCert(PolicyOf[policy], host, CertOf[c]) : c \in Presented[host]}

Task(pc, req, protocol, conn, verifier, store, sends, attempt, sink, reusable, result) ==
    [pc |-> pc, req |-> req, protocol |-> protocol, conn |-> conn, verifier |-> verifier,
     store |-> store, sends |-> sends, attempt |-> attempt, sink |-> sink,
     reusable |-> reusable, result |-> result]
Conn(id, cert, decision) == [id |-> id, cert |-> cert, decision |-> decision]
IsConn(c) == c = Conn(c.id, c.cert, c.decision)
IsTask(k) ==
    /\ k = Task(k.pc, k.req, k.protocol, k.conn, k.verifier, k.store, k.sends, k.attempt, k.sink,
                k.reusable, k.result)
    /\ IsConn(k.conn)
Shape == task = [u \in Threads |-> task[u]] /\ \A u \in Threads : IsTask(task[u])

------------------------------------------------------------------------------
\* Places before an answer, with a connection, with a verifier, with a session store.
Unsent == {"idle", "take", "pooled", "connect", "config", "resume", "begin", "handshake", "exchange"}
Connected == {"pooled", "config", "resume", "begin", "handshake", "exchange", "finish", "settle"}
Verifying == {"resume", "begin", "handshake", "exchange", "finish"}
Resuming == {"begin", "handshake", "exchange"}

\* Nothing was sent before the exchange, and nothing is added after a failure.
SendsOf(k) ==
    /\ k.sends \in Nat /\ k.sink \in Seq(ToSet(k.sink)) /\ Len(k.sink) =< 1
    /\ k.pc \in Unsent => k.sink = << >>
    /\ k.req.method = "unsafe" => k.sends =< (IF k.pc \in Unsent THEN 0 ELSE 1)

\* What is known of the certificate behind a connection.
ConnOf(k) ==
    /\ k.conn.id \in Nat
    /\ k.pc \in Connected => k.conn.id # 0
    /\ Secured(k.req) =>
        /\ k.pc \in {"pooled", "exchange", "finish", "settle"} =>
               Good(k.req.policy, k.req.host, k.conn.cert)
        /\ k.pc \in {"pooled", "settle"} => k.conn.decision \in Verdicts(k.req.policy, k.req.host)
        /\ k.pc = "settle" => k.result = Response(k.conn.decision, k.conn.cert)
        /\ k.pc = "done" => /\ Good(k.req.policy, k.req.host, k.result.cert)
                            /\ k.result.value \in Verdicts(k.req.policy, k.req.host)

\* The verifier a thread holds is its policy's, and what it captured for the
\* thread is the verdict of this handshake or none.
CaptureOf(c, k) ==
    /\ c.decision.ok => c.decision \in Verdicts(k.req.policy, k.req.host)
    /\ k.pc = "handshake" => c.host = k.req.host
Shaking(k) ==
    k.pc \in {"handshake", "exchange", "finish"} /\ (k.pc = "exchange" => Secured(k.req))
VerifierOf(t, k) ==
    /\ k.verifier \in Nat
    /\ k.pc \in Verifying /\ (k.pc = "exchange" => Secured(k.req)) => k.verifier # 0
    /\ k.verifier # 0 =>
        /\ k.verifier \in DOMAIN verifiers /\ verifiers[k.verifier].policy = k.req.policy
        /\ Shaking(k) /\ t \in DOMAIN verifiers[k.verifier].captures =>
               CaptureOf(verifiers[k.verifier].captures[t], k)

\* The sessions of the store a thread holds are of certificates its policy accepts.
Sessions(n, policy) == \A s \in stores[n] : Good(policy, s[1], s[2])
StoreOf(k) ==
    /\ k.store \in Nat
    /\ k.pc \in Resuming /\ (k.pc = "exchange" => Secured(k.req)) => k.store # 0
    /\ k.store # 0 => k.store \in DOMAIN stores /\ Sessions(k.store, k.req.policy)

\* A verifier remembers verdicts of its own policy.
IsVerifier(v) == v = [policy |-> v.policy, captures |-> v.captures, last |-> v.last]
LastOf(v) == \A h \in DOMAIN v.last : v.last[h] \in Verdicts(v.policy, h)
VerifiersInv ==
    /\ verifiers = [n \in DOMAIN verifiers |-> verifiers[n]]
    /\ \A n \in DOMAIN verifiers : IsVerifier(verifiers[n]) /\ LastOf(verifiers[n])
    /\ \A p \in DOMAIN verifierOf :
          /\ verifierOf[p] \in Nat \ {0} /\ verifierOf[p] \in DOMAIN verifiers
          /\ verifiers[verifierOf[p]].policy = p
    /\ \A t \in Threads : VerifierOf(t, task[t])
    /\ IsFiniteSet(LiveVerifiers)

\* A store serves one policy.
StoresInv ==
    /\ stores = [n \in DOMAIN stores |-> stores[n]]
    /\ \A k \in DOMAIN storeOf :
          /\ storeOf[k] \in Nat \ {0} /\ storeOf[k] \in DOMAIN stores
          /\ Sessions(storeOf[k], k[1])
          /\ \A l \in DOMAIN storeOf : storeOf[k] = storeOf[l] => k[1] = l[1]
    /\ \A t \in Threads : StoreOf(task[t])
    /\ \A t \in Threads : task[t].store # 0 =>
          /\ \A k \in DOMAIN storeOf : storeOf[k] = task[t].store => k[1] = task[t].req.policy
          /\ \A u \in Threads : task[u].store = task[t].store => task[u].req.policy = task[t].req.policy
    /\ IsFiniteSet(LiveStores)

\* A pooled connection of a policy was accepted by it.
ConnFor(k, c) ==
    /\ IsConn(c) /\ c.id \in Nat \ {0}
    /\ k[1] = "https" => Good(k[5], k[2], c.cert) /\ c.decision \in Verdicts(k[5], k[2])
QueueOf(k, q) ==
    /\ q \in Seq(ToSet(q)) /\ Len(q) > 0
    /\ \A i \in 1..Len(q) : ConnFor(k, q[i])
PoolInv ==
    /\ pool = [k \in DOMAIN pool |-> pool[k]]
    /\ \A k \in DOMAIN pool : QueueOf(k, pool[k])
    /\ \A k, l \in DOMAIN pool : \A i \in 1..Len(pool[k]), j \in 1..Len(pool[l]) :
          pool[k][i].id = pool[l][j].id => k = l /\ i = j
    /\ \A t \in Threads : \A k \in DOMAIN pool : \A i \in 1..Len(pool[k]) :
          pool[k][i].id # task[t].conn.id
    /\ \A t, u \in Threads : t # u /\ task[t].conn.id # 0 => task[u].conn.id # task[t].conn.id
    /\ IsFiniteSet(LiveConns)

ThreadsInv == Shape /\ \A t \in Threads : SendsOf(task[t]) /\ ConnOf(task[t])
IInv == ThreadsInv /\ VerifiersInv /\ StoresInv /\ PoolInv

------------------------------------------------------------------------------
\* A fresh number is used by nobody: of one number more than there are in use, one is free.
LEMMA FreshIdIsFresh ==
  ASSUME NEW S, IsFiniteSet(S)
  PROVE  FreshId(S) \in Nat \ {0} /\ FreshId(S) \notin S
<1>1. Cardinality(S) \in Nat BY FS_CardinalityType
<1>2. \E n \in 1..(Cardinality(S) + 1) : n \notin S
  <2> SUFFICES ASSUME 1..(Cardinality(S) + 1) \subseteq S PROVE FALSE OBVIOUS
  <2>1. Cardinality(1..(Cardinality(S) + 1)) = Cardinality(S) + 1 BY <1>1, FS_Interval
  <2>2. Cardinality(1..(Cardinality(S) + 1)) =< Cardinality(S) BY FS_Subset
  <2>3. QED BY <1>1, <2>1, <2>2
<1>3. FreshId(S) \in 1..(Cardinality(S) + 1) /\ FreshId(S) \notin S BY <1>2 DEF FreshId
<1>4. QED BY <1>1, <1>3

\* Numbers in use stay finitely many when at most one is added.
LEMMA StillFinite ==
  ASSUME NEW S, NEW T, NEW n, IsFiniteSet(S), T \subseteq S \union {n}
  PROVE  IsFiniteSet(T)
BY FS_AddElement, FS_Subset

\* Inserting a key may cost another key its place and changes nothing else.
LEMMA InsertedIs ==
  ASSUME NEW f, NEW k, NEW v, NEW capacity, NEW g \in Inserted(f, k, v, capacity)
  PROVE  /\ g = [x \in DOMAIN g |-> g[x]]
         /\ k \in DOMAIN g /\ g[k] = v /\ DOMAIN g \subseteq DOMAIN f \union {k}
         /\ \A x \in DOMAIN g : x # k => x \in DOMAIN f /\ g[x] = f[x]
<1>1. PICK h : /\ g = With(h, k, v) /\ DOMAIN h \subseteq DOMAIN f
               /\ \A x \in DOMAIN h : h[x] = f[x]
  BY DEF Inserted, EvictOneIfAtCapacity, Without
<1>2. QED BY <1>1 DEF With

\* The fields of a record that is updated.
LEMMA ConnFields ==
  ASSUME NEW c, IsConn(c), NEW id, NEW cert, NEW decision
  PROVE  /\ [c EXCEPT !.id = id] = Conn(id, c.cert, c.decision)
         /\ [c EXCEPT !.cert = cert] = Conn(c.id, cert, c.decision)
         /\ [c EXCEPT !.decision = decision] = Conn(c.id, c.cert, decision)
BY DEF IsConn, Conn

LEMMA ConnHas ==
  ASSUME NEW id, NEW cert, NEW decision, NEW c, c = Conn(id, cert, decision)
  PROVE  c.id = id /\ c.cert = cert /\ c.decision = decision /\ IsConn(c)
BY DEF Conn, IsConn

LEMMA TaskHas ==
  ASSUME NEW pc, NEW req, NEW protocol, NEW conn, NEW verifier, NEW store, NEW sends, NEW attempt,
         NEW sink, NEW reusable, NEW result, NEW k, IsConn(conn),
         k = Task(pc, req, protocol, conn, verifier, store, sends, attempt, sink, reusable, result)
  PROVE  /\ k.pc = pc /\ k.req = req /\ k.protocol = protocol /\ k.conn = conn
         /\ k.verifier = verifier /\ k.store = store /\ k.sends = sends /\ k.attempt = attempt
         /\ k.sink = sink /\ k.reusable = reusable /\ k.result = result
         /\ IsTask(k)
BY DEF Task, IsTask

LEMMA IdleIs ==
  /\ IsTask(Idle) /\ Idle.pc = "idle" /\ Idle.conn = NoConn /\ Idle.verifier = 0 /\ Idle.store = 0
  /\ Idle.sends = 0 /\ Idle.attempt = 0 /\ Idle.sink = << >>
  /\ IsConn(NoConn) /\ NoConn.id = 0
BY DEF Idle, NoConn, IsTask, Task, IsConn, Conn

\* One thread has moved on, to a task with the fields given; the others keep theirs.
Moved(t, pc, req, conn, verifier, store, sends, sink, result) ==
    /\ Shape'
    /\ task'[t].pc = pc /\ task'[t].req = req /\ task'[t].conn = conn
    /\ task'[t].verifier = verifier /\ task'[t].store = store
    /\ task'[t].sends = sends /\ task'[t].sink = sink /\ task'[t].result = result
    /\ \A u \in Threads \ {t} : task'[u] = task[u]

LEMMA Becomes ==
  ASSUME Shape, NEW t \in Threads, NEW j, IsTask(j), task' = [task EXCEPT ![t] = j]
  PROVE  Moved(t, j.pc, j.req, j.conn, j.verifier, j.store, j.sends, j.sink, j.result)
<1>1. Shape' /\ task'[t] = j /\ \A u \in Threads \ {t} : task'[u] = task[u] BY DEF Shape
<1>2. QED BY <1>1 DEF Moved

\* The updates of a task that the actions make, and what each leaves.
Connecting(t, pc, c) == task' = [task EXCEPT ![t].pc = pc, ![t].conn = c]
TakesVerifier(t, pc, n) == task' = [task EXCEPT ![t].pc = pc, ![t].verifier = n]
TakesStore(t, pc, n) == task' = [task EXCEPT ![t].pc = pc, ![t].store = n]
Reconnects(t) ==
    task' = [task EXCEPT ![t].pc = "connect", ![t].sends = @ + 1, ![t].attempt = @ + 1,
                         ![t].conn = NoConn]
Certified(t, pc, cert) == task' = [task EXCEPT ![t].pc = pc, ![t].conn.cert = cert]
Decided(t, pc, decision, result) ==
    task' = [task EXCEPT ![t].pc = pc, ![t].conn.decision = decision, ![t].result = result]

LEMMA Steps ==
  ASSUME Shape, NEW t \in Threads, NEW pc, Step(t, pc)
  PROVE  Moved(t, pc, task[t].req, task[t].conn, task[t].verifier, task[t].store, task[t].sends,
                  task[t].sink, task[t].result)
<1>1. PICK k : k = task[t] /\ IsTask(k) BY DEF Shape
<1>4. PICK j : j = [k EXCEPT !.pc = pc] OBVIOUS
<1>5. task' = [task EXCEPT ![t] = [task[t] EXCEPT !.pc = pc]]
  BY <1>1 DEF Shape, IsTask, Task, Step
<1>6. task' = [task EXCEPT ![t] = j] BY <1>1, <1>4, <1>5
<1>7. j = Task(pc, k.req, k.protocol, k.conn, k.verifier, k.store, k.sends, k.attempt, k.sink,
               k.reusable, k.result)
  BY <1>1, <1>4 DEF IsTask, Task
<1>8. IsTask(j) /\ j.pc = pc /\ j.req = k.req /\ j.conn = k.conn /\ j.verifier = k.verifier /\
      j.store = k.store /\ j.sends = k.sends /\ j.sink = k.sink /\ j.result = k.result
  BY <1>1, <1>7, TaskHas DEF IsTask
<1>9. QED BY <1>1, <1>6, <1>8, Becomes

LEMMA Fails ==
  ASSUME Shape, NEW t \in Threads, NEW e, Fail(t, e)
  PROVE  Moved(t, "failed", task[t].req, task[t].conn, task[t].verifier, task[t].store,
                  task[t].sends, task[t].sink, Err(e))
<1>1. PICK k : k = task[t] /\ IsTask(k) BY DEF Shape
<1>2. PICK r : r = Err(e) OBVIOUS
<1>4. PICK j : j = [k EXCEPT !.pc = "failed", !.result = r] OBVIOUS
<1>5. task' = [task EXCEPT ![t] = [task[t] EXCEPT !.pc = "failed", !.result = r]]
  BY <1>1, <1>2 DEF Shape, IsTask, Task, Fail
<1>6. task' = [task EXCEPT ![t] = j] BY <1>1, <1>4, <1>5
<1>7. j = Task("failed", k.req, k.protocol, k.conn, k.verifier, k.store, k.sends, k.attempt,
               k.sink, k.reusable, r)
  BY <1>1, <1>4 DEF IsTask, Task
<1>8. IsTask(j) /\ j.pc = "failed" /\ j.req = k.req /\ j.conn = k.conn /\
      j.verifier = k.verifier /\ j.store = k.store /\ j.sends = k.sends /\ j.sink = k.sink /\
      j.result = r
  BY <1>1, <1>7, TaskHas DEF IsTask
<1>9. QED BY <1>1, <1>2, <1>6, <1>8, Becomes

LEMMA Connects ==
  ASSUME Shape, NEW t \in Threads, NEW pc, NEW c, IsConn(c), Connecting(t, pc, c)
  PROVE  Moved(t, pc, task[t].req, c, task[t].verifier, task[t].store, task[t].sends,
                  task[t].sink, task[t].result)
<1>1. PICK k : k = task[t] /\ IsTask(k) BY DEF Shape
<1>4. PICK j : j = [k EXCEPT !.pc = pc, !.conn = c] OBVIOUS
<1>5. task' = [task EXCEPT ![t] = [task[t] EXCEPT !.pc = pc, !.conn = c]]
  BY <1>1 DEF Shape, IsTask, Task, Connecting
<1>6. task' = [task EXCEPT ![t] = j] BY <1>1, <1>4, <1>5
<1>7. j = Task(pc, k.req, k.protocol, c, k.verifier, k.store, k.sends, k.attempt, k.sink,
               k.reusable, k.result)
  BY <1>1, <1>4 DEF IsTask, Task
<1>8. IsTask(j) /\ j.pc = pc /\ j.req = k.req /\ j.conn = c /\ j.verifier = k.verifier /\
      j.store = k.store /\ j.sends = k.sends /\ j.sink = k.sink /\ j.result = k.result
  BY <1>1, <1>7, TaskHas DEF IsTask
<1>9. QED BY <1>1, <1>6, <1>8, Becomes

LEMMA Verifies ==
  ASSUME Shape, NEW t \in Threads, NEW pc, NEW n, TakesVerifier(t, pc, n)
  PROVE  Moved(t, pc, task[t].req, task[t].conn, n, task[t].store, task[t].sends, task[t].sink,
                  task[t].result)
<1>1. PICK k : k = task[t] /\ IsTask(k) BY DEF Shape
<1>4. PICK j : j = [k EXCEPT !.pc = pc, !.verifier = n] OBVIOUS
<1>5. task' = [task EXCEPT ![t] = [task[t] EXCEPT !.pc = pc, !.verifier = n]]
  BY <1>1 DEF Shape, IsTask, Task, TakesVerifier
<1>6. task' = [task EXCEPT ![t] = j] BY <1>1, <1>4, <1>5
<1>7. j = Task(pc, k.req, k.protocol, k.conn, n, k.store, k.sends, k.attempt, k.sink, k.reusable,
               k.result)
  BY <1>1, <1>4 DEF IsTask, Task
<1>8. IsTask(j) /\ j.pc = pc /\ j.req = k.req /\ j.conn = k.conn /\ j.verifier = n /\
      j.store = k.store /\ j.sends = k.sends /\ j.sink = k.sink /\ j.result = k.result
  BY <1>1, <1>7, TaskHas DEF IsTask
<1>9. QED BY <1>1, <1>6, <1>8, Becomes

LEMMA Resumes ==
  ASSUME Shape, NEW t \in Threads, NEW pc, NEW n, TakesStore(t, pc, n)
  PROVE  Moved(t, pc, task[t].req, task[t].conn, task[t].verifier, n, task[t].sends, task[t].sink,
                  task[t].result)
<1>1. PICK k : k = task[t] /\ IsTask(k) BY DEF Shape
<1>4. PICK j : j = [k EXCEPT !.pc = pc, !.store = n] OBVIOUS
<1>5. task' = [task EXCEPT ![t] = [task[t] EXCEPT !.pc = pc, !.store = n]]
  BY <1>1 DEF Shape, IsTask, Task, TakesStore
<1>6. task' = [task EXCEPT ![t] = j] BY <1>1, <1>4, <1>5
<1>7. j = Task(pc, k.req, k.protocol, k.conn, k.verifier, n, k.sends, k.attempt, k.sink,
               k.reusable, k.result)
  BY <1>1, <1>4 DEF IsTask, Task
<1>8. IsTask(j) /\ j.pc = pc /\ j.req = k.req /\ j.conn = k.conn /\ j.verifier = k.verifier /\
      j.store = n /\ j.sends = k.sends /\ j.sink = k.sink /\ j.result = k.result
  BY <1>1, <1>7, TaskHas DEF IsTask
<1>9. QED BY <1>1, <1>6, <1>8, Becomes

LEMMA Answers ==
  ASSUME Shape, NEW t \in Threads, NEW pc, NEW reusable, NEW result,
                                   Answered(t, pc, reusable, result)
  PROVE  Moved(t, pc, task[t].req, task[t].conn, task[t].verifier, task[t].store,
                  task[t].sends + 1, Append(task[t].sink, task[t].attempt), result)
<1>1. PICK k : k = task[t] /\ IsTask(k) BY DEF Shape
<1>2. PICK n, s : n = k.sends + 1 /\ s = Append(k.sink, k.attempt) OBVIOUS
<1>4. PICK j : j = [k EXCEPT !.pc = pc, !.sends = n, !.reusable = reusable, !.result = result,
                             !.sink = s] OBVIOUS
<1>5. task' = [task EXCEPT ![t] = [task[t] EXCEPT !.pc = pc, !.sends = n, !.reusable = reusable,
                                                  !.result = result, !.sink = s]]
  BY <1>1, <1>2 DEF Shape, IsTask, Task, Answered
<1>6. task' = [task EXCEPT ![t] = j] BY <1>1, <1>4, <1>5
<1>7. j = Task(pc, k.req, k.protocol, k.conn, k.verifier, k.store, n, k.attempt, s, reusable,
               result)
  BY <1>1, <1>4 DEF IsTask, Task
<1>8. IsTask(j) /\ j.pc = pc /\ j.req = k.req /\ j.conn = k.conn /\ j.verifier = k.verifier /\
      j.store = k.store /\ j.sends = n /\ j.sink = s /\ j.result = result
  BY <1>1, <1>7, TaskHas DEF IsTask
<1>9. QED BY <1>1, <1>2, <1>6, <1>8, Becomes

LEMMA Breakings ==
  ASSUME Shape, NEW t \in Threads, NEW written, NEW e, Broken(t, written, e)
  PROVE  Moved(t, "failed", task[t].req, task[t].conn, task[t].verifier, task[t].store,
                  task[t].sends + 1, task[t].sink \o [i \in 1..written |-> task[t].attempt],
                  Err(e))
<1>1. PICK k : k = task[t] /\ IsTask(k) BY DEF Shape
<1>2. PICK n, r, s : /\ n = k.sends + 1 /\ r = Err(e)
                     /\ s = k.sink \o [i \in 1..written |-> k.attempt]
  OBVIOUS
<1>4. PICK j : j = [k EXCEPT !.pc = "failed", !.sends = n, !.result = r, !.sink = s] OBVIOUS
<1>5. task' = [task EXCEPT ![t] = [task[t] EXCEPT !.pc = "failed", !.sends = n, !.result = r,
                                                  !.sink = s]]
  BY <1>1, <1>2 DEF Shape, IsTask, Task, Broken
<1>6. task' = [task EXCEPT ![t] = j] BY <1>1, <1>4, <1>5
<1>7. j = Task("failed", k.req, k.protocol, k.conn, k.verifier, k.store, n, k.attempt, s,
               k.reusable, r)
  BY <1>1, <1>4 DEF IsTask, Task
<1>8. IsTask(j) /\ j.pc = "failed" /\ j.req = k.req /\ j.conn = k.conn /\
      j.verifier = k.verifier /\ j.store = k.store /\ j.sends = n /\ j.sink = s /\ j.result = r
  BY <1>1, <1>7, TaskHas DEF IsTask
<1>9. QED BY <1>1, <1>2, <1>6, <1>8, Becomes

LEMMA Retries ==
  ASSUME Shape, NEW t \in Threads, Reconnects(t)
  PROVE  Moved(t, "connect", task[t].req, NoConn, task[t].verifier, task[t].store,
                  task[t].sends + 1, task[t].sink, task[t].result)
<1>1. PICK k : k = task[t] /\ IsTask(k) BY DEF Shape
<1>2. PICK n, a, c : n = k.sends + 1 /\ a = k.attempt + 1 /\ c = NoConn OBVIOUS
<1>3. c = NoConn /\ IsConn(c) BY <1>1, <1>2, ConnFields, ConnHas, IdleIs DEF IsTask
<1>4. PICK j : j = [k EXCEPT !.pc = "connect", !.sends = n, !.attempt = a, !.conn = c] OBVIOUS
<1>5. task' = [task EXCEPT ![t] = [task[t] EXCEPT !.pc = "connect", !.sends = n, !.attempt = a,
                                                  !.conn = c]]
  BY <1>1, <1>2, <1>3 DEF Shape, IsTask, Task, Reconnects
<1>6. task' = [task EXCEPT ![t] = j] BY <1>1, <1>4, <1>5
<1>7. j = Task("connect", k.req, k.protocol, c, k.verifier, k.store, n, a, k.sink, k.reusable,
               k.result)
  BY <1>1, <1>4 DEF IsTask, Task
<1>8. IsTask(j) /\ j.pc = "connect" /\ j.req = k.req /\ j.conn = c /\ j.verifier = k.verifier /\
      j.store = k.store /\ j.sends = n /\ j.sink = k.sink /\ j.result = k.result
  BY <1>1, <1>3, <1>7, TaskHas DEF IsTask
<1>9. QED BY <1>1, <1>2, <1>6, <1>8, Becomes

LEMMA Certifies ==
  ASSUME Shape, NEW t \in Threads, NEW pc, NEW cert, Certified(t, pc, cert)
  PROVE  Moved(t, pc, task[t].req, Conn(task[t].conn.id, cert, task[t].conn.decision),
                  task[t].verifier, task[t].store, task[t].sends, task[t].sink, task[t].result)
<1>1. PICK k : k = task[t] /\ IsTask(k) BY DEF Shape
<1>2. PICK c : c = Conn(k.conn.id, cert, k.conn.decision) OBVIOUS
<1>3. c = [k.conn EXCEPT !.cert = cert] /\ IsConn(c)
  BY <1>1, <1>2, ConnFields, ConnHas, IdleIs DEF IsTask
<1>4. PICK j : j = [k EXCEPT !.pc = pc, !.conn = c] OBVIOUS
<1>5. task' = [task EXCEPT ![t] = [task[t] EXCEPT !.pc = pc, !.conn = c]]
  BY <1>1, <1>2, <1>3 DEF Shape, IsTask, Task, Certified
<1>6. task' = [task EXCEPT ![t] = j] BY <1>1, <1>4, <1>5
<1>7. j = Task(pc, k.req, k.protocol, c, k.verifier, k.store, k.sends, k.attempt, k.sink,
               k.reusable, k.result)
  BY <1>1, <1>4 DEF IsTask, Task
<1>8. IsTask(j) /\ j.pc = pc /\ j.req = k.req /\ j.conn = c /\ j.verifier = k.verifier /\
      j.store = k.store /\ j.sends = k.sends /\ j.sink = k.sink /\ j.result = k.result
  BY <1>1, <1>3, <1>7, TaskHas DEF IsTask
<1>9. QED BY <1>1, <1>2, <1>6, <1>8, Becomes

LEMMA Decides ==
  ASSUME Shape, NEW t \in Threads, NEW pc, NEW decision, NEW result,
                                   Decided(t, pc, decision, result)
  PROVE  Moved(t, pc, task[t].req, Conn(task[t].conn.id, task[t].conn.cert, decision),
                  task[t].verifier, task[t].store, task[t].sends, task[t].sink, result)
<1>1. PICK k : k = task[t] /\ IsTask(k) BY DEF Shape
<1>2. PICK c : c = Conn(k.conn.id, k.conn.cert, decision) OBVIOUS
<1>3. c = [k.conn EXCEPT !.decision = decision] /\ IsConn(c)
  BY <1>1, <1>2, ConnFields, ConnHas, IdleIs DEF IsTask
<1>4. PICK j : j = [k EXCEPT !.pc = pc, !.conn = c, !.result = result] OBVIOUS
<1>5. task' = [task EXCEPT ![t] = [task[t] EXCEPT !.pc = pc, !.conn = c, !.result = result]]
  BY <1>1, <1>2, <1>3 DEF Shape, IsTask, Task, Decided
<1>6. task' = [task EXCEPT ![t] = j] BY <1>1, <1>4, <1>5
<1>7. j = Task(pc, k.req, k.protocol, c, k.verifier, k.store, k.sends, k.attempt, k.sink,
               k.reusable, result)
  BY <1>1, <1>4 DEF IsTask, Task
<1>8. IsTask(j) /\ j.pc = pc /\ j.req = k.req /\ j.conn = c /\ j.verifier = k.verifier /\
      j.store = k.store /\ j.sends = k.sends /\ j.sink = k.sink /\ j.result = result
  BY <1>1, <1>3, <1>7, TaskHas DEF IsTask
<1>9. QED BY <1>1, <1>2, <1>6, <1>8, Becomes

Kept(k, j) ==
    /\ IsTask(j) /\ j.pc \in {"failed", "take", "connect"} /\ j.req = k.req /\ j.conn = k.conn
    /\ j.verifier = k.verifier /\ j.store = k.store /\ j.sends = k.sends /\ j.sink = k.sink

\* A refused attempt fails, another one starts; the rest of the task is as it was.
LEMMA DispatchIs ==
  ASSUME NEW k, IsTask(k), NEW req, NEW protocol, NEW j, j = Dispatch(k, req, protocol)
  PROVE  Kept(k, j)
<1> USE DEF Kept
<1>1. ASSUME NEW r, j = [k EXCEPT !.pc = "failed", !.result = r]
      PROVE  j = Task("failed", k.req, k.protocol, k.conn, k.verifier, k.store, k.sends, k.attempt,
                      k.sink, k.reusable, r)
  BY <1>1 DEF IsTask, Task
<1>2. ASSUME NEW pc, NEW a, j = [k EXCEPT !.pc = pc, !.protocol = protocol, !.attempt = a]
      PROVE  j = Task(pc, k.req, protocol, k.conn, k.verifier, k.store, k.sends, a, k.sink,
                      k.reusable, k.result)
  BY <1>2 DEF IsTask, Task
<1>3. \/ \E r : j = [k EXCEPT !.pc = "failed", !.result = r]
      \/ \E pc \in {"take", "connect"} : \E a :
            j = [k EXCEPT !.pc = pc, !.protocol = protocol, !.attempt = a]
  BY DEF Dispatch
<1>4. ASSUME NEW r, j = [k EXCEPT !.pc = "failed", !.result = r] PROVE  Kept(k, j)
  <2>1. j = Task("failed", k.req, k.protocol, k.conn, k.verifier, k.store, k.sends, k.attempt,
                 k.sink, k.reusable, r)
    BY <1>1, <1>4
  <2>2. QED BY <2>1, TaskHas DEF IsTask
<1>5. ASSUME NEW pc \in {"take", "connect"}, NEW a,
             j = [k EXCEPT !.pc = pc, !.protocol = protocol, !.attempt = a]
      PROVE  Kept(k, j)
  <2>1. j = Task(pc, k.req, protocol, k.conn, k.verifier, k.store, k.sends, a, k.sink, k.reusable,
                 k.result)
    BY <1>2, <1>5
  <2>2. QED BY <2>1, TaskHas DEF IsTask
<1>6. QED BY <1>3, <1>4, <1>5

LEMMA Returns ==
  ASSUME Shape, NEW t \in Threads, NEW result, Return(t, result)
  PROVE  Moved(t, "done", task[t].req, NoConn, 0, 0, 0, << >>, result)
<1>1. PICK i : i = Idle /\ IsTask(i) BY IdleIs
<1>2. PICK q : q = task[t].req OBVIOUS
<1>3. PICK j : j = [i EXCEPT !.pc = "done", !.req = q, !.result = result] OBVIOUS
<1>4. task' = [task EXCEPT ![t] = j] BY <1>1, <1>2, <1>3 DEF Return
<1>5. j = Task("done", q, i.protocol, i.conn, i.verifier, i.store, i.sends, i.attempt, i.sink,
               i.reusable, result)
  BY <1>1, <1>3 DEF IsTask, Task
<1>6. /\ IsTask(j) /\ j.pc = "done" /\ j.req = q /\ j.conn = NoConn /\ j.verifier = 0
      /\ j.store = 0 /\ j.sends = 0 /\ j.sink = << >> /\ j.result = result
  BY <1>1, <1>5, TaskHas, IdleIs DEF IsTask
<1>7. QED BY <1>2, <1>4, <1>6, Becomes

Asking(req) == [Idle EXCEPT !.req = req]

LEMMA Asks ==
  ASSUME NEW req, NEW k, k = Asking(req)
  PROVE  /\ IsTask(k) /\ k.req = req /\ k.conn = NoConn /\ k.verifier = 0 /\ k.store = 0
         /\ k.sends = 0 /\ k.sink = << >>
<1>1. PICK i : i = Idle /\ IsTask(i) BY IdleIs
<1>2. k = [i EXCEPT !.req = req] BY <1>1 DEF Asking
<1>3. k = Task(i.pc, req, i.protocol, i.conn, i.verifier, i.store, i.sends, i.attempt, i.sink,
               i.reusable, i.result)
  BY <1>1, <1>2 DEF IsTask, Task
<1>4. QED BY <1>1, <1>3, TaskHas, IdleIs DEF IsTask

LEMMA FallsBack ==
  ASSUME NEW k, IsTask(k), NEW j, j = [k EXCEPT !.conn = NoConn, !.verifier = 0, !.store = 0]
  PROVE  /\ IsTask(j) /\ j.req = k.req /\ j.conn = NoConn /\ j.verifier = 0 /\ j.store = 0
         /\ j.sends = k.sends /\ j.sink = k.sink
<1>1. PICK c : c = NoConn /\ IsConn(c) BY IdleIs
<1>2. j = [k EXCEPT !.conn = c, !.verifier = 0, !.store = 0] BY <1>1
<1>3. j = Task(k.pc, k.req, k.protocol, c, 0, 0, k.sends, k.attempt, k.sink, k.reusable, k.result)
  BY <1>2 DEF IsTask, Task
<1>4. QED BY <1>1, <1>2, <1>3, TaskHas

\* The thread's next attempt is refused or starts, with nothing of the transport in hand.
Launched(t, req, sends, sink) ==
    \E pc \in {"failed", "take", "connect"} : \E result :
        Moved(t, pc, req, NoConn, 0, 0, sends, sink, result)

\* A request starts, anew or after its alternative has failed.
LEMMA Starts ==
  ASSUME Shape, NEW t \in Threads, NEW k, IsTask(k), k.conn = NoConn, k.verifier = 0, k.store = 0,
         NEW req, NEW protocol, task' = [task EXCEPT ![t] = Dispatch(k, req, protocol)]
  PROVE  Launched(t, k.req, k.sends, k.sink)
<1>1. PICK j : j = Dispatch(k, req, protocol) OBVIOUS
<1>2. /\ IsTask(j) /\ j.pc \in {"failed", "take", "connect"} /\ j.req = k.req /\ j.conn = NoConn
      /\ j.verifier = 0 /\ j.store = 0 /\ j.sends = k.sends /\ j.sink = k.sink
  BY <1>1, DispatchIs DEF Kept
<1>3. Moved(t, j.pc, j.req, j.conn, j.verifier, j.store, j.sends, j.sink, j.result)
  BY <1>1, <1>2, Becomes
<1>4. QED BY <1>2, <1>3 DEF Launched

------------------------------------------------------------------------------
Others(t) == \A u \in Threads \ {t} : task'[u] = task[u]

\* The caches a step leaves alone stay sound if the thread that moves does.
LEMMA VerifiersStay ==
  ASSUME VerifiersInv, NEW t \in Threads, UNCHANGED <<verifierOf, verifiers>>, Others(t),
         VerifierOf(t, task[t])', task'[t].verifier \in {0, task[t].verifier}
  PROVE  VerifiersInv'
<1>1. \A u \in Threads : VerifierOf(u, task[u])' BY DEF VerifiersInv, VerifierOf, Others
<1>2. LiveVerifiers' \subseteq LiveVerifiers \union {0} BY DEF LiveVerifiers, Others
<1>3. IsFiniteSet(LiveVerifiers)' BY <1>2, StillFinite DEF VerifiersInv
<1>4. QED BY <1>1, <1>3 DEF VerifiersInv

LEMMA StoresStay ==
  ASSUME StoresInv, NEW t \in Threads, UNCHANGED <<storeOf, stores>>, Others(t),
         StoreOf(task[t])', task'[t].store \in {0, task[t].store},
         task'[t].store # 0 => task'[t].req = task[t].req
  PROVE  StoresInv'
<1>1. \A u \in Threads : StoreOf(task[u])' BY DEF StoresInv, StoreOf, Sessions, Others
<1>2. LiveStores' \subseteq LiveStores \union {0} BY DEF LiveStores, Others
<1>3. IsFiniteSet(LiveStores)' BY <1>2, StillFinite DEF StoresInv
<1>4. \A u \in Threads : task'[u].store # 0 =>
          task'[u].store = task[u].store /\ task'[u].req = task[u].req
  BY DEF Others
<1>5. QED BY <1>1, <1>3, <1>4 DEF StoresInv, Sessions

LEMMA PoolStays ==
  ASSUME PoolInv, NEW t \in Threads, UNCHANGED pool, Others(t),
         \/ task'[t].conn.id \in {0, task[t].conn.id}
         \/ task'[t].conn.id \notin LiveConns
  PROVE  PoolInv'
<1>1. LiveConns' \subseteq LiveConns \union {task'[t].conn.id} BY DEF LiveConns, Others
<1>2. IsFiniteSet(LiveConns)' BY <1>1, StillFinite DEF PoolInv
<1>3. \A k \in DOMAIN pool : \A i \in 1..Len(pool[k]) :
        pool[k][i].id \in LiveConns /\ pool[k][i].id \in Nat \ {0}
  BY DEF LiveConns, PoolInv, QueueOf, ConnFor
<1>4. \A u \in Threads : task[u].conn.id \in LiveConns BY DEF LiveConns
<1>5. \A u \in Threads : \A k \in DOMAIN pool : \A i \in 1..Len(pool[k]) :
        pool[k][i].id # task'[u].conn.id
  BY <1>3, <1>4 DEF PoolInv, Others
<1>6. \A u, w \in Threads : u # w /\ task'[u].conn.id # 0 => task'[w].conn.id # task'[u].conn.id
  BY <1>4 DEF PoolInv, Others
<1>7. QED BY <1>2, <1>5, <1>6 DEF PoolInv

LEMMA ThreadsKept ==
  ASSUME ThreadsInv, NEW t \in Threads, Shape', Others(t), SendsOf(task'[t]), ConnOf(task'[t])
  PROVE  ThreadsInv'
BY DEF ThreadsInv, Others

\* A step that changes no cache keeps the invariant if it keeps what it is to establish.
LEMMA MoveKeeps ==
  ASSUME IInv, NEW t \in Threads, NEW pc, NEW req, NEW conn, NEW verifier, NEW store, NEW sends,
         NEW sink, NEW result, Moved(t, pc, req, conn, verifier, store, sends, sink, result),
         UNCHANGED <<pool, verifierOf, verifiers, storeOf, stores>>,
         verifier \in {0, task[t].verifier}, store \in {0, task[t].store},
         store # 0 => req = task[t].req,
         conn.id \in {0, task[t].conn.id} \/ conn.id \notin LiveConns,
         SendsOf(task'[t]), ConnOf(task'[t]), VerifierOf(t, task[t])', StoreOf(task[t])'
  PROVE  IInv'
<1>1. Others(t) /\ Shape' BY DEF Moved, Others
<1>2. ThreadsInv' BY <1>1, ThreadsKept DEF IInv
<1>3. VerifiersInv' BY <1>1, VerifiersStay DEF IInv, Moved
<1>4. StoresInv' BY <1>1, StoresStay DEF IInv, Moved
<1>5. PoolInv' BY <1>1, PoolStays DEF IInv, Moved
<1>6. QED BY <1>2, <1>3, <1>4, <1>5 DEF IInv

------------------------------------------------------------------------------
\* Sequences: of their own elements; an empty sink, one answer's sink; a queue that loses its head.
LEMMA SeqOfItself ==
  ASSUME NEW S, NEW s \in Seq(S)
  PROVE  s \in Seq(ToSet(s))
<1>1. s \in [1..Len(s) -> S] /\ Len(s) \in Nat /\ DOMAIN s = 1..Len(s) OBVIOUS
<1>2. s \in [1..Len(s) -> ToSet(s)] BY <1>1 DEF ToSet
<1>3. QED BY <1>1, <1>2

LEMMA TailIs ==
  ASSUME NEW S, NEW q \in Seq(S), Len(q) > 0
  PROVE  /\ Tail(q) \in Seq(S) /\ Len(Tail(q)) = Len(q) - 1 /\ Head(q) = q[1]
         /\ \A i \in 1..(Len(q) - 1) : Tail(q)[i] = q[i + 1]
OBVIOUS

LEMMA SinkIs ==
  /\ << >> \in Seq(ToSet(<< >>)) /\ Len(<< >>) = 0
  /\ \A a : /\ Append(<< >>, a) \in Seq(ToSet(Append(<< >>, a))) /\ Len(Append(<< >>, a)) = 1
            /\ << >> \o [i \in 1..1 |-> a] \in Seq(ToSet(<< >> \o [i \in 1..1 |-> a]))
            /\ Len(<< >> \o [i \in 1..1 |-> a]) = 1
            /\ << >> \o [i \in 1..0 |-> a] \in Seq(ToSet(<< >> \o [i \in 1..0 |-> a]))
            /\ Len(<< >> \o [i \in 1..0 |-> a]) = 0
<1>1. \A s, S : s \in Seq(S) => s \in Seq(ToSet(s)) BY SeqOfItself
<1>2. << >> \in Seq({}) /\ Len(<< >>) = 0 OBVIOUS
<1>3. \A a : Append(<< >>, a) \in Seq({a}) /\ Len(Append(<< >>, a)) = 1 OBVIOUS
<1>4. \A a : [i \in 1..1 |-> a] \in Seq({a}) /\ Len([i \in 1..1 |-> a]) = 1
  OBVIOUS
<1>5. \A a : [i \in 1..0 |-> a] \in Seq({a}) /\ Len([i \in 1..0 |-> a]) = 0
  OBVIOUS
<1>6. \A a, s : s \in Seq({a}) => << >> \o s \in Seq({a}) /\ Len(<< >> \o s) = Len(s) OBVIOUS
<1>7. \A a : /\ << >> \o [i \in 1..1 |-> a] \in Seq({a}) /\ Len(<< >> \o [i \in 1..1 |-> a]) = 1
             /\ << >> \o [i \in 1..0 |-> a] \in Seq({a}) /\ Len(<< >> \o [i \in 1..0 |-> a]) = 0
  BY <1>4, <1>5, <1>6
<1>8. QED BY <1>1, <1>2, <1>3, <1>7

\* What the invariant says of one thread.
ThreadOf(t) ==
    /\ Shape
    /\ SendsOf(task[t]) /\ ConnOf(task[t]) /\ VerifierOf(t, task[t]) /\ StoreOf(task[t])

LEMMA ThreadHas ==
  ASSUME IInv, NEW t \in Threads
  PROVE  ThreadOf(t)
BY DEF IInv, ThreadsInv, VerifiersInv, StoresInv, ThreadOf

LEMMA FetchKeeps ==
  ASSUME IInv, NEW t \in Threads, NEW req, Fetch(t, req)
  PROVE  IInv'
<1>1. PICK k : k = Asking(req) OBVIOUS
<1>2. /\ IsTask(k) /\ k.req = req /\ k.conn = NoConn /\ k.verifier = 0 /\ k.store = 0
      /\ k.sends = 0 /\ k.sink = << >>
  BY <1>1, Asks
<1>3. PICK protocol : task' = [task EXCEPT ![t] = Dispatch(k, req, protocol)]
  BY <1>1 DEF Fetch, Asking
<1>4. PICK pc, result : /\ pc \in {"failed", "take", "connect"}
                        /\ Moved(t, pc, req, NoConn, 0, 0, 0, << >>, result)
  <2>1. Launched(t, req, 0, << >>) BY <1>2, <1>3, Starts DEF IInv, ThreadsInv
  <2>2. QED BY <2>1 DEF Launched
<1>5. SendsOf(task'[t]) BY <1>4, SinkIs DEF Moved, SendsOf
<1>6. ConnOf(task'[t]) BY <1>4, IdleIs DEF Moved, ConnOf, Connected
<1>7. VerifierOf(t, task[t])' /\ StoreOf(task[t])'
  BY <1>4 DEF Moved, VerifierOf, Shaking, StoreOf, Verifying, Resuming
<1>8. QED BY <1>4, <1>5, <1>6, <1>7, MoveKeeps, IdleIs DEF Fetch

LEMMA ConnectKeeps ==
  ASSUME IInv, NEW t \in Threads, Connect(t)
  PROVE  IInv'
<1> DEFINE k == task[t]
<1>0. ThreadOf(t) /\ k.pc = "connect" BY ThreadHas DEF Connect, At
<1> USE DEF ThreadOf
<1>1. CASE Fail(t, "Io")
  <2>1. Moved(t, "failed", k.req, k.conn, k.verifier, k.store, k.sends, k.sink, Err("Io"))
    BY <1>0, <1>1, Fails
  <2>2. SendsOf(task'[t]) BY <1>0, <2>1 DEF Moved, SendsOf, Unsent
  <2>3. ConnOf(task'[t]) BY <1>0, <2>1 DEF Moved, ConnOf, Connected
  <2>4. VerifierOf(t, task[t])' /\ StoreOf(task[t])'
    BY <1>0, <2>1 DEF Moved, VerifierOf, Shaking, StoreOf, Verifying, Resuming, Connect, Sessions
  <2>5. QED BY <2>1, <2>2, <2>3, <2>4, MoveKeeps DEF Connect
<1>2. ASSUME NEW pc, pc = (IF Secured(k.req) THEN "config" ELSE "exchange"),
             NEW c, c = [NoConn EXCEPT !.id = FreshId(LiveConns)], Connecting(t, pc, c)
      PROVE  IInv'
  <2>1. FreshId(LiveConns) \in Nat \ {0} /\ FreshId(LiveConns) \notin LiveConns
    BY FreshIdIsFresh DEF IInv, PoolInv
  <2>2. IsConn(c) /\ c.id = FreshId(LiveConns)
    <3>1. c = Conn(FreshId(LiveConns), NoConn.cert, NoConn.decision) BY <1>2, ConnFields, IdleIs
    <3>2. QED BY <3>1, ConnHas
  <2>3. Moved(t, pc, k.req, c, k.verifier, k.store, k.sends, k.sink, k.result)
    BY <1>0, <1>2, <2>2, Connects
  <2>4. SendsOf(task'[t]) BY <1>0, <1>2, <2>3 DEF Moved, SendsOf, Unsent
  <2>5. ConnOf(task'[t]) BY <1>0, <1>2, <2>1, <2>2, <2>3 DEF Moved, ConnOf, Connected
  <2>6. VerifierOf(t, task[t])' /\ StoreOf(task[t])'
    <3>1. Secured(k.req) => pc = "config" BY <1>2
    <3>2. ~Secured(k.req) => pc = "exchange" BY <1>2
    <3>3. UNCHANGED <<verifiers, stores>> BY DEF Connect
    <3>4. QED
      BY <1>0, <2>3, <3>1, <3>2, <3>3
         DEF Moved, VerifierOf, Shaking, StoreOf, Verifying, Resuming, Sessions
  <2>7. QED BY <2>1, <2>2, <2>3, <2>4, <2>5, <2>6, MoveKeeps DEF Connect
<1>3. QED BY <1>0, <1>1, <1>2 DEF Connect, Connecting

LEMMA SendPooledKeeps ==
  ASSUME IInv, NEW t \in Threads, SendPooled(t)
  PROVE  IInv'
<1> DEFINE k == task[t]
<1>0. ThreadOf(t) /\ k.pc = "pooled" BY ThreadHas DEF SendPooled, At
<1> USE DEF ThreadOf
<1>1. UNCHANGED <<pool, verifierOf, verifiers, storeOf, stores>> BY DEF SendPooled
<1>2. ASSUME NEW reusable,
             Answered(t, "settle", reusable, Response(k.conn.decision, k.conn.cert))
      PROVE  IInv'
  <2>1. Moved(t, "settle", k.req, k.conn, k.verifier, k.store, k.sends + 1,
              Append(k.sink, k.attempt), Response(k.conn.decision, k.conn.cert))
    BY <1>0, <1>2, Answers
  <2>2. SendsOf(task'[t])
    <3>1. k.sink = << >> /\ k.sends \in Nat /\ (k.req.method = "unsafe" => k.sends =< 0)
      BY <1>0 DEF SendsOf, Unsent
    <3>2. QED BY <2>1, <3>1, SinkIs DEF Moved, SendsOf, Unsent
  <2>3. ConnOf(task'[t]) BY <1>0, <2>1 DEF Moved, ConnOf, Connected
  <2>4. VerifierOf(t, task[t])' /\ StoreOf(task[t])'
    BY <1>0, <1>1, <2>1 DEF Moved, VerifierOf, Shaking, StoreOf, Verifying, Resuming, Sessions
  <2>5. QED BY <1>1, <2>1, <2>2, <2>3, <2>4, MoveKeeps
<1>3. ASSUME NEW written \in 0..1, Broken(t, written, "Io")
      PROVE  IInv'
  <2>1. Moved(t, "failed", k.req, k.conn, k.verifier, k.store, k.sends + 1,
              k.sink \o [i \in 1..written |-> k.attempt], Err("Io"))
    BY <1>0, <1>3, Breakings
  <2>2. SendsOf(task'[t])
    <3>1. k.sink = << >> /\ k.sends \in Nat /\ (k.req.method = "unsafe" => k.sends =< 0)
      BY <1>0 DEF SendsOf, Unsent
    <3>2. written = 0 \/ written = 1 BY <1>3
    <3>3. QED BY <2>1, <3>1, <3>2, SinkIs DEF Moved, SendsOf, Unsent
  <2>3. ConnOf(task'[t]) BY <1>0, <2>1 DEF Moved, ConnOf, Connected
  <2>4. VerifierOf(t, task[t])' /\ StoreOf(task[t])'
    BY <1>0, <1>1, <2>1 DEF Moved, VerifierOf, Shaking, StoreOf, Verifying, Resuming, Sessions
  <2>5. QED BY <1>1, <2>1, <2>2, <2>3, <2>4, MoveKeeps
<1>4. ASSUME SafeRetry(k.req), Reconnects(t)
      PROVE  IInv'
  <2>1. Moved(t, "connect", k.req, NoConn, k.verifier, k.store, k.sends + 1, k.sink, k.result)
    BY <1>0, <1>4, Retries
  <2>2. SendsOf(task'[t]) BY <1>0, <1>4, <2>1 DEF Moved, SendsOf, Unsent, SafeRetry
  <2>3. ConnOf(task'[t]) BY <1>0, <2>1, IdleIs DEF Moved, ConnOf, Connected
  <2>4. VerifierOf(t, task[t])' /\ StoreOf(task[t])'
    BY <1>0, <1>1, <2>1 DEF Moved, VerifierOf, Shaking, StoreOf, Verifying, Resuming, Sessions
  <2>5. QED BY <1>1, <2>1, <2>2, <2>3, <2>4, MoveKeeps, IdleIs
<1>5. QED BY <1>2, <1>3, <1>4 DEF SendPooled, Reconnects

LEMMA FallBackKeeps ==
  ASSUME IInv, NEW t \in Threads, FallBackOrFail(t)
  PROVE  IInv'
<1> DEFINE k == task[t]
<1>0. ThreadOf(t) /\ k.pc = "failed" BY ThreadHas DEF FallBackOrFail, At
<1> USE DEF ThreadOf
<1>1. UNCHANGED <<pool, verifierOf, verifiers, storeOf, stores>> BY DEF FallBackOrFail
<1>2. ASSUME NEW pc \in {"idle", "failed", "take", "connect"}, NEW req, NEW sends, NEW sink, NEW result,
             sink = << >>, sends \in Nat, req.method = "unsafe" => sends = 0,
             Moved(t, pc, req, NoConn, 0, 0, sends, sink, result)
      PROVE  IInv'
  <2>1. SendsOf(task'[t]) BY <1>2, SinkIs DEF Moved, SendsOf
  <2>2. ConnOf(task'[t]) BY <1>2, IdleIs DEF Moved, ConnOf, Connected
  <2>3. VerifierOf(t, task[t])' /\ StoreOf(task[t])'
    BY <1>2 DEF Moved, VerifierOf, Shaking, StoreOf, Verifying, Resuming
  <2>4. QED BY <1>1, <1>2, <2>1, <2>2, <2>3, MoveKeeps, IdleIs
<1>3. CASE ShouldRetryFallback(t)
  <2>1. PICK j : j = [k EXCEPT !.conn = NoConn, !.verifier = 0, !.store = 0] OBVIOUS
  <2>2. /\ IsTask(j) /\ j.req = k.req /\ j.conn = NoConn /\ j.verifier = 0 /\ j.store = 0
        /\ j.sends = k.sends /\ j.sink = k.sink
    BY <1>0, <2>1, FallsBack DEF Shape
  <2>3. task' = [task EXCEPT ![t] = Dispatch(j, k.req, k.req.protocol)]
    BY <1>3, <2>1 DEF FallBackOrFail
  <2>4. PICK pc, result : /\ pc \in {"failed", "take", "connect"}
                          /\ Moved(t, pc, k.req, NoConn, 0, 0, k.sends, k.sink, result)
    <3>1. Launched(t, k.req, k.sends, k.sink) BY <1>0, <2>2, <2>3, Starts
    <3>2. QED BY <3>1 DEF Launched
  <2>5. k.sink = << >> /\ k.req.method = "safe" BY <1>3 DEF ShouldRetryFallback, SafeRetry
  <2>6. QED BY <1>0, <1>2, <2>4, <2>5 DEF SendsOf
<1>4. CASE ~ShouldRetryFallback(t)
  <2>1. PICK j : j = Idle /\ IsTask(j) BY IdleIs
  <2>2. task' = [task EXCEPT ![t] = j] BY <1>4, <2>1 DEF FallBackOrFail
  <2>3. Moved(t, j.pc, j.req, j.conn, j.verifier, j.store, j.sends, j.sink, j.result)
    BY <1>0, <2>1, <2>2, Becomes
  <2>4. QED BY <1>2, <2>1, <2>3, IdleIs
<1>5. QED BY <1>3, <1>4

------------------------------------------------------------------------------
\* A ticket is for the certificate of the connection it came over, and the store it
\* goes to serves the policy that accepted it.
LEMMA TicketsKeep ==
  ASSUME IInv, NEW t \in Threads, task[t].pc = "exchange", Tickets(t), UNCHANGED storeOf, Others(t),
         task'[t].store = task[t].store, task'[t].req = task[t].req, task'[t].pc \notin Resuming
  PROVE  StoresInv'
<1> DEFINE k == task[t]
           n == k.store
           p == k.req.policy
<1>0. StoresInv /\ ConnOf(k) /\ StoreOf(k) BY DEF IInv, ThreadsInv, StoresInv
<1>1. \A u \in Threads : /\ task'[u].store = task[u].store /\ task'[u].req = task[u].req
                         /\ task'[u].pc = task[u].pc \/ task'[u].pc \notin Resuming
  BY DEF Others
<1>2. LiveStores' = LiveStores BY <1>1 DEF LiveStores
<1>3. CASE UNCHANGED stores
  <2>1. \A u \in Threads : StoreOf(task[u])' BY <1>0, <1>1, <1>3 DEF StoresInv, StoreOf, Sessions
  <2>2. QED BY <1>0, <1>1, <1>2, <1>3, <2>1 DEF StoresInv, Sessions
<1>4. ASSUME Secured(k.req), NEW c, c = <<k.req.host, k.conn.cert>>,
             stores' = [stores EXCEPT ![n] = @ \union {c}]
      PROVE  StoresInv'
  <2>1. n # 0 /\ n \in DOMAIN stores /\ Good(p, c[1], c[2])
    BY <1>0, <1>4 DEF StoreOf, ConnOf, Resuming
  <2>2. /\ stores' = [m \in DOMAIN stores' |-> stores'[m]] /\ DOMAIN stores' = DOMAIN stores
        /\ stores'[n] = stores[n] \union {c}
        /\ \A m \in DOMAIN stores : m # n => stores'[m] = stores[m]
    BY <1>0, <1>4, <2>1 DEF StoresInv
  <2>3. ASSUME NEW m \in DOMAIN stores, NEW q, Sessions(m, q), m = n => q = p PROVE Sessions(m, q)'
    BY <2>1, <2>2, <2>3 DEF Sessions
  <2>4. ASSUME NEW u \in Threads PROVE StoreOf(task[u])'
    <3>1. StoreOf(task[u]) /\ (task[u].store = n => task[u].req.policy = p)
      BY <1>0, <2>1 DEF StoresInv
    <3>2. QED BY <1>1, <2>2, <2>3, <3>1 DEF StoreOf
  <2>5. ASSUME NEW l \in DOMAIN storeOf PROVE Sessions(storeOf[l], l[1])'
    BY <1>0, <2>1, <2>3 DEF StoresInv
  <2>6. QED BY <1>0, <1>1, <1>2, <2>2, <2>4, <2>5 DEF StoresInv
<1>5. QED BY <1>3, <1>4 DEF Tickets

\* The exchange on a new connection, whatever the protocol.
LEMMA ExchangeKeeps ==
  ASSUME IInv, NEW t \in Threads, task[t].pc = "exchange", Tickets(t),
         UNCHANGED <<pool, verifierOf, verifiers, storeOf>>,
         \/ \E reusable : Answered(t, AfterAnswer(t), reusable, Response(NoTlsa, "none"))
         \/ \E written \in 0..1 : \E e : Broken(t, written, e)
  PROVE  IInv'
<1> DEFINE k == task[t]
<1>0. ThreadOf(t) /\ k.pc = "exchange" BY ThreadHas
<1>1. k.sink = << >> /\ k.sends \in Nat /\ (k.req.method = "unsafe" => k.sends =< 0)
  BY <1>0 DEF SendsOf, Unsent, ThreadOf
<1>2. ASSUME NEW pc, NEW sends, NEW sink, NEW result, sink \in Seq(ToSet(sink)), Len(sink) =< 1,
             sends = k.sends + 1, pc \in {"failed", AfterAnswer(t)},
             Moved(t, pc, k.req, k.conn, k.verifier, k.store, sends, sink, result)
      PROVE  IInv'
  <2>1. pc \in {"failed", "finish", "settle"} /\ (pc = "finish" => Secured(k.req))
        /\ (pc = "settle" => ~Secured(k.req))
    BY <1>2 DEF AfterAnswer
  <2>2. SendsOf(task'[t]) BY <1>1, <1>2, <2>1 DEF Moved, SendsOf, Unsent
  <2>3. ConnOf(task'[t]) BY <1>0, <1>2, <2>1 DEF Moved, ConnOf, Connected, ThreadOf
  <2>4. VerifierOf(t, task[t])'
    <3>1. /\ task'[t].verifier = k.verifier /\ task'[t].req = k.req /\ task'[t].pc = pc
          /\ verifiers' = verifiers
      BY <1>2 DEF Moved
    <3>2. VerifierOf(t, k) BY <1>0 DEF ThreadOf
    <3>3. QED BY <1>0, <2>1, <3>1, <3>2 DEF VerifierOf, Verifying, Shaking, CaptureOf
  <2>5. Others(t) /\ Shape' BY <1>2 DEF Moved, Others
  <2>6. ThreadsInv' BY <2>2, <2>3, <2>5, ThreadsKept DEF IInv
  <2>7. VerifiersInv' BY <1>2, <2>4, <2>5, VerifiersStay DEF IInv, Moved
  <2>8. StoresInv' BY <1>0, <1>2, <2>1, <2>5, TicketsKeep DEF Moved, Resuming
  <2>9. PoolInv' BY <1>2, <2>5, PoolStays DEF IInv, Moved
  <2>10. QED BY <2>6, <2>7, <2>8, <2>9 DEF IInv
<1>3. ASSUME NEW reusable, Answered(t, AfterAnswer(t), reusable, Response(NoTlsa, "none"))
      PROVE  IInv'
  <2>1. Moved(t, AfterAnswer(t), k.req, k.conn, k.verifier, k.store, k.sends + 1,
              Append(k.sink, k.attempt), Response(NoTlsa, "none"))
    BY <1>0, <1>3, Answers DEF ThreadOf
  <2>2. PICK sink : sink = Append(k.sink, k.attempt) OBVIOUS
  <2>3. sink \in Seq(ToSet(sink)) /\ Len(sink) =< 1 BY <1>1, <2>2, SinkIs
  <2>4. QED BY <1>2, <2>1, <2>2, <2>3
<1>4. ASSUME NEW written \in 0..1, NEW e, Broken(t, written, e)
      PROVE  IInv'
  <2>1. Moved(t, "failed", k.req, k.conn, k.verifier, k.store, k.sends + 1,
              k.sink \o [i \in 1..written |-> k.attempt], Err(e))
    BY <1>0, <1>4, Breakings DEF ThreadOf
  <2>2. PICK sink : sink = k.sink \o [i \in 1..written |-> k.attempt] OBVIOUS
  <2>3. written = 0 \/ written = 1 BY <1>4
  <2>4. sink \in Seq(ToSet(sink)) /\ Len(sink) =< 1 BY <1>1, <2>2, <2>3, SinkIs
  <2>5. QED BY <1>2, <2>1, <2>2, <2>4
<1>5. QED BY <1>3, <1>4

------------------------------------------------------------------------------
\* What a pool without the head of a queue holds, and where it stood before.
Shifted(key, l, i) == IF l = key THEN i + 1 ELSE i

LEMMA HeadTaken ==
  ASSUME PoolInv, NEW key \in DOMAIN pool, pool' = PoolWithoutHead(key)
  PROVE  /\ pool' = [l \in DOMAIN pool' |-> pool'[l]]
         /\ \A l \in DOMAIN pool' : /\ l \in DOMAIN pool
                                    /\ pool'[l] \in Seq(ToSet(pool'[l])) /\ Len(pool'[l]) > 0
         /\ \A l \in DOMAIN pool' : \A i \in 1..Len(pool'[l]) :
               /\ Shifted(key, l, i) \in 1..Len(pool[l])
               /\ l = key => Shifted(key, l, i) # 1
               /\ pool'[l][i] = pool[l][Shifted(key, l, i)]
<1> DEFINE q == pool[key]
<1>0. pool = [l \in DOMAIN pool |-> pool[l]] /\ \A l \in DOMAIN pool : QueueOf(l, pool[l])
  BY DEF PoolInv
<1>1. q \in Seq(ToSet(q)) /\ Len(q) > 0 /\ Len(q) \in Nat BY <1>0 DEF QueueOf
<1>2. CASE Len(q) = 1
  <2>1. pool' = [l \in DOMAIN pool \ {key} |-> pool[l]] BY <1>2 DEF PoolWithoutHead, Without
  <2>2. QED BY <1>0, <2>1 DEF QueueOf, Shifted
<1>3. CASE Len(q) # 1
  <2>1. pool' = [pool EXCEPT ![key] = Tail(q)] BY <1>3 DEF PoolWithoutHead
  <2>2. /\ pool' = [l \in DOMAIN pool' |-> pool'[l]] /\ DOMAIN pool' = DOMAIN pool
        /\ pool'[key] = Tail(q) /\ \A l \in DOMAIN pool : l # key => pool'[l] = pool[l]
    BY <1>0, <2>1
  <2>3. /\ Tail(q) \in Seq(ToSet(q)) /\ Len(Tail(q)) = Len(q) - 1
        /\ \A i \in 1..(Len(q) - 1) : Tail(q)[i] = q[i + 1]
    BY <1>1, TailIs
  <2>4. Tail(q) \in Seq(ToSet(Tail(q))) BY <2>3, SeqOfItself
  <2>5. ASSUME NEW l \in DOMAIN pool'
        PROVE  pool'[l] \in Seq(ToSet(pool'[l])) /\ Len(pool'[l]) > 0
    <3>1. CASE l = key
      <4>1. PICK r : r = Tail(q) OBVIOUS
      <4>2. r \in Seq(ToSet(r)) /\ Len(r) > 0 BY <1>1, <1>3, <2>3, <2>4, <4>1
      <4>3. QED BY <2>2, <3>1, <4>1, <4>2
    <3>2. CASE l # key BY <1>0, <2>2, <3>2 DEF QueueOf
    <3>3. QED BY <3>1, <3>2
  <2>6. ASSUME NEW l \in DOMAIN pool', NEW i \in 1..Len(pool'[l])
        PROVE  /\ Shifted(key, l, i) \in 1..Len(pool[l])
               /\ l = key => Shifted(key, l, i) # 1
               /\ pool'[l][i] = pool[l][Shifted(key, l, i)]
    <3>1. CASE l = key BY <1>1, <2>2, <2>3, <3>1 DEF Shifted
    <3>2. CASE l # key BY <2>2, <3>2 DEF Shifted
    <3>3. QED BY <3>1, <3>2
  <2>7. QED BY <2>2, <2>5, <2>6
<1>4. QED BY <1>2, <1>3

\* The thread that takes a queue's head is alone with it.
LEMMA PoolShrinks ==
  ASSUME PoolInv, NEW t \in Threads, NEW key \in DOMAIN pool, pool' = PoolWithoutHead(key), Others(t),
         1 \in 1..Len(pool[key]), task'[t].conn = pool[key][1]
  PROVE  PoolInv'
<1>0. /\ pool' = [l \in DOMAIN pool' |-> pool'[l]]
      /\ \A l \in DOMAIN pool' : /\ l \in DOMAIN pool
                                 /\ pool'[l] \in Seq(ToSet(pool'[l])) /\ Len(pool'[l]) > 0
  BY HeadTaken
<1>1. \A l \in DOMAIN pool' : \A i \in 1..Len(pool'[l]) :
         /\ Shifted(key, l, i) \in 1..Len(pool[l]) /\ (l = key => Shifted(key, l, i) # 1)
         /\ pool'[l][i] = pool[l][Shifted(key, l, i)]
  BY HeadTaken
<1>2. /\ \A l \in DOMAIN pool : QueueOf(l, pool[l])
      /\ \A l, m \in DOMAIN pool : \A i \in 1..Len(pool[l]), j \in 1..Len(pool[m]) :
            pool[l][i].id = pool[m][j].id => l = m /\ i = j
      /\ \A u \in Threads : \A l \in DOMAIN pool : \A i \in 1..Len(pool[l]) :
            pool[l][i].id # task[u].conn.id
      /\ \A u, w \in Threads : u # w /\ task[u].conn.id # 0 => task[w].conn.id # task[u].conn.id
      /\ IsFiniteSet(LiveConns)
  BY DEF PoolInv
<1>3. ASSUME NEW l \in DOMAIN pool' PROVE QueueOf(l, pool'[l])
  <2>1. ASSUME NEW i \in 1..Len(pool'[l]) PROVE ConnFor(l, pool'[l][i])
    <3>1. PICK j : /\ j = Shifted(key, l, i) /\ j \in 1..Len(pool[l])
                /\ pool'[l][i] = pool[l][j]
      BY <1>1
    <3>2. QED BY <1>0, <1>2, <3>1 DEF QueueOf
  <2>2. QED BY <1>0, <2>1 DEF QueueOf
<1>4. ASSUME NEW l \in DOMAIN pool', NEW m \in DOMAIN pool', NEW i \in 1..Len(pool'[l]),
             NEW j \in 1..Len(pool'[m]), pool'[l][i].id = pool'[m][j].id
      PROVE  l = m /\ i = j
  <2>1. PICK a : a = Shifted(key, l, i) /\ a \in 1..Len(pool[l]) /\ pool'[l][i] = pool[l][a]
    BY <1>1
  <2>2. PICK b : b = Shifted(key, m, j) /\ b \in 1..Len(pool[m]) /\ pool'[m][j] = pool[m][b]
    BY <1>1
  <2>3. l = m /\ a = b BY <1>0, <1>2, <1>4, <2>1, <2>2
  <2>4. Len(pool'[l]) \in Nat /\ Len(pool'[m]) \in Nat BY <1>0
  <2>5. QED BY <2>1, <2>2, <2>3, <2>4 DEF Shifted
<1>5. ASSUME NEW l \in DOMAIN pool', NEW i \in 1..Len(pool'[l])
      PROVE  /\ \A u \in Threads : pool'[l][i].id # task[u].conn.id
             /\ pool'[l][i].id # pool[key][1].id
  <2>1. PICK j : /\ j = Shifted(key, l, i) /\ j \in 1..Len(pool[l])
              /\ pool'[l][i] = pool[l][j] /\ (l = key => j # 1)
    BY <1>1
  <2>2. QED BY <1>0, <1>2, <2>1
<1>6. \A u \in Threads : task'[u].conn = task[u].conn \/ (u = t /\ task'[u].conn = pool[key][1])
  BY DEF Others
<1>7. \A u \in Threads : \A l \in DOMAIN pool' : \A i \in 1..Len(pool'[l]) :
         pool'[l][i].id # task'[u].conn.id
  BY <1>5, <1>6
<1>8. \A u \in Threads : pool[key][1].id # task[u].conn.id BY <1>2
<1>9. ASSUME NEW u \in Threads, NEW w \in Threads, u # w, task'[u].conn.id # 0
      PROVE  task'[w].conn.id # task'[u].conn.id
  BY <1>2, <1>6, <1>8, <1>9
<1>10. LiveConns' \subseteq LiveConns BY <1>0, <1>1, <1>6 DEF LiveConns
<1>11. IsFiniteSet(LiveConns)' BY <1>2, <1>10, FS_Subset
<1>12. QED BY <1>0, <1>3, <1>4, <1>7, <1>9, <1>11 DEF PoolInv

LEMMA TakeKeeps ==
  ASSUME IInv, NEW t \in Threads, TakeHttp11Connection(t)
  PROVE  IInv'
<1> DEFINE k == task[t]
           key == PoolKey(k.req)
<1>0. ThreadOf(t) /\ k.pc = "take" /\ PoolInv BY ThreadHas DEF TakeHttp11Connection, At, IInv
<1>1. UNCHANGED <<verifierOf, verifiers, storeOf, stores>> BY DEF TakeHttp11Connection
<1>2. ASSUME Step(t, "connect"), UNCHANGED pool PROVE IInv'
  <2>1. Moved(t, "connect", k.req, k.conn, k.verifier, k.store, k.sends, k.sink, k.result)
    BY <1>0, <1>2, Steps DEF ThreadOf
  <2>2. SendsOf(task'[t]) BY <1>0, <2>1 DEF Moved, SendsOf, Unsent, ThreadOf
  <2>3. ConnOf(task'[t]) BY <1>0, <2>1 DEF Moved, ConnOf, Connected, ThreadOf
  <2>4. VerifierOf(t, task[t])' /\ StoreOf(task[t])'
    BY <1>0, <1>1, <2>1
       DEF Moved, VerifierOf, Shaking, StoreOf, Verifying, Resuming, Sessions, ThreadOf
  <2>5. QED BY <1>1, <1>2, <2>1, <2>2, <2>3, <2>4, MoveKeeps
<1>3. ASSUME key \in DOMAIN pool, NEW c, c = Head(pool[key]), Connecting(t, "pooled", c),
             pool' = PoolWithoutHead(key)
      PROVE  IInv'
  <2>1. QueueOf(key, pool[key]) BY <1>0, <1>3 DEF PoolInv
  <2>2. 1 \in 1..Len(pool[key]) /\ c = pool[key][1] BY <1>3, <2>1, TailIs DEF QueueOf
  <2>3. ConnFor(key, c) BY <2>1, <2>2 DEF QueueOf
  <2>4. IsConn(c) /\ c.id \in Nat \ {0} BY <2>3 DEF ConnFor
  <2>5. Moved(t, "pooled", k.req, c, k.verifier, k.store, k.sends, k.sink, k.result)
    BY <1>0, <1>3, <2>4, Connects DEF ThreadOf
  <2>6. Others(t) /\ Shape' /\ task'[t].conn = c BY <2>5 DEF Moved, Others
  <2>7. SendsOf(task'[t]) BY <1>0, <2>5 DEF Moved, SendsOf, Unsent, ThreadOf
  <2>8. ConnOf(task'[t])
    <3>1. Secured(k.req) => /\ Good(k.req.policy, k.req.host, c.cert)
                            /\ c.decision \in Verdicts(k.req.policy, k.req.host)
      BY <2>3 DEF ConnFor, PoolKey, TlsValidationKey, Secured
    <3>2. QED BY <2>4, <2>5, <3>1 DEF Moved, ConnOf, Connected
  <2>9. VerifierOf(t, task[t])' /\ StoreOf(task[t])'
    BY <1>0, <1>1, <2>5
       DEF Moved, VerifierOf, Shaking, StoreOf, Verifying, Resuming, Sessions, ThreadOf
  <2>10. PoolInv' BY <1>0, <1>3, <2>2, <2>6, PoolShrinks
  <2>11. ThreadsInv' BY <2>6, <2>7, <2>8, ThreadsKept DEF IInv
  <2>12. VerifiersInv' BY <1>1, <2>5, <2>6, <2>9, VerifiersStay DEF IInv, Moved
  <2>13. StoresInv' BY <1>1, <2>5, <2>6, <2>9, StoresStay DEF IInv, Moved
  <2>14. QED BY <2>10, <2>11, <2>12, <2>13 DEF IInv
<1>4. QED BY <1>2, <1>3 DEF TakeHttp11Connection, Connecting

------------------------------------------------------------------------------
\* A step about the verifiers, or about the stores, is proved about them alone.
LEMMA WithVerifiers ==
  ASSUME IInv, NEW t \in Threads, NEW pc, NEW conn, NEW verifier, NEW result,
         Moved(t, pc, task[t].req, conn, verifier, task[t].store, task[t].sends, task[t].sink, result),
         conn.id = task[t].conn.id, UNCHANGED <<pool, storeOf, stores>>,
         SendsOf(task'[t]), ConnOf(task'[t]), StoreOf(task[t])', VerifiersInv'
  PROVE  IInv'
<1>1. Others(t) /\ Shape' BY DEF Moved, Others
<1>2. ThreadsInv' BY <1>1, ThreadsKept DEF IInv
<1>3. StoresInv' BY <1>1, StoresStay DEF IInv, Moved
<1>4. PoolInv' BY <1>1, PoolStays DEF IInv, Moved
<1>5. QED BY <1>2, <1>3, <1>4 DEF IInv

LEMMA WithStores ==
  ASSUME IInv, NEW t \in Threads, NEW pc, NEW store,
         Moved(t, pc, task[t].req, task[t].conn, task[t].verifier, store, task[t].sends, task[t].sink,
               task[t].result),
         UNCHANGED <<pool, verifierOf, verifiers>>,
         SendsOf(task'[t]), ConnOf(task'[t]), VerifierOf(t, task[t])', StoresInv'
  PROVE  IInv'
<1>1. Others(t) /\ Shape' BY DEF Moved, Others
<1>2. ThreadsInv' BY <1>1, ThreadsKept DEF IInv
<1>3. VerifiersInv' BY <1>1, VerifiersStay DEF IInv, Moved
<1>4. PoolInv' BY <1>1, PoolStays DEF IInv, Moved
<1>5. QED BY <1>2, <1>3, <1>4 DEF IInv

\* A new verifier takes a number nobody holds and costs the threads nothing: the
\* verifiers that are collected are held by no thread and no cache entry.
LEMMA NewVerifier ==
  ASSUME VerifiersInv, NEW t \in Threads, Others(t), NEW key, NEW new, new = FreshId(LiveVerifiers),
         verifierOf' \in Inserted(verifierOf, key, new, PolicyCache),
         NEW v, v = [policy |-> key, captures |-> << >>, last |-> << >>],
         verifiers' = With(Only(verifiers, LiveVerifiers), new, v),
         task'[t].pc = "resume", task'[t].verifier = new, task'[t].req.policy = key
  PROVE  VerifiersInv'
<1>1. new \in Nat \ {0} /\ new \notin LiveVerifiers BY FreshIdIsFresh DEF VerifiersInv
<1>2. /\ verifiers' = [n \in DOMAIN verifiers' |-> verifiers'[n]]
      /\ new \in DOMAIN verifiers' /\ verifiers'[new] = v
      /\ \A n \in DOMAIN verifiers' : n # new => n \in DOMAIN verifiers
      /\ \A n \in DOMAIN verifiers \intersect LiveVerifiers :
            n \in DOMAIN verifiers' /\ verifiers'[n] = verifiers[n]
      /\ \A n \in DOMAIN verifiers' : n # new => verifiers'[n] = verifiers[n]
  BY <1>1 DEF With, Only
<1>3. /\ v.policy = key /\ IsVerifier(v) /\ LastOf(v) BY DEF IsVerifier, LastOf
<1>4. \A n \in DOMAIN verifiers : IsVerifier(verifiers[n]) /\ LastOf(verifiers[n]) BY DEF VerifiersInv
<1>5. \A n \in DOMAIN verifiers' : IsVerifier(verifiers'[n]) /\ LastOf(verifiers'[n])
  BY <1>2, <1>3, <1>4
<1>6. /\ key \in DOMAIN verifierOf' /\ verifierOf'[key] = new
      /\ \A p \in DOMAIN verifierOf' :
            p # key => p \in DOMAIN verifierOf /\ verifierOf'[p] = verifierOf[p]
  BY InsertedIs
<1>7. ASSUME NEW p \in DOMAIN verifierOf'
      PROVE  /\ verifierOf'[p] \in Nat \ {0} /\ verifierOf'[p] \in DOMAIN verifiers'
             /\ verifiers'[verifierOf'[p]].policy = p
  <2>1. CASE p = key BY <1>1, <1>2, <1>3, <1>6, <2>1
  <2>2. CASE p # key
    <3>1. PICK n : n = verifierOf[p] /\ p \in DOMAIN verifierOf /\ verifierOf'[p] = n BY <1>6, <2>2
    <3>2. n \in LiveVerifiers BY <3>1 DEF LiveVerifiers, Range
    <3>3. n \in Nat \ {0} /\ n \in DOMAIN verifiers /\ verifiers[n].policy = p
      BY <3>1 DEF VerifiersInv
    <3>4. QED BY <1>2, <3>1, <3>2, <3>3
  <2>3. QED BY <2>1, <2>2
<1>8. ASSUME NEW u \in Threads PROVE VerifierOf(u, task[u])'
  <2>1. CASE u = t
    BY <1>1, <1>2, <1>3, <2>1 DEF VerifierOf, Verifying, Shaking
  <2>2. CASE u # t
    <3>1. task'[u] = task[u] /\ VerifierOf(u, task[u]) BY <2>2 DEF Others, VerifiersInv
    <3>2. task[u].verifier \in LiveVerifiers BY DEF LiveVerifiers
    <3>3. QED BY <1>2, <3>1, <3>2 DEF VerifierOf
  <2>3. QED BY <2>1, <2>2
<1>9. IsFiniteSet(LiveVerifiers)'
  <2>1. LiveVerifiers' \subseteq LiveVerifiers \union {new}
    <3>1. ASSUME NEW u \in Threads PROVE task'[u].verifier \in LiveVerifiers \union {new}
      BY DEF Others, LiveVerifiers
    <3>2. ASSUME NEW p \in DOMAIN verifierOf' PROVE verifierOf'[p] \in LiveVerifiers \union {new}
      BY <1>6 DEF LiveVerifiers, Range
    <3>3. QED BY <3>1, <3>2 DEF LiveVerifiers, Range
  <2>2. QED BY <2>1, StillFinite DEF VerifiersInv
<1>10. QED BY <1>2, <1>5, <1>7, <1>8, <1>9 DEF VerifiersInv

LEMMA VerifierKeeps ==
  ASSUME IInv, NEW t \in Threads, DaneVerifierFor(t)
  PROVE  IInv'
<1> DEFINE k == task[t]
           key == TlsValidationKey(k.req)
           new == FreshId(LiveVerifiers)
<1>0. ThreadOf(t) /\ k.pc = "config" /\ VerifiersInv /\ key = k.req.policy
  BY ThreadHas DEF DaneVerifierFor, At, IInv, TlsValidationKey
<1>1. UNCHANGED <<pool, storeOf, stores>> BY DEF DaneVerifierFor
<1>2. ASSUME NEW n, TakesVerifier(t, "resume", n), VerifiersInv'
      PROVE  IInv'
  <2>1. Moved(t, "resume", k.req, k.conn, n, k.store, k.sends, k.sink, k.result)
    BY <1>0, <1>2, Verifies DEF ThreadOf
  <2>2. SendsOf(task'[t]) BY <1>0, <2>1 DEF Moved, SendsOf, Unsent, ThreadOf
  <2>3. ConnOf(task'[t]) BY <1>0, <2>1 DEF Moved, ConnOf, Connected, ThreadOf
  <2>4. StoreOf(task[t])' BY <1>0, <1>1, <2>1 DEF Moved, StoreOf, Resuming, Sessions, ThreadOf
  <2>5. QED BY <1>1, <1>2, <2>1, <2>2, <2>3, <2>4, WithVerifiers
<1>3. ASSUME key \in DOMAIN verifierOf, NEW n, n = verifierOf[key], TakesVerifier(t, "resume", n),
             UNCHANGED <<verifierOf, verifiers>>
      PROVE  IInv'
  <2>1. Moved(t, "resume", k.req, k.conn, n, k.store, k.sends, k.sink, k.result)
    BY <1>0, <1>3, Verifies DEF ThreadOf
  <2>2. n \in Nat \ {0} /\ n \in DOMAIN verifiers /\ verifiers[n].policy = k.req.policy
    BY <1>0, <1>3 DEF VerifiersInv
  <2>3. VerifierOf(t, task[t])' BY <1>3, <2>1, <2>2 DEF Moved, VerifierOf, Verifying, Shaking
  <2>4. ASSUME NEW u \in Threads PROVE VerifierOf(u, task[u])'
    BY <1>0, <1>3, <2>1, <2>3 DEF VerifiersInv, VerifierOf, Moved
  <2>5. n \in LiveVerifiers BY <1>3 DEF LiveVerifiers, Range
  <2>6. LiveVerifiers' \subseteq LiveVerifiers BY <1>3, <2>1, <2>5 DEF LiveVerifiers, Moved
  <2>7. IsFiniteSet(LiveVerifiers)' BY <1>0, <2>6, FS_Subset DEF VerifiersInv
  <2>8. VerifiersInv' BY <1>0, <1>3, <2>4, <2>7 DEF VerifiersInv
  <2>9. QED BY <1>2, <1>3, <2>8
<1>4. ASSUME verifierOf' \in Inserted(verifierOf, key, new, PolicyCache),
             verifiers' = With(Only(verifiers, LiveVerifiers), new,
                               [policy |-> key, captures |-> << >>, last |-> << >>]),
             TakesVerifier(t, "resume", new)
      PROVE  IInv'
  <2>1. Moved(t, "resume", k.req, k.conn, new, k.store, k.sends, k.sink, k.result)
    BY <1>0, <1>4, Verifies DEF ThreadOf
  <2>2. /\ Others(t) /\ task'[t].pc = "resume" /\ task'[t].verifier = new
        /\ task'[t].req.policy = key
    BY <1>0, <2>1 DEF Moved, Others
  <2>3. VerifiersInv' BY <1>0, <1>4, <2>2, NewVerifier
  <2>4. QED BY <1>2, <1>4, <2>3
<1>5. QED BY <1>3, <1>4 DEF DaneVerifierFor, TakesVerifier

\* A new session store is empty and serves the policy it was made for alone.
LEMMA NewStore ==
  ASSUME StoresInv, NEW t \in Threads, Others(t), NEW key, NEW new, new = FreshId(LiveStores),
         storeOf' \in Inserted(storeOf, key, new, PolicyCache),
         stores' = With(Only(stores, LiveStores), new, {}),
         task'[t].store = new, task'[t].req.policy = key[1]
  PROVE  StoresInv'
<1>1. new \in Nat \ {0} /\ new \notin LiveStores BY FreshIdIsFresh DEF StoresInv
<1>2. /\ stores' = [n \in DOMAIN stores' |-> stores'[n]]
      /\ new \in DOMAIN stores' /\ stores'[new] = {}
      /\ \A n \in DOMAIN stores \intersect LiveStores :
            n \in DOMAIN stores' /\ stores'[n] = stores[n]
  BY <1>1 DEF With, Only
<1>3. /\ key \in DOMAIN storeOf' /\ storeOf'[key] = new
      /\ \A l \in DOMAIN storeOf' : l # key => l \in DOMAIN storeOf /\ storeOf'[l] = storeOf[l]
  BY InsertedIs
<1>4. ASSUME NEW l \in DOMAIN storeOf', l # key
      PROVE  /\ l \in DOMAIN storeOf /\ storeOf'[l] = storeOf[l]
             /\ storeOf[l] \in LiveStores /\ storeOf[l] \in Nat \ {0} /\ storeOf[l] \in DOMAIN stores
             /\ Sessions(storeOf[l], l[1])
  <2>1. l \in DOMAIN storeOf /\ storeOf'[l] = storeOf[l] BY <1>3, <1>4
  <2>2. QED BY <2>1 DEF StoresInv, LiveStores, Range
<1>5. ASSUME NEW l \in DOMAIN storeOf'
      PROVE  /\ storeOf'[l] \in Nat \ {0} /\ storeOf'[l] \in DOMAIN stores'
             /\ Sessions(storeOf[l], l[1])'
  <2>1. CASE l = key BY <1>1, <1>2, <1>3, <2>1 DEF Sessions
  <2>2. CASE l # key
    <3>1. PICK n : n = storeOf[l] /\ storeOf'[l] = n BY <1>4, <2>2
    <3>2. n \in LiveStores /\ n \in Nat \ {0} /\ n \in DOMAIN stores /\ Sessions(n, l[1])
      BY <1>4, <2>2, <3>1
    <3>3. QED BY <1>2, <3>1, <3>2 DEF Sessions
  <2>3. QED BY <2>1, <2>2
<1>6. ASSUME NEW l \in DOMAIN storeOf', NEW m \in DOMAIN storeOf', storeOf'[l] = storeOf'[m]
      PROVE  l[1] = m[1]
  <2>1. CASE l = key BY <1>1, <1>3, <1>4, <1>6, <2>1
  <2>2. CASE m = key BY <1>1, <1>3, <1>4, <1>6, <2>2
  <2>3. CASE l # key /\ m # key
    <3>1. l \in DOMAIN storeOf /\ m \in DOMAIN storeOf /\ storeOf[l] = storeOf[m] BY <1>3, <1>6, <2>3
    <3>2. QED BY <3>1 DEF StoresInv
  <2>4. QED BY <2>1, <2>2, <2>3
<1>7. ASSUME NEW u \in Threads, u # t
      PROVE  task'[u] = task[u] /\ task[u].store \in LiveStores /\ StoreOf(task[u])
  BY <1>7 DEF Others, LiveStores, StoresInv
<1>8. ASSUME NEW u \in Threads PROVE StoreOf(task[u])'
  <2>1. CASE u = t BY <1>1, <1>2, <2>1 DEF StoreOf, Sessions
  <2>2. CASE u # t BY <1>2, <1>7, <2>2 DEF StoreOf, Sessions
  <2>3. QED BY <2>1, <2>2
<1>9. ASSUME NEW u \in Threads, task'[u].store # 0
      PROVE  /\ \A l \in DOMAIN storeOf' : storeOf'[l] = task'[u].store => l[1] = task'[u].req.policy
             /\ \A w \in Threads : task'[w].store = task'[u].store =>
                   task'[w].req.policy = task'[u].req.policy
  <2>1. CASE u = t BY <1>1, <1>4, <1>7, <2>1
  <2>2. CASE u # t
    <3>1. /\ \A l \in DOMAIN storeOf : storeOf[l] = task[u].store => l[1] = task[u].req.policy
          /\ \A w \in Threads : task[w].store = task[u].store => task[w].req.policy = task[u].req.policy
      BY <1>7, <1>9, <2>2 DEF StoresInv
    <3>2. task[u].store # new /\ task'[u] = task[u] BY <1>1, <1>7, <2>2
    <3>3. ASSUME NEW l \in DOMAIN storeOf', storeOf'[l] = task[u].store PROVE l[1] = task[u].req.policy
      <4>1. l # key BY <1>3, <3>2, <3>3
      <4>2. QED BY <1>3, <3>1, <3>3, <4>1
    <3>4. ASSUME NEW w \in Threads, task'[w].store = task[u].store
          PROVE  task'[w].req.policy = task[u].req.policy
      <4>1. w # t BY <3>2, <3>4
      <4>2. QED BY <1>7, <3>1, <3>4, <4>1
    <3>5. QED BY <3>2, <3>3, <3>4
  <2>3. QED BY <2>1, <2>2
<1>10. IsFiniteSet(LiveStores)'
  <2>1. LiveStores' \subseteq LiveStores \union {new}
    <3>1. ASSUME NEW u \in Threads PROVE task'[u].store \in LiveStores \union {new}
      BY DEF Others, LiveStores
    <3>2. ASSUME NEW l \in DOMAIN storeOf' PROVE storeOf'[l] \in LiveStores \union {new}
      BY <1>3 DEF LiveStores, Range
    <3>3. QED BY <3>1, <3>2 DEF LiveStores, Range
  <2>2. QED BY <2>1, StillFinite DEF StoresInv
<1>11. QED BY <1>2, <1>5, <1>6, <1>8, <1>9, <1>10 DEF StoresInv

LEMMA ResumptionKeeps ==
  ASSUME IInv, NEW t \in Threads, ResumptionFor(t)
  PROVE  IInv'
<1> DEFINE k == task[t]
           alpn == IF k.req.kind = "fetch" THEN k.protocol ELSE "Http11"
           key == <<TlsValidationKey(k.req), alpn>>
           new == FreshId(LiveStores)
<1>0. ThreadOf(t) /\ k.pc = "resume" /\ StoresInv /\ key[1] = k.req.policy
  BY ThreadHas DEF ResumptionFor, At, IInv, TlsValidationKey
<1>1. UNCHANGED <<pool, verifierOf, verifiers>> BY DEF ResumptionFor
<1>2. ASSUME NEW n, TakesStore(t, "begin", n), StoresInv'
      PROVE  IInv'
  <2>1. Moved(t, "begin", k.req, k.conn, k.verifier, n, k.sends, k.sink, k.result)
    BY <1>0, <1>2, Resumes DEF ThreadOf
  <2>2. SendsOf(task'[t]) BY <1>0, <2>1 DEF Moved, SendsOf, Unsent, ThreadOf
  <2>3. ConnOf(task'[t]) BY <1>0, <2>1 DEF Moved, ConnOf, Connected, ThreadOf
  <2>4. VerifierOf(t, task[t])'
    BY <1>0, <1>1, <2>1 DEF Moved, VerifierOf, Verifying, Shaking, ThreadOf
  <2>5. QED BY <1>1, <1>2, <2>1, <2>2, <2>3, <2>4, WithStores
<1>3. ASSUME key \in DOMAIN storeOf, NEW n, n = storeOf[key], TakesStore(t, "begin", n),
             UNCHANGED <<storeOf, stores>>
      PROVE  IInv'
  <2>2. Moved(t, "begin", k.req, k.conn, k.verifier, n, k.sends, k.sink, k.result)
    BY <1>0, <1>3, Resumes DEF ThreadOf
  <2>3. /\ n \in Nat \ {0} /\ n \in DOMAIN stores /\ Sessions(n, k.req.policy)
        /\ \A l \in DOMAIN storeOf : storeOf[l] = n => l[1] = k.req.policy
    BY <1>0, <1>3 DEF StoresInv
  <2>4. StoreOf(task[t])' BY <1>3, <2>2, <2>3 DEF Moved, StoreOf, Sessions
  <2>5. ASSUME NEW u \in Threads, u # t PROVE task'[u] = task[u] /\ StoreOf(task[u])
    BY <1>0, <2>2, <2>5 DEF Moved, StoresInv
  <2>6. ASSUME NEW u \in Threads PROVE StoreOf(task[u])'
    BY <1>3, <2>4, <2>5 DEF StoreOf, Sessions
  <2>7. /\ task'[t].store = n /\ task'[t].req = k.req BY <2>2 DEF Moved
  <2>8. ASSUME NEW u \in Threads, task[u].store = n PROVE task[u].req.policy = k.req.policy
    BY <1>0, <1>3, <2>3, <2>8 DEF StoresInv
  <2>9. ASSUME NEW u \in Threads, task'[u].store # 0
        PROVE  /\ \A l \in DOMAIN storeOf : storeOf[l] = task'[u].store => l[1] = task'[u].req.policy
               /\ \A w \in Threads : task'[w].store = task'[u].store =>
                     task'[w].req.policy = task'[u].req.policy
    <3>1. CASE u = t BY <2>3, <2>5, <2>7, <2>8, <3>1
    <3>2. CASE u # t
      <4>1. /\ \A l \in DOMAIN storeOf : storeOf[l] = task[u].store => l[1] = task[u].req.policy
            /\ \A w \in Threads : task[w].store = task[u].store =>
                  task[w].req.policy = task[u].req.policy
        BY <1>0, <2>5, <2>9, <3>2 DEF StoresInv
      <4>2. QED BY <2>5, <2>7, <2>8, <3>2, <4>1
    <3>3. QED BY <3>1, <3>2
  <2>10. n \in LiveStores BY <1>3 DEF LiveStores, Range
  <2>11. LiveStores' \subseteq LiveStores BY <1>3, <2>2, <2>10 DEF LiveStores, Moved
  <2>12. IsFiniteSet(LiveStores)' BY <1>0, <2>11, FS_Subset DEF StoresInv
  <2>13. StoresInv' BY <1>0, <1>3, <2>6, <2>9, <2>12 DEF StoresInv, Sessions
  <2>14. QED BY <1>2, <1>3, <2>13
<1>4. ASSUME storeOf' \in Inserted(storeOf, key, new, PolicyCache),
             stores' = With(Only(stores, LiveStores), new, {}), TakesStore(t, "begin", new)
      PROVE  IInv'
  <2>1. Moved(t, "begin", k.req, k.conn, k.verifier, new, k.sends, k.sink, k.result)
    BY <1>0, <1>4, Resumes DEF ThreadOf
  <2>2. Others(t) /\ task'[t].store = new /\ task'[t].req.policy = key[1]
    BY <1>0, <2>1 DEF Moved, Others
  <2>3. StoresInv' BY <1>0, <1>4, <2>2, NewStore
  <2>4. QED BY <1>2, <1>4, <2>3
<1>5. QED BY <1>3, <1>4 DEF ResumptionFor, TakesStore

------------------------------------------------------------------------------
\* The thread's verifier becomes w: what it captured for the others stays.
Becoming(n, w) == verifiers' = [verifiers EXCEPT ![n] = w]

LEMMA VerifierChanges ==
  ASSUME VerifiersInv, NEW t \in Threads, Others(t), UNCHANGED verifierOf, task[t].verifier # 0,
         NEW w, Becoming(task[t].verifier, w),
         IsVerifier(w), LastOf(w), w.policy = verifiers[task[t].verifier].policy,
         \A u \in DOMAIN w.captures : u # t =>
             /\ u \in DOMAIN verifiers[task[t].verifier].captures
             /\ w.captures[u] = verifiers[task[t].verifier].captures[u],
         task'[t].verifier = task[t].verifier, task'[t].req = task[t].req,
         Shaking(task'[t]) /\ t \in DOMAIN w.captures => CaptureOf(w.captures[t], task'[t])
  PROVE  VerifiersInv'
<1> DEFINE n == task[t].verifier
<1>1. VerifierOf(t, task[t]) /\ n \in Nat /\ n \in DOMAIN verifiers /\ w.policy = task[t].req.policy
  BY DEF VerifiersInv, VerifierOf
<1>2. /\ verifiers' = [m \in DOMAIN verifiers' |-> verifiers'[m]] /\ DOMAIN verifiers' = DOMAIN verifiers
      /\ verifiers'[n] = w /\ \A m \in DOMAIN verifiers : m # n => verifiers'[m] = verifiers[m]
  BY <1>1 DEF VerifiersInv, Becoming
<1>3. \A m \in DOMAIN verifiers : IsVerifier(verifiers[m]) /\ LastOf(verifiers[m]) BY DEF VerifiersInv
<1>4. \A m \in DOMAIN verifiers' : IsVerifier(verifiers'[m]) /\ LastOf(verifiers'[m])
  BY <1>2, <1>3
<1>5. ASSUME NEW p \in DOMAIN verifierOf'
      PROVE  /\ verifierOf'[p] \in Nat \ {0} /\ verifierOf'[p] \in DOMAIN verifiers'
             /\ verifiers'[verifierOf'[p]].policy = p
  <2>1. PICK m : m = verifierOf[p] OBVIOUS
  <2>2. verifierOf'[p] = m /\ m \in Nat \ {0} /\ m \in DOMAIN verifiers /\ verifiers[m].policy = p
    BY <2>1 DEF VerifiersInv
  <2>3. QED BY <1>2, <2>2
<1>6. ASSUME NEW u \in Threads PROVE VerifierOf(u, task[u])'
  <2>1. CASE u = t
    <3>1. task'[t].verifier \in DOMAIN verifiers' /\ verifiers'[task'[t].verifier] = w BY <1>1, <1>2
    <3>2. QED BY <1>1, <2>1, <3>1 DEF VerifierOf, Verifying, Shaking, CaptureOf
  <2>2. CASE u # t
    <3>1. task'[u] = task[u] /\ VerifierOf(u, task[u]) BY <2>2 DEF Others, VerifiersInv
    <3>2. CASE task[u].verifier = n
      <4>1. PICK j : j = task[u] /\ j.verifier = n BY <3>2
      <4>2. j.verifier \in DOMAIN verifiers' /\ verifiers'[j.verifier] = w BY <1>1, <1>2, <4>1
      <4>3. Shaking(j) /\ u \in DOMAIN w.captures => CaptureOf(w.captures[u], j)
        BY <1>1, <2>2, <3>1, <4>1 DEF VerifierOf
      <4>4. j.verifier \in Nat /\ w.policy = j.req.policy
        BY <1>1, <3>1, <4>1 DEF VerifierOf
      <4>5. task'[u] = j /\ j.verifier # 0 BY <3>1, <4>1
      <4>6. QED BY <4>2, <4>3, <4>4, <4>5 DEF VerifierOf
    <3>3. CASE task[u].verifier # n
      BY <1>2, <3>1, <3>3 DEF VerifierOf
    <3>4. QED BY <3>2, <3>3
  <2>3. QED BY <2>1, <2>2
<1>7. LiveVerifiers' = LiveVerifiers
  <2>1. \A u \in Threads : task'[u].verifier = task[u].verifier BY DEF Others
  <2>2. QED BY <2>1 DEF LiveVerifiers
<1>8. QED BY <1>2, <1>4, <1>5, <1>6, <1>7 DEF VerifiersInv

\* What a verifier captures, and what it remembers with it.
Capturing(v, captures) == [v EXCEPT !.captures = captures]
Remembering(v, captures, last) == [v EXCEPT !.captures = captures, !.last = last]

LEMMA CapturingHas ==
  ASSUME NEW v, IsVerifier(v), NEW captures, NEW w, w = Capturing(v, captures)
  PROVE  IsVerifier(w) /\ w.policy = v.policy /\ w.captures = captures /\ w.last = v.last
<1>1. w = [policy |-> v.policy, captures |-> captures, last |-> v.last]
  BY DEF IsVerifier, Capturing
<1>2. QED BY <1>1 DEF IsVerifier

LEMMA RememberingHas ==
  ASSUME NEW v, IsVerifier(v), NEW captures, NEW last, NEW w, w = Remembering(v, captures, last)
  PROVE  IsVerifier(w) /\ w.policy = v.policy /\ w.captures = captures /\ w.last = last
<1>1. w = [policy |-> v.policy, captures |-> captures, last |-> last]
  BY DEF IsVerifier, Remembering
<1>2. QED BY <1>1 DEF IsVerifier

LEMMA BeginKeeps ==
  ASSUME IInv, NEW t \in Threads, BeginHandshake(t)
  PROVE  IInv'
<1> DEFINE k == task[t]
           v == verifiers[k.verifier]
<1>0. ThreadOf(t) /\ k.pc = "begin" /\ VerifiersInv BY ThreadHas DEF BeginHandshake, At, IInv
<1>1. UNCHANGED <<pool, verifierOf, storeOf, stores>> BY DEF BeginHandshake
<1>2. k.verifier # 0 /\ k.verifier \in DOMAIN verifiers /\ IsVerifier(v) /\ LastOf(v)
  BY <1>0 DEF VerifiersInv, VerifierOf, Verifying
<1>3. PICK entry : entry = [host |-> k.req.host, decision |-> Err("unset")] OBVIOUS
<1>4. entry.host = k.req.host /\ entry.decision.ok = FALSE BY <1>3 DEF Err
<1>5. PICK captures \in Inserted(v.captures, t, entry, CaptureEntries) :
         verifiers' = [verifiers EXCEPT ![k.verifier].captures = captures]
  BY <1>3 DEF BeginHandshake
<1>6. PICK w : w = Capturing(v, captures) OBVIOUS
<1>7. Becoming(k.verifier, w)
  BY <1>0, <1>2, <1>5, <1>6 DEF Becoming, VerifiersInv, IsVerifier, Capturing
<1>8. IsVerifier(w) /\ w.policy = v.policy /\ w.captures = captures /\ w.last = v.last
  BY <1>2, <1>6, CapturingHas
<1>9. Moved(t, "handshake", k.req, k.conn, k.verifier, k.store, k.sends, k.sink, k.result)
  BY <1>0, Steps DEF BeginHandshake, ThreadOf
<1>10. /\ t \in DOMAIN captures /\ captures[t] = entry
       /\ \A u \in DOMAIN captures : u # t => u \in DOMAIN v.captures /\ captures[u] = v.captures[u]
  BY <1>5, InsertedIs
<1>11. CaptureOf(entry, task'[t]) BY <1>4, <1>9 DEF CaptureOf, Moved
<1>12. LastOf(w) BY <1>2, <1>8 DEF LastOf
<1>13. VerifiersInv'
  BY <1>0, <1>1, <1>2, <1>7, <1>8, <1>9, <1>10, <1>11, <1>12, VerifierChanges DEF Moved, Others
<1>14. SendsOf(task'[t]) BY <1>0, <1>9 DEF Moved, SendsOf, Unsent, ThreadOf
<1>15. ConnOf(task'[t]) BY <1>0, <1>9 DEF Moved, ConnOf, Connected, ThreadOf
<1>16. StoreOf(task[t])' BY <1>0, <1>1, <1>9 DEF Moved, StoreOf, Resuming, Sessions, ThreadOf
<1>17. QED BY <1>1, <1>9, <1>13, <1>14, <1>15, <1>16, WithVerifiers

\* A verdict is stored for the thread, and for the host the capture is about.
Remembers(w, v, t, verdict) ==
    /\ IsVerifier(w) /\ w.policy = v.policy /\ LastOf(w)
    /\ t \in DOMAIN w.captures /\ w.captures[t].decision = verdict
    /\ \A u \in DOMAIN w.captures : u # t => u \in DOMAIN v.captures /\ w.captures[u] = v.captures[u]

LEMMA Captured ==
  ASSUME NEW v, IsVerifier(v), LastOf(v), NEW t, NEW host, NEW verdict \in Verdicts(v.policy, host),
         t \in DOMAIN v.captures => v.captures[t].host = host,
         NEW w \in StoreCapture(v, t, verdict)
  PROVE  Remembers(w, v, t, verdict)
<1> USE DEF Remembers
<1> DEFINE named == t \in DOMAIN v.captures
           name == IF named THEN v.captures[t].host ELSE << >>
<1>1. PICK capture : capture = [host |-> name, decision |-> verdict] OBVIOUS
<1>2. capture.host = name /\ capture.decision = verdict BY <1>1
<1>3. PICK captures : captures = With(v.captures, t, capture) OBVIOUS
<1>4. PICK last : /\ w = Remembering(v, captures, last)
                  /\ IF named THEN last \in Inserted(v.last, capture.host, verdict, CaptureEntries)
                     ELSE last = v.last
  BY <1>1, <1>3 DEF StoreCapture, Remembering
<1>5. IsVerifier(w) /\ w.policy = v.policy /\ w.captures = captures /\ w.last = last
  BY <1>4, RememberingHas
<1>6. /\ t \in DOMAIN captures /\ captures[t] = capture
      /\ \A u \in DOMAIN captures : u # t => u \in DOMAIN v.captures /\ captures[u] = v.captures[u]
  BY <1>3 DEF With
<1>7. ASSUME NEW h \in DOMAIN last PROVE last[h] \in Verdicts(v.policy, h)
  <2>1. CASE ~named BY <1>4, <2>1 DEF LastOf
  <2>2. CASE named
    <3>1. capture.host = host BY <1>2, <2>2
    <3>2. last \in Inserted(v.last, host, verdict, CaptureEntries) BY <1>4, <2>2, <3>1
    <3>3. /\ last[host] = verdict
          /\ h # host => h \in DOMAIN v.last /\ last[h] = v.last[h]
      BY <3>2, InsertedIs
    <3>4. QED BY <3>3 DEF LastOf
  <2>3. QED BY <2>1, <2>2
<1>8. LastOf(w) BY <1>5, <1>7 DEF LastOf
<1>9. QED BY <1>2, <1>5, <1>6, <1>8

LEMMA HandshakeKeeps ==
  ASSUME IInv, NEW t \in Threads, Handshake(t)
  PROVE  IInv'
<1> DEFINE k == task[t]
           v == verifiers[k.verifier]
<1>0. ThreadOf(t) /\ k.pc = "handshake" /\ VerifiersInv BY ThreadHas DEF Handshake, At, IInv
<1>1. UNCHANGED <<pool, verifierOf, storeOf, stores>> BY DEF Handshake
<1>2. /\ k.verifier # 0 /\ k.verifier \in DOMAIN verifiers /\ v.policy = k.req.policy
      /\ IsVerifier(v) /\ LastOf(v)
      /\ t \in DOMAIN v.captures => CaptureOf(v.captures[t], k)
  BY <1>0 DEF VerifiersInv, VerifierOf, Verifying, Shaking
<1>3. k.store # 0 /\ Sessions(k.store, k.req.policy) BY <1>0 DEF ThreadOf, StoreOf, Resuming
<1>4. ASSUME NEW cert, Good(k.req.policy, k.req.host, cert), Certified(t, "exchange", cert),
             VerifiersInv'
      PROVE  IInv'
  <2>1. PICK c : c = Conn(k.conn.id, cert, k.conn.decision) OBVIOUS
  <2>2. Moved(t, "exchange", k.req, c, k.verifier, k.store, k.sends, k.sink, k.result)
    BY <1>0, <1>4, <2>1, Certifies DEF ThreadOf
  <2>3. c.id = k.conn.id /\ c.cert = cert BY <2>1, ConnHas
  <2>4. SendsOf(task'[t]) BY <1>0, <2>2 DEF Moved, SendsOf, Unsent, ThreadOf
  <2>5. ConnOf(task'[t]) BY <1>0, <1>4, <2>2, <2>3 DEF Moved, ConnOf, Connected, ThreadOf
  <2>6. StoreOf(task[t])' BY <1>0, <1>1, <1>3, <2>2 DEF Moved, StoreOf, Resuming, Sessions, ThreadOf
  <2>7. QED BY <1>1, <1>4, <2>2, <2>3, <2>4, <2>5, <2>6, WithVerifiers
<1>5. ASSUME NEW cert, UNCHANGED verifiers, Certified(t, "exchange", cert)
      PROVE  VerifiersInv'
  <2>1. PICK c : c = Conn(k.conn.id, cert, k.conn.decision) OBVIOUS
  <2>2. Moved(t, "exchange", k.req, c, k.verifier, k.store, k.sends, k.sink, k.result)
    BY <1>0, <1>5, <2>1, Certifies DEF ThreadOf
  <2>3. VerifierOf(t, task[t])'
    BY <1>0, <1>2, <1>5, <2>2 DEF Moved, VerifierOf, Verifying, Shaking, CaptureOf, ThreadOf
  <2>4. QED BY <1>0, <1>1, <1>5, <2>2, <2>3, VerifiersStay DEF Moved, Others
<1>6. ASSUME NEW cert \in Presented[k.req.host], NEW verdict,
             verdict = VerifyServerCert(PolicyOf[v.policy], k.req.host, CertOf[cert]), verdict.ok,
             NEW w \in StoreCapture(v, t, verdict), Becoming(k.verifier, w),
             Certified(t, "exchange", cert)
      PROVE  IInv'
  <2>1. verdict \in Verdicts(v.policy, k.req.host) /\ Good(k.req.policy, k.req.host, cert)
    BY <1>2, <1>6 DEF Verdicts, Good
  <2>2. t \in DOMAIN v.captures => v.captures[t].host = k.req.host BY <1>0, <1>2 DEF CaptureOf
  <2>3. /\ IsVerifier(w) /\ w.policy = v.policy /\ LastOf(w) /\ w.captures[t].decision = verdict
        /\ \A u \in DOMAIN w.captures : u # t => u \in DOMAIN v.captures /\ w.captures[u] = v.captures[u]
    <3>1. PICK x, host : x = v /\ host = k.req.host OBVIOUS
    <3>2. /\ IsVerifier(x) /\ LastOf(x) /\ verdict \in Verdicts(x.policy, host)
          /\ t \in DOMAIN x.captures => x.captures[t].host = host
      BY <1>2, <2>1, <2>2, <3>1
    <3>3. w \in StoreCapture(x, t, verdict) BY <1>6, <3>1
    <3>4. Remembers(w, x, t, verdict) BY <3>2, <3>3, Captured
    <3>5. QED BY <3>1, <3>4 DEF Remembers
  <2>4. PICK c : c = Conn(k.conn.id, cert, k.conn.decision) OBVIOUS
  <2>5. Moved(t, "exchange", k.req, c, k.verifier, k.store, k.sends, k.sink, k.result)
    BY <1>0, <1>6, <2>4, Certifies DEF ThreadOf
  <2>6. /\ Others(t) /\ task'[t].verifier = k.verifier /\ task'[t].req = k.req
        /\ task'[t].pc = "exchange"
    BY <2>5 DEF Moved, Others
  <2>7. CaptureOf(w.captures[t], task'[t]) BY <1>2, <2>1, <2>3, <2>6 DEF CaptureOf
  <2>8. VerifiersInv' BY <1>0, <1>1, <1>2, <1>6, <2>3, <2>6, <2>7, VerifierChanges
  <2>9. QED BY <1>4, <1>6, <2>1, <2>8
<1>7. ASSUME NEW s \in stores[k.store], s[1] = k.req.host, Certified(t, "exchange", s[2]),
             UNCHANGED verifiers
      PROVE  IInv'
  <2>1. PICK cert : cert = s[2] /\ Good(k.req.policy, k.req.host, cert) BY <1>3, <1>7 DEF Sessions
  <2>2. QED BY <1>4, <1>5, <1>7, <2>1
<1>8. ASSUME NEW e, Fail(t, e), UNCHANGED verifiers
      PROVE  IInv'
  <2>1. PICK r : r = Err(e) OBVIOUS
  <2>2. Moved(t, "failed", k.req, k.conn, k.verifier, k.store, k.sends, k.sink, r)
    BY <1>0, <1>8, <2>1, Fails DEF ThreadOf
  <2>3. SendsOf(task'[t]) BY <1>0, <2>2 DEF Moved, SendsOf, Unsent, ThreadOf
  <2>4. ConnOf(task'[t]) BY <1>0, <2>2 DEF Moved, ConnOf, Connected, ThreadOf
  <2>5. VerifierOf(t, task[t])' /\ StoreOf(task[t])'
    BY <1>0, <1>1, <1>8, <2>2
       DEF Moved, VerifierOf, Shaking, StoreOf, Verifying, Resuming, Sessions, ThreadOf
  <2>6. QED BY <1>1, <1>8, <2>2, <2>3, <2>4, <2>5, MoveKeeps
<1>9. \/ \E cert \in Presented[k.req.host] :
            LET verdict == VerifyServerCert(PolicyOf[v.policy], k.req.host, CertOf[cert])
            IN  /\ verdict.ok /\ Certified(t, "exchange", cert)
                /\ \E w \in StoreCapture(v, t, verdict) : Becoming(k.verifier, w)
      \/ \E s \in stores[k.store] : /\ s[1] = k.req.host /\ Certified(t, "exchange", s[2])
                                    /\ UNCHANGED verifiers
      \/ (\E e : Fail(t, e)) /\ UNCHANGED verifiers
  BY DEF Handshake, Certified, Becoming
<1>10. QED BY <1>6, <1>7, <1>8, <1>9

LEMMA FinishKeeps ==
  ASSUME IInv, NEW t \in Threads, FinishHandshake(t)
  PROVE  IInv'
<1> DEFINE k == task[t]
           v == verifiers[k.verifier]
           captured == t \in DOMAIN v.captures /\ v.captures[t].decision.ok
           known == captured \/ k.req.host \in DOMAIN v.last
           decision == IF captured THEN v.captures[t].decision ELSE v.last[k.req.host]
<1>0. ThreadOf(t) /\ k.pc = "finish" /\ VerifiersInv BY ThreadHas DEF FinishHandshake, At, IInv
<1>1. UNCHANGED <<pool, verifierOf, storeOf, stores>> BY DEF FinishHandshake
<1>2. /\ k.verifier # 0 /\ k.verifier \in DOMAIN verifiers /\ v.policy = k.req.policy
      /\ IsVerifier(v) /\ LastOf(v)
      /\ t \in DOMAIN v.captures => CaptureOf(v.captures[t], k)
  BY <1>0 DEF VerifiersInv, VerifierOf, Verifying, Shaking
<1>3. PICK captures : captures = Without(v.captures, t) OBVIOUS
<1>4. /\ t \notin DOMAIN captures
      /\ \A u \in DOMAIN captures : u # t => u \in DOMAIN v.captures /\ captures[u] = v.captures[u]
  BY <1>3 DEF Without
<1>5. PICK w : w = Capturing(v, captures) OBVIOUS
<1>6. verifiers' = [verifiers EXCEPT ![k.verifier].captures = captures]
  BY <1>0, <1>2, <1>3 DEF FinishHandshake, VerifiersInv, IsVerifier
<1>7. Becoming(k.verifier, w)
  BY <1>0, <1>2, <1>5, <1>6 DEF Becoming, VerifiersInv, IsVerifier, Capturing
<1>8. IsVerifier(w) /\ w.policy = v.policy /\ w.captures = captures /\ w.last = v.last
  BY <1>2, <1>5, CapturingHas
<1>9. LastOf(w) BY <1>2, <1>8 DEF LastOf
<1>10. ASSUME Others(t), task'[t].verifier = k.verifier, task'[t].req = k.req PROVE VerifiersInv'
  BY <1>0, <1>1, <1>2, <1>4, <1>7, <1>8, <1>9, <1>10, VerifierChanges
<1>11. known => decision \in Verdicts(k.req.policy, k.req.host)
  <2>1. captured => v.captures[t].decision \in Verdicts(k.req.policy, k.req.host)
    BY <1>2 DEF CaptureOf
  <2>2. k.req.host \in DOMAIN v.last => v.last[k.req.host] \in Verdicts(k.req.policy, k.req.host)
    BY <1>2 DEF LastOf
  <2>3. QED BY <2>1, <2>2
<1>12. ASSUME NEW d \in Verdicts(k.req.policy, k.req.host), NEW r, r = Response(d, k.conn.cert),
              Decided(t, "settle", d, r)
       PROVE  IInv'
  <2>1. PICK c : c = Conn(k.conn.id, k.conn.cert, d) OBVIOUS
  <2>2. Moved(t, "settle", k.req, c, k.verifier, k.store, k.sends, k.sink, r)
    BY <1>0, <1>12, <2>1, Decides DEF ThreadOf
  <2>3. c.id = k.conn.id /\ c.cert = k.conn.cert /\ c.decision = d BY <2>1, ConnHas
  <2>4. SendsOf(task'[t]) BY <1>0, <2>2 DEF Moved, SendsOf, Unsent, ThreadOf
  <2>5. ConnOf(task'[t]) BY <1>0, <1>12, <2>2, <2>3 DEF Moved, ConnOf, Connected, ThreadOf
  <2>6. StoreOf(task[t])' BY <1>0, <1>1, <2>2 DEF Moved, StoreOf, Resuming, Sessions, ThreadOf
  <2>7. VerifiersInv' BY <1>10, <2>2 DEF Moved, Others
  <2>8. QED BY <1>1, <2>2, <2>3, <2>4, <2>5, <2>6, <2>7, WithVerifiers
<1>13. ASSUME Fail(t, "Tls")
       PROVE  IInv'
  <2>1. PICK r : r = Err("Tls") OBVIOUS
  <2>2. Moved(t, "failed", k.req, k.conn, k.verifier, k.store, k.sends, k.sink, r)
    BY <1>0, <1>13, <2>1, Fails DEF ThreadOf
  <2>3. SendsOf(task'[t]) BY <1>0, <2>2 DEF Moved, SendsOf, Unsent, ThreadOf
  <2>4. ConnOf(task'[t]) BY <1>0, <2>2 DEF Moved, ConnOf, Connected, ThreadOf
  <2>5. StoreOf(task[t])' BY <1>0, <1>1, <2>2 DEF Moved, StoreOf, Resuming, Sessions, ThreadOf
  <2>6. VerifiersInv' BY <1>10, <2>2 DEF Moved, Others
  <2>7. QED BY <1>1, <2>2, <2>3, <2>4, <2>5, <2>6, WithVerifiers
<1>14. \/ known /\ Decided(t, "settle", decision, Response(decision, k.conn.cert))
       \/ Fail(t, "Tls")
  BY DEF FinishHandshake, Decided
<1>15. QED BY <1>11, <1>12, <1>13, <1>14

------------------------------------------------------------------------------
\* Where an entry of the pool comes from when a connection is put back: from the same
\* queue, one place later if the oldest was dropped, or it is the connection itself.
LEMMA PutIs ==
  ASSUME PoolInv, NEW key, NEW conn, PutHttp11Connection(key, conn)
  PROVE  /\ pool' = [l \in DOMAIN pool' |-> pool'[l]]
         /\ \A l \in DOMAIN pool' : pool'[l] \in Seq(ToSet(pool'[l])) /\ Len(pool'[l]) > 0
         /\ \A l \in DOMAIN pool' : l # key => l \in DOMAIN pool /\ pool'[l] = pool[l]
         /\ key \in DOMAIN pool' =>
               /\ pool'[key][Len(pool'[key])] = conn
               /\ Len(pool'[key]) > 1 => key \in DOMAIN pool
               /\ \E d \in {0, 1} : \A i \in 1..(Len(pool'[key]) - 1) :
                     i + d \in 1..Len(pool[key]) /\ pool'[key][i] = pool[key][i + d]
<1>1. PICK old : old = IF key \in DOMAIN pool THEN pool[key] ELSE << >> OBVIOUS
<1>2. PICK p \in Inserted(pool, key, old, PoolOrigins) :
         pool' = [p EXCEPT ![key] =
                    Append(IF Len(p[key]) >= PoolPerOrigin THEN Tail(p[key]) ELSE p[key], conn)]
  BY <1>1 DEF PutHttp11Connection
<1>3. /\ p = [x \in DOMAIN p |-> p[x]] /\ key \in DOMAIN p /\ p[key] = old
      /\ \A x \in DOMAIN p : x # key => x \in DOMAIN pool /\ p[x] = pool[x]
  BY InsertedIs
<1>4. PICK S : old \in Seq(S)
  <2>1. CASE key \in DOMAIN pool BY <1>1, <2>1 DEF PoolInv, QueueOf
  <2>2. CASE key \notin DOMAIN pool
    <3>1. old = << >> BY <1>1, <2>2
    <3>2. old \in Seq({}) BY <3>1
    <3>3. QED BY <3>2
  <2>3. QED BY <2>1, <2>2
<1>5. PICK queue : queue = (IF Len(old) >= PoolPerOrigin THEN Tail(old) ELSE old) OBVIOUS
<1>6. /\ queue \in Seq(S) /\ Len(queue) \in Nat
      /\ \E d \in {0, 1} : \A i \in 1..Len(queue) : i + d \in 1..Len(old) /\ queue[i] = old[i + d]
  <2>1. Len(old) \in Nat /\ PoolPerOrigin \in Nat \ {0} BY <1>4, PoolAssumption
  <2>2. CASE Len(old) >= PoolPerOrigin
    <3>1. Len(old) > 0 BY <2>1, <2>2
    <3>2. /\ Tail(old) \in Seq(S) /\ Len(Tail(old)) = Len(old) - 1
          /\ \A i \in 1..(Len(old) - 1) : Tail(old)[i] = old[i + 1]
      BY <1>4, <3>1, TailIs
    <3>3. queue = Tail(old) BY <1>5, <2>2
    <3>4. \A i \in 1..Len(queue) : i + 1 \in 1..Len(old) /\ queue[i] = old[i + 1]
      BY <2>1, <3>2, <3>3
    <3>5. QED BY <2>1, <3>1, <3>2, <3>3, <3>4
  <2>3. CASE ~(Len(old) >= PoolPerOrigin)
    <3>1. queue = old BY <1>5, <2>3
    <3>2. \A i \in 1..Len(queue) : i + 0 \in 1..Len(old) /\ queue[i] = old[i + 0] BY <2>1, <3>1
    <3>3. QED BY <1>4, <2>1, <3>1, <3>2
  <2>4. QED BY <2>2, <2>3
<1>7. PICK new : new = Append(queue, conn) OBVIOUS
<1>8. /\ new \in Seq(S \union {conn}) /\ Len(new) = Len(queue) + 1 /\ new[Len(new)] = conn
      /\ \A i \in 1..Len(queue) : new[i] = queue[i]
  BY <1>6, <1>7
<1>9. new \in Seq(ToSet(new)) BY <1>8, SeqOfItself
<1>10. pool' = [p EXCEPT ![key] = new] BY <1>2, <1>3, <1>5, <1>7
<1>11. /\ pool' = [l \in DOMAIN pool' |-> pool'[l]] /\ DOMAIN pool' = DOMAIN p /\ pool'[key] = new
       /\ \A l \in DOMAIN pool' : l # key => l \in DOMAIN pool /\ pool'[l] = pool[l]
  BY <1>3, <1>10
<1>12. ASSUME NEW l \in DOMAIN pool' PROVE pool'[l] \in Seq(ToSet(pool'[l])) /\ Len(pool'[l]) > 0
  <2>1. CASE l = key BY <1>6, <1>8, <1>9, <1>11, <2>1
  <2>2. CASE l # key BY <1>11, <2>2 DEF PoolInv, QueueOf
  <2>3. QED BY <2>1, <2>2
<1>13. Len(new) > 1 => key \in DOMAIN pool
  <2>1. CASE key \notin DOMAIN pool
    <3>1. Len(old) = 0 BY <1>1, <2>1
    <3>2. Len(queue) = 0 BY <1>6, <3>1
    <3>3. QED BY <1>8, <3>2
  <2>2. QED BY <2>1
<1>14. \E d \in {0, 1} : \A i \in 1..(Len(new) - 1) :
          i + d \in 1..Len(pool[key]) /\ new[i] = pool[key][i + d]
  <2>1. CASE Len(new) > 1
    <3>1. old = pool[key] BY <1>1, <1>13, <2>1
    <3>2. PICK d \in {0, 1} : \A i \in 1..Len(queue) : i + d \in 1..Len(old) /\ queue[i] = old[i + d]
      BY <1>6
    <3>3. \A i \in 1..(Len(new) - 1) : i \in 1..Len(queue) BY <1>6, <1>8
    <3>4. \A i \in 1..(Len(new) - 1) : i + d \in 1..Len(pool[key]) /\ new[i] = pool[key][i + d]
      BY <1>8, <3>1, <3>2, <3>3
    <3>5. QED BY <3>4
  <2>2. CASE Len(new) =< 1
    <3>1. 1..(Len(new) - 1) = {} BY <1>6, <1>8, <2>2
    <3>2. QED BY <3>1
  <2>3. QED BY <1>6, <1>8, <2>1, <2>2
<1>15. QED BY <1>8, <1>11, <1>12, <1>13, <1>14

\* A connection that is put back was its thread's alone, and is the pool's alone then.
LEMMA PoolGrows ==
  ASSUME PoolInv, NEW t \in Threads, NEW key, NEW conn, PutHttp11Connection(key, conn), Others(t),
         ConnFor(key, conn), conn.id = task[t].conn.id, task'[t].conn.id = 0
  PROVE  PoolInv'
<1>0. conn.id \in Nat \ {0} BY DEF ConnFor
<1>1. /\ pool' = [l \in DOMAIN pool' |-> pool'[l]]
      /\ \A l \in DOMAIN pool' : pool'[l] \in Seq(ToSet(pool'[l])) /\ Len(pool'[l]) > 0
      /\ \A l \in DOMAIN pool' : l # key => l \in DOMAIN pool /\ pool'[l] = pool[l]
      /\ key \in DOMAIN pool' => /\ pool'[key][Len(pool'[key])] = conn
                                 /\ Len(pool'[key]) > 1 => key \in DOMAIN pool
  BY PutIs
<1>2. PICK d \in {0, 1} : key \in DOMAIN pool' => \A i \in 1..(Len(pool'[key]) - 1) :
                              i + d \in 1..Len(pool[key]) /\ pool'[key][i] = pool[key][i + d]
  <2>1. CASE key \in DOMAIN pool'
    <3>1. PICK d \in {0, 1} : \A i \in 1..(Len(pool'[key]) - 1) :
                i + d \in 1..Len(pool[key]) /\ pool'[key][i] = pool[key][i + d]
      BY <2>1, PutIs
    <3>2. QED BY <3>1
  <2>2. CASE key \notin DOMAIN pool' BY <2>2
  <2>3. QED BY <2>1, <2>2
<1>3. /\ \A l \in DOMAIN pool : QueueOf(l, pool[l])
      /\ \A l, m \in DOMAIN pool : \A i \in 1..Len(pool[l]), j \in 1..Len(pool[m]) :
            pool[l][i].id = pool[m][j].id => l = m /\ i = j
      /\ \A u \in Threads : \A l \in DOMAIN pool : \A i \in 1..Len(pool[l]) :
            pool[l][i].id # task[u].conn.id
      /\ \A u, w \in Threads : u # w /\ task[u].conn.id # 0 => task[w].conn.id # task[u].conn.id
      /\ IsFiniteSet(LiveConns)
  BY DEF PoolInv
<1> DEFINE Newest(l, i) == l = key /\ i = Len(pool'[key])
           Before(l, i) == IF l = key THEN i + d ELSE i
<1>4. ASSUME NEW l \in DOMAIN pool', NEW i \in 1..Len(pool'[l])
      PROVE  \/ Newest(l, i) /\ pool'[l][i] = conn
             \/ /\ ~Newest(l, i) /\ l \in DOMAIN pool /\ Before(l, i) \in 1..Len(pool[l])
                /\ pool'[l][i] = pool[l][Before(l, i)]
  <2>1. CASE l # key BY <1>1, <2>1
  <2>2. CASE l = key /\ i = Len(pool'[key])
    <3>1. Newest(l, i) BY <2>2
    <3>2. pool'[l][i] = conn BY <1>1, <2>2
    <3>3. QED BY <3>1, <3>2
  <2>3. CASE l = key /\ i # Len(pool'[key])
    <3>1. Len(pool'[key]) \in Nat BY <1>1, <2>3
    <3>2. i \in 1..(Len(pool'[key]) - 1) /\ Len(pool'[key]) > 1 BY <2>3, <3>1
    <3>3. ~Newest(l, i) /\ Before(l, i) = i + d BY <2>3
    <3>4. l \in DOMAIN pool BY <1>1, <2>3, <3>2
    <3>5. i + d \in 1..Len(pool[l]) /\ pool'[l][i] = pool[l][i + d] BY <1>2, <2>3, <3>2
    <3>6. QED BY <3>3, <3>4, <3>5
  <2>4. QED BY <2>1, <2>2, <2>3
<1> HIDE DEF Newest
<1>5. ASSUME NEW l \in DOMAIN pool' PROVE QueueOf(l, pool'[l])
  <2>1. ASSUME NEW i \in 1..Len(pool'[l]) PROVE ConnFor(l, pool'[l][i])
    <3>1. CASE Newest(l, i) BY <1>4, <3>1 DEF Newest
    <3>2. CASE ~Newest(l, i)
      <4>1. PICK a : l \in DOMAIN pool /\ a \in 1..Len(pool[l]) /\ pool'[l][i] = pool[l][a] BY <1>4, <3>2
      <4>2. QED BY <1>3, <4>1 DEF QueueOf
    <3>3. QED BY <3>1, <3>2
  <2>2. QED BY <1>1, <2>1 DEF QueueOf
<1>6. ASSUME NEW l \in DOMAIN pool', NEW i \in 1..Len(pool'[l]), NEW u \in Threads
      PROVE  pool'[l][i].id # task'[u].conn.id
  <2>1. pool'[l][i].id # 0 BY <1>5 DEF QueueOf, ConnFor
  <2>2. CASE u = t BY <2>1, <2>2
  <2>3. CASE u # t /\ Newest(l, i) BY <1>0, <1>3, <1>4, <2>3 DEF Others
  <2>4. CASE u # t /\ ~Newest(l, i)
    <3>1. PICK a : l \in DOMAIN pool /\ a \in 1..Len(pool[l]) /\ pool'[l][i] = pool[l][a] BY <1>4, <2>4
    <3>2. QED BY <1>3, <2>4, <3>1 DEF Others
  <2>5. QED BY <2>2, <2>3, <2>4
<1>7. ASSUME NEW l \in DOMAIN pool', NEW m \in DOMAIN pool', NEW i \in 1..Len(pool'[l]),
             NEW j \in 1..Len(pool'[m]), pool'[l][i].id = pool'[m][j].id
      PROVE  l = m /\ i = j
  <2>1. ASSUME NEW n \in DOMAIN pool', NEW e \in 1..Len(pool'[n]), ~Newest(n, e)
        PROVE  pool'[n][e].id # conn.id
    <3>1. PICK a : n \in DOMAIN pool /\ a \in 1..Len(pool[n]) /\ pool'[n][e] = pool[n][a] BY <1>4, <2>1
    <3>2. QED BY <1>3, <3>1
  <2>2. CASE Newest(l, i) /\ Newest(m, j) BY <2>2 DEF Newest
  <2>3. CASE Newest(l, i) /\ ~Newest(m, j) BY <1>4, <1>7, <2>1, <2>3
  <2>4. CASE ~Newest(l, i) /\ Newest(m, j) BY <1>4, <1>7, <2>1, <2>4
  <2>5. CASE ~Newest(l, i) /\ ~Newest(m, j)
    <3>1. PICK a : /\ a = Before(l, i) /\ l \in DOMAIN pool /\ a \in 1..Len(pool[l])
                   /\ pool'[l][i] = pool[l][a]
      BY <1>4, <2>5
    <3>2. PICK b : /\ b = Before(m, j) /\ m \in DOMAIN pool /\ b \in 1..Len(pool[m])
                   /\ pool'[m][j] = pool[m][b]
      BY <1>4, <2>5
    <3>3. l = m /\ a = b BY <1>3, <1>7, <3>1, <3>2
    <3>4. Len(pool'[l]) \in Nat /\ Len(pool'[m]) \in Nat BY <1>1
    <3>5. QED BY <3>1, <3>2, <3>3, <3>4
  <2>6. QED BY <2>2, <2>3, <2>4, <2>5
<1>8. \A u, w \in Threads : u # w /\ task'[u].conn.id # 0 => task'[w].conn.id # task'[u].conn.id
  BY <1>3 DEF Others
<1>9. IsFiniteSet(LiveConns)'
  <2>1. ASSUME NEW l \in DOMAIN pool', NEW i \in 1..Len(pool'[l]) PROVE pool'[l][i].id \in LiveConns
    <3>1. CASE Newest(l, i) BY <1>4, <3>1 DEF LiveConns
    <3>2. CASE ~Newest(l, i)
      <4>1. PICK a : l \in DOMAIN pool /\ a \in 1..Len(pool[l]) /\ pool'[l][i] = pool[l][a] BY <1>4, <3>2
      <4>2. QED BY <4>1 DEF LiveConns
    <3>3. QED BY <3>1, <3>2
  <2>2. \A u \in Threads : task'[u].conn.id \in LiveConns \union {0} BY DEF Others, LiveConns
  <2>3. LiveConns' \subseteq LiveConns \union {0} BY <2>1, <2>2 DEF LiveConns
  <2>4. QED BY <1>3, <2>3, StillFinite
<1>10. QED BY <1>1, <1>5, <1>6, <1>7, <1>8, <1>9 DEF PoolInv

LEMMA SettleKeeps ==
  ASSUME IInv, NEW t \in Threads, Settle(t)
  PROVE  IInv'
<1> DEFINE k == task[t]
           key == PoolKey(k.req)
<1>0. ThreadOf(t) /\ k.pc = "settle" /\ PoolInv /\ IsConn(k.conn)
  BY ThreadHas DEF Settle, At, IInv, ThreadOf, Shape, IsTask
<1>1. UNCHANGED <<verifierOf, verifiers, storeOf, stores>> BY DEF Settle
<1>2. /\ k.conn.id \in Nat \ {0}
      /\ Secured(k.req) => /\ Good(k.req.policy, k.req.host, k.conn.cert)
                           /\ k.conn.decision \in Verdicts(k.req.policy, k.req.host)
                           /\ k.result = Response(k.conn.decision, k.conn.cert)
  BY <1>0 DEF ThreadOf, ConnOf, Connected
<1>3. ASSUME Return(t, k.result)
      PROVE  /\ Moved(t, "done", k.req, NoConn, 0, 0, 0, << >>, k.result)
             /\ SendsOf(task'[t]) /\ ConnOf(task'[t]) /\ VerifierOf(t, task[t])' /\ StoreOf(task[t])'
  <2>1. Moved(t, "done", k.req, NoConn, 0, 0, 0, << >>, k.result) BY <1>0, <1>3, Returns DEF ThreadOf
  <2>2. SendsOf(task'[t]) BY <2>1, SinkIs DEF Moved, SendsOf
  <2>3. Secured(k.req) => /\ Good(k.req.policy, k.req.host, k.result.cert)
                          /\ k.result.value \in Verdicts(k.req.policy, k.req.host)
    BY <1>2 DEF Response
  <2>4. ConnOf(task'[t]) BY <2>1, <2>3, IdleIs DEF Moved, ConnOf, Connected
  <2>5. VerifierOf(t, task[t])' /\ StoreOf(task[t])'
    BY <2>1 DEF Moved, VerifierOf, StoreOf, Verifying, Resuming
  <2>6. QED BY <2>1, <2>2, <2>4, <2>5
<1>4. ASSUME NEW c, c = (IF Secured(k.req) THEN k.conn ELSE Conn(k.conn.id, k.conn.cert, NoTlsa)),
             PutHttp11Connection(key, c), Return(t, k.result)
      PROVE  IInv'
  <2>1. /\ IsConn(c) /\ c.id = k.conn.id /\ (Secured(k.req) => c = k.conn)
    BY <1>0, <1>4, ConnHas
  <2>2. ConnFor(key, c)
    BY <1>2, <2>1 DEF ConnFor, PoolKey, TlsValidationKey, Secured
  <2>3. /\ Moved(t, "done", k.req, NoConn, 0, 0, 0, << >>, k.result)
        /\ SendsOf(task'[t]) /\ ConnOf(task'[t]) /\ VerifierOf(t, task[t])' /\ StoreOf(task[t])'
    BY <1>3, <1>4
  <2>4. Others(t) /\ Shape' /\ task'[t].conn.id = 0 BY <2>3, IdleIs DEF Moved, Others
  <2>5. PoolInv' BY <1>0, <1>4, <2>1, <2>2, <2>4, PoolGrows
  <2>6. ThreadsInv' BY <2>3, <2>4, ThreadsKept DEF IInv
  <2>7. VerifiersInv' BY <1>1, <2>3, <2>4, VerifiersStay DEF IInv, Moved
  <2>8. StoresInv' BY <1>1, <2>3, <2>4, StoresStay DEF IInv, Moved
  <2>9. QED BY <2>5, <2>6, <2>7, <2>8 DEF IInv
<1>5. ASSUME UNCHANGED pool, Return(t, k.result)
      PROVE  IInv'
  <2>1. /\ Moved(t, "done", k.req, NoConn, 0, 0, 0, << >>, k.result)
        /\ SendsOf(task'[t]) /\ ConnOf(task'[t]) /\ VerifierOf(t, task[t])' /\ StoreOf(task[t])'
    BY <1>3, <1>5
  <2>2. QED BY <1>1, <1>5, <2>1, MoveKeeps, IdleIs
<1>6. ASSUME UNCHANGED pool, Fail(t, "Io")
      PROVE  IInv'
  <2>1. PICK r : r = Err("Io") OBVIOUS
  <2>2. Moved(t, "failed", k.req, k.conn, k.verifier, k.store, k.sends, k.sink, r)
    BY <1>0, <1>6, <2>1, Fails DEF ThreadOf
  <2>3. SendsOf(task'[t]) BY <1>0, <2>2 DEF Moved, SendsOf, Unsent, ThreadOf
  <2>4. ConnOf(task'[t]) BY <1>0, <2>2 DEF Moved, ConnOf, Connected, ThreadOf
  <2>5. VerifierOf(t, task[t])' /\ StoreOf(task[t])'
    BY <1>0, <1>1, <2>2
       DEF Moved, VerifierOf, Shaking, StoreOf, Verifying, Resuming, Sessions, ThreadOf
  <2>6. QED BY <1>1, <1>6, <2>2, <2>3, <2>4, <2>5, MoveKeeps
<1>7. PICK c : c = (IF Secured(k.req) THEN k.conn ELSE Conn(k.conn.id, k.conn.cert, NoTlsa)) OBVIOUS
<1>8. c = IF Secured(k.req) THEN k.conn ELSE [k.conn EXCEPT !.decision = NoTlsa]
  BY <1>0, <1>7, ConnFields
<1>9. \/ PutHttp11Connection(key, c) /\ Return(t, k.result)
      \/ UNCHANGED pool /\ (Return(t, k.result) \/ Fail(t, "Io"))
  BY <1>8 DEF Settle
<1>10. QED BY <1>4, <1>5, <1>6, <1>7, <1>9

------------------------------------------------------------------------------
\* The four exchanges are one: an answer, or a break, with or without a ticket.
LEMMA ExchangesKeep ==
  ASSUME IInv, NEW t \in Threads,
         ExchangeHttp11(t) \/ ExchangeHttp2(t) \/ ExchangeHttp3(t) \/ SendUpgrade(t)
  PROVE  IInv'
<1>1. /\ task[t].pc = "exchange" /\ Tickets(t) /\ UNCHANGED <<pool, verifierOf, verifiers, storeOf>>
      /\ \/ \E reusable : Answered(t, AfterAnswer(t), reusable, Response(NoTlsa, "none"))
         \/ \E written \in 0..1 : \E e : Broken(t, written, e)
  <2>1. CASE ExchangeHttp11(t) BY <2>1 DEF ExchangeHttp11, Breaks, At
  <2>2. CASE ~ExchangeHttp11(t)
    <3>1. At(t, "exchange") /\ ExchangeOnce(t) BY <2>2 DEF ExchangeHttp2, ExchangeHttp3, SendUpgrade
    <3>2. QED BY <3>1 DEF ExchangeOnce, Breaks, At
  <2>3. QED BY <2>1, <2>2
<1>2. QED BY <1>1, ExchangeKeeps

LEMMA InitInv == TransportInit => IInv
<1> SUFFICES ASSUME TransportInit PROVE IInv OBVIOUS
<1>1. /\ pool = << >> /\ verifierOf = << >> /\ verifiers = << >> /\ storeOf = << >> /\ stores = << >>
      /\ task = [u \in Threads |-> Idle]
  BY DEF TransportInit
<1>2. DOMAIN << >> = {} /\ << >> = [n \in DOMAIN << >> |-> << >>[n]] OBVIOUS
<1>3. \A u \in Threads : task[u] = Idle BY <1>1
<1>4. Shape
  <2>1. task = [u \in Threads |-> task[u]] BY <1>1
  <2>2. \A u \in Threads : IsTask(task[u]) BY <1>3, IdleIs
  <2>3. QED BY <2>1, <2>2 DEF Shape
<1>5. SendsOf(Idle) BY IdleIs, SinkIs DEF SendsOf
<1>6. ConnOf(Idle) BY IdleIs DEF ConnOf, Connected
<1>7. \A u \in Threads : VerifierOf(u, Idle) BY IdleIs DEF VerifierOf, Verifying
<1>8. StoreOf(Idle) BY IdleIs DEF StoreOf, Resuming
<1>9. ThreadsInv BY <1>3, <1>4, <1>5, <1>6 DEF ThreadsInv
<1>10. LiveVerifiers \subseteq {0} /\ LiveStores \subseteq {0} /\ LiveConns \subseteq {0}
  BY <1>1, <1>2, <1>3, IdleIs DEF LiveVerifiers, LiveStores, LiveConns, Range
<1>11. IsFiniteSet(LiveVerifiers) /\ IsFiniteSet(LiveStores) /\ IsFiniteSet(LiveConns)
  BY <1>10, FS_Singleton, FS_Subset
<1>12. VerifiersInv BY <1>1, <1>2, <1>3, <1>7, <1>11 DEF VerifiersInv
<1>13. StoresInv BY <1>1, <1>2, <1>3, <1>8, <1>11, IdleIs DEF StoresInv
<1>14. PoolInv BY <1>1, <1>2, <1>3, <1>11, IdleIs DEF PoolInv
<1>15. QED BY <1>9, <1>12, <1>13, <1>14 DEF IInv

LEMMA NextKeeps == IInv /\ [TransportNext]_transportVars => IInv'
<1> SUFFICES ASSUME IInv, [TransportNext]_transportVars PROVE IInv' OBVIOUS
<1>1. ASSUME NEW t \in Threads, NEW req \in Requests, Fetch(t, req) PROVE IInv' BY <1>1, FetchKeeps
<1>2. ASSUME NEW t \in Threads, TakeHttp11Connection(t) PROVE IInv' BY <1>2, TakeKeeps
<1>3. ASSUME NEW t \in Threads, Connect(t) PROVE IInv' BY <1>3, ConnectKeeps
<1>4. ASSUME NEW t \in Threads, DaneVerifierFor(t) PROVE IInv' BY <1>4, VerifierKeeps
<1>5. ASSUME NEW t \in Threads, ResumptionFor(t) PROVE IInv' BY <1>5, ResumptionKeeps
<1>6. ASSUME NEW t \in Threads, BeginHandshake(t) PROVE IInv' BY <1>6, BeginKeeps
<1>7. ASSUME NEW t \in Threads, Handshake(t) PROVE IInv' BY <1>7, HandshakeKeeps
<1>8. ASSUME NEW t \in Threads, SendPooled(t) PROVE IInv' BY <1>8, SendPooledKeeps
<1>9. ASSUME NEW t \in Threads,
             ExchangeHttp11(t) \/ ExchangeHttp2(t) \/ ExchangeHttp3(t) \/ SendUpgrade(t)
      PROVE  IInv'
  BY <1>9, ExchangesKeep
<1>10. ASSUME NEW t \in Threads, FinishHandshake(t) PROVE IInv' BY <1>10, FinishKeeps
<1>11. ASSUME NEW t \in Threads, Settle(t) PROVE IInv' BY <1>11, SettleKeeps
<1>12. ASSUME NEW t \in Threads, FallBackOrFail(t) PROVE IInv' BY <1>12, FallBackKeeps
<1>13. CASE UNCHANGED <<pool, verifierOf, verifiers, storeOf, stores, task>>
  <2>1. ThreadsInv' BY <1>13 DEF IInv, ThreadsInv, Shape
  <2>2. VerifiersInv' BY <1>13 DEF IInv, VerifiersInv, VerifierOf, LiveVerifiers
  <2>3. StoresInv' BY <1>13 DEF IInv, StoresInv, StoreOf, Sessions, LiveStores
  <2>4. PoolInv' BY <1>13 DEF IInv, PoolInv, LiveConns
  <2>5. QED BY <2>1, <2>2, <2>3, <2>4 DEF IInv
<1>14. CASE Tick BY <1>13, <1>14 DEF Tick
<1>15. CASE UNCHANGED transportVars BY <1>13, <1>15 DEF transportVars
<1>16. QED
  BY <1>1, <1>2, <1>3, <1>4, <1>5, <1>6, <1>7, <1>8, <1>9, <1>10, <1>11, <1>12, <1>14, <1>15
     DEF TransportNext

\* The bodies of a sink of one answer are of one attempt.
LEMMA OneAnswer ==
  ASSUME NEW s, s \in Seq(ToSet(s)), Len(s) =< 1
  PROVE  Cardinality(ToSet(s)) =< 1
<1>1. ToSet(s) = {s[i] : i \in 1..Len(s)} BY DEF ToSet
<1>2. Len(s) = 0 \/ Len(s) = 1
  <2>1. Len(s) \in Nat OBVIOUS
  <2>2. QED BY <2>1
<1>3. CASE Len(s) = 0
  <2>1. ToSet(s) = {} BY <1>1, <1>3
  <2>2. Cardinality(ToSet(s)) = 0 BY <2>1, FS_EmptySet
  <2>3. QED BY <2>2
<1>4. CASE Len(s) = 1
  <2>1. ToSet(s) = {s[1]} BY <1>1, <1>4
  <2>2. Cardinality({s[1]}) = 1 BY FS_Singleton
  <2>3. Cardinality(ToSet(s)) = 1 BY <2>1, <2>2
  <2>4. QED BY <2>3
<1>5. QED BY <1>2, <1>3, <1>4

LEMMA InvIsSafe == IInv => AuthenticatedOrigin /\ TransportSafety
<1> SUFFICES ASSUME IInv PROVE AuthenticatedOrigin /\ TransportSafety OBVIOUS
<1>1. \A t \in Threads : SendsOf(task[t]) /\ ConnOf(task[t]) BY DEF IInv, ThreadsInv
<1>2. AuthenticatedOrigin BY <1>1 DEF AuthenticatedOrigin, Completed, At, ConnOf, Good, Policy
<1>3. DecisionOfPolicy BY <1>1 DEF DecisionOfPolicy, Completed, At, ConnOf, Verdicts, Policy
<1>4. NoDoubleSend
  <2>1. ASSUME NEW t \in Threads
        PROVE  /\ task[t].req.method = "unsafe" => task[t].sends =< 1
               /\ Cardinality(ToSet(task[t].sink)) =< 1
    BY <1>1, OneAnswer DEF SendsOf
  <2>2. QED BY <2>1 DEF NoDoubleSend
<1>5. ConnectionsExclusive
  <2> DEFINE pooled == UNION {{<<k, i>> : i \in 1..Len(pool[k])} : k \in DOMAIN pool}
             number(p) == pool[p[1]][p[2]].id
  <2>1. ASSUME NEW p \in pooled
        PROVE  \E k \in DOMAIN pool : \E i \in 1..Len(pool[k]) :
                  p = <<k, i>> /\ number(p) = pool[k][i].id
    OBVIOUS
  <2>2. PoolInv BY DEF IInv
  <2>3. ASSUME NEW p \in pooled, NEW q \in pooled, number(p) = number(q) PROVE p = q
    <3>1. PICK k \in DOMAIN pool : \E i \in 1..Len(pool[k]) : p = <<k, i>> /\ number(p) = pool[k][i].id
      BY <2>1
    <3>2. PICK i \in 1..Len(pool[k]) : p = <<k, i>> /\ number(p) = pool[k][i].id BY <3>1
    <3>3. PICK l \in DOMAIN pool : \E j \in 1..Len(pool[l]) : q = <<l, j>> /\ number(q) = pool[l][j].id
      BY <2>1
    <3>4. PICK j \in 1..Len(pool[l]) : q = <<l, j>> /\ number(q) = pool[l][j].id BY <3>3
    <3>5. k = l /\ i = j BY <2>2, <2>3, <3>2, <3>4 DEF PoolInv
    <3>6. QED BY <3>2, <3>4, <3>5
  <2>4. ASSUME NEW t \in Threads, NEW p \in pooled PROVE number(p) # task[t].conn.id
    <3>1. PICK k \in DOMAIN pool : \E i \in 1..Len(pool[k]) : p = <<k, i>> /\ number(p) = pool[k][i].id
      BY <2>1
    <3>2. QED BY <2>2, <3>1 DEF PoolInv
  <2>5. ASSUME NEW t \in Threads, NEW u \in Threads, u # t, task[t].conn.id # 0
        PROVE  task[u].conn.id # task[t].conn.id
    BY <2>2, <2>5 DEF PoolInv
  <2>6. QED BY <2>3, <2>4, <2>5 DEF ConnectionsExclusive
<1>6. QED BY <1>2, <1>3, <1>4, <1>5 DEF TransportSafety

\* A response over https is from an origin whose certificate this request's policy accepts
\* for this host, whatever pool, session store or alternative it came by (AuthenticatedOrigin).
THEOREM OriginAuthenticated == TransportSpec => []AuthenticatedOrigin
<1>1. IInv => AuthenticatedOrigin BY InvIsSafe
<1>2. QED BY <1>1, InitInv, NextKeeps, PTL DEF TransportSpec

\* The DANE decision of a response is its own request's, an unsafe request is sent at most
\* once, a sink holds one attempt's body and a connection is one thread's or the pool's
\* (TransportSafety).
THEOREM TransportSafe == TransportSpec => []TransportSafety
<1>1. IInv => TransportSafety BY InvIsSafe
<1>2. QED BY <1>1, InitInv, NextKeeps, PTL DEF TransportSpec

==============================================================================
