--------------------------- MODULE LoopbackProofs ---------------------------
(***************************************************************************)
(* Proofs about the loopback proxy: OwnedListener, for any threads,        *)
(* clients and limits; LoopbackRequest, for any number of connections, any *)
(* hosts and addresses and a body of any length; IdentityStore, for any    *)
(* workers, hooks, hosts and capacity; and RequestRateLimiter, for any     *)
(* limits, any hosts, any hash of them and any clock.                      *)
(***************************************************************************)
EXTENDS OwnedListener, LoopbackRequest, IdentityStore, RequestRateLimiter,
        SequenceTheorems, FiniteSetTheorems, WellFoundedInduction, TLAPS

(***************************************************************************)
(* The listener.                                                           *)
(*                                                                         *)
(* ListenerSafety is not inductive.  That a stop joined everything rests   *)
(* on what the accept thread has done by each place of its exit: cancelled,*)
(* closed the registration, joined the workers, revoked the identities and *)
(* announced the stop, in this order.  That the join covers every worker   *)
(* needs the registered clients to be the workers and the client in hand,  *)
(* and every worker to be among the handles.  That no registered client    *)
(* stays open needs each one to be in the snapshot of a thread that is     *)
(* about to shut it.  The events are a function of the flags.              *)
(***************************************************************************)

\* The places of the accept thread, of a client's worker and of an outside caller.
AcceptPc ==
    {<<"accept", "loop">>, <<"accept", "check">>, <<"accept", "register">>, <<"accept", "admit">>,
     <<"accept", "reject">>, <<"accept", "exit">>,
     <<"fail", "cancel">>, <<"fail", "begin">>, <<"fail", "shut">>, <<"fail", "notify">>,
     <<"fail", "listen">>, <<"fail", "announce">>,
     <<"exit", "begin">>, <<"exit", "shut">>, <<"exit", "join">>, <<"exit", "notify">>,
     <<"exit", "listen">>, <<"exit", "announce">>, <<"exit", "complete">>,
     <<"stop", "begin">>, <<"stop", "shut">>, <<"stop", "announce">>, <<"stop", "join">>,
     <<"idle", "ended">>}
ClientPc ==
    {<<"idle", "idle">>, <<"idle", "accepted">>, <<"idle", "done">>, <<"work", "serve">>,
     <<"stop", "begin">>, <<"stop", "shut">>, <<"stop", "announce">>, <<"stop", "join">>}
CallerPc ==
    {<<"idle", "idle">>, <<"idle", "returned">>,
     <<"stop", "begin">>, <<"stop", "shut">>, <<"stop", "announce">>, <<"stop", "join">>,
     <<"stop", "joining">>, <<"stop", "complete">>}

\* Where the accept thread has a registered client in hand, and any client.
RegisteredPc ==
    {<<"accept", "admit">>, <<"accept", "reject">>,
     <<"stop", "begin">>, <<"stop", "shut">>, <<"stop", "announce">>, <<"stop", "join">>}
InHandPc == {<<"accept", "check">>, <<"accept", "register">>} \cup RegisteredPc

\* Where a worker runs, where a thread is about to shut the sockets of its snapshot, and
\* where a thread is only after start has returned.
RunPc == {<<"work", "serve">>, <<"stop", "begin">>, <<"stop", "shut">>, <<"stop", "announce">>,
          <<"stop", "join">>}
ShutPc == {<<"fail", "shut">>, <<"exit", "shut">>, <<"stop", "shut">>}
PublishedPc ==
    {<<"stop", "begin">>, <<"stop", "shut">>, <<"stop", "announce">>, <<"stop", "join">>,
     <<"stop", "joining">>, <<"stop", "complete">>, <<"fail", "announce">>, <<"exit", "announce">>}

\* The clients whose worker runs: Running, told by places.
ServingClients == {c \in Clients : pc[c] \in RunPc}

\* What is left of the accept thread's exit once it has announced the stop, been notified,
\* joined the workers, begun the stop, left the loop.
AfterAnnounce == {<<"exit", "complete">>, <<"idle", "ended">>}
AfterNotify == {<<"exit", "listen">>, <<"exit", "announce">>} \cup AfterAnnounce
AfterJoin == {<<"exit", "notify">>} \cup AfterNotify
AfterBegin == {<<"exit", "shut">>, <<"exit", "join">>} \cup AfterJoin
AfterExit == {<<"exit", "begin">>} \cup AfterBegin

PcOK ==
    /\ pc \in [Threads -> AcceptPc \cup ClientPc \cup CallerPc]
    /\ pc[Accept] \in AcceptPc
    /\ \A c \in Clients : pc[c] \in ClientPc
    /\ \A t \in Callers : pc[t] \in CallerPc

StateOK ==
    /\ {cancelled, completed, published, tls, stopping, dropped} \subseteq BOOLEAN
    /\ announce \in Threads \cup {"pending", "emitted"}
    /\ streams \subseteq Clients /\ open \subseteq Clients /\ handles \subseteq Clients
    /\ cur \in Clients \cup {NoClient}
    /\ shutting \in [Threads -> SUBSET Clients]

\* The accept thread has a client in hand exactly between accept() and its worker.
HandInv ==
    /\ cur # NoClient <=> pc[Accept] \in InHandPc
    /\ cur # NoClient => pc[cur] = <<"idle", "accepted">>

\* Registered are the workers and a client about to become one; only they have open sockets,
\* and every worker will be joined.
ClientsInv ==
    /\ streams = ServingClients \cup (IF pc[Accept] \in RegisteredPc THEN {cur} ELSE {})
    /\ open \subseteq ServingClients \cup {cur}
    /\ ServingClients \subseteq handles

\* Once registration is closed, a registered client is shut or is about to be.
ShutInv ==
    stopping => \A c \in open \cap streams : \E t \in Threads : pc[t] \in ShutPc /\ c \in shutting[t]

\* What the accept thread has done on its way out.
ExitInv ==
    /\ pc[Accept] \in AfterExit => cancelled
    /\ pc[Accept] \in AfterBegin => stopping
    /\ pc[Accept] \in AfterJoin => ServingClients = {}
    /\ pc[Accept] \in AfterNotify => ~tls
    /\ pc[Accept] \in AfterAnnounce => announce = "emitted"
    /\ reason = "ListenerFailure" => cancelled

\* Nobody announces a stop before start has published the Listening event.
PublishInv ==
    /\ announce # "pending" => published
    /\ \A t \in Threads : pc[t] \in PublishedPc => published

\* The accept thread completes first: who joins it finds the stop completed.
DoneInv ==
    /\ completed <=> pc[Accept] = <<"idle", "ended">>
    /\ handle = "none" => completed
    /\ \A t \in Callers : pc[t] \in {<<"stop", "complete">>, <<"idle", "returned">>} => completed

\* The events delivered so far.
EventsInv ==
    events = IF ~published THEN << >>
             ELSE IF announce = "pending" THEN <<"Listening">>
             ELSE IF ~completed THEN <<"Listening", "Stopping">>
             ELSE <<"Listening", "Stopping", reason>>

ListenerInv == /\ PcOK /\ StateOK /\ HandInv /\ ClientsInv /\ ShutInv /\ ExitInv /\ PublishInv
               /\ DoneInv /\ EventsInv

----------------------------------------------------------------------------
AllPc == AcceptPc \cup ClientPc \cup CallerPc

\* What the places of threads have to do with their flows and steps.
LEMMA PcSets ==
  /\ \A q \in ClientPc : q[1] \in {"work", "stop"} <=> q \in RunPc
  /\ \A q \in AllPc : q[2] = "shut" <=> q \in ShutPc
  /\ \A q \in AllPc : q[2] = "begin" <=> q \in {<<"fail", "begin">>, <<"exit", "begin">>, <<"stop", "begin">>}
  /\ \A q \in AllPc : q[2] = "announce" <=> q \in {<<"fail", "announce">>, <<"exit", "announce">>, <<"stop", "announce">>}
  /\ \A q \in AllPc : q[2] = "listen" <=> q \in {<<"fail", "listen">>, <<"exit", "listen">>}
  /\ \A q \in AllPc : q[2] = "complete" <=> q \in {<<"stop", "complete">>, <<"exit", "complete">>}
BY DEF AllPc, AcceptPc, ClientPc, CallerPc, RunPc, ShutPc

\* Going to another step of the same flow.
LEMMA SecondOfPair ==
  ASSUME NEW q, NEW f, NEW s, NEW r, q = <<f, s>>
  PROVE  [q EXCEPT ![2] = r] = <<f, r>>
OBVIOUS

\* A thread in one of the first three steps of a stop is in a flow it can be in.
LEMMA StopFlow ==
  ASSUME PcOK, NEW t \in Threads, NEW s \in {"begin", "shut", "announce"}, In(t, s)
  PROVE  \E f \in {"fail", "exit", "stop"} : pc[t] = <<f, s>> /\ (f # "stop" => t = Accept)
BY OwnedListenerAssumption DEF PcOK, In, Threads, AcceptPc, ClientPc, CallerPc

\* Appending to the lists of one and of two lifecycle events.
LEMMA AppendToOne ==
  ASSUME NEW a, NEW b
  PROVE  Append(<<a>>, b) = <<a, b>>
<1>1. PICK s, t : s = Append(<<a>>, b) /\ t = <<a, b>> OBVIOUS
<1>2. <<a>> \in Seq({a, b}) /\ Len(<<a>>) = 1 OBVIOUS
<1>3. s \in Seq({a, b}) /\ Len(s) = 2 /\ s[1] = a /\ s[2] = b BY <1>1, <1>2
<1>4. t \in Seq({a, b}) /\ Len(t) = 2 /\ t[1] = a /\ t[2] = b BY <1>1
<1>5. \A i \in 1 .. 2 : s[i] = t[i] BY <1>3, <1>4
<1>6. s = t BY <1>3, <1>4, <1>5, SeqEqual
<1>7. QED BY <1>1, <1>6

LEMMA AppendToTwo ==
  ASSUME NEW a, NEW b, NEW c
  PROVE  Append(<<a, b>>, c) = <<a, b, c>>
<1>1. PICK s, t : s = Append(<<a, b>>, c) /\ t = <<a, b, c>> OBVIOUS
<1>2. <<a, b>> \in Seq({a, b, c}) /\ Len(<<a, b>>) = 2 OBVIOUS
<1>3. s \in Seq({a, b, c}) /\ Len(s) = 3 /\ s[1] = a /\ s[2] = b /\ s[3] = c BY <1>1, <1>2
<1>4. t \in Seq({a, b, c}) /\ Len(t) = 3 /\ t[1] = a /\ t[2] = b /\ t[3] = c BY <1>1
<1>5. \A i \in 1 .. 3 : s[i] = t[i] BY <1>3, <1>4
<1>6. s = t BY <1>3, <1>4, <1>5, SeqEqual
<1>7. QED BY <1>1, <1>6

\* The invariant holds at first.
LEMMA InitInv == ListenerInit => ListenerInv
<1> SUFFICES ASSUME ListenerInit PROVE ListenerInv OBVIOUS
<1> USE OwnedListenerAssumption DEF ListenerInit, Threads
<1>1. PcOK BY DEF PcOK, AcceptPc, ClientPc, CallerPc
<1>2. StateOK BY DEF StateOK
<1>3. ServingClients = {} BY DEF ServingClients, RunPc
<1>4. pc[Accept] = <<"accept", "loop">> OBVIOUS
<1>5. HandInv /\ ClientsInv BY <1>3, <1>4 DEF HandInv, ClientsInv, InHandPc, RegisteredPc
<1>6. ShutInv /\ ExitInv
  BY <1>4 DEF ShutInv, ExitInv, AfterExit, AfterBegin, AfterJoin, AfterNotify, AfterAnnounce
<1>7. PublishInv BY DEF PublishInv, PublishedPc
<1>8. DoneInv BY <1>4 DEF DoneInv
<1>9. EventsInv BY DEF EventsInv
<1>10. QED BY <1>1, <1>2, <1>5, <1>6, <1>7, <1>8, <1>9 DEF ListenerInv

----------------------------------------------------------------------------
(* One lemma for each action, one step for each part of the invariant.      *)

\* The end of start.
LEMMA PublishListeningKeeps ==
  ASSUME ListenerInv, PublishListening
  PROVE  ListenerInv'
<1> USE OwnedListenerAssumption DEF ListenerInv, PcOK, PublishListening, Goto, At, Threads, flags,
      sockets, owner
<1>1. PcOK' BY DEF AcceptPc, ClientPc, CallerPc
<1>2. StateOK' BY DEF StateOK
<1>3. HandInv' BY DEF HandInv, InHandPc, RegisteredPc
<1>4. ClientsInv' BY DEF ClientsInv, HandInv, InHandPc, RegisteredPc, ServingClients, RunPc
<1>5. ShutInv' BY DEF ShutInv, ClientsInv, HandInv, InHandPc, RegisteredPc, ServingClients, RunPc,
      ShutPc, StateOK
<1>6. ExitInv' BY DEF ExitInv, ServingClients, RunPc, AfterExit, AfterBegin, AfterJoin, AfterNotify,
      AfterAnnounce
<1>7. PublishInv' BY DEF PublishInv, PublishedPc
<1>8. DoneInv' BY DEF DoneInv
<1>9. EventsInv' BY DEF EventsInv, PublishInv, DoneInv
<1>10. QED BY <1>1, <1>2, <1>3, <1>4, <1>5, <1>6, <1>7, <1>8, <1>9

\* A client is accepted: it is open, in hand, and not registered.
LEMMA AcceptClientKeeps ==
  ASSUME ListenerInv, NEW c \in Clients, AcceptClient(c)
  PROVE  ListenerInv'
<1> USE OwnedListenerAssumption DEF ListenerInv, PcOK, AcceptClient, Goto, At, Threads, flags, sockets,
      owner
<1>a. pc'[Accept] = <<"accept", "check">> /\ pc'[c] = <<"idle", "accepted">> /\ c # Accept
  OBVIOUS
<1>b. \A u \in Threads \ {Accept, c} : pc'[u] = pc[u]
  OBVIOUS
<1>c. ServingClients' = ServingClients
  BY <1>a, <1>b DEF ServingClients, RunPc
<1>d. cur = NoClient
  BY DEF HandInv, InHandPc, RegisteredPc
<1>1. PcOK' BY DEF AcceptPc, ClientPc, CallerPc
<1>2. StateOK' BY DEF StateOK
<1>3. HandInv' BY DEF HandInv, InHandPc, RegisteredPc
<1>4. ClientsInv'
  <2>1. streams' = ServingClients'
    BY <1>a, <1>c DEF ClientsInv, RegisteredPc
  <2>2. open' \subseteq ServingClients' \cup {c}
    BY <1>c, <1>d DEF ClientsInv, StateOK
  <2>3. ServingClients' \subseteq handles'
    BY <1>c DEF ClientsInv, ServingClients, RunPc
  <2>4. QED BY <1>a, <2>1, <2>2, <2>3 DEF ClientsInv, RegisteredPc
<1>5. ShutInv' BY DEF ShutInv, ClientsInv, HandInv, InHandPc, RegisteredPc, ServingClients, RunPc,
      ShutPc, StateOK
<1>6. ExitInv' BY DEF ExitInv, ServingClients, RunPc, AfterExit, AfterBegin, AfterJoin, AfterNotify,
      AfterAnnounce
<1>7. PublishInv' BY DEF PublishInv, PublishedPc
<1>8. DoneInv' BY DEF DoneInv
<1>9. EventsInv' BY DEF EventsInv, PublishInv, DoneInv
<1>10. QED BY <1>1, <1>2, <1>3, <1>4, <1>5, <1>6, <1>7, <1>8, <1>9

\* Closing the client in hand, registered or not, and going back to the loop or out of it.
LEMMA DiscardKeeps ==
  ASSUME ListenerInv, NEW step \in {"loop", "exit"}, Discard(step),
         pc[Accept] \in {<<"accept", "check">>, <<"accept", "register">>, <<"accept", "admit">>,
                        <<"accept", "reject">>},
         streams' = streams \ {cur},
         UNCHANGED <<flags, stopping, handles, owner, reason, shutting, events>>
  PROVE  ListenerInv'
<1> USE OwnedListenerAssumption DEF ListenerInv, PcOK, Discard, Goto, At, Threads, flags, sockets, owner
<1>a. cur \in Clients /\ pc[cur] = <<"idle", "accepted">> /\ cur # Accept
  BY DEF HandInv, InHandPc, RegisteredPc, StateOK
<1>b. pc'[Accept] = <<"accept", step>> /\ pc'[cur] = <<"idle", "done">>
  BY <1>a
<1>c. \A u \in Threads \ {Accept, cur} : pc'[u] = pc[u]
  BY <1>a
<1>d. ServingClients' = ServingClients /\ cur \notin ServingClients
  BY <1>a, <1>b, <1>c DEF ServingClients, RunPc
<1>1. PcOK' BY <1>a, <1>b, <1>c DEF AcceptPc, ClientPc, CallerPc
<1>2. StateOK' BY <1>a, <1>b, <1>c DEF StateOK
<1>3. HandInv' BY <1>a, <1>b, <1>c DEF HandInv, InHandPc, RegisteredPc
<1>4. ClientsInv' BY <1>a, <1>b, <1>d DEF ClientsInv, RegisteredPc, StateOK
<1>5. ShutInv' BY <1>a, <1>b, <1>c DEF ShutInv, ClientsInv, HandInv, InHandPc, RegisteredPc,
      ServingClients, RunPc, ShutPc, StateOK
<1>6. ExitInv' BY <1>a, <1>b, <1>c DEF ExitInv, ServingClients, RunPc, AfterExit, AfterBegin, AfterJoin,
      AfterNotify, AfterAnnounce
<1>7. PublishInv' BY <1>a, <1>b, <1>c DEF PublishInv, PublishedPc
<1>8. DoneInv' BY <1>a, <1>b, <1>c DEF DoneInv
<1>9. EventsInv' BY <1>a, <1>b, <1>c DEF EventsInv, PublishInv, DoneInv
<1>10. QED BY <1>1, <1>2, <1>3, <1>4, <1>5, <1>6, <1>7, <1>8, <1>9

\* The stop or an error comes first, or the client goes on to be registered.
LEMMA AcceptCheckKeeps ==
  ASSUME ListenerInv, AcceptCheck
  PROVE  ListenerInv'
<1>1. CASE ~cancelled /\ Goto(Accept, "accept", "register") /\ UNCHANGED <<open, cur>>
  <2> USE OwnedListenerAssumption DEF ListenerInv, PcOK, AcceptCheck, Goto, At, Threads, flags, sockets,
        owner
  <2>a. cur \in Clients /\ pc[cur] = <<"idle", "accepted">> /\ cur # Accept
    BY DEF HandInv, InHandPc, RegisteredPc, StateOK
  <2>b. pc' = [pc EXCEPT ![Accept] = <<"accept", "register">>] /\ UNCHANGED <<open, cur, streams>>
    BY <1>1
  <2>1. PcOK' BY <1>1, <2>a, <2>b DEF AcceptPc, ClientPc, CallerPc
  <2>2. StateOK' BY <1>1, <2>a, <2>b DEF StateOK
  <2>3. HandInv' BY <1>1, <2>a, <2>b DEF HandInv, InHandPc, RegisteredPc
  <2>4. ClientsInv' BY <1>1, <2>a, <2>b DEF ClientsInv, HandInv, InHandPc, RegisteredPc, ServingClients,
        RunPc
  <2>5. ShutInv' BY <1>1, <2>a, <2>b DEF ShutInv, ClientsInv, HandInv, InHandPc, RegisteredPc,
        ServingClients, RunPc, ShutPc, StateOK
  <2>6. ExitInv' BY <1>1, <2>a, <2>b DEF ExitInv, ServingClients, RunPc, AfterExit, AfterBegin,
        AfterJoin, AfterNotify, AfterAnnounce
  <2>7. PublishInv' BY <1>1, <2>a, <2>b DEF PublishInv, PublishedPc
  <2>8. DoneInv' BY <1>1, <2>a, <2>b DEF DoneInv
  <2>9. EventsInv' BY <1>1, <2>a, <2>b DEF EventsInv, PublishInv, DoneInv
  <2>10. QED BY <2>1, <2>2, <2>3, <2>4, <2>5, <2>6, <2>7, <2>8, <2>9
<1>2. CASE Discard("loop") \/ Discard("exit")
  <2>1. streams' = streams \ {cur}
    BY OwnedListenerAssumption DEF ListenerInv, PcOK, AcceptCheck, At, ClientsInv, HandInv, InHandPc,
          RegisteredPc, ServingClients, RunPc
  <2>2. QED BY <1>2, <2>1, DiscardKeeps DEF AcceptCheck, At
<1>3. QED BY <1>1, <1>2 DEF AcceptCheck

\* Registration is refused once it is closed.
LEMMA RegisterKeeps ==
  ASSUME ListenerInv, Register
  PROVE  ListenerInv'
<1>1. CASE ~stopping
  <2> USE OwnedListenerAssumption DEF ListenerInv, PcOK, Register, Goto, At, Threads, flags, sockets,
        owner
  <2>a. cur \in Clients /\ pc[cur] = <<"idle", "accepted">> /\ cur # Accept
    BY DEF HandInv, InHandPc, RegisteredPc, StateOK
  <2>b. /\ pc' = [pc EXCEPT ![Accept] = <<"accept", "admit">>]
        /\ streams' = streams \cup {cur} /\ UNCHANGED <<open, cur>>
    BY <1>1
  <2>1. PcOK' BY <1>1, <2>a, <2>b DEF AcceptPc, ClientPc, CallerPc
  <2>2. StateOK' BY <1>1, <2>a, <2>b DEF StateOK
  <2>3. HandInv' BY <1>1, <2>a, <2>b DEF HandInv, InHandPc, RegisteredPc
  <2>4. ClientsInv' BY <1>1, <2>a, <2>b DEF ClientsInv, HandInv, InHandPc, RegisteredPc, ServingClients,
        RunPc
  <2>5. ShutInv' BY <1>1, <2>a, <2>b DEF ShutInv, ClientsInv, HandInv, InHandPc, RegisteredPc,
        ServingClients, RunPc, ShutPc, StateOK
  <2>6. ExitInv' BY <1>1, <2>a, <2>b DEF ExitInv, ServingClients, RunPc, AfterExit, AfterBegin,
        AfterJoin, AfterNotify, AfterAnnounce
  <2>7. PublishInv' BY <1>1, <2>a, <2>b DEF PublishInv, PublishedPc
  <2>8. DoneInv' BY <1>1, <2>a, <2>b DEF DoneInv
  <2>9. EventsInv' BY <1>1, <2>a, <2>b DEF EventsInv, PublishInv, DoneInv
  <2>10. QED BY <2>1, <2>2, <2>3, <2>4, <2>5, <2>6, <2>7, <2>8, <2>9
<1>2. CASE stopping
  <2>1. streams' = streams \ {cur}
    BY <1>2 DEF ListenerInv, PcOK, Register, At, ClientsInv, HandInv, InHandPc, RegisteredPc, ServingClients,
          RunPc
  <2>2. QED BY <1>2, <2>1, DiscardKeeps DEF Register, At
<1>3. QED BY <1>1, <1>2

\* What the closure of the worker owned goes with it.
LEMMA SpawnFailsKeeps ==
  ASSUME ListenerInv, SpawnFails
  PROVE  ListenerInv'
BY DiscardKeeps DEF SpawnFails, At

\* The refused client is closed.
LEMMA RejectionDoneKeeps ==
  ASSUME ListenerInv, RejectionDone
  PROVE  ListenerInv'
BY DiscardKeeps DEF RejectionDone, At

\* The client in hand becomes a worker that will be joined.
LEMMA SpawnKeeps ==
  ASSUME ListenerInv, Spawn
  PROVE  ListenerInv'
<1> USE OwnedListenerAssumption DEF ListenerInv, PcOK, Spawn, Goto, At, Threads, flags, sockets, owner
<1>a. cur \in Clients /\ pc[cur] = <<"idle", "accepted">> /\ cur # Accept
  BY DEF HandInv, InHandPc, RegisteredPc, StateOK
<1>b. pc'[Accept] = <<"accept", "loop">> /\ pc'[cur] = <<"work", "serve">>
  BY <1>a
<1>c. \A u \in Threads \ {Accept, cur} : pc'[u] = pc[u]
  BY <1>a
<1>d. ServingClients' = ServingClients \cup {cur}
  BY <1>a, <1>b, <1>c DEF ServingClients, RunPc
<1>1. PcOK' BY <1>a, <1>b, <1>c DEF AcceptPc, ClientPc, CallerPc
<1>2. StateOK' BY <1>a, <1>b, <1>c DEF StateOK
<1>3. HandInv' BY <1>a, <1>b DEF HandInv, InHandPc, RegisteredPc
<1>4. ClientsInv' BY <1>a, <1>b, <1>d DEF ClientsInv, RegisteredPc, StateOK
<1>5. ShutInv' BY <1>a, <1>b, <1>c DEF ShutInv, ClientsInv, HandInv, InHandPc, RegisteredPc,
      ServingClients, RunPc, ShutPc, StateOK
<1>6. ExitInv' BY <1>a, <1>b, <1>c DEF ExitInv, ServingClients, RunPc, AfterExit, AfterBegin, AfterJoin,
      AfterNotify, AfterAnnounce
<1>7. PublishInv' BY <1>a, <1>b, <1>c DEF PublishInv, PublishedPc
<1>8. DoneInv' BY <1>a, <1>b, <1>c DEF DoneInv
<1>9. EventsInv' BY <1>a, <1>b, <1>c DEF EventsInv, PublishInv, DoneInv
<1>10. QED BY <1>1, <1>2, <1>3, <1>4, <1>5, <1>6, <1>7, <1>8, <1>9

\* The accept thread answers the client itself.
LEMMA OverloadKeeps ==
  ASSUME ListenerInv, Overload
  PROVE  ListenerInv'
<1> USE OwnedListenerAssumption DEF ListenerInv, PcOK, Overload, Goto, At, Threads, flags, sockets, owner
<1>1. PcOK' BY DEF AcceptPc, ClientPc, CallerPc
<1>2. StateOK' BY DEF StateOK
<1>3. HandInv' BY DEF HandInv, InHandPc, RegisteredPc
<1>4. ClientsInv' BY DEF ClientsInv, HandInv, InHandPc, RegisteredPc, ServingClients, RunPc
<1>5. ShutInv' BY DEF ShutInv, ClientsInv, HandInv, InHandPc, RegisteredPc, ServingClients, RunPc,
      ShutPc, StateOK
<1>6. ExitInv' BY DEF ExitInv, ServingClients, RunPc, AfterExit, AfterBegin, AfterJoin, AfterNotify,
      AfterAnnounce
<1>7. PublishInv' BY DEF PublishInv, PublishedPc
<1>8. DoneInv' BY DEF DoneInv
<1>9. EventsInv' BY DEF EventsInv, PublishInv, DoneInv
<1>10. QED BY <1>1, <1>2, <1>3, <1>4, <1>5, <1>6, <1>7, <1>8, <1>9

\* Out of the loop, to its end or to a failure.
LEMMA LoopEndsKeeps ==
  ASSUME ListenerInv, LoopEnds
  PROVE  ListenerInv'
<1> USE OwnedListenerAssumption DEF ListenerInv, PcOK, LoopEnds, Goto, At, Threads, flags, sockets, owner
<1>1. PcOK' BY DEF AcceptPc, ClientPc, CallerPc
<1>2. StateOK' BY DEF StateOK
<1>3. HandInv' BY DEF HandInv, InHandPc, RegisteredPc
<1>4. ClientsInv' BY DEF ClientsInv, HandInv, InHandPc, RegisteredPc, ServingClients, RunPc
<1>5. ShutInv' BY DEF ShutInv, ClientsInv, HandInv, InHandPc, RegisteredPc, ServingClients, RunPc,
      ShutPc, StateOK
<1>6. ExitInv' BY DEF ExitInv, ServingClients, RunPc, AfterExit, AfterBegin, AfterJoin, AfterNotify,
      AfterAnnounce
<1>7. PublishInv' BY DEF PublishInv, PublishedPc
<1>8. DoneInv' BY DEF DoneInv
<1>9. EventsInv' BY DEF EventsInv, PublishInv, DoneInv
<1>10. QED BY <1>1, <1>2, <1>3, <1>4, <1>5, <1>6, <1>7, <1>8, <1>9

\* The accept thread met an error of the socket.
LEMMA AcceptFailsKeeps ==
  ASSUME ListenerInv, AcceptFails
  PROVE  ListenerInv'
<1> USE OwnedListenerAssumption DEF ListenerInv, PcOK, AcceptFails, Goto, At, Threads, flags, sockets,
      owner
<1>1. PcOK' BY DEF AcceptPc, ClientPc, CallerPc
<1>2. StateOK' BY DEF StateOK
<1>3. HandInv' BY DEF HandInv, InHandPc, RegisteredPc
<1>4. ClientsInv' BY DEF ClientsInv, HandInv, InHandPc, RegisteredPc, ServingClients, RunPc
<1>5. ShutInv' BY DEF ShutInv, ClientsInv, HandInv, InHandPc, RegisteredPc, ServingClients, RunPc,
      ShutPc, StateOK
<1>6. ExitInv' BY DEF ExitInv, ServingClients, RunPc, AfterExit, AfterBegin, AfterJoin, AfterNotify,
      AfterAnnounce
<1>7. PublishInv' BY DEF PublishInv, PublishedPc
<1>8. DoneInv' BY DEF DoneInv
<1>9. EventsInv' BY DEF EventsInv, PublishInv, DoneInv
<1>10. QED BY <1>1, <1>2, <1>3, <1>4, <1>5, <1>6, <1>7, <1>8, <1>9

\* The failure counts only if it was the first to cancel.
LEMMA FailCancelKeeps ==
  ASSUME ListenerInv, FailCancel
  PROVE  ListenerInv'
<1> USE OwnedListenerAssumption DEF ListenerInv, PcOK, FailCancel, Goto, At, Threads, flags, sockets,
      owner
<1>1. PcOK' BY DEF AcceptPc, ClientPc, CallerPc
<1>2. StateOK' BY DEF StateOK
<1>3. HandInv' BY DEF HandInv, InHandPc, RegisteredPc
<1>4. ClientsInv' BY DEF ClientsInv, HandInv, InHandPc, RegisteredPc, ServingClients, RunPc
<1>5. ShutInv' BY DEF ShutInv, ClientsInv, HandInv, InHandPc, RegisteredPc, ServingClients, RunPc,
      ShutPc, StateOK
<1>6. ExitInv' BY DEF ExitInv, ServingClients, RunPc, AfterExit, AfterBegin, AfterJoin, AfterNotify,
      AfterAnnounce
<1>7. PublishInv' BY DEF PublishInv, PublishedPc
<1>8. DoneInv' BY DEF DoneInv
<1>9. EventsInv' BY DEF EventsInv, PublishInv, DoneInv
<1>10. QED BY <1>1, <1>2, <1>3, <1>4, <1>5, <1>6, <1>7, <1>8, <1>9

\* The exit of the accept thread: cancel, join, notify, wait.
LEMMA ExitKeeps ==
  ASSUME ListenerInv, Exit
  PROVE  ListenerInv'
<1> USE OwnedListenerAssumption DEF ListenerInv, PcOK, Exit, Goto, At, Threads, flags, sockets, owner
<1>1. PcOK' BY DEF AcceptPc, ClientPc, CallerPc
<1>2. StateOK' BY DEF StateOK
<1>3. HandInv' BY DEF HandInv, InHandPc, RegisteredPc
<1>4. ClientsInv' BY DEF ClientsInv, HandInv, InHandPc, RegisteredPc, ServingClients, RunPc
<1>5. ShutInv' BY DEF ShutInv, ClientsInv, HandInv, InHandPc, RegisteredPc, ServingClients, RunPc,
      ShutPc, StateOK
<1>6. ExitInv' BY DEF ExitInv, ServingClients, RunPc, AfterExit, AfterBegin, AfterJoin, AfterNotify,
      AfterAnnounce
<1>7. PublishInv' BY DEF PublishInv, PublishedPc
<1>8. DoneInv' BY DEF DoneInv
<1>9. EventsInv' BY DEF EventsInv, PublishInv, DoneInv
<1>10. QED BY <1>1, <1>2, <1>3, <1>4, <1>5, <1>6, <1>7, <1>8, <1>9

\* Every worker is among the handles, so the join leaves none.
LEMMA JoinWorkersKeeps ==
  ASSUME ListenerInv, JoinWorkers
  PROVE  ListenerInv'
<1> USE OwnedListenerAssumption DEF ListenerInv, PcOK, JoinWorkers, Goto, At, Threads, flags, sockets,
      owner
<1>a. ServingClients = {}
  BY DEF ClientsInv, ServingClients, RunPc
<1>b. ServingClients' = {} /\ pc'[Accept] = <<"exit", "notify">>
  BY <1>a DEF ServingClients, RunPc
<1>1. PcOK' BY DEF AcceptPc, ClientPc, CallerPc
<1>2. StateOK' BY DEF StateOK
<1>3. HandInv' BY DEF HandInv, InHandPc, RegisteredPc
<1>4. ClientsInv' BY <1>a, <1>b DEF ClientsInv, HandInv, InHandPc, RegisteredPc
<1>5. ShutInv' BY DEF ShutInv, ClientsInv, HandInv, InHandPc, RegisteredPc, ServingClients, RunPc,
      ShutPc, StateOK
<1>6. ExitInv' BY <1>b DEF ExitInv, AfterExit, AfterBegin, AfterJoin, AfterNotify, AfterAnnounce
<1>7. PublishInv' BY DEF PublishInv, PublishedPc
<1>8. DoneInv' BY DEF DoneInv
<1>9. EventsInv' BY DEF EventsInv, PublishInv, DoneInv
<1>10. QED BY <1>1, <1>2, <1>3, <1>4, <1>5, <1>6, <1>7, <1>8, <1>9

\* The exit handler revokes the identities.
LEMMA NotifyKeeps ==
  ASSUME ListenerInv, Notify
  PROVE  ListenerInv'
<1> USE OwnedListenerAssumption DEF ListenerInv, PcOK, Notify, Goto, At, Threads, flags, sockets, owner
<1>a. PICK f \in {"fail", "exit"} : pc[Accept] = <<f, "notify">>
  BY PcSets DEF In, AllPc
<1>b. pc' = [pc EXCEPT ![Accept] = <<f, "listen">>]
  <2>1. PICK q : q = pc[Accept] OBVIOUS
  <2>2. [q EXCEPT ![2] = "listen"] = <<f, "listen">> BY <1>a, <2>1, SecondOfPair
  <2>3. pc' = [pc EXCEPT ![Accept] = [q EXCEPT ![2] = "listen"]] BY <2>1
  <2>4. QED BY <2>2, <2>3
<1>1. PcOK' BY <1>a, <1>b DEF AcceptPc, ClientPc, CallerPc
<1>2. StateOK' BY <1>a, <1>b DEF StateOK
<1>3. HandInv' BY <1>a, <1>b DEF HandInv, InHandPc, RegisteredPc
<1>4. ClientsInv' BY <1>a, <1>b DEF ClientsInv, HandInv, InHandPc, RegisteredPc, ServingClients, RunPc
<1>5. ShutInv' BY <1>a, <1>b DEF ShutInv, ClientsInv, HandInv, InHandPc, RegisteredPc, ServingClients,
      RunPc, ShutPc, StateOK
<1>6. ExitInv' BY <1>a, <1>b DEF ExitInv, ServingClients, RunPc, AfterExit, AfterBegin, AfterJoin,
      AfterNotify, AfterAnnounce
<1>7. PublishInv' BY <1>a, <1>b DEF PublishInv, PublishedPc
<1>8. DoneInv' BY <1>a, <1>b DEF DoneInv
<1>9. EventsInv' BY <1>a, <1>b DEF EventsInv, PublishInv, DoneInv
<1>10. QED BY <1>1, <1>2, <1>3, <1>4, <1>5, <1>6, <1>7, <1>8, <1>9

\* The stop is announced after Listening.
LEMMA WaitForListeningKeeps ==
  ASSUME ListenerInv, WaitForListening
  PROVE  ListenerInv'
<1> USE OwnedListenerAssumption DEF ListenerInv, PcOK, WaitForListening, In, Goto, At, Threads, flags,
      sockets, owner
<1>a. PICK f \in {"fail", "exit"} : pc[Accept] = <<f, "listen">>
  BY PcSets DEF In, AllPc
<1>b. pc' = [pc EXCEPT ![Accept] = <<f, "announce">>]
  <2>1. PICK q : q = pc[Accept] OBVIOUS
  <2>2. [q EXCEPT ![2] = "announce"] = <<f, "announce">> BY <1>a, <2>1, SecondOfPair
  <2>3. pc' = [pc EXCEPT ![Accept] = [q EXCEPT ![2] = "announce"]] BY <2>1
  <2>4. QED BY <2>2, <2>3
<1>1. PcOK' BY <1>a, <1>b DEF AcceptPc, ClientPc, CallerPc
<1>2. StateOK' BY <1>a, <1>b DEF StateOK
<1>3. HandInv' BY <1>a, <1>b DEF HandInv, InHandPc, RegisteredPc
<1>4. ClientsInv' BY <1>a, <1>b DEF ClientsInv, HandInv, InHandPc, RegisteredPc, ServingClients, RunPc
<1>5. ShutInv' BY <1>a, <1>b DEF ShutInv, ClientsInv, HandInv, InHandPc, RegisteredPc, ServingClients,
      RunPc, ShutPc, StateOK
<1>6. ExitInv' BY <1>a, <1>b DEF ExitInv, ServingClients, RunPc, AfterExit, AfterBegin, AfterJoin,
      AfterNotify, AfterAnnounce
<1>7. PublishInv' BY <1>a, <1>b DEF PublishInv, PublishedPc
<1>8. DoneInv' BY <1>a, <1>b DEF DoneInv
<1>9. EventsInv' BY <1>a, <1>b DEF EventsInv, PublishInv, DoneInv
<1>10. QED BY <1>1, <1>2, <1>3, <1>4, <1>5, <1>6, <1>7, <1>8, <1>9

\* A worker gives back what it holds.
LEMMA WorkerEndsKeeps ==
  ASSUME ListenerInv, NEW c \in Clients, WorkerEnds(c)
  PROVE  ListenerInv'
<1> USE OwnedListenerAssumption DEF ListenerInv, PcOK, WorkerEnds, Goto, At, Threads, flags, sockets,
      owner
<1>1. PcOK' BY DEF AcceptPc, ClientPc, CallerPc
<1>2. StateOK' BY DEF StateOK
<1>3. HandInv' BY DEF HandInv, InHandPc, RegisteredPc
<1>4. ClientsInv' BY DEF ClientsInv, HandInv, InHandPc, RegisteredPc, ServingClients, RunPc
<1>5. ShutInv' BY DEF ShutInv, ClientsInv, HandInv, InHandPc, RegisteredPc, ServingClients, RunPc,
      ShutPc, StateOK
<1>6. ExitInv' BY DEF ExitInv, ServingClients, RunPc, AfterExit, AfterBegin, AfterJoin, AfterNotify,
      AfterAnnounce
<1>7. PublishInv' BY DEF PublishInv, PublishedPc
<1>8. DoneInv' BY DEF DoneInv
<1>9. EventsInv' BY DEF EventsInv, PublishInv, DoneInv
<1>10. QED BY <1>1, <1>2, <1>3, <1>4, <1>5, <1>6, <1>7, <1>8, <1>9

\* A thread calls stop, or drops the proxy.
LEMMA StopCalledKeeps ==
  ASSUME ListenerInv, NEW t \in Threads, StopCalled(t)
  PROVE  ListenerInv'
<1> USE OwnedListenerAssumption DEF ListenerInv, PcOK, StopCalled, CanCall, Goto, At, Threads, flags,
      sockets, owner
<1>1. PcOK' BY DEF AcceptPc, ClientPc, CallerPc
<1>2. StateOK' BY DEF StateOK
<1>3. HandInv' BY DEF HandInv, InHandPc, RegisteredPc
<1>4. ClientsInv' BY DEF ClientsInv, HandInv, InHandPc, RegisteredPc, ServingClients, RunPc
<1>5. ShutInv' BY DEF ShutInv, ClientsInv, HandInv, InHandPc, RegisteredPc, ServingClients, RunPc,
      ShutPc, StateOK
<1>6. ExitInv' BY DEF ExitInv, ServingClients, RunPc, AfterExit, AfterBegin, AfterJoin, AfterNotify,
      AfterAnnounce
<1>7. PublishInv' BY DEF PublishInv, PublishedPc
<1>8. DoneInv' BY DEF DoneInv
<1>9. EventsInv' BY DEF EventsInv, PublishInv, DoneInv
<1>10. QED BY <1>1, <1>2, <1>3, <1>4, <1>5, <1>6, <1>7, <1>8, <1>9

\* The last owner goes.
LEMMA DroppedKeeps ==
  ASSUME ListenerInv, NEW t \in Threads, Dropped(t)
  PROVE  ListenerInv'
<1> USE OwnedListenerAssumption DEF ListenerInv, PcOK, Dropped, CanCall, Goto, At, Threads, flags,
      sockets, owner
<1>1. PcOK' BY DEF AcceptPc, ClientPc, CallerPc
<1>2. StateOK' BY DEF StateOK
<1>3. HandInv' BY DEF HandInv, InHandPc, RegisteredPc
<1>4. ClientsInv' BY DEF ClientsInv, HandInv, InHandPc, RegisteredPc, ServingClients, RunPc
<1>5. ShutInv' BY DEF ShutInv, ClientsInv, HandInv, InHandPc, RegisteredPc, ServingClients, RunPc,
      ShutPc, StateOK
<1>6. ExitInv' BY DEF ExitInv, ServingClients, RunPc, AfterExit, AfterBegin, AfterJoin, AfterNotify,
      AfterAnnounce
<1>7. PublishInv' BY DEF PublishInv, PublishedPc
<1>8. DoneInv' BY DEF DoneInv
<1>9. EventsInv' BY DEF EventsInv, PublishInv, DoneInv
<1>10. QED BY <1>1, <1>2, <1>3, <1>4, <1>5, <1>6, <1>7, <1>8, <1>9

\* The snapshot holds every registered client.
LEMMA BeginStopKeeps ==
  ASSUME ListenerInv, NEW t \in Threads, BeginStop(t)
  PROVE  ListenerInv'
<1> USE OwnedListenerAssumption DEF ListenerInv, PcOK, BeginStop, Goto, At, Threads, flags, sockets,
      owner
<1>a. PICK f \in {"fail", "exit", "stop"} : pc[t] = <<f, "begin">> /\ (f # "stop" => t = Accept)
  BY StopFlow
<1>b. pc' = [pc EXCEPT ![t] = <<f, "shut">>]
  <2>1. PICK q : q = pc[t] OBVIOUS
  <2>2. [q EXCEPT ![2] = "shut"] = <<f, "shut">> BY <1>a, <2>1, SecondOfPair
  <2>3. pc' = [pc EXCEPT ![t] = [q EXCEPT ![2] = "shut"]] BY <2>1
  <2>4. QED BY <2>2, <2>3
<1>1. PcOK' BY <1>a, <1>b DEF AcceptPc, ClientPc, CallerPc
<1>2. StateOK' BY <1>a, <1>b DEF StateOK
<1>3. HandInv' BY <1>a, <1>b DEF HandInv, InHandPc, RegisteredPc
<1>4. ClientsInv' BY <1>a, <1>b DEF ClientsInv, HandInv, InHandPc, RegisteredPc, ServingClients, RunPc
<1>5. ShutInv' BY <1>a, <1>b DEF ShutInv, ClientsInv, HandInv, InHandPc, RegisteredPc, ServingClients,
      RunPc, ShutPc, StateOK
<1>6. ExitInv' BY <1>a, <1>b DEF ExitInv, ServingClients, RunPc, AfterExit, AfterBegin, AfterJoin,
      AfterNotify, AfterAnnounce
<1>7. PublishInv' BY <1>a, <1>b DEF PublishInv, PublishedPc
<1>8. DoneInv' BY <1>a, <1>b DEF DoneInv
<1>9. EventsInv' BY <1>a, <1>b DEF EventsInv, PublishInv, DoneInv
<1>10. QED BY <1>1, <1>2, <1>3, <1>4, <1>5, <1>6, <1>7, <1>8, <1>9

\* The snapshot is shut, so nobody in it is open any more.
LEMMA ShutdownControlsKeeps ==
  ASSUME ListenerInv, NEW t \in Threads, ShutdownControls(t)
  PROVE  ListenerInv'
<1> USE OwnedListenerAssumption DEF ListenerInv, PcOK, ShutdownControls, Goto, At, Threads, flags,
      sockets, owner
<1>a. PICK f \in {"fail", "exit", "stop"} : pc[t] = <<f, "shut">> /\ (f # "stop" => t = Accept)
  BY StopFlow
<1>b. PICK r : /\ pc' = [pc EXCEPT ![t] = <<f, r>>]
               /\ r = CASE f = "stop" -> "announce" [] f = "fail" -> "notify" [] f = "exit" -> "join"
  <2>1. PICK q : q = pc[t] OBVIOUS
  <2>2. PICK r : r = CASE pc[t][1] = "stop" -> "announce"
                       [] pc[t][1] = "fail" -> "notify"
                       [] pc[t][1] = "exit" -> "join"
    OBVIOUS
  <2>3. [q EXCEPT ![2] = r] = <<f, r>> BY <1>a, <2>1, SecondOfPair
  <2>4. pc' = [pc EXCEPT ![t] = [q EXCEPT ![2] = r]] BY <2>1, <2>2
  <2>5. pc[t][1] = f BY <1>a
  <2>6. QED BY <2>2, <2>3, <2>4, <2>5
<1>1. PcOK' BY <1>a, <1>b DEF AcceptPc, ClientPc, CallerPc
<1>2. StateOK' BY <1>a, <1>b DEF StateOK
<1>3. HandInv' BY <1>a, <1>b DEF HandInv, InHandPc, RegisteredPc
<1>4. ClientsInv' BY <1>a, <1>b DEF ClientsInv, HandInv, InHandPc, RegisteredPc, ServingClients, RunPc
<1>5. ShutInv' BY <1>a, <1>b DEF ShutInv, ClientsInv, HandInv, InHandPc, RegisteredPc, ServingClients,
      RunPc, ShutPc, StateOK
<1>6. ExitInv' BY <1>a, <1>b DEF ExitInv, ServingClients, RunPc, AfterExit, AfterBegin, AfterJoin,
      AfterNotify, AfterAnnounce
<1>7. PublishInv' BY <1>a, <1>b DEF PublishInv, PublishedPc
<1>8. DoneInv' BY <1>a, <1>b DEF DoneInv
<1>9. EventsInv' BY <1>a, <1>b DEF EventsInv, PublishInv, DoneInv
<1>10. QED BY <1>1, <1>2, <1>3, <1>4, <1>5, <1>6, <1>7, <1>8, <1>9

\* The first announcer emits Stopping, after Listening and before the end.
LEMMA AnnounceFirstKeeps ==
  ASSUME ListenerInv, NEW t \in Threads, AnnounceFirst(t)
  PROVE  ListenerInv'
<1> USE OwnedListenerAssumption DEF ListenerInv, PcOK, AnnounceFirst, Goto, At, Threads, flags, sockets,
      owner
<1>a. PICK f \in {"fail", "exit", "stop"} : pc[t] = <<f, "announce">> /\ (f # "stop" => t = Accept)
  BY StopFlow
<1>1. PcOK' BY <1>a DEF AcceptPc, ClientPc, CallerPc
<1>2. StateOK' BY <1>a DEF StateOK
<1>3. HandInv' BY <1>a DEF HandInv, InHandPc, RegisteredPc
<1>4. ClientsInv' BY <1>a DEF ClientsInv, HandInv, InHandPc, RegisteredPc, ServingClients, RunPc
<1>5. ShutInv' BY <1>a DEF ShutInv, ClientsInv, HandInv, InHandPc, RegisteredPc, ServingClients, RunPc,
      ShutPc, StateOK
<1>6. ExitInv' BY <1>a DEF ExitInv, ServingClients, RunPc, AfterExit, AfterBegin, AfterJoin,
      AfterNotify, AfterAnnounce
<1>7. PublishInv' BY <1>a DEF PublishInv, PublishedPc
<1>8. DoneInv' BY <1>a DEF DoneInv
<1>9. EventsInv'
  <2>1. ~completed
    BY DEF DoneInv, ExitInv, AfterAnnounce
  <2>2. published
    BY <1>a DEF PublishInv, PublishedPc
  <2>3. events = <<"Listening">>
    BY <2>1, <2>2 DEF EventsInv
  <2>4. events' = <<"Listening", "Stopping">>
    BY <2>3, AppendToOne
  <2>5. QED BY <2>1, <2>2, <2>4 DEF EventsInv
<1>10. QED BY <1>1, <1>2, <1>3, <1>4, <1>5, <1>6, <1>7, <1>8, <1>9

\* The emitter returns.
LEMMA AnnounceEmittedKeeps ==
  ASSUME ListenerInv, NEW t \in Threads, AnnounceEmitted(t)
  PROVE  ListenerInv'
<1> USE OwnedListenerAssumption DEF ListenerInv, PcOK, AnnounceEmitted, Announced, Goto, At, Threads,
      flags, sockets, owner
<1>a. PICK f \in {"fail", "exit", "stop"} : pc[t] = <<f, "announce">> /\ (f # "stop" => t = Accept)
  BY StopFlow
<1>b. PICK q : /\ pc' = [pc EXCEPT ![t] = q]
               /\ q = CASE f = "fail" -> <<"accept", "exit">>
                         [] f = "exit" -> <<"exit", "complete">>
                         [] f = "stop" -> <<"stop", "join">>
  <2>1. PICK q : q = CASE pc[t][1] = "fail" -> <<"accept", "exit">>
                       [] pc[t][1] = "exit" -> <<"exit", "complete">>
                       [] pc[t][1] = "stop" -> <<"stop", "join">>
    OBVIOUS
  <2>2. pc' = [pc EXCEPT ![t] = q] BY <2>1
  <2>3. pc[t][1] = f BY <1>a
  <2>4. QED BY <2>1, <2>2, <2>3
<1>1. PcOK' BY <1>a, <1>b DEF AcceptPc, ClientPc, CallerPc
<1>2. StateOK' BY <1>a, <1>b DEF StateOK
<1>3. HandInv' BY <1>a, <1>b DEF HandInv, InHandPc, RegisteredPc
<1>4. ClientsInv' BY <1>a, <1>b DEF ClientsInv, HandInv, InHandPc, RegisteredPc, ServingClients, RunPc
<1>5. ShutInv' BY <1>a, <1>b DEF ShutInv, ClientsInv, HandInv, InHandPc, RegisteredPc, ServingClients,
      RunPc, ShutPc, StateOK
<1>6. ExitInv' BY <1>a, <1>b DEF ExitInv, ServingClients, RunPc, AfterExit, AfterBegin, AfterJoin,
      AfterNotify, AfterAnnounce
<1>7. PublishInv' BY <1>a, <1>b DEF PublishInv, PublishedPc
<1>8. DoneInv' BY <1>a, <1>b DEF DoneInv
<1>9. EventsInv' BY <1>a, <1>b DEF EventsInv, PublishInv, DoneInv
<1>10. QED BY <1>1, <1>2, <1>3, <1>4, <1>5, <1>6, <1>7, <1>8, <1>9

\* The others return when it was emitted.
LEMMA AnnounceSeenKeeps ==
  ASSUME ListenerInv, NEW t \in Threads, AnnounceSeen(t)
  PROVE  ListenerInv'
<1> USE OwnedListenerAssumption DEF ListenerInv, PcOK, AnnounceSeen, Announced, Goto, At, Threads,
      flags, sockets, owner
<1>a. PICK f \in {"fail", "exit", "stop"} : pc[t] = <<f, "announce">> /\ (f # "stop" => t = Accept)
  BY StopFlow
<1>b. PICK q : /\ pc' = [pc EXCEPT ![t] = q]
               /\ q = CASE f = "fail" -> <<"accept", "exit">>
                         [] f = "exit" -> <<"exit", "complete">>
                         [] f = "stop" -> <<"stop", "join">>
  <2>1. PICK q : q = CASE pc[t][1] = "fail" -> <<"accept", "exit">>
                       [] pc[t][1] = "exit" -> <<"exit", "complete">>
                       [] pc[t][1] = "stop" -> <<"stop", "join">>
    OBVIOUS
  <2>2. pc' = [pc EXCEPT ![t] = q] BY <2>1
  <2>3. pc[t][1] = f BY <1>a
  <2>4. QED BY <2>1, <2>2, <2>3
<1>1. PcOK' BY <1>a, <1>b DEF AcceptPc, ClientPc, CallerPc
<1>2. StateOK' BY <1>a, <1>b DEF StateOK
<1>3. HandInv' BY <1>a, <1>b DEF HandInv, InHandPc, RegisteredPc
<1>4. ClientsInv' BY <1>a, <1>b DEF ClientsInv, HandInv, InHandPc, RegisteredPc, ServingClients, RunPc
<1>5. ShutInv' BY <1>a, <1>b DEF ShutInv, ClientsInv, HandInv, InHandPc, RegisteredPc, ServingClients,
      RunPc, ShutPc, StateOK
<1>6. ExitInv' BY <1>a, <1>b DEF ExitInv, ServingClients, RunPc, AfterExit, AfterBegin, AfterJoin,
      AfterNotify, AfterAnnounce
<1>7. PublishInv' BY <1>a, <1>b DEF PublishInv, PublishedPc
<1>8. DoneInv' BY <1>a, <1>b DEF DoneInv
<1>9. EventsInv' BY <1>a, <1>b DEF EventsInv, PublishInv, DoneInv
<1>10. QED BY <1>1, <1>2, <1>3, <1>4, <1>5, <1>6, <1>7, <1>8, <1>9

\* Threads of the proxy do not join it.
LEMMA OwnedReturnKeeps ==
  ASSUME ListenerInv, NEW t \in Threads, OwnedReturn(t)
  PROVE  ListenerInv'
<1> USE OwnedListenerAssumption DEF ListenerInv, PcOK, OwnedReturn, Owned, Goto, At, Threads, flags,
      sockets, owner
<1>1. PcOK' BY DEF AcceptPc, ClientPc, CallerPc
<1>2. StateOK' BY DEF StateOK
<1>3. HandInv'
  <2>1. CASE t = Accept
    BY <2>1 DEF HandInv, InHandPc, RegisteredPc, StateOK
  <2>2. CASE t # Accept
    BY <2>2 DEF HandInv, InHandPc, RegisteredPc, StateOK
  <2>3. QED BY <2>1, <2>2
<1>4. ClientsInv' BY DEF ClientsInv, HandInv, InHandPc, RegisteredPc, ServingClients, RunPc
<1>5. ShutInv' BY DEF ShutInv, ClientsInv, HandInv, InHandPc, RegisteredPc, ServingClients, RunPc,
      ShutPc, StateOK
<1>6. ExitInv' BY DEF ExitInv, ServingClients, RunPc, AfterExit, AfterBegin, AfterJoin, AfterNotify,
      AfterAnnounce
<1>7. PublishInv' BY DEF PublishInv, PublishedPc
<1>8. DoneInv' BY DEF DoneInv
<1>9. EventsInv' BY DEF EventsInv, PublishInv, DoneInv
<1>10. QED BY <1>1, <1>2, <1>3, <1>4, <1>5, <1>6, <1>7, <1>8, <1>9

\* One caller joins the accept thread.
LEMMA TakeHandleKeeps ==
  ASSUME ListenerInv, NEW t \in Threads, TakeHandle(t)
  PROVE  ListenerInv'
<1> USE OwnedListenerAssumption DEF ListenerInv, PcOK, TakeHandle, Joinable, Owned, Goto, At, Threads,
      flags, sockets, owner
<1>1. PcOK' BY DEF AcceptPc, ClientPc, CallerPc
<1>2. StateOK' BY DEF StateOK
<1>3. HandInv' BY DEF HandInv, InHandPc, RegisteredPc
<1>4. ClientsInv' BY DEF ClientsInv, HandInv, InHandPc, RegisteredPc, ServingClients, RunPc
<1>5. ShutInv' BY DEF ShutInv, ClientsInv, HandInv, InHandPc, RegisteredPc, ServingClients, RunPc,
      ShutPc, StateOK
<1>6. ExitInv' BY DEF ExitInv, ServingClients, RunPc, AfterExit, AfterBegin, AfterJoin, AfterNotify,
      AfterAnnounce
<1>7. PublishInv' BY DEF PublishInv, PublishedPc
<1>8. DoneInv' BY DEF DoneInv
<1>9. EventsInv' BY DEF EventsInv, PublishInv, DoneInv
<1>10. QED BY <1>1, <1>2, <1>3, <1>4, <1>5, <1>6, <1>7, <1>8, <1>9

\* The joined thread has completed the stop.
LEMMA JoinedKeeps ==
  ASSUME ListenerInv, NEW t \in Threads, Joined(t)
  PROVE  ListenerInv'
<1> USE OwnedListenerAssumption DEF ListenerInv, PcOK, Joined, Goto, At, Threads, flags, sockets, owner
<1>1. PcOK' BY DEF AcceptPc, ClientPc, CallerPc
<1>2. StateOK' BY DEF StateOK
<1>3. HandInv' BY DEF HandInv, InHandPc, RegisteredPc
<1>4. ClientsInv' BY DEF ClientsInv, HandInv, InHandPc, RegisteredPc, ServingClients, RunPc
<1>5. ShutInv' BY DEF ShutInv, ClientsInv, HandInv, InHandPc, RegisteredPc, ServingClients, RunPc,
      ShutPc, StateOK
<1>6. ExitInv' BY DEF ExitInv, ServingClients, RunPc, AfterExit, AfterBegin, AfterJoin, AfterNotify,
      AfterAnnounce
<1>7. PublishInv' BY DEF PublishInv, PublishedPc
<1>8. DoneInv' BY DEF DoneInv
<1>9. EventsInv' BY DEF EventsInv, PublishInv, DoneInv
<1>10. QED BY <1>1, <1>2, <1>3, <1>4, <1>5, <1>6, <1>7, <1>8, <1>9

\* The handle is gone only after the accept thread ended.
LEMMA AlreadyJoinedKeeps ==
  ASSUME ListenerInv, NEW t \in Threads, AlreadyJoined(t)
  PROVE  ListenerInv'
<1> USE OwnedListenerAssumption DEF ListenerInv, PcOK, AlreadyJoined, Joinable, Owned, Goto, At,
      Threads, flags, sockets, owner
<1>1. PcOK' BY DEF AcceptPc, ClientPc, CallerPc
<1>2. StateOK' BY DEF StateOK
<1>3. HandInv' BY DEF HandInv, InHandPc, RegisteredPc
<1>4. ClientsInv' BY DEF ClientsInv, HandInv, InHandPc, RegisteredPc, ServingClients, RunPc
<1>5. ShutInv' BY DEF ShutInv, ClientsInv, HandInv, InHandPc, RegisteredPc, ServingClients, RunPc,
      ShutPc, StateOK
<1>6. ExitInv' BY DEF ExitInv, ServingClients, RunPc, AfterExit, AfterBegin, AfterJoin, AfterNotify,
      AfterAnnounce
<1>7. PublishInv' BY DEF PublishInv, PublishedPc
<1>8. DoneInv' BY DEF DoneInv
<1>9. EventsInv' BY DEF EventsInv, PublishInv, DoneInv
<1>10. QED BY <1>1, <1>2, <1>3, <1>4, <1>5, <1>6, <1>7, <1>8, <1>9

\* The accept thread reports the end, callers find it reported.
LEMMA CompleteKeeps ==
  ASSUME ListenerInv, NEW t \in Threads, Complete(t)
  PROVE  ListenerInv'
<1> USE OwnedListenerAssumption DEF ListenerInv, PcOK, Complete, In, Goto, At, Threads, flags, sockets,
      owner
<1>a. \/ t = Accept /\ pc[t] = <<"exit", "complete">>
      \/ t \in Callers /\ pc[t] = <<"stop", "complete">>
  BY PcSets DEF AllPc, AcceptPc, ClientPc, CallerPc
<1>1. PcOK' BY <1>a DEF AcceptPc, ClientPc, CallerPc
<1>2. StateOK' BY <1>a DEF StateOK
<1>3. HandInv'
  <2>1. CASE t = Accept
    BY <1>a, <2>1 DEF HandInv, InHandPc, RegisteredPc
  <2>2. CASE t # Accept
    BY <1>a, <2>2 DEF HandInv, InHandPc, RegisteredPc, StateOK
  <2>3. QED BY <2>1, <2>2
<1>4. ClientsInv' BY <1>a DEF ClientsInv, HandInv, InHandPc, RegisteredPc, ServingClients, RunPc
<1>5. ShutInv' BY <1>a DEF ShutInv, ClientsInv, HandInv, InHandPc, RegisteredPc, ServingClients, RunPc,
      ShutPc, StateOK
<1>6. ExitInv' BY <1>a DEF ExitInv, ServingClients, RunPc, AfterExit, AfterBegin, AfterJoin,
      AfterNotify, AfterAnnounce
<1>7. PublishInv' BY <1>a DEF PublishInv, PublishedPc
<1>8. DoneInv' BY <1>a DEF DoneInv
<1>9. EventsInv'
  <2>1. CASE completed
    BY <2>1 DEF EventsInv
  <2>2. CASE ~completed
    <3>1. t = Accept /\ announce # "pending" /\ published
      BY <1>a, <2>2 DEF DoneInv, ExitInv, AfterAnnounce, PublishInv
    <3>2. events = <<"Listening", "Stopping">>
      BY <2>2, <3>1 DEF EventsInv
    <3>3. events' = <<"Listening", "Stopping", reason>>
      BY <2>2, <3>1, <3>2, AppendToTwo
    <3>4. QED BY <3>1, <3>3 DEF EventsInv
  <2>3. QED BY <2>1, <2>2 DEF DoneInv, StateOK
<1>10. QED BY <1>1, <1>2, <1>3, <1>4, <1>5, <1>6, <1>7, <1>8, <1>9

\* The reaper joins what was handed to it.
LEMMA ReapKeeps ==
  ASSUME ListenerInv, Reap
  PROVE  ListenerInv'
<1> USE OwnedListenerAssumption DEF ListenerInv, PcOK, Reap, Goto, At, Threads, flags, sockets, owner
<1>1. PcOK' BY DEF AcceptPc, ClientPc, CallerPc
<1>2. StateOK' BY DEF StateOK
<1>3. HandInv' BY DEF HandInv, InHandPc, RegisteredPc
<1>4. ClientsInv' BY DEF ClientsInv, HandInv, InHandPc, RegisteredPc, ServingClients, RunPc
<1>5. ShutInv' BY DEF ShutInv, ClientsInv, HandInv, InHandPc, RegisteredPc, ServingClients, RunPc,
      ShutPc, StateOK
<1>6. ExitInv' BY DEF ExitInv, ServingClients, RunPc, AfterExit, AfterBegin, AfterJoin, AfterNotify,
      AfterAnnounce
<1>7. PublishInv' BY DEF PublishInv, PublishedPc
<1>8. DoneInv' BY DEF DoneInv
<1>9. EventsInv' BY DEF EventsInv, PublishInv, DoneInv
<1>10. QED BY <1>1, <1>2, <1>3, <1>4, <1>5, <1>6, <1>7, <1>8, <1>9

\* Every step of every thread keeps the invariant.
LEMMA NextKeeps == ListenerInv /\ [ListenerNext]_listenerVars => ListenerInv'
<1> SUFFICES ASSUME ListenerInv, [ListenerNext]_listenerVars PROVE ListenerInv' OBVIOUS
<1>1. CASE PublishListening BY <1>1, PublishListeningKeeps
<1>2. CASE \E c \in Clients : AcceptClient(c) \/ WorkerEnds(c)
  BY <1>2, AcceptClientKeeps, WorkerEndsKeeps
<1>3. CASE AcceptFails BY <1>3, AcceptFailsKeeps
<1>4. CASE AcceptStep
  BY <1>4, AcceptCheckKeeps, RegisterKeeps, SpawnKeeps, SpawnFailsKeeps, OverloadKeeps,
     RejectionDoneKeeps, LoopEndsKeeps, FailCancelKeeps, ExitKeeps, JoinWorkersKeeps, NotifyKeeps,
     WaitForListeningKeeps
  DEF AcceptStep
<1>5. CASE \E t \in Threads : StopCalled(t) \/ Dropped(t) \/ StopStep(t)
  <2>1. PICK t \in Threads : StopCalled(t) \/ Dropped(t) \/ StopStep(t) BY <1>5
  <2>2. CASE StopCalled(t) \/ Dropped(t) BY <2>2, StopCalledKeeps, DroppedKeeps
  <2>3. CASE StopStep(t)
    BY <2>3, BeginStopKeeps, ShutdownControlsKeeps, AnnounceFirstKeeps, AnnounceEmittedKeeps,
       AnnounceSeenKeeps, OwnedReturnKeeps, TakeHandleKeeps, JoinedKeeps, AlreadyJoinedKeeps,
       CompleteKeeps
    DEF StopStep
  <2>4. QED BY <2>1, <2>2, <2>3
<1>6. CASE Reap BY <1>6, ReapKeeps
<1>7. CASE UNCHANGED listenerVars
  BY <1>7 DEF listenerVars, flags, sockets, owner, ListenerInv, PcOK, StateOK, HandInv, ClientsInv, ShutInv,
     ExitInv, PublishInv, DoneInv, EventsInv, ServingClients
<1>8. QED BY <1>1, <1>2, <1>3, <1>4, <1>5, <1>6, <1>7 DEF ListenerNext

\* The invariant says what a stop promises.
LEMMA ListenerInvIsSafe == ListenerInv => ListenerSafety
<1> SUFFICES ASSUME ListenerInv PROVE ListenerSafety OBVIOUS
<1> USE OwnedListenerAssumption DEF ListenerInv
<1>1. Running = ServingClients
  BY PcSets DEF Running, ServingClients, PcOK
<1>2. completed => /\ ServingClients = {} /\ streams = {} /\ open = {}
                   /\ ~tls /\ cancelled /\ published /\ announce # "pending"
  <2> SUFFICES ASSUME completed
               PROVE  /\ ServingClients = {} /\ streams = {} /\ open = {}
                      /\ ~tls /\ cancelled /\ published /\ announce # "pending"
    OBVIOUS
  <2>1. pc[Accept] = <<"idle", "ended">> BY DEF DoneInv
  <2>2. cur = NoClient BY <2>1 DEF HandInv, InHandPc, RegisteredPc
  <2>3. ServingClients = {} /\ ~tls /\ cancelled /\ announce = "emitted"
    BY <2>1 DEF ExitInv, AfterExit, AfterBegin, AfterJoin, AfterNotify, AfterAnnounce
  <2>4. streams = {} /\ open = {}
    BY <2>1, <2>2, <2>3 DEF ClientsInv, RegisteredPc, StateOK
  <2>5. QED BY <2>3, <2>4 DEF PublishInv
<1>3. StopJoinsAll
  BY <1>1, <1>2 DEF StopJoinsAll, At, DoneInv, EventsInv
<1>4. LifecycleOrder
  BY <1>1, <1>2 DEF LifecycleOrder, EventsInv, ExitInv
<1>5. NoOpenClientAfterStop
  <2> SUFFICES ASSUME stopping, \A t \in Threads : ~In(t, "shut"), NEW c \in open, c # cur
               PROVE  FALSE
    BY DEF NoOpenClientAfterStop
  <2>1. c \in streams BY DEF ClientsInv
  <2>2. PICK t \in Threads : pc[t] \in ShutPc BY <2>1 DEF ShutInv
  <2>3. In(t, "shut") BY <2>2, PcSets DEF In, PcOK, AllPc
  <2>4. QED BY <2>3
<1>6. QED BY <1>3, <1>4, <1>5 DEF ListenerSafety

\* However many threads stop, drop or use the proxy, and in whatever order they run: a stop that
\* returned to an outside caller left no worker, socket or registration behind, the observer saw
\* the three lifecycle events in order and the reason of the cancel() that was first, and no
\* registered client outlives the shutdown of the sockets (listener.rs, server.rs).
THEOREM ListenerSafe == ListenerSpec => []ListenerSafety
<1>1. ListenerSpec => []ListenerInv BY InitInv, NextKeeps, PTL DEF ListenerSpec
<1>2. QED BY <1>1, ListenerInvIsSafe, PTL

----------------------------------------------------------------------------
(* The refinement.                                                          *)

\* A step that leaves the lifecycle's variables alone.
LEMMA Quiet ==
  ASSUME UNCHANGED <<completed, stopping, streams>>
  PROVE  UNCHANGED Lifecycle!abstractVars
BY DEF Lifecycle!abstractVars

\* Every step of the listener is a step of the lifecycle it promises, or none.
LEMMA StepRefines ==
  ASSUME ListenerInv, [ListenerNext]_listenerVars
  PROVE  [Lifecycle!AbstractNext]_(Lifecycle!abstractVars)
<1> USE OwnedListenerAssumption DEF ListenerInv, flags, sockets, owner
<1>1. CASE Register
  <2>1. cur \in Clients /\ cur \notin streams /\ ~completed
    BY <1>1 DEF Register, At, HandInv, ClientsInv, DoneInv, InHandPc, RegisteredPc, StateOK,
       ServingClients, RunPc
  <2>2. CASE ~stopping
    <3>1. Lifecycle!Admit(cur)
      BY <1>1, <2>1, <2>2 DEF Register, Lifecycle!Admit
    <3>2. QED BY <2>1, <3>1 DEF Lifecycle!AbstractNext
  <2>3. CASE stopping
    BY <1>1, <2>3, Quiet DEF Register
  <2>4. QED BY <2>2, <2>3
<1>2. ASSUME NEW c \in Clients, streams' = streams \ {c}, UNCHANGED <<completed, stopping>>
      PROVE  [Lifecycle!AbstractNext]_(Lifecycle!abstractVars)
  <2>1. CASE c \in streams
    <3>1. Lifecycle!Release(c)
      BY <1>2, <2>1 DEF Lifecycle!Release
    <3>2. QED BY <3>1 DEF Lifecycle!AbstractNext
  <2>2. CASE c \notin streams
    BY <1>2, <2>2, Quiet
  <2>3. QED BY <2>1, <2>2
<1>3. CASE SpawnFails \/ RejectionDone
  <2>1. cur \in Clients
    BY <1>3 DEF SpawnFails, RejectionDone, At, HandInv, InHandPc, RegisteredPc, StateOK
  <2>2. QED BY <1>2, <1>3, <2>1 DEF SpawnFails, RejectionDone
<1>4. CASE \E c \in Clients : WorkerEnds(c)
  BY <1>2, <1>4 DEF WorkerEnds
<1>5. ASSUME NEW t \in Threads, BeginStop(t)
      PROVE  [Lifecycle!AbstractNext]_(Lifecycle!abstractVars)
  <2>1. CASE stopping
    BY <1>5, <2>1, Quiet DEF BeginStop, StateOK
  <2>2. CASE ~stopping
    <3>1. ~completed
      BY <2>2 DEF DoneInv, ExitInv, AfterBegin, AfterJoin, AfterNotify, AfterAnnounce
    <3>2. Lifecycle!BeginStop
      BY <1>5, <2>2, <3>1 DEF BeginStop, Lifecycle!BeginStop
    <3>3. QED BY <3>2 DEF Lifecycle!AbstractNext
  <2>3. QED BY <2>1, <2>2
<1>6. ASSUME NEW t \in Threads, Complete(t)
      PROVE  [Lifecycle!AbstractNext]_(Lifecycle!abstractVars)
  <2>1. CASE completed
    BY <1>6, <2>1, Quiet DEF Complete, StateOK
  <2>2. CASE ~completed
    <3>1. t = Accept /\ pc[t] = <<"exit", "complete">>
      <4>1. pc[t] \in AllPc /\ pc[t][2] = "complete" BY <1>6 DEF Complete, In, PcOK, AllPc
      <4>2. t \notin Callers BY <2>2, <4>1 DEF DoneInv, PcOK, CallerPc
      <4>3. t \notin Clients BY <4>1 DEF PcOK, ClientPc
      <4>4. QED BY <4>1, <4>2, <4>3, PcSets DEF Threads, PcOK, AcceptPc
    <3>2. ServingClients = {} /\ stopping
      BY <3>1 DEF ExitInv, AfterBegin, AfterJoin, AfterNotify, AfterAnnounce
    <3>3. streams = {}
      BY <3>1, <3>2 DEF ClientsInv, RegisteredPc
    <3>4. Lifecycle!EndStop
      BY <1>6, <2>2, <3>2, <3>3 DEF Complete, Lifecycle!EndStop
    <3>5. QED BY <3>4 DEF Lifecycle!AbstractNext
  <2>3. QED BY <2>1, <2>2
<1>7. ASSUME NEW t \in Threads, StopCalled(t) \/ Dropped(t) \/ StopStep(t)
      PROVE  [Lifecycle!AbstractNext]_(Lifecycle!abstractVars)
  <2>1. CASE BeginStop(t) BY <1>5, <2>1
  <2>2. CASE Complete(t) BY <1>6, <2>2
  <2>3. CASE ~BeginStop(t) /\ ~Complete(t)
    BY <1>7, <2>3, Quiet
    DEF StopCalled, Dropped, StopStep, ShutdownControls, AnnounceFirst, AnnounceEmitted,
        AnnounceSeen, OwnedReturn, TakeHandle, Joined, AlreadyJoined
  <2>4. QED BY <2>1, <2>2, <2>3
<1>8. CASE \E c \in Clients : AcceptClient(c)
  BY <1>8, Quiet DEF AcceptClient
<1>9. CASE AcceptStep
  <2>1. CASE ~(Register \/ SpawnFails \/ RejectionDone)
    BY <1>9, <2>1, Quiet
    DEF AcceptStep, AcceptCheck, Spawn, Overload, LoopEnds, FailCancel, Exit, JoinWorkers, Notify,
        WaitForListening
  <2>2. QED BY <1>1, <1>3, <2>1
<1>10. CASE PublishListening \/ AcceptFails \/ Reap \/ UNCHANGED listenerVars
  BY <1>10, Quiet DEF PublishListening, AcceptFails, Reap, listenerVars
<1>11. QED BY <1>4, <1>7, <1>8, <1>9, <1>10 DEF ListenerNext

\* The listener implements the safety part of its lifecycle: clients are admitted only while it
\* is open, the first begin_stop ends admission for good, and it is reported stopped only when
\* no admitted client is left.
THEOREM ListenerImplementsLifecycle ==
  ListenerSpec => Lifecycle!AbstractInit /\ [][Lifecycle!AbstractNext]_(Lifecycle!abstractVars)
<1>1. ListenerSpec => []ListenerInv BY InitInv, NextKeeps, PTL DEF ListenerSpec
<1>2. ListenerInit => Lifecycle!AbstractInit BY DEF ListenerInit, Lifecycle!AbstractInit
<1>3. ListenerInv /\ [ListenerNext]_listenerVars => [Lifecycle!AbstractNext]_(Lifecycle!abstractVars) BY StepRefines
<1>4. QED BY <1>1, <1>2, <1>3, PTL DEF ListenerSpec

----------------------------------------------------------------------------
(***************************************************************************)
(* The requests.                                                           *)
(*                                                                         *)
(* What a request may do next is decided by steps that lie far behind it:  *)
(* the dial relies on a host admitted and a rate charged three steps       *)
(* before, an error page on nothing having been written.  The inductive    *)
(* invariant therefore says of every place of a handler what has been      *)
(* established on the way to it: which rights the request has (Rights),    *)
(* and what the client and the observer have seen of it (Report).          *)
(***************************************************************************)

Heads == {"100", "101", "200", "origin", "400", "403", "407", "408", "413", "417", "429",
          "431", "500", "501", "502", "503"}
Phases == {"Accepted", "Rejected", "BackendFailed", "Completed"}

\* The places of the handlers.
EntryPlaces == {"idle", "auth", "target"}
HnsPlaces == {"direct", "connect", "identity", "tls", "inner", "http", "body", "call", "copy",
              "upgrade", "tunnelCall"}
DialPlaces == {"dialConnect", "dialRequest", "dialUpgrade"}
IcannPlaces == {"icannHttp", "icannConnect", "icannRequest", "icannUpgrade", "icannTunnel",
                "icannPump", "icannSend", "icannHead", "icannBody", "icannSwitch"}
                    \union DialPlaces
Places == EntryPlaces \union HnsPlaces \union IcannPlaces \union {"pump", "done"}

\* Places where the limiter has counted the request, and places before any contact.
RatedPlaces == {"identity", "tls", "inner", "http", "body", "upgrade", "icannRequest",
                "icannUpgrade"} \union DialPlaces
QuietPlaces == EntryPlaces \union RatedPlaces \union {"direct", "connect", "icannHttp",
    "icannConnect"}
\* Places where the client has seen no final head and the observer no outcome.
OpenPlaces == Places \ {"tls", "copy", "pump", "icannPump", "icannBody", "done"}

Connection ==
    [pc : Places, host : Hosts \union {NoHost}, authed : BOOLEAN, rated : BOOLEAN,
     cert : Hosts \union {NoHost}, main : BOOLEAN, upgrade : BOOLEAN,
     contact : {"none", "backend"} \union PublicAddresses, left : 0..MaxBody,
     sent : Seq(Heads), obs : Seq(Phases), meta : Seq(Heads)]

Authorized(k, m) ==
    k.contact # "none" =>
        /\ k.authed /\ k.rated
        /\ k.contact = "backend" => k.host \in HnsInScope /\ k.cert \in {NoHost, k.host}
        /\ k.contact # "backend" => /\ m = "WholeBrowser" /\ k.contact \in PublicAddresses
                                    /\ k.host \notin HnsInScope

\* What a handler has established when it is at place p.
Rights(k, p, m) ==
    /\ Authorized(k, m)
    /\ p \in {"target"} \union HnsPlaces \union IcannPlaces => k.authed
    /\ p \in RatedPlaces => k.rated
    /\ p \in QuietPlaces => k.contact = "none"
    /\ p \in EntryPlaces => k.cert = NoHost
    /\ p \in HnsPlaces => k.host \in HnsInScope /\ k.cert \in {NoHost, k.host}
    /\ p \in IcannPlaces => m = "WholeBrowser" /\ k.host \notin HnsInScope

\* Nothing final was written, nothing reported.
Unanswered(k) == Final(k) = {}
Unreported(k) == Terminal(k) = {}
Answered(k, head) == \E i \in DOMAIN k.sent : Final(k) = {i} /\ k.sent[i] = head
Reported(k, phase) == \E i \in DOMAIN k.obs : Terminal(k) = {i} /\ k.obs[i] = phase
NoMetadata(k) == k.meta = << >>
\* At most one response was reported, and it is this head.
MetadataOf(k, head) == Len(k.meta) <= 1 /\ \A j \in DOMAIN k.meta : k.meta[j] = head

Untouched(k) == Unanswered(k) /\ Unreported(k) /\ NoMetadata(k) /\ k.left = 0

\* What is true of a connection whose handler returned.
Settled(k) ==
    /\ \A i, j \in Final(k) : i = j
    /\ \A i, j \in Terminal(k) : i = j
    /\ (\E i \in DOMAIN k.obs : k.obs[i] = "Completed") =>
           k.left = 0 /\ \E i \in Final(k) : k.sent[i] \in {"origin", "101", "200"}
    /\ Len(k.meta) <= 1
    /\ k.host \in HnsInScope => \A i \in Final(k), j \in DOMAIN k.meta : k.sent[i] = k.meta[j]

\* What the client and the observer have seen when a handler is at place p.
Report(k, p) ==
    /\ p \in OpenPlaces => Untouched(k)
    /\ p = "tls" => Answered(k, "200") /\ Unreported(k) /\ NoMetadata(k) /\ k.left = 0
    /\ p = "copy" => Answered(k, "origin") /\ Unreported(k) /\ MetadataOf(k, "origin")
    /\ p = "pump" => Answered(k, "101") /\ Unreported(k) /\ NoMetadata(k) /\ k.left = 0
    /\ p = "icannPump" =>
          Answered(k, "200") /\ Reported(k, "Completed") /\ NoMetadata(k) /\ k.left = 0
    /\ p = "icannBody" => Answered(k, "origin") /\ Unreported(k) /\ NoMetadata(k)
    /\ p = "done" => Settled(k)

ConnInv(k, m) == k \in Connection /\ Rights(k, k.pc, m) /\ Report(k, k.pc)

RequestInv == conn \in [Conns -> Connection] /\ \A c \in Conns : ConnInv(conn[c], mode)

------------------------------------------------------------------------------
(* Records: what a step of a handler leaves alone. *)

SameRights(k, j) ==
    /\ j.host = k.host /\ j.authed = k.authed /\ j.rated = k.rated
    /\ j.cert = k.cert /\ j.contact = k.contact
SameReport(k, j) == j.sent = k.sent /\ j.obs = k.obs /\ j.meta = k.meta /\ j.left = k.left

\* j differs from k in its place only.
Moves(k, j, p) == j \in Connection /\ j.pc = p /\ SameRights(k, j) /\ SameReport(k, j)

\* GoOn and Ends change the place only.
LEMMA GoOnMoves ==
    ASSUME NEW k \in Connection, NEW p \in Places
    PROVE  Moves(k, GoOn(k, p), p)
<1>1. PICK j : j = [k EXCEPT !.pc = p] OBVIOUS
<1>2. j \in Connection BY <1>1 DEF Connection
<1>3. j.pc = p BY <1>1 DEF Connection
<1>4. SameRights(k, j) BY <1>1 DEF Connection, SameRights
<1>5. SameReport(k, j) BY <1>1 DEF Connection, SameReport
<1>6. QED BY <1>1, <1>2, <1>3, <1>4, <1>5 DEF GoOn, Moves

LEMMA EndsMoves ==
    ASSUME NEW k \in Connection
    PROVE  Moves(k, Ends(k), "done")
<1>1. "done" \in Places /\ Ends(k) = GoOn(k, "done") BY DEF Places, Ends, GoOn
<1>2. QED BY <1>1, GoOnMoves

\* Appending to a sequence puts one element behind those it has.
LEMMA AppendIs ==
    ASSUME NEW S, NEW s \in Seq(S), NEW x \in S
    PROVE  /\ Append(s, x) \in Seq(S)
           /\ DOMAIN Append(s, x) = DOMAIN s \union {Len(s) + 1}
           /\ Len(s) + 1 \notin DOMAIN s
           /\ \A i \in DOMAIN s : Append(s, x)[i] = s[i]
           /\ Append(s, x)[Len(s) + 1] = x
           /\ Len(Append(s, x)) = Len(s) + 1
<1>0. Len(s) \in Nat /\ DOMAIN s = 1..Len(s) BY LenProperties
<1>1. /\ Append(s, x) \in Seq(S) /\ Len(Append(s, x)) = Len(s) + 1
      /\ \A i \in 1..Len(s) : Append(s, x)[i] = s[i]
      /\ Append(s, x)[Len(s) + 1] = x
  BY AppendProperties
<1>2. DOMAIN Append(s, x) = 1..(Len(s) + 1) BY <1>1, LenProperties
<1>3. 1..(Len(s) + 1) = (1..Len(s)) \union {Len(s) + 1} BY <1>0
<1>4. QED BY <1>0, <1>1, <1>2, <1>3

\* Write puts one head behind those sent, and changes nothing else.
LEMMA WriteIs ==
    ASSUME NEW k \in Connection, NEW head \in Heads
    PROVE  LET j == Write(k, head) IN
           /\ j \in Connection /\ j.pc = k.pc /\ SameRights(k, j)
           /\ j.sent = Append(k.sent, head)
           /\ j.obs = k.obs /\ j.meta = k.meta /\ j.left = k.left /\ j.main = k.main
<1>0. k.sent \in Seq(Heads) BY DEF Connection
<1>1. PICK s : s = Append(k.sent, head) OBVIOUS
<1>2. s \in Seq(Heads) BY <1>0, <1>1, AppendIs
<1>3. PICK j : j = [k EXCEPT !.sent = s] OBVIOUS
<1>4. j \in Connection BY <1>2, <1>3 DEF Connection
<1>5. j.pc = k.pc /\ j.obs = k.obs /\ j.meta = k.meta /\ j.left = k.left /\ j.main = k.main
  BY <1>3 DEF Connection
<1>6. SameRights(k, j) BY <1>3 DEF Connection, SameRights
<1>7. j.sent = s BY <1>3 DEF Connection
<1>8. j = Write(k, head) BY <1>1, <1>3 DEF Write
<1>9. QED BY <1>1, <1>4, <1>5, <1>6, <1>7, <1>8

\* Observe puts one report behind those made, and changes nothing else.
LEMMA ObserveIs ==
    ASSUME NEW k \in Connection, NEW phase \in Phases
    PROVE  LET j == Observe(k, phase) IN
           /\ j \in Connection /\ j.pc = k.pc /\ SameRights(k, j)
           /\ j.obs = Append(k.obs, phase)
           /\ j.sent = k.sent /\ j.meta = k.meta /\ j.left = k.left /\ j.main = k.main
<1>0. k.obs \in Seq(Phases) BY DEF Connection
<1>1. PICK s : s = Append(k.obs, phase) OBVIOUS
<1>2. s \in Seq(Phases) BY <1>0, <1>1, AppendIs
<1>3. PICK j : j = [k EXCEPT !.obs = s] OBVIOUS
<1>4. j \in Connection BY <1>2, <1>3 DEF Connection
<1>5. j.pc = k.pc /\ j.sent = k.sent /\ j.meta = k.meta /\ j.left = k.left /\ j.main = k.main
  BY <1>3 DEF Connection
<1>6. SameRights(k, j) BY <1>3 DEF Connection, SameRights
<1>7. j.obs = s BY <1>3 DEF Connection
<1>8. j = Observe(k, phase) BY <1>1, <1>3 DEF Observe
<1>9. QED BY <1>1, <1>4, <1>5, <1>6, <1>7, <1>8

\* Metadata reports one response, or none.
LEMMA MetadataIs ==
    ASSUME NEW k \in Connection, NEW head \in Heads
    PROVE  LET j == Metadata(k, head) IN
           /\ j \in Connection /\ j.pc = k.pc /\ SameRights(k, j)
           /\ j.meta = k.meta \/ j.meta = Append(k.meta, head)
           /\ j.sent = k.sent /\ j.obs = k.obs /\ j.left = k.left
<1>1. CASE ~k.main
  <2>1. Metadata(k, head) = k BY <1>1 DEF Metadata
  <2>2. QED BY <2>1 DEF SameRights
<1>2. CASE k.main
  <2>0. k.meta \in Seq(Heads) BY DEF Connection
  <2>1. PICK s : s = Append(k.meta, head) OBVIOUS
  <2>2. s \in Seq(Heads) BY <2>0, <2>1, AppendIs
  <2>3. PICK j : j = [k EXCEPT !.meta = s] OBVIOUS
  <2>4. j \in Connection BY <2>2, <2>3 DEF Connection
  <2>5. j.pc = k.pc /\ j.sent = k.sent /\ j.obs = k.obs /\ j.left = k.left
    BY <2>3 DEF Connection
  <2>6. SameRights(k, j) BY <2>3 DEF Connection, SameRights
  <2>7. j.meta = s BY <2>3 DEF Connection
  <2>8. j = Metadata(k, head) BY <1>2, <2>1, <2>3 DEF Metadata
  <2>9. QED BY <2>1, <2>4, <2>5, <2>6, <2>7, <2>8
<1>3. QED BY <1>1, <1>2

------------------------------------------------------------------------------
(* What the client and the observer see. *)

\* The predicates on a connection depend on the fields they name.
LEMMA SameSeen ==
    ASSUME NEW k, NEW j
    PROVE  /\ j.sent = k.sent => /\ Final(j) = Final(k) /\ Unanswered(j) = Unanswered(k)
                                 /\ \A h : Answered(j, h) = Answered(k, h)
           /\ j.obs = k.obs => /\ Terminal(j) = Terminal(k) /\ Unreported(j) = Unreported(k)
                               /\ \A p : Reported(j, p) = Reported(k, p)
           /\ j.meta = k.meta => /\ NoMetadata(j) = NoMetadata(k)
                                 /\ \A h : MetadataOf(j, h) = MetadataOf(k, h)
BY DEF Final, Unanswered, Answered, Terminal, Unreported, Reported, NoMetadata, MetadataOf

LEMMA SameAuthorized ==
    ASSUME NEW k, NEW j, NEW m, SameRights(k, j), Authorized(k, m)
    PROVE  Authorized(j, m)
BY DEF SameRights, Authorized

\* The first final head of a stream is the one final head.
LEMMA WriteAnswers ==
    ASSUME NEW k \in Connection, NEW head \in Heads, head # "100", Unanswered(k)
    PROVE  Answered(Write(k, head), head)
<1>1. PICK j : j = Write(k, head) OBVIOUS
<1>2. PICK s : s = k.sent OBVIOUS
<1>3. s \in Seq(Heads) /\ \A i \in DOMAIN s : s[i] = "100"
  BY <1>2 DEF Connection, Unanswered, Final
<1>4. PICK q : q = Append(s, head) OBVIOUS
<1>5. j.sent = q BY <1>1, <1>2, <1>4, WriteIs
<1>6. PICK n : n = Len(s) + 1 OBVIOUS
<1>7. /\ DOMAIN q = DOMAIN s \union {n} /\ n \notin DOMAIN s
      /\ \A i \in DOMAIN s : q[i] = s[i]
      /\ q[n] = head
  BY <1>3, <1>4, <1>6, AppendIs
<1>8. Final(j) = {n} BY <1>3, <1>5, <1>7 DEF Final
<1>9. QED BY <1>1, <1>5, <1>7, <1>8 DEF Answered

\* An interim head is not a final one.
LEMMA WriteInterim ==
    ASSUME NEW k \in Connection, Unanswered(k)
    PROVE  Unanswered(Write(k, "100"))
<1>0. PICK head \in Heads : head = "100" BY DEF Heads
<1>1. PICK j : j = Write(k, head) OBVIOUS
<1>2. PICK s : s = k.sent OBVIOUS
<1>3. s \in Seq(Heads) /\ \A i \in DOMAIN s : s[i] = "100"
  BY <1>2 DEF Connection, Unanswered, Final
<1>4. PICK q : q = Append(s, head) OBVIOUS
<1>5. j.sent = q BY <1>1, <1>2, <1>4, WriteIs
<1>6. PICK n : n = Len(s) + 1 OBVIOUS
<1>7. /\ DOMAIN q = DOMAIN s \union {n}
      /\ \A i \in DOMAIN s : q[i] = s[i]
      /\ q[n] = head
  BY <1>3, <1>4, <1>6, AppendIs
<1>8. Final(j) = {} BY <1>0, <1>3, <1>5, <1>7 DEF Final
<1>9. QED BY <1>0, <1>1, <1>8 DEF Unanswered

\* The first outcome observed is the one outcome.
LEMMA ObserveReports ==
    ASSUME NEW k \in Connection, NEW phase \in Phases, phase # "Accepted", Unreported(k)
    PROVE  Reported(Observe(k, phase), phase)
<1>1. PICK j : j = Observe(k, phase) OBVIOUS
<1>2. PICK s : s = k.obs OBVIOUS
<1>3. s \in Seq(Phases) /\ \A i \in DOMAIN s : s[i] = "Accepted"
  BY <1>2 DEF Connection, Unreported, Terminal
<1>4. PICK q : q = Append(s, phase) OBVIOUS
<1>5. j.obs = q BY <1>1, <1>2, <1>4, ObserveIs
<1>6. PICK n : n = Len(s) + 1 OBVIOUS
<1>7. /\ DOMAIN q = DOMAIN s \union {n} /\ n \notin DOMAIN s
      /\ \A i \in DOMAIN s : q[i] = s[i]
      /\ q[n] = phase
  BY <1>3, <1>4, <1>6, AppendIs
<1>8. Terminal(j) = {n} BY <1>3, <1>5, <1>7 DEF Terminal
<1>9. QED BY <1>1, <1>5, <1>7, <1>8 DEF Reported

\* The first response reported is the one response.
LEMMA MetadataOnce ==
    ASSUME NEW k \in Connection, NEW head \in Heads, NoMetadata(k)
    PROVE  MetadataOf(Metadata(k, head), head)
<1>1. PICK j : j = Metadata(k, head) OBVIOUS
<1>2. PICK s : s = k.meta OBVIOUS
<1>3. s \in Seq(Heads) /\ Len(s) = 0 /\ DOMAIN s = {}
  BY <1>2, EmptySeq, LenProperties DEF Connection, NoMetadata
<1>4. PICK q : q = Append(s, head) OBVIOUS
<1>5. j.meta = s \/ j.meta = q BY <1>1, <1>2, <1>4, MetadataIs
<1>6. PICK n : n = Len(s) + 1 OBVIOUS
<1>7. DOMAIN q = DOMAIN s \union {n} /\ q[n] = head /\ Len(q) = n
  BY <1>3, <1>4, <1>6, AppendIs
<1>8. n = 1 BY <1>3, <1>6
<1>9. CASE j.meta = s BY <1>1, <1>3, <1>9 DEF MetadataOf
<1>10. CASE j.meta = q BY <1>1, <1>3, <1>7, <1>8, <1>10 DEF MetadataOf
<1>11. QED BY <1>5, <1>9, <1>10

\* No metadata is metadata of any head.
LEMMA NoneIsAny ==
    ASSUME NEW k \in Connection, NoMetadata(k), NEW h
    PROVE  MetadataOf(k, h)
<1>1. PICK s : s = k.meta OBVIOUS
<1>2. s \in Seq(Heads) /\ Len(s) = 0 /\ DOMAIN s = {}
  BY <1>1, EmptySeq, LenProperties DEF Connection, NoMetadata
<1>3. QED BY <1>1, <1>2 DEF MetadataOf

\* A request that is over and was not reported as completed.
Failed(k) == Unreported(k) \/ Reported(k, "Rejected") \/ Reported(k, "BackendFailed")

\* The ways in which a request is settled: without a final head, with one head and the
\* metadata of that head, or completed with a head that stands for its end.
LEMMA SettledUnanswered ==
    ASSUME NEW k, NEW h, Unanswered(k), Failed(k), MetadataOf(k, h)
    PROVE  Settled(k)
<1>1. \A i \in DOMAIN k.obs : k.obs[i] # "Completed"
  BY DEF Failed, Unreported, Reported, Terminal
<1>2. \A i, j \in Terminal(k) : i = j BY DEF Failed, Unreported, Reported
<1>3. QED BY <1>1, <1>2 DEF Unanswered, Settled, MetadataOf

LEMMA SettledAnswered ==
    ASSUME NEW k, NEW h, NEW g, Answered(k, h), Failed(k), MetadataOf(k, g),
           g = h \/ k.host \notin HnsInScope
    PROVE  Settled(k)
<1>1. \A i \in DOMAIN k.obs : k.obs[i] # "Completed"
  BY DEF Failed, Unreported, Reported, Terminal
<1>2. \A i, j \in Terminal(k) : i = j BY DEF Failed, Unreported, Reported
<1>3. \A i, j \in Final(k) : i = j BY DEF Answered
<1>4. g = h => \A i \in Final(k), j \in DOMAIN k.meta : k.sent[i] = k.meta[j]
  BY DEF Answered, MetadataOf
<1>5. QED BY <1>1, <1>2, <1>3, <1>4 DEF Settled, MetadataOf

LEMMA SettledCompleted ==
    ASSUME NEW k, NEW h \in {"origin", "101", "200"}, Answered(k, h), Reported(k, "Completed"),
           MetadataOf(k, h), k.left = 0
    PROVE  Settled(k)
<1>2. \A i, j \in Terminal(k) : i = j BY DEF Reported
<1>3. \A i, j \in Final(k) : i = j BY DEF Answered
<1>4. \A i \in Final(k), j \in DOMAIN k.meta : k.sent[i] = k.meta[j]
  BY DEF Answered, MetadataOf
<1>5. \E i \in Final(k) : k.sent[i] \in {"origin", "101", "200"} BY DEF Answered
<1>6. QED BY <1>2, <1>3, <1>4, <1>5 DEF Settled, MetadataOf

------------------------------------------------------------------------------
(* The ways a handler ends. *)

\* A connection that is settled and authorized may be at its end.
LEMMA EndKeeps ==
    ASSUME NEW k \in Connection, NEW m, Authorized(k, m), Settled(k)
    PROVE  ConnInv(Ends(k), m)
<1>1. PICK j : j = Ends(k) OBVIOUS
<1>2. j \in Connection /\ j.pc = "done" /\ SameRights(k, j) /\ SameReport(k, j)
  BY <1>1, EndsMoves DEF Moves
<1>3. Authorized(j, m) BY <1>2, SameAuthorized
<1>4. Settled(j) BY <1>2, SameSeen DEF Settled, SameReport, SameRights
<1>5. Rights(j, j.pc, m)
  BY <1>2, <1>3
      DEF Rights, HnsPlaces, IcannPlaces, DialPlaces, RatedPlaces, QuietPlaces, EntryPlaces
<1>6. Report(j, j.pc) BY <1>2, <1>4 DEF Report, OpenPlaces
<1>7. QED BY <1>1, <1>2, <1>5, <1>6 DEF ConnInv

\* An outcome that is not completion, observed for the first time.
LEMMA ObserveFails ==
    ASSUME NEW k \in Connection, NEW phase \in {"Rejected", "BackendFailed"}, Unreported(k)
    PROVE  Failed(Observe(k, phase))
<1>1. phase \in Phases /\ phase # "Accepted" BY DEF Phases
<1>2. Reported(Observe(k, phase), phase) BY <1>1, ObserveReports
<1>3. QED BY <1>2 DEF Failed

\* Without a report, and after an observed failure, the handler may return.
LEMMA LeaveKeeps ==
    ASSUME NEW k \in Connection, NEW m, Authorized(k, m), Untouched(k)
    PROVE  ConnInv(Ends(k), m)
<1>1. MetadataOf(k, "100") BY NoneIsAny DEF Untouched
<1>2. Settled(k) BY <1>1, SettledUnanswered DEF Untouched, Failed
<1>3. QED BY <1>2, EndKeeps

LEMMA ObserveEnds ==
    ASSUME NEW k \in Connection, NEW m, Authorized(k, m), Untouched(k),
           NEW phase \in {"Rejected", "BackendFailed"}
    PROVE  ConnInv(Ends(Observe(k, phase)), m)
<1>1. PICK j : j = Observe(k, phase) OBVIOUS
<1>2. j \in Connection /\ SameRights(k, j) /\ j.sent = k.sent /\ j.meta = k.meta
  BY <1>1, ObserveIs DEF Phases
<1>3. Failed(j) BY <1>1, ObserveFails DEF Untouched
<1>4. Unanswered(j) /\ NoMetadata(j) BY <1>2, SameSeen DEF Untouched
<1>5. Settled(j) BY <1>2, <1>3, <1>4, NoneIsAny, SettledUnanswered
<1>6. QED BY <1>1, <1>2, <1>5, SameAuthorized, EndKeeps

\* One head that reports its own status, behind an observed failure.
LEMMA AnswerEnds ==
    ASSUME NEW k \in Connection, NEW m, Authorized(k, m), Untouched(k),
           NEW phase \in {"Rejected", "BackendFailed"}, NEW head \in Heads, head # "100"
    PROVE  ConnInv(Ends(Write(Metadata(Observe(k, phase), head), head)), m)
<1>1. PICK a : a = Observe(k, phase) OBVIOUS
<1>2. a \in Connection /\ SameRights(k, a) /\ a.sent = k.sent /\ a.meta = k.meta
  BY <1>1, ObserveIs DEF Phases
<1>3. Failed(a) BY <1>1, ObserveFails DEF Untouched
<1>4. Unanswered(a) /\ NoMetadata(a) BY <1>2, SameSeen DEF Untouched
<1>5. PICK b : b = Metadata(a, head) OBVIOUS
<1>6. b \in Connection /\ SameRights(a, b) /\ b.sent = a.sent /\ b.obs = a.obs
  BY <1>2, <1>5, MetadataIs
<1>7. MetadataOf(b, head) BY <1>2, <1>4, <1>5, MetadataOnce
<1>8. Unanswered(b) /\ Failed(b) BY <1>3, <1>4, <1>6, SameSeen DEF Failed
<1>9. PICK j : j = Write(b, head) OBVIOUS
<1>10. j \in Connection /\ SameRights(b, j) /\ j.obs = b.obs /\ j.meta = b.meta
  BY <1>6, <1>9, WriteIs
<1>11. Answered(j, head) BY <1>6, <1>8, <1>9, WriteAnswers
<1>12. Failed(j) /\ MetadataOf(j, head) BY <1>7, <1>8, <1>10, SameSeen DEF Failed
<1>13. Settled(j) BY <1>11, <1>12, SettledAnswered
<1>14. Authorized(j, m) BY <1>2, <1>6, <1>10, SameAuthorized
<1>15. QED BY <1>1, <1>5, <1>9, <1>10, <1>13, <1>14, EndKeeps

LEMMA RejectKeeps ==
    ASSUME NEW k \in Connection, NEW m, Authorized(k, m), Untouched(k),
           NEW status \in Heads, status # "100"
    PROVE  ConnInv(Reject(k, status), m)
BY AnswerEnds DEF Reject

LEMMA DropKeeps ==
    ASSUME NEW k \in Connection, NEW m, Authorized(k, m), Untouched(k)
    PROVE  ConnInv(Drop(k), m)
BY ObserveEnds DEF Drop

LEMMA FailKeeps ==
    ASSUME NEW k \in Connection, NEW m, Authorized(k, m), Untouched(k),
           NEW status \in Heads, status # "100"
    PROVE  ConnInv(Fail(k, status), m)
BY AnswerEnds, ObserveEnds DEF Fail

\* A head alone, without a report.
LEMMA HeadEnds ==
    ASSUME NEW k \in Connection, NEW m, Authorized(k, m), Unanswered(k), NoMetadata(k),
        Failed(k),
           NEW head \in Heads, head # "100"
    PROVE  ConnInv(Ends(Write(k, head)), m)
<1>1. PICK j : j = Write(k, head) OBVIOUS
<1>2. j \in Connection /\ SameRights(k, j) /\ j.obs = k.obs /\ j.meta = k.meta
  BY <1>1, WriteIs
<1>3. Answered(j, head) BY <1>1, WriteAnswers
<1>4. Failed(j) /\ NoMetadata(j) BY <1>2, SameSeen DEF Failed
<1>5. Settled(j) BY <1>2, <1>3, <1>4, NoneIsAny, SettledAnswered
<1>6. QED BY <1>1, <1>2, <1>5, SameAuthorized, EndKeeps

\* A stream that was answered ends, with an outcome or without one.
LEMMA StreamEnds ==
    ASSUME NEW k \in Connection, NEW m, Authorized(k, m), NEW head \in Heads,
           Answered(k, head), Unreported(k), MetadataOf(k, head)
    PROVE  /\ ConnInv(Ends(k), m)
           /\ ConnInv(Ends(Observe(k, "BackendFailed")), m)
           /\ ConnInv(Drop(k), m)
<1>1. Settled(k) BY SettledAnswered DEF Failed
<1>2. ASSUME NEW phase \in {"Rejected", "BackendFailed"}
      PROVE  ConnInv(Ends(Observe(k, phase)), m)
  <2>1. PICK j : j = Observe(k, phase) OBVIOUS
  <2>2. j \in Connection /\ SameRights(k, j) /\ j.sent = k.sent /\ j.meta = k.meta
    BY <2>1, ObserveIs DEF Phases
  <2>3. Failed(j) BY <2>1, ObserveFails
  <2>4. Answered(j, head) /\ MetadataOf(j, head) BY <2>2, SameSeen
  <2>5. Settled(j) BY <2>3, <2>4, SettledAnswered
  <2>6. QED BY <2>1, <2>2, <2>5, SameAuthorized, EndKeeps
<1>3. QED BY <1>1, <1>2, EndKeeps DEF Drop

LEMMA CompletedKeeps ==
    ASSUME NEW k \in Connection, NEW m, Authorized(k, m), NEW head \in {"origin", "101", "200"},
           Answered(k, head), Unreported(k), MetadataOf(k, head), k.left = 0
    PROVE  ConnInv(Completed(k), m)
<1>1. PICK j : j = Observe(k, "Completed") OBVIOUS
<1>0. "Completed" \in Phases /\ "Completed" # "Accepted" BY DEF Phases
<1>2. j \in Connection /\ SameRights(k, j) /\ j.sent = k.sent /\ j.meta = k.meta
    /\ j.left = k.left
  BY <1>0, <1>1, ObserveIs
<1>3. Reported(j, "Completed") BY <1>0, <1>1, ObserveReports
<1>4. Answered(j, head) /\ MetadataOf(j, head) BY <1>2, SameSeen
<1>5. Settled(j) BY <1>2, <1>3, <1>4, SettledCompleted
<1>6. QED BY <1>1, <1>2, <1>5, SameAuthorized, EndKeeps DEF Completed

------------------------------------------------------------------------------
(* The steps of the handlers. *)

\* A handler that moves to a place must have established what that place needs.
LEMMA GoOnKeeps ==
    ASSUME NEW k \in Connection, NEW p \in Places, NEW m, Rights(k, p, m), Report(k, p)
    PROVE  ConnInv(GoOn(k, p), m)
<1>1. PICK j : j = GoOn(k, p) OBVIOUS
<1>2. j \in Connection /\ j.pc = p /\ SameRights(k, j) /\ SameReport(k, j)
  BY <1>1, GoOnMoves DEF Moves
<1>3. Rights(j, p, m)
  <2>1. Authorized(j, m) BY <1>2, SameAuthorized DEF Rights
  <2>2. QED BY <1>2, <2>1 DEF Rights, SameRights
<1>4. Report(j, p)
  <2>1. /\ \A h : Answered(j, h) = Answered(k, h) /\ Final(j) = Final(k)
        /\ \A q : Reported(j, q) = Reported(k, q) /\ Terminal(j) = Terminal(k)
        /\ \A h : MetadataOf(j, h) = MetadataOf(k, h)
        /\ Unanswered(j) = Unanswered(k) /\ Unreported(j) = Unreported(k)
        /\ NoMetadata(j) = NoMetadata(k)
    BY <1>2, SameSeen DEF SameReport
  <2>2. j.left = k.left /\ j.meta = k.meta /\ j.sent = k.sent /\ j.obs = k.obs
      /\ j.host = k.host
    BY <1>2 DEF SameReport, SameRights
  <2>3. Untouched(j) = Untouched(k) /\ Settled(j) = Settled(k) BY <2>1, <2>2
      DEF Untouched, Settled
  <2>4. QED BY <2>1, <2>2, <2>3 DEF Report
<1>5. QED BY <1>1, <1>2, <1>3, <1>4 DEF ConnInv

\* Between open places only the rights matter.
LEMMA OpenKeeps ==
    ASSUME NEW k \in Connection, NEW p \in OpenPlaces, NEW m, Rights(k, p, m), Untouched(k)
    PROVE  ConnInv(GoOn(k, p), m)
<1>1. Report(k, p) BY DEF Report, OpenPlaces
<1>2. p \in Places BY DEF OpenPlaces
<1>3. QED BY <1>1, <1>2, GoOnKeeps

\* A step of one connection keeps the others as they are.
LEMMA BecomeKeeps ==
    ASSUME RequestInv, NEW c \in Conns, NEW k, Become(c, k), ConnInv(k, mode)
    PROVE  RequestInv'
<1>1. k \in Connection BY DEF ConnInv
<1>2. conn' \in [Conns -> Connection] /\ mode' = mode BY <1>1 DEF RequestInv, Become
<1>3. \A d \in Conns : conn'[d] = IF d = c THEN k ELSE conn[d] BY DEF RequestInv, Become
<1>4. \A d \in Conns : ConnInv(conn'[d], mode) BY <1>3 DEF RequestInv
<1>5. QED BY <1>2, <1>4 DEF RequestInv

\* What the invariant says of the connection that takes a step.
LEMMA OpenAt ==
    ASSUME RequestInv, NEW c \in Conns, NEW p \in OpenPlaces, conn[c].pc = p
    PROVE  /\ conn[c] \in Connection /\ Rights(conn[c], p, mode) /\ Authorized(conn[c], mode)
           /\ Untouched(conn[c])
BY DEF RequestInv, ConnInv, Rights, Report

\* The limiter: a connection it refuses is settled, one it admits is rated.
LEMMA AdmitRateKeeps ==
    ASSUME RequestInv, NEW c \in Conns, NEW k \in Connection, NEW p \in OpenPlaces,
           AdmitRate(c, k, p), Authorized(k, mode), Untouched(k),
           \A j : (j \in Connection /\ j.rated /\ j.authed = k.authed /\ j.host = k.host
                   /\ j.cert = k.cert /\ j.contact = k.contact) => Rights(j, p, mode)
    PROVE  RequestInv'
<1>1. CASE Become(c, Reject(k, "429"))
  <2>1. ConnInv(Reject(k, "429"), mode) BY RejectKeeps DEF Heads
  <2>2. QED BY <1>1, <2>1, BecomeKeeps
<1>2. CASE Become(c, GoOn([k EXCEPT !.rated = TRUE], p))
  <2>0. PICK v \in BOOLEAN : v = TRUE OBVIOUS
  <2>1. PICK j : j = [k EXCEPT !.rated = v] OBVIOUS
  <2>2. j \in Connection BY <2>1 DEF Connection
  <2>3. j.rated = v /\ j.authed = k.authed /\ j.host = k.host /\ j.cert = k.cert
      /\ j.contact = k.contact
    BY <2>1 DEF Connection
  <2>4. SameReport(k, j) BY <2>1 DEF Connection, SameReport
  <2>5. Untouched(j) BY <2>4, SameSeen DEF SameReport, Untouched
  <2>6. Rights(j, p, mode) BY <2>0, <2>2, <2>3
  <2>7. ConnInv(GoOn(j, p), mode) BY <2>2, <2>5, <2>6, OpenKeeps
  <2>8. QED BY <1>2, <2>0, <2>1, <2>7, BecomeKeeps
<1>3. QED BY <1>1, <1>2 DEF AdmitRate

\* Reading the kind of a request changes neither its rights nor what was seen of it.
LEMMA KindKeeps ==
    ASSUME NEW k \in Connection, NEW up \in BOOLEAN, NEW nav \in BOOLEAN, NEW j,
           j = [k EXCEPT !.upgrade = up, !.main = nav /\ ~up], Untouched(k), NEW m,
               Authorized(k, m)
    PROVE  j \in Connection /\ SameRights(k, j) /\ Untouched(j) /\ Authorized(j, m)
<1>1. PICK v : v = (nav /\ ~up) OBVIOUS
<1>2. v \in BOOLEAN BY <1>1
<1>3. PICK i : i = [k EXCEPT !.upgrade = up] OBVIOUS
<1>4. j = [i EXCEPT !.main = v] BY <1>1, <1>3 DEF Connection
<1>5. i \in Connection /\ SameRights(k, i) /\ SameReport(k, i)
  BY <1>3 DEF Connection, SameRights, SameReport
<1>6. j \in Connection /\ SameRights(i, j) /\ SameReport(i, j)
  BY <1>2, <1>4, <1>5 DEF Connection, SameRights, SameReport
<1>7. SameRights(k, j) /\ SameReport(k, j) BY <1>5, <1>6 DEF SameRights, SameReport
<1>8. Untouched(j) BY <1>7, SameSeen DEF SameReport, Untouched
<1>9. QED BY <1>6, <1>7, <1>8, SameAuthorized

LEMMA HandleClientKeeps ==
    ASSUME RequestInv, NEW c \in Conns, HandleClient(c)
    PROVE  RequestInv'
<1>k. PICK k : k = conn[c] OBVIOUS
<1>0. /\ k \in Connection /\ Rights(k, "idle", mode) /\ Authorized(k, mode) /\ Untouched(k)
  BY <1>k, OpenAt DEF HandleClient, OpenPlaces, Places, EntryPlaces
<1>1. ConnInv(Ends(k), mode) BY <1>0, LeaveKeeps
<1>2. ASSUME NEW status \in HeadErrors PROVE ConnInv(Ends(Write(k, status)), mode)
  <2>1. status \in Heads /\ status # "100" BY DEF HeadErrors, Heads
  <2>2. QED BY <1>0, <2>1, HeadEnds DEF Untouched, Failed
<1>3. ConnInv(GoOn(k, "auth"), mode)
  <2>1. Rights(k, "auth", mode)
    BY <1>0 DEF Rights, EntryPlaces, QuietPlaces, HnsPlaces, IcannPlaces, DialPlaces,
        RatedPlaces
  <2>2. QED BY <1>0, <2>1, OpenKeeps DEF OpenPlaces, Places, EntryPlaces
<1>4. QED BY <1>k, <1>1, <1>2, <1>3, BecomeKeeps DEF HandleClient

LEMMA AuthenticateKeeps ==
    ASSUME RequestInv, NEW c \in Conns, Authenticate(c)
    PROVE  RequestInv'
<1>k. PICK k : k = conn[c] OBVIOUS
<1>0. /\ k \in Connection /\ Rights(k, "auth", mode) /\ Authorized(k, mode) /\ Untouched(k)
  BY <1>k, OpenAt DEF Authenticate, OpenPlaces, Places, EntryPlaces
<1>1. ConnInv(Ends(Write(k, "407")), mode)
  BY <1>0, HeadEnds DEF Untouched, Failed, Heads
<1>2. ConnInv(GoOn([k EXCEPT !.authed = TRUE], "target"), mode)
  <2>0. PICK v \in BOOLEAN : v = TRUE OBVIOUS
  <2>1. PICK j : j = [k EXCEPT !.authed = v] OBVIOUS
  <2>2. j \in Connection BY <1>0, <2>1 DEF Connection
  <2>3. j.authed = v /\ j.contact = k.contact /\ j.cert = k.cert BY <1>0, <2>1 DEF Connection
  <2>4. SameReport(k, j) BY <1>0, <2>1 DEF Connection, SameReport
  <2>5. Untouched(j) BY <1>0, <2>4, SameSeen DEF SameReport, Untouched
  <2>6. Rights(j, "target", mode)
    BY <1>0, <2>0, <2>3
    DEF Rights, Authorized, EntryPlaces, QuietPlaces, HnsPlaces, IcannPlaces, DialPlaces,
        RatedPlaces
  <2>7. ConnInv(GoOn(j, "target"), mode)
    BY <2>2, <2>5, <2>6, OpenKeeps DEF OpenPlaces, Places, EntryPlaces
  <2>8. QED BY <2>0, <2>1, <2>7
<1>3. QED BY <1>k, <1>1, <1>2, BecomeKeeps DEF Authenticate

\* A request that is accepted has been seen by the observer only.
LEMMA AcceptedIs ==
    ASSUME NEW k \in Connection, Untouched(k)
    PROVE  LET j == Accepted(k) IN
           j \in Connection /\ j.pc = k.pc /\ SameRights(k, j) /\ Untouched(j)
<1>0. PICK s : s = <<"Accepted">> OBVIOUS
<1>1. s \in Seq(Phases) /\ DOMAIN s = {1} /\ s[1] = "Accepted" BY <1>0 DEF Phases
<1>2. PICK j : j = [k EXCEPT !.obs = s] OBVIOUS
<1>3. j \in Connection BY <1>1, <1>2 DEF Connection
<1>4. j.pc = k.pc /\ j.sent = k.sent /\ j.meta = k.meta /\ j.left = k.left /\ j.obs = s
  BY <1>2 DEF Connection
<1>5. SameRights(k, j) BY <1>2 DEF Connection, SameRights
<1>6. Unreported(j) BY <1>1, <1>4 DEF Unreported, Terminal
<1>7. Untouched(j) BY <1>4, <1>6, SameSeen DEF Untouched
<1>8. QED BY <1>0, <1>2, <1>3, <1>4, <1>5, <1>7 DEF Accepted

LEMMA DispatchTargetKeeps ==
    ASSUME RequestInv, NEW c \in Conns, DispatchTarget(c)
    PROVE  RequestInv'
<1>k. PICK k : k = conn[c] OBVIOUS
<1>0. /\ k \in Connection /\ Rights(k, "target", mode) /\ Authorized(k, mode) /\ Untouched(k)
  BY <1>k, OpenAt DEF DispatchTarget, OpenPlaces, Places, EntryPlaces
<1>1. ConnInv(Ends(Write(k, "400")), mode) BY <1>0, HeadEnds DEF Untouched, Failed, Heads
<1>2. ConnInv(Ends(Write(Observe(k, "Rejected"), "403")), mode)
  <2>1. PICK j : j = Observe(k, "Rejected") OBVIOUS
  <2>2. j \in Connection /\ SameRights(k, j) /\ j.sent = k.sent /\ j.meta = k.meta
    BY <1>0, <2>1, ObserveIs DEF Phases
  <2>3. Failed(j) BY <1>0, <2>1, ObserveFails DEF Untouched
  <2>4. Unanswered(j) /\ NoMetadata(j) BY <1>0, <2>2, SameSeen DEF Untouched
  <2>5. Authorized(j, mode) BY <1>0, <2>2, SameAuthorized
  <2>6. QED BY <2>1, <2>2, <2>3, <2>4, <2>5, HeadEnds DEF Heads
<1>3. ASSUME NEW h \in Hosts, AdmitTargetHost(h) # "rejected",
             NEW p \in IF AdmitTargetHost(h) = "hns" THEN {"direct", "connect"}
                       ELSE {"icannHttp", "icannConnect"}
      PROVE  ConnInv(GoOn([Accepted(k) EXCEPT !.host = h], p), mode)
  <2>1. PICK a : a = Accepted(k) OBVIOUS
  <2>2. a \in Connection /\ SameRights(k, a) /\ Untouched(a) BY <1>0, <2>1, AcceptedIs
  <2>3. PICK j : j = [a EXCEPT !.host = h] OBVIOUS
  <2>4. j \in Connection BY <2>2, <2>3 DEF Connection
  <2>5. j.host = h /\ j.authed = a.authed /\ j.cert = a.cert /\ j.contact = a.contact
    BY <2>2, <2>3 DEF Connection
  <2>6. SameReport(a, j) BY <2>2, <2>3 DEF Connection, SameReport
  <2>7. Untouched(j) BY <2>2, <2>6, SameSeen DEF SameReport, Untouched
  <2>8. \/ h \in HnsInScope /\ p \in {"direct", "connect"}
        \/ h \notin HnsInScope /\ mode = "WholeBrowser" /\ p \in {"icannHttp", "icannConnect"}
    BY <1>3 DEF AdmitTargetHost
  <2>9. j.authed /\ j.cert = NoHost /\ j.contact = "none"
    BY <1>0, <2>2, <2>5 DEF Rights, SameRights, QuietPlaces, EntryPlaces
  <2>10. Rights(j, p, mode)
    BY <2>5, <2>8, <2>9
    DEF Rights, Authorized, EntryPlaces, QuietPlaces, HnsPlaces, IcannPlaces, DialPlaces,
        RatedPlaces
  <2>11. p \in OpenPlaces BY <2>8 DEF OpenPlaces, Places, HnsPlaces, IcannPlaces
  <2>12. QED BY <2>1, <2>3, <2>4, <2>7, <2>10, <2>11, OpenKeeps
<1>4. QED BY <1>k, <1>1, <1>2, <1>3, BecomeKeeps DEF DispatchTarget

LEMMA HandleDirectHttpKeeps ==
    ASSUME RequestInv, NEW c \in Conns, HandleDirectHttp(c)
    PROVE  RequestInv'
<1>k. PICK k : k = conn[c] OBVIOUS
<1>0. /\ k \in Connection /\ Rights(k, "direct", mode) /\ Authorized(k, mode) /\ Untouched(k)
  BY <1>k, OpenAt DEF HandleDirectHttp, OpenPlaces, Places, HnsPlaces, IcannPlaces
<1>1. ASSUME NEW up \in BOOLEAN, NEW nav \in BOOLEAN, NEW j,
             j = [k EXCEPT !.upgrade = up, !.main = nav /\ ~up],
             AdmitRate(c, j, IF up THEN "upgrade" ELSE "http")
      PROVE  RequestInv'
  <2>1. j \in Connection /\ SameRights(k, j) /\ Untouched(j) /\ Authorized(j, mode)
    BY <1>0, <1>1, KindKeeps
  <2>2. PICK p \in {"upgrade", "http"} : AdmitRate(c, j, p) BY <1>1
  <2>3. p \in OpenPlaces BY DEF OpenPlaces, Places, HnsPlaces, IcannPlaces
  <2>4. \A i : (i \in Connection /\ i.rated /\ i.authed = j.authed /\ i.host = j.host
               /\ i.cert = j.cert /\ i.contact = j.contact) => Rights(i, p, mode)
    BY <1>0, <2>1
    DEF Rights, Authorized, SameRights, EntryPlaces, QuietPlaces, HnsPlaces, IcannPlaces,
        DialPlaces, RatedPlaces
  <2>5. QED BY <2>1, <2>2, <2>3, <2>4, AdmitRateKeeps
<1>2. QED BY <1>k, <1>1 DEF HandleDirectHttp

LEMMA HandleIcannHttpKeeps ==
    ASSUME RequestInv, NEW c \in Conns, HandleIcannHttp(c)
    PROVE  RequestInv'
<1>k. PICK k : k = conn[c] OBVIOUS
<1>0. /\ k \in Connection /\ Rights(k, "icannHttp", mode) /\ Authorized(k, mode) /\ Untouched(k)
  BY <1>k, OpenAt DEF HandleIcannHttp, OpenPlaces, Places, HnsPlaces, IcannPlaces
<1>1. ASSUME NEW status \in {"400", "403"} PROVE ConnInv(Reject(k, status), mode)
  <2>1. status \in Heads /\ status # "100" BY DEF Heads
  <2>2. QED BY <1>0, <2>1, RejectKeeps
<1>2. ASSUME NEW up \in BOOLEAN, NEW nav \in BOOLEAN, NEW j,
             j = [k EXCEPT !.upgrade = up, !.main = nav /\ ~up],
             AdmitRate(c, j, IF up THEN "icannUpgrade" ELSE "icannRequest")
      PROVE  RequestInv'
  <2>1. j \in Connection /\ SameRights(k, j) /\ Untouched(j) /\ Authorized(j, mode)
    BY <1>0, <1>2, KindKeeps
  <2>2. PICK p \in {"icannUpgrade", "icannRequest"} : AdmitRate(c, j, p) BY <1>2
  <2>3. p \in OpenPlaces BY DEF OpenPlaces, Places, HnsPlaces, IcannPlaces
  <2>4. \A i : (i \in Connection /\ i.rated /\ i.authed = j.authed /\ i.host = j.host
               /\ i.cert = j.cert /\ i.contact = j.contact) => Rights(i, p, mode)
    BY <1>0, <2>1
    DEF Rights, Authorized, SameRights, EntryPlaces, QuietPlaces, HnsPlaces, IcannPlaces,
        DialPlaces, RatedPlaces
  <2>5. QED BY <2>1, <2>2, <2>3, <2>4, AdmitRateKeeps
<1>3. QED BY <1>k, <1>1, <1>2, BecomeKeeps DEF HandleIcannHttp

LEMMA HandleConnectKeeps ==
    ASSUME RequestInv, NEW c \in Conns, HandleConnect(c)
    PROVE  RequestInv'
<1>k. PICK k : k = conn[c] OBVIOUS
<1>0. /\ k \in Connection /\ Rights(k, "connect", mode) /\ Authorized(k, mode) /\ Untouched(k)
  BY <1>k, OpenAt DEF HandleConnect, OpenPlaces, Places, HnsPlaces, IcannPlaces
<1>1. ASSUME NEW status \in {"501", "417", "400"} PROVE ConnInv(Reject(k, status), mode)
  <2>1. status \in Heads /\ status # "100" BY DEF Heads
  <2>2. QED BY <1>0, <2>1, RejectKeeps
<1>2. ConnInv(Drop(k), mode) BY <1>0, DropKeeps
<1>3. ASSUME AdmitRate(c, k, "identity") PROVE RequestInv'
  <2>1. \A i : (i \in Connection /\ i.rated /\ i.authed = k.authed /\ i.host = k.host
               /\ i.cert = k.cert /\ i.contact = k.contact) => Rights(i, "identity", mode)
    BY <1>0 DEF Rights, Authorized, EntryPlaces, QuietPlaces, HnsPlaces, IcannPlaces,
        DialPlaces, RatedPlaces
  <2>2. "identity" \in OpenPlaces BY DEF OpenPlaces, Places, HnsPlaces, IcannPlaces, DialPlaces
  <2>3. QED BY <1>0, <1>3, <2>1, <2>2, AdmitRateKeeps
<1>4. QED BY <1>k, <1>1, <1>2, <1>3, BecomeKeeps DEF HandleConnect

LEMMA PrepareIdentityKeeps ==
    ASSUME RequestInv, NEW c \in Conns, PrepareIdentity(c)
    PROVE  RequestInv'
<1>k. PICK k : k = conn[c] OBVIOUS
<1>0. /\ k \in Connection /\ Rights(k, "identity", mode) /\ Authorized(k, mode) /\ Untouched(k)
  BY <1>k, OpenAt DEF PrepareIdentity, OpenPlaces, Places, HnsPlaces, IcannPlaces
<1>1. ConnInv(Reject(k, "503"), mode) BY <1>0, RejectKeeps DEF Heads
<1>2. ConnInv(Ends(k), mode) BY <1>0, LeaveKeeps
<1>3. ConnInv(GoOn(Write([k EXCEPT !.cert = k.host], "200"), "tls"), mode)
  <2>1. PICK j : j = [k EXCEPT !.cert = k.host] OBVIOUS
  <2>2. j \in Connection BY <1>0, <2>1 DEF Connection
  <2>3. j.contact = k.contact /\ j.authed = k.authed /\ j.rated = k.rated
      /\ j.host = k.host /\ j.cert = k.host
    BY <1>0, <2>1 DEF Connection
  <2>4. SameReport(k, j) BY <1>0, <2>1 DEF Connection, SameReport
  <2>5. Untouched(j) BY <1>0, <2>4, SameSeen DEF SameReport, Untouched
  <2>6. PICK i : i = Write(j, "200") OBVIOUS
  <2>7. i \in Connection /\ SameRights(j, i) /\ i.obs = j.obs /\ i.meta = j.meta
      /\ i.left = j.left
    BY <2>2, <2>6, WriteIs DEF Heads
  <2>8. Answered(i, "200") BY <2>2, <2>5, <2>6, WriteAnswers DEF Untouched, Heads
  <2>9. Unreported(i) /\ NoMetadata(i) /\ i.left = 0 BY <2>5, <2>7, SameSeen DEF Untouched
  <2>10. Report(i, "tls") BY <2>8, <2>9 DEF Report, OpenPlaces
  <2>11. Rights(i, "tls", mode)
    BY <1>0, <2>3, <2>7
        DEF Rights, SameRights, Authorized, EntryPlaces, QuietPlaces, HnsPlaces, IcannPlaces,
            DialPlaces, RatedPlaces
  <2>12. QED BY <2>1, <2>6, <2>7, <2>10, <2>11, GoOnKeeps DEF Places, HnsPlaces
<1>4. QED BY <1>k, <1>1, <1>2, <1>3, BecomeKeeps DEF PrepareIdentity

LEMMA AcceptLocalTlsKeeps ==
    ASSUME RequestInv, NEW c \in Conns, AcceptLocalTls(c)
    PROVE  RequestInv'
<1>k. PICK k : k = conn[c] OBVIOUS
<1>0. /\ k \in Connection /\ Rights(k, "tls", mode) /\ Authorized(k, mode)
      /\ Answered(k, "200") /\ Unreported(k) /\ NoMetadata(k) /\ k.left = 0
  BY <1>k DEF AcceptLocalTls, RequestInv, ConnInv, Rights, Report
<1>1. ConnInv(Drop(k), mode)
  <2>1. MetadataOf(k, "200") BY <1>0, NoneIsAny
  <2>2. QED BY <1>0, <2>1, StreamEnds DEF Heads
<1>2. ConnInv(GoOn([k EXCEPT !.obs = << >>, !.sent = << >>], "inner"), mode)
  <2>0. PICK e : e = << >> OBVIOUS
  <2>1. e \in Seq(Phases) /\ e \in Seq(Heads) /\ DOMAIN e = {} BY <2>0
  <2>2. PICK i : i = [k EXCEPT !.obs = e] OBVIOUS
  <2>3. i \in Connection BY <1>0, <2>1, <2>2 DEF Connection
  <2>4. SameRights(k, i) /\ i.meta = k.meta /\ i.left = k.left /\ i.obs = e
    BY <1>0, <2>2 DEF Connection, SameRights
  <2>5. PICK j : j = [i EXCEPT !.sent = e] OBVIOUS
  <2>6. j \in Connection BY <2>1, <2>3, <2>5 DEF Connection
  <2>7. SameRights(i, j) /\ j.meta = i.meta /\ j.left = i.left /\ j.obs = i.obs /\ j.sent = e
    BY <2>3, <2>5 DEF Connection, SameRights
  <2>8. j = [k EXCEPT !.obs = e, !.sent = e] BY <1>0, <2>2, <2>5 DEF Connection
  <2>9. Unanswered(j) /\ Unreported(j)
    BY <2>1, <2>4, <2>7 DEF Unanswered, Unreported, Final, Terminal
  <2>10. Untouched(j) BY <1>0, <2>4, <2>7, <2>9 DEF Untouched, NoMetadata
  <2>11. Rights(j, "inner", mode)
    BY <1>0, <2>4, <2>7
        DEF Rights, SameRights, Authorized, EntryPlaces, QuietPlaces, HnsPlaces, IcannPlaces,
            DialPlaces, RatedPlaces
  <2>12. ConnInv(GoOn(j, "inner"), mode)
    BY <2>6, <2>10, <2>11, OpenKeeps DEF OpenPlaces, Places, HnsPlaces
  <2>13. QED BY <2>0, <2>8, <2>12
<1>3. QED BY <1>k, <1>1, <1>2, BecomeKeeps DEF AcceptLocalTls

LEMMA HandleConnectedHttpKeeps ==
    ASSUME RequestInv, NEW c \in Conns, HandleConnectedHttp(c)
    PROVE  RequestInv'
<1>k. PICK k : k = conn[c] OBVIOUS
<1>0. /\ k \in Connection /\ Rights(k, "inner", mode) /\ Authorized(k, mode) /\ Untouched(k)
  BY <1>k, OpenAt DEF HandleConnectedHttp, OpenPlaces, Places, HnsPlaces, IcannPlaces
<1>1. ASSUME NEW status \in HeadErrors PROVE ConnInv(Reject(k, status), mode)
  <2>1. status \in Heads /\ status # "100" BY DEF HeadErrors, Heads
  <2>2. QED BY <1>0, <2>1, RejectKeeps
<1>2. ConnInv(Reject(k, "403"), mode) BY <1>0, RejectKeeps DEF Heads
<1>3. ASSUME NEW h \in HnsInScope, NEW up \in BOOLEAN, NEW nav \in BOOLEAN, h = k.host,
             NEW p \in {"upgrade", "http"}
      PROVE  ConnInv(GoOn([Accepted(k) EXCEPT !.host = h, !.upgrade = up, !.main = nav
          /\ ~up], p), mode)
  <2>1. PICK a : a = Accepted(k) OBVIOUS
  <2>2. a \in Connection /\ SameRights(k, a) /\ Untouched(a) BY <1>0, <2>1, AcceptedIs
  <2>3. a.host = h BY <1>3, <2>2 DEF SameRights
  <2>4. PICK j : j = [a EXCEPT !.upgrade = up, !.main = nav /\ ~up] OBVIOUS
  <2>5. Authorized(a, mode) BY <1>0, <2>2, SameAuthorized
  <2>6. j \in Connection /\ SameRights(a, j) /\ Untouched(j) /\ Authorized(j, mode)
    BY <2>2, <2>4, <2>5, KindKeeps
  <2>7. a = [a EXCEPT !.host = h] BY <2>2, <2>3 DEF Connection
  <2>8. j = [a EXCEPT !.host = h, !.upgrade = up, !.main = nav /\ ~up]
    <3>1. PICK v : v = (nav /\ ~up) OBVIOUS
    <3>2. j = [a EXCEPT !.upgrade = up, !.main = v] BY <2>4, <3>1
    <3>3. j = [a EXCEPT !.host = h, !.upgrade = up, !.main = v] BY <2>2, <2>3, <3>2
        DEF Connection
    <3>4. QED BY <3>1, <3>3
  <2>9. Rights(j, p, mode)
    BY <1>0, <2>2, <2>6
        DEF Rights, SameRights, EntryPlaces, QuietPlaces, HnsPlaces, IcannPlaces, DialPlaces,
            RatedPlaces
  <2>10. p \in OpenPlaces BY DEF OpenPlaces, Places, HnsPlaces
  <2>11. QED BY <2>1, <2>6, <2>8, <2>9, <2>10, OpenKeeps
<1>4. QED BY <1>k, <1>1, <1>2, <1>3, BecomeKeeps DEF HandleConnectedHttp

LEMMA HandleAdmittedHttpKeeps ==
    ASSUME RequestInv, NEW c \in Conns, HandleAdmittedHttp(c)
    PROVE  RequestInv'
<1>k. PICK k : k = conn[c] OBVIOUS
<1>0. /\ k \in Connection /\ Rights(k, "http", mode) /\ Authorized(k, mode) /\ Untouched(k)
  BY <1>k, OpenAt DEF HandleAdmittedHttp, OpenPlaces, Places, HnsPlaces, IcannPlaces
<1>1. ASSUME NEW status \in FramingErrors \union {"413", "417"} PROVE ConnInv(Reject(k,
    status), mode)
  <2>1. status \in Heads /\ status # "100" BY DEF FramingErrors, Heads
  <2>2. QED BY <1>0, <2>1, RejectKeeps
<1>2. ConnInv(Ends(k), mode) BY <1>0, LeaveKeeps
<1>3. ConnInv(GoOn(Write(k, "100"), "body"), mode)
  <2>1. PICK j : j = Write(k, "100") OBVIOUS
  <2>2. j \in Connection /\ SameRights(k, j) /\ j.obs = k.obs /\ j.meta = k.meta
      /\ j.left = k.left
    BY <1>0, <2>1, WriteIs DEF Heads
  <2>3. Untouched(j) BY <1>0, <2>1, <2>2, WriteInterim, SameSeen DEF Untouched
  <2>4. Authorized(j, mode) BY <1>0, <2>2, SameAuthorized
  <2>5. Rights(j, "body", mode)
    BY <1>0, <2>2, <2>4
        DEF Rights, SameRights, EntryPlaces, QuietPlaces, HnsPlaces, IcannPlaces, DialPlaces,
            RatedPlaces
  <2>6. QED BY <2>1, <2>2, <2>3, <2>5, OpenKeeps
            DEF OpenPlaces, Places, HnsPlaces, IcannPlaces, DialPlaces
<1>4. ConnInv(GoOn(k, "body"), mode)
  <2>1. Rights(k, "body", mode)
    BY <1>0 DEF Rights, EntryPlaces, QuietPlaces, HnsPlaces, IcannPlaces, DialPlaces,
        RatedPlaces
  <2>2. QED BY <1>0, <2>1, OpenKeeps DEF OpenPlaces, Places, HnsPlaces, IcannPlaces, DialPlaces
<1>5. QED BY <1>k, <1>1, <1>2, <1>3, <1>4, BecomeKeeps DEF HandleAdmittedHttp

LEMMA ReadRequestBodyKeeps ==
    ASSUME RequestInv, NEW c \in Conns, ReadRequestBody(c)
    PROVE  RequestInv'
<1>k. PICK k : k = conn[c] OBVIOUS
<1>0. /\ k \in Connection /\ Rights(k, "body", mode) /\ Authorized(k, mode) /\ Untouched(k)
  BY <1>k, OpenAt DEF ReadRequestBody, OpenPlaces, Places, HnsPlaces, IcannPlaces
<1>1. ASSUME NEW status \in HeadErrors \union {"413"} PROVE ConnInv(Reject(k, status), mode)
  <2>1. status \in Heads /\ status # "100" BY DEF HeadErrors, Heads
  <2>2. QED BY <1>0, <2>1, RejectKeeps
<1>2. ConnInv(Drop(k), mode) BY <1>0, DropKeeps
<1>3. ConnInv(GoOn([k EXCEPT !.contact = "backend"], "call"), mode)
  <2>0. PICK v : v = "backend" OBVIOUS
  <2>1. PICK j : j = [k EXCEPT !.contact = v] OBVIOUS
  <2>2. j \in Connection BY <1>0, <2>0, <2>1 DEF Connection
  <2>3. j.contact = v /\ j.authed = k.authed /\ j.rated = k.rated /\ j.host = k.host
      /\ j.cert = k.cert
    BY <1>0, <2>1 DEF Connection
  <2>4. SameReport(k, j) BY <1>0, <2>1 DEF Connection, SameReport
  <2>5. Untouched(j) BY <1>0, <2>4, SameSeen DEF SameReport, Untouched
  <2>6. k.authed /\ k.rated /\ k.host \in HnsInScope /\ k.cert \in {NoHost, k.host}
    BY <1>0 DEF Rights, RatedPlaces, HnsPlaces
  <2>7. Authorized(j, mode) BY <2>0, <2>3, <2>6 DEF Authorized
  <2>8. Rights(j, "call", mode)
    BY <2>3, <2>6, <2>7
        DEF Rights, EntryPlaces, QuietPlaces, HnsPlaces, IcannPlaces, DialPlaces, RatedPlaces
  <2>9. ConnInv(GoOn(j, "call"), mode)
    BY <2>2, <2>5, <2>8, OpenKeeps DEF OpenPlaces, Places, HnsPlaces
  <2>10. QED BY <2>0, <2>1, <2>9
<1>4. QED BY <1>k, <1>1, <1>2, <1>3, BecomeKeeps DEF ReadRequestBody

\* A response head of the backend, its metadata first, and the body it announces.
LEMMA WriteBackendResponseKeeps ==
    ASSUME RequestInv, NEW c \in Conns, NEW p \in {"call", "tunnelCall"}, conn[c].pc = p,
           WriteBackendResponse(c)
    PROVE  RequestInv'
<1>k. PICK k : k = conn[c] OBVIOUS
<1>0. /\ k \in Connection /\ Rights(k, p, mode) /\ Authorized(k, mode) /\ Untouched(k)
  BY <1>k, OpenAt DEF OpenPlaces, Places, HnsPlaces
<1>1. ConnInv(Fail(k, "502"), mode) BY <1>0, FailKeeps DEF Heads
<1>2. PICK a : a = Metadata(k, "origin") OBVIOUS
<1>3. a \in Connection /\ SameRights(k, a) /\ a.sent = k.sent /\ a.obs = k.obs
    /\ a.left = k.left
  BY <1>0, <1>2, MetadataIs DEF Heads
<1>4. MetadataOf(a, "origin") BY <1>0, <1>2, MetadataOnce DEF Untouched, Heads
<1>5. Unanswered(a) /\ Unreported(a) /\ a.left = 0 BY <1>0, <1>3, SameSeen DEF Untouched
<1>6. Authorized(a, mode) BY <1>0, <1>3, SameAuthorized
<1>7. ConnInv(Ends(a), mode) BY <1>3, <1>4, <1>5, <1>6, SettledUnanswered, EndKeeps DEF Failed
<1>8. PICK b : b = Write(a, "origin") OBVIOUS
<1>9. b \in Connection /\ SameRights(a, b) /\ b.obs = a.obs /\ b.meta = a.meta
    /\ b.left = a.left
  BY <1>3, <1>8, WriteIs DEF Heads
<1>10. Answered(b, "origin") BY <1>3, <1>5, <1>8, WriteAnswers DEF Heads
<1>11. Unreported(b) /\ MetadataOf(b, "origin") /\ b.left = 0 BY <1>4, <1>5, <1>9, SameSeen
<1>12. Authorized(b, mode) BY <1>6, <1>9, SameAuthorized
<1>13. ConnInv(Completed(b), mode) BY <1>9, <1>10, <1>11, <1>12, CompletedKeeps
<1>14. ConnInv(GoOn([b EXCEPT !.left = MaxBody], "copy"), mode)
  <2>1. PICK j : j = [b EXCEPT !.left = MaxBody] OBVIOUS
  <2>2. MaxBody \in 0..MaxBody BY LoopbackRequestAssumption
  <2>3. j \in Connection BY <1>9, <2>1, <2>2 DEF Connection
  <2>4. SameRights(b, j) /\ j.sent = b.sent /\ j.obs = b.obs /\ j.meta = b.meta
    BY <1>9, <2>1 DEF Connection, SameRights
  <2>5. Answered(j, "origin") /\ Unreported(j) /\ MetadataOf(j, "origin")
    BY <1>10, <1>11, <2>4, SameSeen
  <2>6. Report(j, "copy") BY <2>5 DEF Report, OpenPlaces
  <2>7. Authorized(j, mode) BY <1>12, <2>4, SameAuthorized
  <2>8. Rights(j, "copy", mode)
    BY <1>0, <1>3, <1>9, <2>4, <2>7
        DEF Rights, SameRights, EntryPlaces, QuietPlaces, HnsPlaces, IcannPlaces, DialPlaces,
            RatedPlaces
  <2>9. QED BY <2>1, <2>3, <2>6, <2>8, GoOnKeeps DEF Places, HnsPlaces
<1>15. QED BY <1>k, <1>1, <1>2, <1>7, <1>8, <1>13, <1>14, BecomeKeeps DEF WriteBackendResponse

LEMMA ExecuteBackendKeeps ==
    ASSUME RequestInv, NEW c \in Conns, ExecuteBackend(c)
    PROVE  RequestInv'
<1>k. PICK k : k = conn[c] OBVIOUS
<1>0. /\ k \in Connection /\ Rights(k, "call", mode) /\ Authorized(k, mode) /\ Untouched(k)
  BY <1>k, OpenAt DEF ExecuteBackend, OpenPlaces, Places, HnsPlaces, IcannPlaces
<1>1. ASSUME NEW status \in BackendStatuses PROVE ConnInv(Fail(k, status), mode)
  <2>1. status \in Heads /\ status # "100" BY DEF BackendStatuses, Heads
  <2>2. QED BY <1>0, <2>1, FailKeeps
<1>2. ConnInv(Ends(k), mode) BY <1>0, LeaveKeeps
<1>3. WriteBackendResponse(c) => RequestInv' BY WriteBackendResponseKeeps DEF ExecuteBackend
<1>4. QED BY <1>k, <1>1, <1>2, <1>3, BecomeKeeps DEF ExecuteBackend

\* A unit of the body was copied.
LEMMA CopyUnit ==
    ASSUME NEW k \in Connection, k.left > 0
    PROVE  LET j == [k EXCEPT !.left = @ - 1] IN
           /\ j \in Connection /\ j.pc = k.pc /\ SameRights(k, j)
           /\ j.sent = k.sent /\ j.obs = k.obs /\ j.meta = k.meta
<1>1. PICK n : n = k.left - 1 OBVIOUS
<1>2. n \in 0..MaxBody BY <1>1, LoopbackRequestAssumption DEF Connection
<1>3. PICK j : j = [k EXCEPT !.left = n] OBVIOUS
<1>4. j \in Connection BY <1>2, <1>3 DEF Connection
<1>5. j.pc = k.pc /\ SameRights(k, j) /\ j.sent = k.sent /\ j.obs = k.obs /\ j.meta = k.meta
  BY <1>3 DEF Connection, SameRights
<1>6. j = [k EXCEPT !.left = @ - 1] BY <1>1, <1>3
<1>7. QED BY <1>4, <1>5, <1>6

LEMMA CopyExactResponseKeeps ==
    ASSUME RequestInv, NEW c \in Conns, CopyExactResponse(c)
    PROVE  RequestInv'
<1>k. PICK k : k = conn[c] OBVIOUS
<1>0. /\ k \in Connection /\ k.pc = "copy" /\ Rights(k, "copy", mode) /\ Authorized(k, mode)
      /\ Answered(k, "origin") /\ Unreported(k) /\ MetadataOf(k, "origin")
  BY <1>k DEF CopyExactResponse, RequestInv, ConnInv, Rights, Report
<1>1. ConnInv(Ends(k), mode) /\ ConnInv(Ends(Observe(k, "BackendFailed")), mode)
  BY <1>0, StreamEnds DEF Heads
<1>2. ASSUME k.left > 0 PROVE ConnInv([k EXCEPT !.left = @ - 1], mode)
  <2>1. PICK j : j = [k EXCEPT !.left = @ - 1] OBVIOUS
  <2>2. /\ j \in Connection /\ j.pc = k.pc /\ SameRights(k, j)
        /\ j.sent = k.sent /\ j.obs = k.obs /\ j.meta = k.meta
    BY <1>0, <1>2, <2>1, CopyUnit
  <2>3. Answered(j, "origin") /\ Unreported(j) /\ MetadataOf(j, "origin") BY <1>0, <2>2,
      SameSeen
  <2>4. Authorized(j, mode) BY <1>0, <2>2, SameAuthorized
  <2>5. Rights(j, j.pc, mode)
    BY <1>0, <2>2, <2>4 DEF Rights, SameRights
  <2>6. Report(j, j.pc) BY <1>0, <2>2, <2>3 DEF Report, OpenPlaces
  <2>7. QED BY <2>1, <2>2, <2>5, <2>6 DEF ConnInv
<1>3. ASSUME k.left = 0 PROVE ConnInv(Completed(k), mode) BY <1>0, <1>3, CompletedKeeps
<1>4. QED BY <1>k, <1>1, <1>2, <1>3, BecomeKeeps DEF CopyExactResponse

LEMMA HandleAdmittedUpgradeKeeps ==
    ASSUME RequestInv, NEW c \in Conns, HandleAdmittedUpgrade(c)
    PROVE  RequestInv'
<1>k. PICK k : k = conn[c] OBVIOUS
<1>0. /\ k \in Connection /\ Rights(k, "upgrade", mode) /\ Authorized(k, mode) /\ Untouched(k)
  BY <1>k, OpenAt DEF HandleAdmittedUpgrade, OpenPlaces, Places, HnsPlaces, IcannPlaces
<1>1. ASSUME NEW status \in FramingErrors \union {"417"} PROVE ConnInv(Reject(k, status), mode)
  <2>1. status \in Heads /\ status # "100" BY DEF FramingErrors, Heads
  <2>2. QED BY <1>0, <2>1, RejectKeeps
<1>2. ConnInv(Drop(k), mode) BY <1>0, DropKeeps
<1>3. ConnInv(GoOn([k EXCEPT !.contact = "backend"], "tunnelCall"), mode)
  <2>0. PICK v : v = "backend" OBVIOUS
  <2>1. PICK j : j = [k EXCEPT !.contact = v] OBVIOUS
  <2>2. j \in Connection BY <1>0, <2>0, <2>1 DEF Connection
  <2>3. j.contact = v /\ j.authed = k.authed /\ j.rated = k.rated /\ j.host = k.host
      /\ j.cert = k.cert
    BY <1>0, <2>1 DEF Connection
  <2>4. SameReport(k, j) BY <1>0, <2>1 DEF Connection, SameReport
  <2>5. Untouched(j) BY <1>0, <2>4, SameSeen DEF SameReport, Untouched
  <2>6. k.authed /\ k.rated /\ k.host \in HnsInScope /\ k.cert \in {NoHost, k.host}
    BY <1>0 DEF Rights, RatedPlaces, HnsPlaces
  <2>7. Authorized(j, mode) BY <2>0, <2>3, <2>6 DEF Authorized
  <2>8. Rights(j, "tunnelCall", mode)
    BY <2>3, <2>6, <2>7
        DEF Rights, EntryPlaces, QuietPlaces, HnsPlaces, IcannPlaces, DialPlaces, RatedPlaces
  <2>9. ConnInv(GoOn(j, "tunnelCall"), mode)
    BY <2>2, <2>5, <2>8, OpenKeeps DEF OpenPlaces, Places, HnsPlaces
  <2>10. QED BY <2>0, <2>1, <2>9
<1>4. QED BY <1>k, <1>1, <1>2, <1>3, BecomeKeeps DEF HandleAdmittedUpgrade

LEMMA ExecuteBackendTunnelKeeps ==
    ASSUME RequestInv, NEW c \in Conns, ExecuteBackendTunnel(c)
    PROVE  RequestInv'
<1>k. PICK k : k = conn[c] OBVIOUS
<1>0. /\ k \in Connection /\ Rights(k, "tunnelCall", mode) /\ Authorized(k, mode)
      /\ Untouched(k)
  BY <1>k, OpenAt DEF ExecuteBackendTunnel, OpenPlaces, Places, HnsPlaces, IcannPlaces
<1>1. ASSUME NEW status \in BackendStatuses PROVE ConnInv(Fail(k, status), mode)
  <2>1. status \in Heads /\ status # "100" BY DEF BackendStatuses, Heads
  <2>2. QED BY <1>0, <2>1, FailKeeps
<1>2. ConnInv(Ends(k), mode) BY <1>0, LeaveKeeps
<1>3. WriteBackendResponse(c) => RequestInv' BY WriteBackendResponseKeeps DEF ExecuteBackendTunnel
<1>4. ConnInv(GoOn(Write(k, "101"), "pump"), mode)
  <2>1. PICK j : j = Write(k, "101") OBVIOUS
  <2>2. j \in Connection /\ SameRights(k, j) /\ j.obs = k.obs /\ j.meta = k.meta
      /\ j.left = k.left
    BY <1>0, <2>1, WriteIs DEF Heads
  <2>3. Answered(j, "101") BY <1>0, <2>1, WriteAnswers DEF Untouched, Heads
  <2>4. Unreported(j) /\ NoMetadata(j) /\ j.left = 0 BY <1>0, <2>2, SameSeen DEF Untouched
  <2>5. Report(j, "pump") BY <2>3, <2>4 DEF Report, OpenPlaces
  <2>6. Authorized(j, mode) BY <1>0, <2>2, SameAuthorized
  <2>7. Rights(j, "pump", mode) BY <2>6
      DEF Rights, EntryPlaces, QuietPlaces, HnsPlaces, IcannPlaces, DialPlaces, RatedPlaces
  <2>8. QED BY <2>1, <2>2, <2>5, <2>7, GoOnKeeps DEF Places
<1>5. QED BY <1>k, <1>1, <1>2, <1>3, <1>4, BecomeKeeps DEF ExecuteBackendTunnel

LEMMA PumpTunnelKeeps ==
    ASSUME RequestInv, NEW c \in Conns, PumpTunnel(c)
    PROVE  RequestInv'
<1>k. PICK k : k = conn[c] OBVIOUS
<1>0. /\ k \in Connection /\ Authorized(k, mode)
      /\ Answered(k, "101") /\ Unreported(k) /\ NoMetadata(k) /\ k.left = 0
  BY <1>k DEF PumpTunnel, RequestInv, ConnInv, Rights, Report
<1>1. MetadataOf(k, "101") BY <1>0, NoneIsAny
<1>2. ConnInv(Ends(k), mode) /\ ConnInv(Ends(Observe(k, "BackendFailed")), mode)
  BY <1>0, <1>1, StreamEnds DEF Heads
<1>3. ConnInv(Completed(k), mode) BY <1>0, <1>1, CompletedKeeps
<1>4. QED BY <1>k, <1>2, <1>3, BecomeKeeps DEF PumpTunnel

LEMMA HandleIcannConnectKeeps ==
    ASSUME RequestInv, NEW c \in Conns, HandleIcannConnect(c)
    PROVE  RequestInv'
<1>k. PICK k : k = conn[c] OBVIOUS
<1>0. /\ k \in Connection /\ Rights(k, "icannConnect", mode) /\ Authorized(k, mode)
      /\ Untouched(k)
  BY <1>k, OpenAt DEF HandleIcannConnect, OpenPlaces, Places, HnsPlaces, IcannPlaces
<1>1. ASSUME NEW status \in {"400", "403", "501"} PROVE ConnInv(Reject(k, status), mode)
  <2>1. status \in Heads /\ status # "100" BY DEF Heads
  <2>2. QED BY <1>0, <2>1, RejectKeeps
<1>2. ASSUME AdmitRate(c, k, "dialConnect") PROVE RequestInv'
  <2>1. \A i : (i \in Connection /\ i.rated /\ i.authed = k.authed /\ i.host = k.host
               /\ i.cert = k.cert /\ i.contact = k.contact) => Rights(i, "dialConnect", mode)
    BY <1>0 DEF Rights, Authorized, EntryPlaces, QuietPlaces, HnsPlaces, IcannPlaces,
        DialPlaces, RatedPlaces
  <2>2. "dialConnect" \in OpenPlaces BY
      DEF OpenPlaces, Places, HnsPlaces, IcannPlaces, DialPlaces
  <2>3. QED BY <1>0, <1>2, <2>1, <2>2, AdmitRateKeeps
<1>3. QED BY <1>k, <1>1, <1>2, BecomeKeeps DEF HandleIcannConnect

LEMMA HandleIcannRequestKeeps ==
    ASSUME RequestInv, NEW c \in Conns, HandleIcannRequest(c)
    PROVE  RequestInv'
<1>k. PICK k : k = conn[c] OBVIOUS
<1>0. /\ k \in Connection /\ Rights(k, "icannRequest", mode) /\ Authorized(k, mode)
      /\ Untouched(k)
  BY <1>k, OpenAt DEF HandleIcannRequest, OpenPlaces, Places, HnsPlaces, IcannPlaces
<1>1. ASSUME NEW status \in HeadErrors \union FramingErrors \union {"413",
    "417"} PROVE ConnInv(Reject(k, status), mode)
  <2>1. status \in Heads /\ status # "100" BY DEF HeadErrors, FramingErrors, Heads
  <2>2. QED BY <1>0, <2>1, RejectKeeps
<1>2. ConnInv(Ends(k), mode) BY <1>0, LeaveKeeps
<1>3. ConnInv(GoOn(k, "dialRequest"), mode)
  <2>1. Rights(k, "dialRequest", mode)
    BY <1>0 DEF Rights, EntryPlaces, QuietPlaces, HnsPlaces, IcannPlaces, DialPlaces,
        RatedPlaces
  <2>2. QED BY <1>0, <2>1, OpenKeeps DEF OpenPlaces, Places, HnsPlaces, IcannPlaces, DialPlaces
<1>4. ConnInv(GoOn(Write(k, "100"), "dialRequest"), mode)
  <2>1. PICK j : j = Write(k, "100") OBVIOUS
  <2>2. j \in Connection /\ SameRights(k, j) /\ j.obs = k.obs /\ j.meta = k.meta
      /\ j.left = k.left
    BY <1>0, <2>1, WriteIs DEF Heads
  <2>3. Untouched(j) BY <1>0, <2>1, <2>2, WriteInterim, SameSeen DEF Untouched
  <2>4. Authorized(j, mode) BY <1>0, <2>2, SameAuthorized
  <2>5. Rights(j, "dialRequest", mode)
    BY <1>0, <2>2, <2>4
        DEF Rights, SameRights, EntryPlaces, QuietPlaces, HnsPlaces, IcannPlaces, DialPlaces,
            RatedPlaces
  <2>6. QED BY <2>1, <2>2, <2>3, <2>5, OpenKeeps
            DEF OpenPlaces, Places, HnsPlaces, IcannPlaces, DialPlaces
<1>5. QED BY <1>k, <1>1, <1>2, <1>3, <1>4, BecomeKeeps DEF HandleIcannRequest

LEMMA HandleIcannUpgradeKeeps ==
    ASSUME RequestInv, NEW c \in Conns, HandleIcannUpgrade(c)
    PROVE  RequestInv'
<1>k. PICK k : k = conn[c] OBVIOUS
<1>0. /\ k \in Connection /\ Rights(k, "icannUpgrade", mode) /\ Authorized(k, mode)
      /\ Untouched(k)
  BY <1>k, OpenAt DEF HandleIcannUpgrade, OpenPlaces, Places, HnsPlaces, IcannPlaces
<1>1. ASSUME NEW status \in FramingErrors PROVE ConnInv(Reject(k, status), mode)
  <2>1. status \in Heads /\ status # "100" BY DEF FramingErrors, Heads
  <2>2. QED BY <1>0, <2>1, RejectKeeps
<1>2. ConnInv(Ends(k), mode) BY <1>0, LeaveKeeps
<1>3. ConnInv(GoOn(k, "dialUpgrade"), mode)
  <2>1. Rights(k, "dialUpgrade", mode)
    BY <1>0 DEF Rights, EntryPlaces, QuietPlaces, HnsPlaces, IcannPlaces, DialPlaces,
        RatedPlaces
  <2>2. QED BY <1>0, <2>1, OpenKeeps DEF OpenPlaces, Places, HnsPlaces, IcannPlaces, DialPlaces
<1>4. QED BY <1>k, <1>1, <1>2, <1>3, BecomeKeeps DEF HandleIcannUpgrade

\* The address dialled is a public one, whatever the answer held.
LEMMA DialIcannKeeps ==
    ASSUME RequestInv, NEW c \in Conns, DialIcann(c)
    PROVE  RequestInv'
<1>k. PICK k : k = conn[c] OBVIOUS
<1>p. PICK p \in DialPlaces : k.pc = p BY <1>k DEF DialIcann, AfterDial, DialPlaces
<1>q. PICK q \in {"icannTunnel", "icannSend"} : q = AfterDial[k.pc]
  BY <1>p DEF AfterDial, DialPlaces
<1>0. /\ k \in Connection /\ Rights(k, p, mode) /\ Authorized(k, mode) /\ Untouched(k)
  BY <1>k, <1>p, OpenAt DEF OpenPlaces, Places, IcannPlaces, DialPlaces
<1>1. ASSUME NEW status \in {"502", "503", "403"} PROVE ConnInv(Fail(k, status), mode)
  <2>1. status \in Heads /\ status # "100" BY DEF Heads
  <2>2. QED BY <1>0, <2>1, FailKeeps
<1>2. ASSUME NEW h, NEW resolved, NEW a \in DialTargets(h, resolved)
      PROVE  ConnInv(GoOn([k EXCEPT !.contact = a], q), mode)
  <2>0. a \in PublicAddresses /\ a # "backend"
    BY LoopbackRequestAssumption DEF DialTargets
  <2>1. PICK j : j = [k EXCEPT !.contact = a] OBVIOUS
  <2>2. j \in Connection BY <1>0, <2>0, <2>1 DEF Connection
  <2>3. j.contact = a /\ j.authed = k.authed /\ j.rated = k.rated /\ j.host = k.host
      /\ j.cert = k.cert
    BY <1>0, <2>1 DEF Connection
  <2>4. SameReport(k, j) BY <1>0, <2>1 DEF Connection, SameReport
  <2>5. Untouched(j) BY <1>0, <2>4, SameSeen DEF SameReport, Untouched
  <2>6. k.authed /\ k.rated /\ mode = "WholeBrowser" /\ k.host \notin HnsInScope
    BY <1>0 DEF Rights, RatedPlaces, IcannPlaces
  <2>7. Authorized(j, mode) BY <2>0, <2>3, <2>6 DEF Authorized
  <2>8. Rights(j, q, mode)
    BY <2>3, <2>6, <2>7
        DEF Rights, EntryPlaces, QuietPlaces, HnsPlaces, IcannPlaces, DialPlaces, RatedPlaces
  <2>9. q \in OpenPlaces BY DEF OpenPlaces, Places, IcannPlaces
  <2>10. QED BY <2>1, <2>2, <2>5, <2>8, <2>9, OpenKeeps
<1>3. QED BY <1>k, <1>q, <1>1, <1>2, BecomeKeeps DEF DialIcann

LEMMA IcannTunnelOpensKeeps ==
    ASSUME RequestInv, NEW c \in Conns, IcannTunnelOpens(c)
    PROVE  RequestInv'
<1>k. PICK k : k = conn[c] OBVIOUS
<1>0. /\ k \in Connection /\ Rights(k, "icannTunnel", mode) /\ Authorized(k, mode)
      /\ Untouched(k)
  BY <1>k, OpenAt DEF IcannTunnelOpens, OpenPlaces, Places, HnsPlaces, IcannPlaces
<1>1. ConnInv(Ends(k), mode) BY <1>0, LeaveKeeps
<1>2. ConnInv(GoOn(Observe(Write(k, "200"), "Completed"), "icannPump"), mode)
  <2>1. PICK a : a = Write(k, "200") OBVIOUS
  <2>2. a \in Connection /\ SameRights(k, a) /\ a.obs = k.obs /\ a.meta = k.meta
      /\ a.left = k.left
    BY <1>0, <2>1, WriteIs DEF Heads
  <2>3. Answered(a, "200") BY <1>0, <2>1, WriteAnswers DEF Untouched, Heads
  <2>4. Unreported(a) /\ NoMetadata(a) /\ a.left = 0 BY <1>0, <2>2, SameSeen DEF Untouched
  <2>5. PICK j : j = Observe(a, "Completed") OBVIOUS
  <2>6. j \in Connection /\ SameRights(a, j) /\ j.sent = a.sent /\ j.meta = a.meta
      /\ j.left = a.left
    BY <2>2, <2>5, ObserveIs DEF Phases
  <2>7. Reported(j, "Completed") BY <2>2, <2>4, <2>5, ObserveReports DEF Phases
  <2>8. Answered(j, "200") /\ NoMetadata(j) /\ j.left = 0 BY <2>3, <2>4, <2>6, SameSeen
  <2>9. Report(j, "icannPump") BY <2>7, <2>8 DEF Report, OpenPlaces
  <2>10. Authorized(j, mode) BY <1>0, <2>2, <2>6, SameAuthorized
  <2>11. Rights(j, "icannPump", mode)
    BY <1>0, <2>2, <2>6, <2>10
        DEF Rights, SameRights, EntryPlaces, QuietPlaces, HnsPlaces, IcannPlaces, DialPlaces,
            RatedPlaces
  <2>12. QED BY <2>1, <2>5, <2>6, <2>9, <2>11, GoOnKeeps DEF Places, IcannPlaces
<1>3. QED BY <1>k, <1>1, <1>2, BecomeKeeps DEF IcannTunnelOpens

LEMMA IcannPumpKeeps ==
    ASSUME RequestInv, NEW c \in Conns, IcannPump(c)
    PROVE  RequestInv'
<1>k. PICK k : k = conn[c] OBVIOUS
<1>0. /\ k \in Connection /\ Authorized(k, mode)
      /\ Answered(k, "200") /\ Reported(k, "Completed") /\ NoMetadata(k) /\ k.left = 0
  BY <1>k DEF IcannPump, RequestInv, ConnInv, Rights, Report
<1>1. Settled(k) BY <1>0, NoneIsAny, SettledCompleted
<1>2. QED BY <1>k, <1>0, <1>1, EndKeeps, BecomeKeeps DEF IcannPump

LEMMA IcannSendKeeps ==
    ASSUME RequestInv, NEW c \in Conns, IcannSend(c)
    PROVE  RequestInv'
<1>k. PICK k : k = conn[c] OBVIOUS
<1>0. /\ k \in Connection /\ Rights(k, "icannSend", mode) /\ Authorized(k, mode) /\ Untouched(k)
  BY <1>k, OpenAt DEF IcannSend, OpenPlaces, Places, HnsPlaces, IcannPlaces
<1>1. PICK a : a = Observe(k, "BackendFailed") OBVIOUS
<1>2. a \in Connection /\ SameRights(k, a) /\ a.sent = k.sent /\ a.meta = k.meta
  BY <1>0, <1>1, ObserveIs DEF Phases
<1>3. Failed(a) /\ Unanswered(a) /\ NoMetadata(a) /\ Authorized(a, mode)
  BY <1>0, <1>1, <1>2, ObserveFails, SameSeen, SameAuthorized DEF Untouched
<1>4. ConnInv(Ends(a), mode) BY <1>2, <1>3, NoneIsAny, SettledUnanswered, EndKeeps
<1>5. ConnInv(Write(Ends(a), "502"), mode)
  <2>1. PICK s : s = Append(a.sent, "502") OBVIOUS
  <2>2. s \in Seq(Heads)
    <3>1. a.sent \in Seq(Heads) /\ "502" \in Heads BY <1>2 DEF Connection, Heads
    <3>2. QED BY <2>1, <3>1, AppendIs
  <2>3. PICK d : d = "done" OBVIOUS
  <2>4. PICK e : e = Ends(a) OBVIOUS
  <2>5. e \in Connection /\ e = [a EXCEPT !.pc = d] /\ e.sent = a.sent
    BY <1>2, <2>3, <2>4, EndsMoves DEF Moves, SameReport, Ends
  <2>6. Write(e, "502") = [e EXCEPT !.sent = s] BY <2>1, <2>5 DEF Write
  <2>7. Ends(Write(a, "502")) = [[a EXCEPT !.sent = s] EXCEPT !.pc = d] BY <2>1, <2>3
      DEF Write, Ends
  <2>8. [e EXCEPT !.sent = s] = [[a EXCEPT !.sent = s] EXCEPT !.pc = d]
    BY <1>2, <2>2, <2>5 DEF Connection
  <2>9. ConnInv(Ends(Write(a, "502")), mode) BY <1>2, <1>3, HeadEnds DEF Heads
  <2>10. QED BY <2>4, <2>6, <2>7, <2>8, <2>9
<1>6. ASSUME NEW p \in {"icannSwitch", "icannHead"} PROVE ConnInv(GoOn(k, p), mode)
  <2>1. Rights(k, p, mode)
    BY <1>0 DEF Rights, EntryPlaces, QuietPlaces, HnsPlaces, IcannPlaces, DialPlaces,
        RatedPlaces
  <2>2. QED BY <1>0, <2>1, OpenKeeps DEF OpenPlaces, Places, IcannPlaces
<1>7. QED BY <1>k, <1>1, <1>4, <1>5, <1>6, BecomeKeeps DEF IcannSend

LEMMA RelayIcannHeadKeeps ==
    ASSUME RequestInv, NEW c \in Conns, RelayIcannHead(c)
    PROVE  RequestInv'
<1>k. PICK k : k = conn[c] OBVIOUS
<1>0. /\ k \in Connection /\ Rights(k, "icannHead", mode) /\ Authorized(k, mode) /\ Untouched(k)
  BY <1>k, OpenAt DEF RelayIcannHead, OpenPlaces, Places, HnsPlaces, IcannPlaces
<1>1. ConnInv(Fail(k, "502"), mode) BY <1>0, FailKeeps DEF Heads
<1>2. PICK b : b = Write(k, "origin") OBVIOUS
<1>3. b \in Connection /\ SameRights(k, b) /\ b.obs = k.obs /\ b.meta = k.meta
    /\ b.left = k.left
  BY <1>0, <1>2, WriteIs DEF Heads
<1>4. Answered(b, "origin") BY <1>0, <1>2, WriteAnswers DEF Untouched, Heads
<1>5. Unreported(b) /\ NoMetadata(b) /\ b.left = 0 BY <1>0, <1>3, SameSeen DEF Untouched
<1>6. Authorized(b, mode) BY <1>0, <1>3, SameAuthorized
<1>7. ConnInv(Completed(b), mode) BY <1>3, <1>4, <1>5, <1>6, NoneIsAny, CompletedKeeps
<1>8. ConnInv(GoOn([b EXCEPT !.left = MaxBody], "icannBody"), mode)
  <2>1. PICK j : j = [b EXCEPT !.left = MaxBody] OBVIOUS
  <2>2. MaxBody \in 0..MaxBody BY LoopbackRequestAssumption
  <2>3. j \in Connection BY <1>3, <2>1, <2>2 DEF Connection
  <2>4. SameRights(b, j) /\ j.sent = b.sent /\ j.obs = b.obs /\ j.meta = b.meta
    BY <1>3, <2>1 DEF Connection, SameRights
  <2>5. Answered(j, "origin") /\ Unreported(j) /\ NoMetadata(j) BY <1>4, <1>5, <2>4, SameSeen
  <2>6. Report(j, "icannBody") BY <2>5 DEF Report, OpenPlaces
  <2>7. Authorized(j, mode) BY <1>6, <2>4, SameAuthorized
  <2>8. Rights(j, "icannBody", mode)
    BY <1>0, <1>3, <2>4, <2>7
        DEF Rights, SameRights, EntryPlaces, QuietPlaces, HnsPlaces, IcannPlaces, DialPlaces,
            RatedPlaces
  <2>9. QED BY <2>1, <2>3, <2>6, <2>8, GoOnKeeps DEF Places, IcannPlaces
<1>9. QED BY <1>k, <1>1, <1>2, <1>7, <1>8, BecomeKeeps DEF RelayIcannHead

\* A body that breaks off is reported as failed; its metadata may then differ from the
\* head, but only for an ICANN host.
LEMMA RelayIcannBodyKeeps ==
    ASSUME RequestInv, NEW c \in Conns, RelayIcannBody(c)
    PROVE  RequestInv'
<1>k. PICK k : k = conn[c] OBVIOUS
<1>0. /\ k \in Connection /\ k.pc = "icannBody" /\ Rights(k, "icannBody", mode)
      /\ Authorized(k, mode) /\ Answered(k, "origin") /\ Unreported(k) /\ NoMetadata(k)
  BY <1>k DEF RelayIcannBody, RequestInv, ConnInv, Rights, Report
<1>1. ASSUME k.left > 0 PROVE ConnInv([k EXCEPT !.left = @ - 1], mode)
  <2>1. PICK j : j = [k EXCEPT !.left = @ - 1] OBVIOUS
  <2>2. /\ j \in Connection /\ j.pc = k.pc /\ SameRights(k, j)
        /\ j.sent = k.sent /\ j.obs = k.obs /\ j.meta = k.meta
    BY <1>0, <1>1, <2>1, CopyUnit
  <2>3. Answered(j, "origin") /\ Unreported(j) /\ NoMetadata(j) BY <1>0, <2>2, SameSeen
  <2>4. Authorized(j, mode) BY <1>0, <2>2, SameAuthorized
  <2>5. Rights(j, j.pc, mode)
    BY <1>0, <2>2, <2>4 DEF Rights, SameRights
  <2>6. Report(j, j.pc) BY <1>0, <2>2, <2>3 DEF Report, OpenPlaces
  <2>7. QED BY <2>1, <2>2, <2>5, <2>6 DEF ConnInv
<1>2. ConnInv(Ends(Observe(k, "BackendFailed")), mode)
  BY <1>0, NoneIsAny, StreamEnds DEF Heads
<1>3. ConnInv(Ends(Metadata(Observe(k, "BackendFailed"), "502")), mode)
  <2>1. PICK a : a = Observe(k, "BackendFailed") OBVIOUS
  <2>2. a \in Connection /\ SameRights(k, a) /\ a.sent = k.sent /\ a.meta = k.meta
    BY <1>0, <2>1, ObserveIs DEF Phases
  <2>3. Failed(a) /\ Answered(a, "origin") /\ NoMetadata(a)
    BY <1>0, <2>1, <2>2, ObserveFails, SameSeen
  <2>4. PICK j : j = Metadata(a, "502") OBVIOUS
  <2>5. j \in Connection /\ SameRights(a, j) /\ j.sent = a.sent /\ j.obs = a.obs
    BY <2>2, <2>4, MetadataIs DEF Heads
  <2>6. MetadataOf(j, "502") BY <2>2, <2>3, <2>4, MetadataOnce DEF Heads
  <2>7. Failed(j) /\ Answered(j, "origin") BY <2>3, <2>5, SameSeen DEF Failed
  <2>8. j.host \notin HnsInScope BY <1>0, <2>2, <2>5 DEF Rights, SameRights, IcannPlaces
  <2>9. Settled(j) BY <2>6, <2>7, <2>8, SettledAnswered
  <2>10. Authorized(j, mode) BY <1>0, <2>2, <2>5, SameAuthorized
  <2>11. QED BY <2>1, <2>4, <2>5, <2>9, <2>10, EndKeeps
<1>4. ASSUME k.left = 0 PROVE ConnInv(Completed(k), mode) BY <1>0, <1>4, NoneIsAny,
    CompletedKeeps
<1>5. QED BY <1>k, <1>1, <1>2, <1>3, <1>4, BecomeKeeps DEF RelayIcannBody

LEMMA IcannSwitchKeeps ==
    ASSUME RequestInv, NEW c \in Conns, IcannSwitch(c)
    PROVE  RequestInv'
<1>k. PICK k : k = conn[c] OBVIOUS
<1>0. /\ k \in Connection /\ Rights(k, "icannSwitch", mode) /\ Authorized(k, mode)
      /\ Untouched(k)
  BY <1>k, OpenAt DEF IcannSwitch, OpenPlaces, Places, HnsPlaces, IcannPlaces
<1>1. ConnInv(Fail(k, "502"), mode) BY <1>0, FailKeeps DEF Heads
<1>2. ConnInv(Ends(k), mode) BY <1>0, LeaveKeeps
<1>3. ConnInv(GoOn(Write(k, "101"), "pump"), mode)
  <2>1. PICK j : j = Write(k, "101") OBVIOUS
  <2>2. j \in Connection /\ SameRights(k, j) /\ j.obs = k.obs /\ j.meta = k.meta
      /\ j.left = k.left
    BY <1>0, <2>1, WriteIs DEF Heads
  <2>3. Answered(j, "101") BY <1>0, <2>1, WriteAnswers DEF Untouched, Heads
  <2>4. Unreported(j) /\ NoMetadata(j) /\ j.left = 0 BY <1>0, <2>2, SameSeen DEF Untouched
  <2>5. Report(j, "pump") BY <2>3, <2>4 DEF Report, OpenPlaces
  <2>6. Authorized(j, mode) BY <1>0, <2>2, SameAuthorized
  <2>7. Rights(j, "pump", mode) BY <2>6
      DEF Rights, EntryPlaces, QuietPlaces, HnsPlaces, IcannPlaces, DialPlaces, RatedPlaces
  <2>8. QED BY <2>1, <2>2, <2>5, <2>7, GoOnKeeps DEF Places
<1>4. QED BY <1>k, <1>1, <1>2, <1>3, BecomeKeeps DEF IcannSwitch

------------------------------------------------------------------------------
\* Every step of a handler keeps the invariant.
LEMMA HandleKeeps ==
    ASSUME RequestInv, NEW c \in Conns, Handle(c)
    PROVE  RequestInv'
  BY HandleClientKeeps, AuthenticateKeeps, DispatchTargetKeeps, HandleDirectHttpKeeps,
     HandleIcannHttpKeeps, HandleConnectKeeps, PrepareIdentityKeeps, AcceptLocalTlsKeeps,
     HandleConnectedHttpKeeps, HandleAdmittedHttpKeeps, ReadRequestBodyKeeps,
     ExecuteBackendKeeps, CopyExactResponseKeeps, HandleAdmittedUpgradeKeeps,
     ExecuteBackendTunnelKeeps, PumpTunnelKeeps, HandleIcannConnectKeeps,
     HandleIcannRequestKeeps, HandleIcannUpgradeKeeps, DialIcannKeeps,
     IcannTunnelOpensKeeps, IcannPumpKeeps, IcannSendKeeps, RelayIcannHeadKeeps,
     RelayIcannBodyKeeps, IcannSwitchKeeps
  DEF Handle

\* A new connection has no rights and was not seen by anyone.
LEMMA RequestInitInv == RequestInit => RequestInv
<1> SUFFICES ASSUME RequestInit PROVE RequestInv OBVIOUS
<1>0. PICK e : e = << >> OBVIOUS
<1>1. e \in Seq(Heads) /\ e \in Seq(Phases) /\ DOMAIN e = {} /\ Len(e) = 0 BY <1>0
<1>2. 0 \in 0..MaxBody BY LoopbackRequestAssumption
<1>3. Fresh \in Connection
  BY <1>0, <1>1, <1>2 DEF Fresh, Connection, Places, EntryPlaces
<1>4. Fresh.pc = "idle" /\ Fresh.contact = "none" /\ Fresh.cert = NoHost /\ Fresh.left = 0
      /\ Fresh.sent = e /\ Fresh.obs = e /\ Fresh.meta = e
  BY <1>0 DEF Fresh
<1>5. Untouched(Fresh)
  BY <1>0, <1>1, <1>4 DEF Untouched, Unanswered, Unreported, NoMetadata, Final, Terminal
<1>6. Rights(Fresh, "idle", mode)
  BY <1>4 DEF Rights, Authorized, EntryPlaces, QuietPlaces, HnsPlaces, IcannPlaces,
      DialPlaces, RatedPlaces
<1>7. Report(Fresh, "idle") BY <1>5 DEF Report
<1>8. ConnInv(Fresh, mode) BY <1>3, <1>4, <1>6, <1>7 DEF ConnInv
<1>9. QED BY <1>3, <1>8 DEF RequestInit, RequestInv

LEMMA RequestNextInv == RequestInv /\ [RequestNext]_requestVars => RequestInv'
<1> SUFFICES ASSUME RequestInv, [RequestNext]_requestVars PROVE RequestInv' OBVIOUS
<1>1. CASE \E c \in Conns : Handle(c) BY <1>1, HandleKeeps
<1>2. CASE Cancel \/ Deactivate BY <1>2 DEF Cancel, Deactivate, RequestInv
<1>3. CASE UNCHANGED requestVars BY <1>3 DEF requestVars, RequestInv
<1>4. QED BY <1>1, <1>2, <1>3 DEF RequestNext

\* Every place of a handler is a safe one to be at.
LEMMA RequestInvIsSafe == RequestInv => RequestSafety
<1> SUFFICES ASSUME RequestInv PROVE RequestSafety OBVIOUS
<1>1. ContactAuthorized BY DEF RequestInv, ConnInv, Rights, Authorized, ContactAuthorized
<1>2. ASSUME NEW c \in Conns, NEW k, k = conn[c]
      PROVE  /\ \A i, j \in Final(k) : i = j
             /\ \A i, j \in Terminal(k) : i = j
             /\ Len(k.meta) <= 1
             /\ k.host \in HnsInScope => \A i \in Final(k),
                 j \in DOMAIN k.meta : k.sent[i] = k.meta[j]
             /\ k.pc = "done" => Settled(k)
  <2>1. k \in Connection /\ Report(k, k.pc) BY <1>2 DEF RequestInv, ConnInv
  <2>2. CASE k.pc = "done" BY <2>1, <2>2 DEF Report, Settled
  <2>3. CASE k.pc \in OpenPlaces
    <3>1. Untouched(k) BY <2>1, <2>3 DEF Report
    <3>2. Settled(k) BY <2>1, <3>1, NoneIsAny, SettledUnanswered DEF Untouched, Failed
    <3>3. QED BY <3>2 DEF Settled
  <2>4. CASE k.pc = "icannPump"
    <3>1. Settled(k) BY <2>1, <2>4, NoneIsAny, SettledCompleted DEF Report
    <3>2. QED BY <3>1 DEF Settled
  <2>5. CASE k.pc \in {"tls", "copy", "pump", "icannBody"}
    <3>1. PICK h : Answered(k, h) /\ MetadataOf(k, h) /\ Unreported(k)
      BY <2>1, <2>5, NoneIsAny DEF Report
    <3>2. Settled(k) BY <3>1, SettledAnswered DEF Failed
    <3>3. QED BY <3>2 DEF Settled
  <2>6. k.pc \in Places BY <2>1 DEF Connection
  <2>7. QED BY <2>2, <2>3, <2>4, <2>5, <2>6 DEF OpenPlaces
<1>3. OneResponse BY <1>2 DEF OneResponse
<1>4. TruthfulOutcome
  <2>1. ASSUME NEW c \in Conns, NEW k, k = conn[c], k.pc = "done",
               "Completed" \in {k.obs[i] : i \in DOMAIN k.obs}
        PROVE  k.left = 0 /\ \E i \in Final(k) : k.sent[i] \in {"origin", "101", "200"}
    BY <1>2, <2>1 DEF Settled
  <2>2. QED BY <1>2, <2>1 DEF TruthfulOutcome
<1>5. MetadataMatches BY <1>2 DEF MetadataMatches
<1>6. QED BY <1>1, <1>3, <1>4, <1>5 DEF RequestSafety

\* Whatever the clients, the backend and the origins do, and wherever a stop falls: no
\* contact without authority, one final head per stream, one truthful outcome per
\* request, and metadata that match what an HNS page was sent.
THEOREM RequestSafe == RequestSpec => []RequestSafety
<1>1. RequestInit => RequestInv BY RequestInitInv
<1>2. RequestInv /\ [RequestNext]_requestVars => RequestInv' BY RequestNextInv
<1>3. RequestInv => RequestSafety BY RequestInvIsSafe
<1>4. QED BY <1>1, <1>2, <1>3, PTL DEF RequestSpec

(***************************************************************************)
(* The identity store.                                                     *)
(*                                                                         *)
(* StoreSafety is not inductive.  The lock belongs to a worker from its    *)
(* look-up to its return; what the look-up found or chose (the identity,   *)
(* the victim) stays true until then because only the owner changes the    *)
(* entries, a stop that clears them waits for the lock, and a lease is     *)
(* only ended, never taken, without it.  The order of use needs every      *)
(* entry's access count to be at most the counter, so that the ranks of a  *)
(* renumbering and the next count keep it.                                 *)
(***************************************************************************)

\* The entries and the ghost order of use, up to the access count c.
Book(e, r, c) ==
  /\ IsFiniteSet(DOMAIN e) /\ e = [h \in DOMAIN e |-> e[h]]
  /\ DOMAIN r = DOMAIN e
  /\ \A h \in DOMAIN e : /\ e[h] = [id |-> e[h].id, access |-> e[h].access]
                         /\ e[h].access \in Nat /\ e[h].access <= c /\ r[h] \in Nat
  /\ \A g, h \in DOMAIN e : e[g].access < e[h].access <=> r[g] < r[h]

WholeThread(r) == r = [step |-> r.step, host |-> r.host, id |-> r.id, der |-> r.der,
                       victims |-> r.victims]

StoreTypes ==
  /\ stopRequested \in BOOLEAN /\ storeActive \in BOOLEAN
  /\ stopStep \in {"running", "requested", "revoked", "cleared"}
  /\ accessCounter \in Nat /\ accessCounter <= MaxAccess
  /\ nextId \in Nat \ {0} /\ \A h \in DOMAIN entries : entries[h].id \in Nat \ {0}
  /\ leased \in [Leasers -> Nat]
  /\ DOMAIN thread = Leasers \cup Hooks
  /\ \A t \in DOMAIN thread : thread[t].id \in Nat /\ WholeThread(thread[t])

\* Evicting this set makes room, and takes nothing that is leased.
Spare(victims) ==
  \/ victims = {} /\ Cardinality(DOMAIN entries) < Capacity
  \/ \E h \in DOMAIN entries : victims = {h} /\ Unleased(h)

Inside(w) == thread[w].step \in {"found", "generate", "inserted"}

\* The lock belongs to the worker between its look-up and its return, and what
\* it carries over the steps in between stays true.
Locked(w) ==
    /\ Inside(w) <=> holder = w
    /\ thread[w].step = "generate" =>
         /\ thread[w].host \notin DOMAIN entries
         /\ \A h \in DOMAIN entries : entries[h].access < accessCounter
         /\ storeActive => Spare(thread[w].victims)
    /\ thread[w].step \in {"found", "inserted"} /\ storeActive =>
         /\ thread[w].host \in DOMAIN entries /\ entries[thread[w].host].id = thread[w].id

LockInv == \A w \in Leasers : Locked(w)

FlagInv == storeActive <=> stopStep \in {"running", "requested"}

StoreInv ==
  /\ StoreTypes /\ Book(entries, recency, accessCounter) /\ LockInv /\ FlagInv
  /\ RevokedStaysEmpty /\ LeasedIsCached

------------------------------------------------------------------------------
LEMMA LeastNumber ==
  ASSUME NEW S, S \subseteq Nat, S # {}
  PROVE  \E n \in S : \A m \in S : n <= m
<1>1. PICK R : R = OpToRel(<, Nat) OBVIOUS
<1>2. \A x, y \in Nat : <<y, x>> \in R <=> y < x BY <1>1 DEF OpToRel
<1>3. IsWellFoundedOn(R, Nat) BY <1>1, NatLessThanWellFounded, Zenon
<1>4. PICK n \in S : \A m \in S : <<m, n>> \notin R BY <1>3, WFMin
<1>5. ASSUME NEW m \in S PROVE n <= m
  <2>1. m \in Nat /\ n \in Nat OBVIOUS
  <2>2. ~(m < n) BY <1>2, <1>4, <2>1, Zenon
  <2>3. QED BY <2>1, <2>2
<1>6. QED BY <1>5

LEMMA StrictSubset ==
  ASSUME NEW T, IsFiniteSet(T), NEW S, S \subseteq T, NEW x \in T, x \notin S
  PROVE  /\ Cardinality(S) \in Nat /\ Cardinality(T) \in Nat
         /\ Cardinality(S) < Cardinality(T)
<1>1. IsFiniteSet(S) /\ Cardinality(S) <= Cardinality(T) /\ (Cardinality(S) = Cardinality(T) => S = T)
  BY FS_Subset
<1>2. Cardinality(S) \in Nat /\ Cardinality(T) \in Nat BY <1>1, FS_CardinalityType
<1>3. S # T OBVIOUS
<1>4. QED BY <1>1, <1>2, <1>3

Below(S, f, y) == Cardinality({x \in S : f[x] < f[y]})
UpTo(S, f, y) == Cardinality({x \in S : f[x] <= f[y]})

\* Counting the smaller elements keeps the order.
LEMMA RanksOrder ==
  ASSUME NEW S, IsFiniteSet(S), NEW f \in [S -> Nat], NEW g \in S, NEW h \in S
  PROVE  /\ Cardinality(S) \in Nat
         /\ Below(S, f, g) \in Nat /\ Below(S, f, g) < Cardinality(S)
         /\ UpTo(S, f, g) \in Nat /\ UpTo(S, f, g) <= Cardinality(S)
         /\ Below(S, f, g) < Below(S, f, h) <=> f[g] < f[h]
         /\ UpTo(S, f, g) < UpTo(S, f, h) <=> f[g] < f[h]
<1> DEFINE B(y) == {x \in S : f[x] < f[y]}
           U(y) == {x \in S : f[x] <= f[y]}
<1>1. \A y \in S : f[y] \in Nat OBVIOUS
<1>2. ASSUME NEW y \in S
      PROVE  /\ Cardinality(B(y)) \in Nat /\ Cardinality(B(y)) < Cardinality(S)
             /\ Cardinality(U(y)) \in Nat /\ Cardinality(U(y)) <= Cardinality(S)
             /\ IsFiniteSet(B(y)) /\ IsFiniteSet(U(y))
  <2>1. B(y) \in SUBSET S /\ U(y) \in SUBSET S /\ y \notin B(y) BY <1>1
  <2>2. IsFiniteSet(B(y)) /\ IsFiniteSet(U(y)) /\ Cardinality(U(y)) <= Cardinality(S)
    BY <2>1, FS_Subset
  <2>3. Cardinality(U(y)) \in Nat BY <2>2, FS_CardinalityType
  <2>4. Cardinality(B(y)) \in Nat /\ Cardinality(B(y)) < Cardinality(S)
    BY <2>1, StrictSubset
  <2>5. QED BY <2>2, <2>3, <2>4
<1>3. Cardinality(S) \in Nat BY FS_CardinalityType
<1>4. ASSUME NEW y \in S, NEW z \in S, f[y] < f[z]
      PROVE  Cardinality(B(y)) < Cardinality(B(z)) /\ Cardinality(U(y)) < Cardinality(U(z))
  <2>1. B(y) \subseteq B(z) /\ y \in B(z) /\ y \notin B(y) BY <1>1, <1>4
  <2>2. U(y) \subseteq U(z) /\ z \in U(z) /\ z \notin U(y) BY <1>1, <1>4
  <2>3. QED BY <1>2, <2>1, <2>2, StrictSubset
<1>5. ASSUME NEW y \in S, NEW z \in S, ~(f[y] < f[z])
      PROVE  ~(Cardinality(B(y)) < Cardinality(B(z))) /\ ~(Cardinality(U(y)) < Cardinality(U(z)))
  <2>1. B(z) \in SUBSET B(y) /\ U(z) \in SUBSET U(y) BY <1>1, <1>5
  <2>2. Cardinality(B(z)) <= Cardinality(B(y)) /\ Cardinality(U(z)) <= Cardinality(U(y))
    BY <1>2, <2>1, FS_Subset
  <2>3. QED BY <1>2, <2>2
<1>6. QED BY <1>2, <1>3, <1>4, <1>5 DEF Below, UpTo

LEMMA UsedIs ==
  ASSUME IsFiniteSet(DOMAIN recency), \A g \in DOMAIN recency : recency[g] \in Nat, NEW h
  PROVE  /\ DOMAIN Used(h) = DOMAIN recency \cup {h}
         /\ \A g \in DOMAIN Used(h) : Used(h)[g] \in Nat
         /\ \A g \in DOMAIN recency \ {h} : Used(h)[g] < Used(h)[h]
         /\ \A f, g \in DOMAIN recency \ {h} : Used(h)[f] < Used(h)[g] <=> recency[f] < recency[g]
<1> DEFINE S == DOMAIN recency \ {h}
<1>1. PICK r : r = [g \in S |-> recency[g]] OBVIOUS
<1>2. r \in [S -> Nat] /\ \A g \in S : r[g] = recency[g] BY <1>1
<1>3. IsFiniteSet(S) /\ Cardinality(S) \in Nat
  BY FS_RemoveElement, FS_CardinalityType
<1>4. \A g \in DOMAIN recency \cup {h} :
        Used(h)[g] = IF g = h THEN 1 + Cardinality(S) ELSE Cardinality({f \in S : recency[f] <= recency[g]})
  BY DEF Used
<1>5. ASSUME NEW g \in S PROVE Used(h)[g] = UpTo(S, r, g)
  <2>1. {x \in S : r[x] <= r[g]} = {f \in S : recency[f] <= recency[g]} BY <1>2
  <2>2. QED BY <1>4, <2>1 DEF UpTo
<1> HIDE DEF S
<1>6. \A g \in S : Used(h)[g] \in Nat /\ Used(h)[g] <= Cardinality(S)
  BY <1>2, <1>3, <1>5, RanksOrder
<1>7. \A f, g \in S : Used(h)[f] < Used(h)[g] <=> r[f] < r[g]
  BY <1>2, <1>3, <1>5, RanksOrder
<1>8. Used(h)[h] = 1 + Cardinality(S) BY <1>4
<1>9. DOMAIN Used(h) = S \cup {h} /\ DOMAIN recency \ {h} = S /\ DOMAIN Used(h) = DOMAIN recency \cup {h}
  BY DEF Used, S
<1>10. QED BY <1>2, <1>3, <1>6, <1>7, <1>8, <1>9

LEMMA RenumberedIs ==
  ASSUME Book(entries, recency, accessCounter), accessCounter \in Nat, accessCounter <= MaxAccess,
         Cardinality(DOMAIN entries) <= Capacity
  PROVE  /\ NextAccess - 1 \in Nat /\ NextAccess \in Nat /\ NextAccess <= MaxAccess
         /\ Book(Renumbered, recency, NextAccess - 1)
         /\ DOMAIN Renumbered = DOMAIN entries
         /\ \A h \in DOMAIN entries : Renumbered[h].id = entries[h].id
<1> DEFINE D == DOMAIN entries
<1>1. Cardinality(D) \in Nat BY FS_CardinalityType DEF Book
<1>2. CASE accessCounter # MaxAccess
  <2>1. Renumbered = entries /\ NextAccess = 1 + accessCounter
    BY <1>2 DEF Renumbered, NextAccess
  <2>2. MaxAccess \in Nat BY CapacityAssumption
  <2>3. NextAccess - 1 = accessCounter BY <2>1
  <2>4. NextAccess \in Nat /\ NextAccess <= MaxAccess BY <1>2, <2>1, <2>2
  <2>5. QED BY <2>1, <2>3, <2>4
<1>3. CASE accessCounter = MaxAccess
  <2>1. Renumbered = Renumber /\ NextAccess = 1 + Cardinality(D)
    BY <1>3 DEF Renumbered, NextAccess
  <2>2. PICK r : r = [h \in D |-> entries[h].access] OBVIOUS
  <2>3. r \in [D -> Nat] /\ \A h \in D : r[h] = entries[h].access BY <2>2 DEF Book
  <2>4. ASSUME NEW h \in D
        PROVE  /\ Renumber[h].id = entries[h].id /\ Renumber[h].access = Below(D, r, h)
               /\ Renumber[h] = [id |-> Renumber[h].id, access |-> Renumber[h].access]
    <3>1. {g \in DOMAIN entries : entries[g].access < entries[h].access} = {x \in D : r[x] < r[h]}
      BY <2>3
    <3>2. entries[h] = [id |-> entries[h].id, access |-> entries[h].access] BY DEF Book
    <3>3. Renumber[h] = [id |-> entries[h].id, access |-> Below(D, r, h)]
      BY <3>1, <3>2 DEF Renumber, Below
    <3>4. QED BY <3>3
  <2>5. DOMAIN Renumber = D /\ Renumber = [h \in DOMAIN Renumber |-> Renumber[h]] BY DEF Renumber
  <2>6. IsFiniteSet(D) /\ DOMAIN recency = D BY DEF Book
  <2>7. \A g, h \in D : entries[g].access < entries[h].access <=> recency[g] < recency[h] BY DEF Book
  <2>8. \A h \in D : recency[h] \in Nat BY DEF Book
  <2> HIDE DEF D
  <2>9. ASSUME NEW h \in D
        PROVE  /\ Renumber[h].access \in Nat /\ Renumber[h].access <= Cardinality(D)
               /\ Renumber[h].id = entries[h].id
               /\ Renumber[h] = [id |-> Renumber[h].id, access |-> Renumber[h].access]
    <3>1. Below(D, r, h) \in Nat /\ Below(D, r, h) < Cardinality(D) /\ Cardinality(D) \in Nat
      BY <2>3, <2>6, RanksOrder
    <3>2. QED BY <2>4, <3>1
  <2>10. ASSUME NEW g \in D, NEW h \in D
         PROVE  Renumber[g].access < Renumber[h].access <=> recency[g] < recency[h]
    <3>0. Renumber[g].access = Below(D, r, g) /\ Renumber[h].access = Below(D, r, h) BY <2>4
    <3>1. Renumber[g].access < Renumber[h].access <=> r[g] < r[h]
      BY <2>3, <2>6, <3>0, RanksOrder
    <3>2. QED BY <2>3, <2>7, <3>1
  <2>11. NextAccess - 1 = Cardinality(D) BY <1>1, <2>1 DEF D
  <2>12. Book(Renumber, recency, Cardinality(D))
    BY <2>5, <2>6, <2>8, <2>9, <2>10 DEF Book
  <2>13. NextAccess \in Nat /\ NextAccess <= MaxAccess
    BY <1>1, <2>1, CapacityAssumption DEF D
  <2>14. QED BY <1>1, <2>1, <2>5, <2>9, <2>11, <2>12, <2>13 DEF D
<1>4. QED BY <1>2, <1>3

\* A host is used: it gets the count after c and comes last in the order of use.
LEMMA TouchKeepsBook ==
  ASSUME NEW e, NEW c \in Nat, Book(e, recency, c), NEW h \in DOMAIN e, NEW k, k - 1 = c, k \in Nat
  PROVE  /\ Book([e EXCEPT ![h].access = k], Used(h), k)
         /\ DOMAIN [e EXCEPT ![h].access = k] = DOMAIN e
         /\ \A g \in DOMAIN e : [e EXCEPT ![h].access = k][g].id = e[g].id
<1> DEFINE D == DOMAIN e
<1>1. PICK n : n = [e EXCEPT ![h].access = k] OBVIOUS
<1>2. PICK u : u = Used(h) OBVIOUS
<1>3. /\ IsFiniteSet(D) /\ e = [g \in D |-> e[g]] /\ DOMAIN recency = D
      /\ \A g \in D : /\ e[g] = [id |-> e[g].id, access |-> e[g].access]
                      /\ e[g].access \in Nat /\ e[g].access <= c /\ recency[g] \in Nat
      /\ \A f, g \in D : e[f].access < e[g].access <=> recency[f] < recency[g]
  BY DEF Book
<1>4. /\ DOMAIN u = D /\ \A g \in D : u[g] \in Nat
      /\ \A g \in D \ {h} : u[g] < u[h]
      /\ \A f, g \in D \ {h} : u[f] < u[g] <=> recency[f] < recency[g]
  <2>1. DOMAIN recency \cup {h} = D BY <1>3
  <2>2. QED BY <1>2, <1>3, <2>1, UsedIs
<1>5. DOMAIN n = D /\ n = [g \in D |-> n[g]] /\ (\A g \in D \ {h} : n[g] = e[g])
  BY <1>1, <1>3
<1>6. n[h].id = e[h].id /\ n[h].access = k /\ n[h] = [id |-> n[h].id, access |-> n[h].access]
  <2>1. n[h] = [e[h] EXCEPT !.access = k] BY <1>1, <1>3
  <2>2. n[h] = [id |-> e[h].id, access |-> k] BY <1>3, <2>1
  <2>3. QED BY <2>2
<1>7. \A g \in D : n[g].id = e[g].id BY <1>5, <1>6
<1>8. ASSUME NEW g \in D
      PROVE  /\ n[g] = [id |-> n[g].id, access |-> n[g].access]
             /\ n[g].access \in Nat /\ n[g].access <= k /\ u[g] \in Nat
             /\ g # h => n[g].access < k /\ n[g].access = e[g].access
  <2>1. CASE g = h BY <1>4, <1>6, <2>1
  <2>2. CASE g # h
    <3>1. n[g] = e[g] /\ e[g].access \in Nat /\ e[g].access <= c BY <1>3, <1>5, <2>2
    <3>2. e[g] = [id |-> e[g].id, access |-> e[g].access] BY <1>3
    <3>3. e[g].access < k BY <3>1
    <3>4. QED BY <1>4, <2>2, <3>1, <3>2, <3>3
  <2>3. QED BY <2>1, <2>2
<1>9. ASSUME NEW f \in D, NEW g \in D PROVE n[f].access < n[g].access <=> u[f] < u[g]
  <2>1. CASE f # h /\ g # h
    <3>1. n[f].access = e[f].access /\ n[g].access = e[g].access BY <1>8, <2>1
    <3>2. f \in D \ {h} /\ g \in D \ {h} BY <2>1
    <3>3. e[f].access < e[g].access <=> recency[f] < recency[g] BY <1>3
    <3>4. u[f] < u[g] <=> recency[f] < recency[g] BY <1>4, <3>2
    <3>5. QED BY <3>1, <3>3, <3>4
  <2>2. CASE f = h /\ g = h
    <3>1. n[f].access \in Nat /\ u[f] \in Nat /\ f = g BY <1>4, <1>8, <2>2
    <3>2. QED BY <3>1
  <2>3. CASE f = h /\ g # h
    <3>1. n[g].access < n[f].access /\ n[f].access \in Nat /\ n[g].access \in Nat
      BY <1>6, <1>8, <2>3
    <3>2. u[g] < u[f] /\ u[f] \in Nat /\ u[g] \in Nat BY <1>4, <2>3
    <3>3. QED BY <3>1, <3>2
  <2>4. CASE f # h /\ g = h
    <3>1. n[f].access < n[g].access BY <1>6, <1>8, <2>4
    <3>2. u[f] < u[g] BY <1>4, <2>4
    <3>3. QED BY <3>1, <3>2
  <2>5. QED BY <2>1, <2>2, <2>3, <2>4
<1>10. Book(n, u, k) BY <1>3, <1>4, <1>5, <1>8, <1>9 DEF Book
<1>11. QED BY <1>1, <1>2, <1>5, <1>7, <1>10

\* What is taken out leaves the rest in order.
LEMMA RestrictKeepsBook ==
  ASSUME NEW e, NEW r, NEW c, Book(e, r, c), NEW S, S \subseteq DOMAIN e
  PROVE  Book([h \in S |-> e[h]], [h \in S |-> r[h]], c)
<1>1. PICK n : n = [h \in S |-> e[h]] OBVIOUS
<1>2. PICK q : q = [h \in S |-> r[h]] OBVIOUS
<1>3. DOMAIN n = S /\ DOMAIN q = S /\ (\A h \in S : n[h] = e[h] /\ q[h] = r[h])
      /\ n = [h \in S |-> n[h]]
  BY <1>1, <1>2
<1>4. IsFiniteSet(S) BY FS_Subset DEF Book
<1>5. \A h \in S : /\ n[h] = [id |-> n[h].id, access |-> n[h].access]
                   /\ n[h].access \in Nat /\ n[h].access <= c /\ q[h] \in Nat
  BY <1>3 DEF Book
<1>6. \A g, h \in S : n[g].access < n[h].access <=> q[g] < q[h]
  BY <1>3 DEF Book
<1>7. Book(n, q, c) BY <1>3, <1>4, <1>5, <1>6 DEF Book
<1>8. QED BY <1>1, <1>2, <1>7

\* A new identity takes the count that was drawn for it.
LEMMA InsertKeepsBook ==
  ASSUME NEW victims, Book(entries, recency, accessCounter), accessCounter \in Nat, nextId \in Nat,
         NEW h, h \notin DOMAIN entries, \A g \in DOMAIN entries : entries[g].access < accessCounter,
         victims \subseteq DOMAIN entries,
         NEW e, e = [g \in (DOMAIN entries \ victims) \union {h} |->
                       IF g = h THEN [id |-> nextId, access |-> accessCounter] ELSE entries[g]],
         NEW r, r = [g \in DOMAIN Used(h) \ victims |-> Used(h)[g]]
  PROVE  Book(e, r, accessCounter)
<1> DEFINE D == (DOMAIN entries \ victims) \cup {h}
<1>1. /\ IsFiniteSet(DOMAIN entries) /\ DOMAIN recency = DOMAIN entries
      /\ \A g \in DOMAIN entries :
           /\ entries[g] = [id |-> entries[g].id, access |-> entries[g].access]
           /\ entries[g].access \in Nat /\ recency[g] \in Nat
      /\ \A f, g \in DOMAIN entries : entries[f].access < entries[g].access <=> recency[f] < recency[g]
  BY DEF Book
<1>2. PICK u : u = Used(h) OBVIOUS
<1>3. DOMAIN recency \ {h} = DOMAIN entries /\ DOMAIN recency \cup {h} = DOMAIN entries \cup {h}
  BY <1>1
<1>4. /\ DOMAIN u = DOMAIN entries \cup {h} /\ \A g \in DOMAIN u : u[g] \in Nat
      /\ \A g \in DOMAIN entries : u[g] < u[h]
      /\ \A f, g \in DOMAIN entries : u[f] < u[g] <=> recency[f] < recency[g]
  BY <1>1, <1>2, <1>3, UsedIs
<1>5. DOMAIN u \ victims = D BY <1>4
<1>6. DOMAIN r = D /\ (\A g \in D : r[g] = u[g]) BY <1>2, <1>5
<1>7. DOMAIN e = D /\ e = [g \in D |-> e[g]] /\ (\A g \in D \ {h} : e[g] = entries[g])
      /\ e[h] = [id |-> nextId, access |-> accessCounter]
  OBVIOUS
<1>8. IsFiniteSet(D) BY <1>1, FS_Difference, FS_AddElement
<1>9. e[h].access = accessCounter /\ e[h].id = nextId BY <1>7
<1>10. ASSUME NEW g \in D
       PROVE  /\ e[g] = [id |-> e[g].id, access |-> e[g].access]
              /\ e[g].access \in Nat /\ e[g].access <= accessCounter /\ r[g] \in Nat
              /\ g # h => g \in DOMAIN entries /\ e[g].access = entries[g].access
                          /\ e[g].access < accessCounter
  <2>1. r[g] \in Nat BY <1>4, <1>6
  <2>2. CASE g = h BY <1>7, <1>9, <2>1, <2>2
  <2>3. CASE g # h
    <3>1. g \in DOMAIN entries /\ e[g] = entries[g] BY <1>7, <2>3
    <3>2. e[g].access < accessCounter /\ e[g].access \in Nat BY <1>1, <3>1
    <3>3. QED BY <1>1, <2>1, <2>3, <3>1, <3>2
  <2>4. QED BY <2>2, <2>3
<1>11. ASSUME NEW f \in D, NEW g \in D PROVE e[f].access < e[g].access <=> r[f] < r[g]
  <2>0. r[f] = u[f] /\ r[g] = u[g] /\ r[f] \in Nat /\ r[g] \in Nat BY <1>4, <1>6
  <2>1. CASE f # h /\ g # h
    <3>1. f \in DOMAIN entries /\ g \in DOMAIN entries BY <2>1
    <3>2. e[f].access = entries[f].access /\ e[g].access = entries[g].access BY <1>10, <2>1
    <3>3. entries[f].access < entries[g].access <=> recency[f] < recency[g] BY <1>1, <3>1
    <3>4. u[f] < u[g] <=> recency[f] < recency[g] BY <1>4, <3>1
    <3>5. QED BY <2>0, <3>2, <3>3, <3>4
  <2>2. CASE f = h /\ g = h BY <1>9, <2>0, <2>2
  <2>3. CASE f = h /\ g # h
    <3>1. e[g].access < e[f].access /\ e[g].access \in Nat /\ e[f].access \in Nat
      BY <1>9, <1>10, <2>3
    <3>2. r[g] < r[f] BY <1>4, <2>0, <2>3
    <3>3. QED BY <2>0, <3>1, <3>2
  <2>4. CASE f # h /\ g = h
    <3>1. e[f].access < e[g].access BY <1>9, <1>10, <2>4
    <3>2. r[f] < r[g] BY <1>4, <2>0, <2>4
    <3>3. QED BY <3>1, <3>2
  <2>5. QED BY <2>1, <2>2, <2>3, <2>4
<1>12. IsFiniteSet(DOMAIN e) /\ e = [g \in DOMAIN e |-> e[g]] /\ DOMAIN r = DOMAIN e
  BY <1>6, <1>7, <1>8
<1>13. \A g \in DOMAIN e : /\ e[g] = [id |-> e[g].id, access |-> e[g].access]
                           /\ e[g].access \in Nat /\ e[g].access <= accessCounter /\ r[g] \in Nat
  BY <1>7, <1>10
<1>14. \A f, g \in DOMAIN e : e[f].access < e[g].access <=> r[f] < r[g]
  BY <1>7, <1>11
<1>15. QED BY <1>12, <1>13, <1>14, Zenon DEF Book

------------------------------------------------------------------------------
LEMMA StoreInitial ==
  ASSUME StoreInit
  PROVE  StoreInv
<1>1. \A t \in Leasers \cup Hooks : thread[t] = AtRest BY DEF StoreInit
<1>2. /\ AtRest.step = "idle" /\ AtRest.id \in Nat /\ WholeThread(AtRest)
  BY DEF AtRest, WholeThread
<1>3. StoreTypes
  <2>1. DOMAIN thread = Leasers \cup Hooks BY DEF StoreInit
  <2>2. leased \in [Leasers -> Nat] BY DEF StoreInit
  <2>3. accessCounter = 0 /\ MaxAccess \in Nat /\ nextId = 1 BY CapacityAssumption DEF StoreInit
  <2>4. stopRequested = FALSE /\ storeActive = TRUE /\ stopStep = "running" BY DEF StoreInit
  <2>5. \A t \in DOMAIN thread : thread[t].id \in Nat /\ WholeThread(thread[t])
    BY <1>1, <1>2, <2>1, Zenon
  <2>6. accessCounter \in Nat /\ accessCounter <= MaxAccess /\ nextId \in Nat \ {0}
        /\ \A h \in DOMAIN entries : entries[h].id \in Nat \ {0}
    BY <2>3 DEF StoreInit
  <2>7. stopRequested \in BOOLEAN /\ storeActive \in BOOLEAN
        /\ stopStep \in {"running", "requested", "revoked", "cleared"}
    BY <2>4
  <2>8. QED BY <2>1, <2>2, <2>5, <2>6, <2>7 DEF StoreTypes
<1>4. DOMAIN entries = {} /\ DOMAIN recency = {} /\ entries = [h \in DOMAIN entries |-> entries[h]]
  BY DEF StoreInit
<1>5. Book(entries, recency, accessCounter) BY <1>4, FS_EmptySet DEF Book
<1>6. LockInv BY <1>1, <1>2, NobodyAssumption DEF LockInv, Locked, Inside, StoreInit
<1>7. FlagInv BY DEF FlagInv, StoreInit
<1>8. RevokedStaysEmpty BY <1>4, FS_EmptySet, CapacityAssumption DEF RevokedStaysEmpty
<1>9. LeasedIsCached BY DEF LeasedIsCached, StoreInit
<1>10. QED BY <1>3, <1>5, <1>6, <1>7, <1>8, <1>9 DEF StoreInv

\* Thread t has moved to s and keeps what it carries; the others are where they were.
Moved(t, s) ==
  /\ DOMAIN thread' = DOMAIN thread /\ thread'[t].step = s
  /\ \A u \in DOMAIN thread \ {t} : thread'[u] = thread[u]
  /\ \A u \in DOMAIN thread' : thread'[u].id \in Nat /\ WholeThread(thread'[u])

LEMMA OneThreadMoves ==
  ASSUME StoreTypes, NEW t \in DOMAIN thread, NEW r, r.id \in Nat, WholeThread(r),
         thread' = [thread EXCEPT ![t] = r]
  PROVE  Moved(t, r.step) /\ thread'[t] = r
<1>1. \A u \in DOMAIN thread : thread[u].id \in Nat /\ WholeThread(thread[u]) BY DEF StoreTypes
<1>2. DOMAIN thread' = DOMAIN thread /\ thread'[t] = r
      /\ \A u \in DOMAIN thread \ {t} : thread'[u] = thread[u]
  OBVIOUS
<1>3. ASSUME NEW u \in DOMAIN thread' PROVE thread'[u].id \in Nat /\ WholeThread(thread'[u])
  <2>1. CASE u = t BY <1>2, <2>1
  <2>2. CASE u # t BY <1>1, <1>2, <2>2
  <2>3. QED BY <2>1, <2>2
<1>4. QED BY <1>2, <1>3 DEF Moved

LEMMA FinishMoves ==
  ASSUME StoreTypes, NEW t \in DOMAIN thread, Finish(t)
  PROVE  Moved(t, "idle")
<1>1. AtRest.id = 0 /\ AtRest.step = "idle" /\ WholeThread(AtRest) BY DEF AtRest, WholeThread
<1>2. thread' = [thread EXCEPT ![t] = AtRest] BY DEF Finish
<1>3. 0 \in Nat OBVIOUS
<1>4. QED BY <1>1, <1>2, <1>3, OneThreadMoves

LEMMA StepMoves ==
  ASSUME StoreTypes, NEW t \in DOMAIN thread, NEW s, Move(t, s)
  PROVE  Moved(t, s) /\ thread'[t].host = thread[t].host /\ thread'[t].id = thread[t].id
<1>1. PICK r : r = [thread[t] EXCEPT !.step = s] OBVIOUS
<1>2. thread[t].id \in Nat /\ WholeThread(thread[t]) BY DEF StoreTypes
<1>3. r.step = s /\ r.id = thread[t].id /\ r.host = thread[t].host /\ WholeThread(r)
  BY <1>1, <1>2 DEF WholeThread
<1>4. thread' = [thread EXCEPT ![t] = r] BY <1>1 DEF Move
<1>5. QED BY <1>2, <1>3, <1>4, OneThreadMoves

LEMMA StepWithIdMoves ==
  ASSUME StoreTypes, NEW t \in DOMAIN thread, NEW s, NEW i \in Nat,
         thread' = [thread EXCEPT ![t].step = s, ![t].id = i]
  PROVE  Moved(t, s) /\ thread'[t].host = thread[t].host /\ thread'[t].id = i
<1>1. PICK r : r = [thread[t] EXCEPT !.step = s, !.id = i] OBVIOUS
<1>2. thread[t].id \in Nat /\ WholeThread(thread[t]) BY DEF StoreTypes
<1>3. r.step = s /\ r.id = i /\ r.host = thread[t].host /\ WholeThread(r)
  BY <1>1, <1>2 DEF WholeThread
<1>4. thread' = [thread EXCEPT ![t] = r] BY <1>1
<1>5. QED BY <1>2, <1>3, <1>4, OneThreadMoves

LEMMA StepWithVictimsMoves ==
  ASSUME StoreTypes, NEW t \in DOMAIN thread, NEW s, NEW v,
         thread' = [thread EXCEPT ![t].step = s, ![t].victims = v]
  PROVE  Moved(t, s) /\ thread'[t].host = thread[t].host /\ thread'[t].victims = v
<1>1. PICK r : r = [thread[t] EXCEPT !.step = s, !.victims = v] OBVIOUS
<1>2. thread[t].id \in Nat /\ WholeThread(thread[t]) BY DEF StoreTypes
<1>3. r.step = s /\ r.id = thread[t].id /\ r.host = thread[t].host /\ r.victims = v /\ WholeThread(r)
  BY <1>1, <1>2 DEF WholeThread
<1>4. thread' = [thread EXCEPT ![t] = r] BY <1>1
<1>5. QED BY <1>2, <1>3, <1>4, OneThreadMoves

\* Nobody is inside while the mutex is free, and nobody but its owner otherwise.
LEMMA OwnerInside ==
  ASSUME LockInv
  PROVE  /\ holder = Nobody => \A v \in Leasers : ~Inside(v)
         /\ \A w, v \in Leasers : Inside(w) /\ v # w => ~Inside(v)
BY NobodyAssumption DEF LockInv, Locked

\* A thread that is not inside and does not enter, while the entries and the
\* count stay and no lease is granted, leaves the lock's invariant alone.
LEMMA OutsideKeepsLock ==
  ASSUME StoreInv, NEW t \in DOMAIN thread,
         t \in Leasers => ~Inside(t) /\ ~Inside(t)',
         \A u \in DOMAIN thread \ {t} : thread'[u] = thread[u],
         UNCHANGED <<holder, entries, accessCounter>>, storeActive' => storeActive,
         \A h \in DOMAIN entries : Unleased(h) => Unleased(h)'
  PROVE  LockInv'
<1> SUFFICES ASSUME NEW w \in Leasers PROVE Locked(w)'
  BY DEF LockInv
<1>1. LockInv /\ DOMAIN thread = Leasers \cup Hooks BY DEF StoreInv, StoreTypes
<1>2. CASE w = t
  <2>1. ~Inside(w)' /\ holder' # w BY <1>1, <1>2 DEF LockInv, Locked
  <2>2. QED BY <2>1 DEF Inside, Locked
<1>3. CASE w # t
  <2>1. thread'[w] = thread[w] BY <1>1, <1>3
  <2>2. ASSUME NEW vs, Spare(vs) PROVE Spare(vs)' BY <2>2 DEF Spare
  <2>3. Inside(w)' <=> Inside(w) BY <2>1 DEF Inside
  <2>4. Locked(w) BY <1>1 DEF LockInv
  <2>5. QED BY <2>1, <2>2, <2>3, <2>4 DEF Locked
<1>4. QED BY <1>2, <1>3

\* Nobody is inside afterwards.
LEMMA FreeKeepsLock ==
  ASSUME holder' = Nobody, \A v \in Leasers : ~Inside(v)'
  PROVE  LockInv'
BY NobodyAssumption DEF LockInv, Locked, Inside

\* Worker w is the only one inside afterwards.
LEMMA EnterKeepsLock ==
  ASSUME NEW w \in Leasers, holder' = w, Locked(w)', \A v \in Leasers \ {w} : ~Inside(v)'
  PROVE  LockInv'
<1> SUFFICES ASSUME NEW v \in Leasers PROVE Locked(v)'
  BY DEF LockInv
<1>1. CASE v = w BY <1>1
<1>2. CASE v # w
  <2>1. ~Inside(v)' BY <1>2
  <2>2. QED BY <1>2, <2>1 DEF Inside, Locked
<1>3. QED BY <1>1, <1>2

------------------------------------------------------------------------------
\* A step outside the lock that touches neither the entries nor the leases.
LEMMA QuietKeeps ==
  ASSUME StoreInv, NEW t \in DOMAIN thread, ~Inside(t),
         NEW s, s \notin {"found", "generate", "inserted"}, Moved(t, s),
         UNCHANGED <<stopRequested, storeActive, holder, entries, accessCounter, nextId, leased,
                     stopStep, recency>>
  PROVE  StoreInv'
<1>1. StoreTypes' BY DEF StoreInv, StoreTypes, Moved
<1>2. LockInv'
  <2>1. ~Inside(t)' BY DEF Inside, Moved
  <2>2. \A u \in DOMAIN thread \ {t} : thread'[u] = thread[u] BY DEF Moved
  <2>3. \A h \in DOMAIN entries : Unleased(h) => Unleased(h)' BY DEF Unleased
  <2>4. QED BY <2>1, <2>2, <2>3, OutsideKeepsLock
<1>3. Book(entries, recency, accessCounter)' BY DEF StoreInv, Book
<1>4. FlagInv' BY DEF StoreInv, FlagInv
<1>5. RevokedStaysEmpty' /\ LeasedIsCached' BY DEF StoreInv, RevokedStaysEmpty, LeasedIsCached
<1>6. QED BY <1>1, <1>2, <1>3, <1>4, <1>5 DEF StoreInv

LEMMA PrepareKeeps ==
  ASSUME StoreInv, NEW w \in Leasers, NEW h, Prepare(w, h)
  PROVE  StoreInv'
<1>1. StoreTypes /\ w \in DOMAIN thread /\ ~Inside(w)
  BY DEF StoreInv, StoreTypes, Prepare, StandsAt, Inside
<1>2. CASE storeActive
  <2>1. PICK r : r = [AtRest EXCEPT !.step = "lock", !.host = h] OBVIOUS
  <2>2. r.step = "lock" /\ r.id \in Nat /\ WholeThread(r) BY <2>1 DEF AtRest, WholeThread
  <2>3. thread' = [thread EXCEPT ![w] = r] BY <1>2, <2>1 DEF Prepare
  <2>4. Moved(w, "lock") BY <1>1, <2>2, <2>3, OneThreadMoves
  <2>5. "lock" \notin {"found", "generate", "inserted"} OBVIOUS
  <2>6. QED BY <1>1, <2>4, <2>5, QuietKeeps DEF Prepare
<1>3. CASE ~storeActive
  <2>1. thread' = thread BY <1>3 DEF Prepare
  <2>2. Moved(w, thread[w].step) BY <1>1, <2>1 DEF Moved, StoreTypes
  <2>3. thread[w].step \notin {"found", "generate", "inserted"} BY <1>1 DEF Inside
  <2>4. QED BY <1>1, <2>2, <2>3, QuietKeeps DEF Prepare
<1>4. QED BY <1>2, <1>3

LEMMA AskMatchKeeps ==
  ASSUME StoreInv, NEW a \in Hooks, NEW h, NEW der, AskMatch(a, h, der)
  PROVE  StoreInv'
<1>1. StoreTypes /\ a \in DOMAIN thread /\ ~Inside(a)
  BY DEF StoreInv, StoreTypes, AskMatch, StandsAt, Inside
<1>2. CASE ~(stopRequested \/ ~storeActive)
  <2>1. PICK r : r = [AtRest EXCEPT !.step = "pin", !.host = h, !.der = der] OBVIOUS
  <2>2. r.step = "pin" /\ r.id \in Nat /\ WholeThread(r) BY <2>1 DEF AtRest, WholeThread
  <2>3. thread' = [thread EXCEPT ![a] = r] BY <1>2, <2>1 DEF AskMatch
  <2>4. Moved(a, "pin") BY <1>1, <2>2, <2>3, OneThreadMoves
  <2>5. "pin" \notin {"found", "generate", "inserted"} OBVIOUS
  <2>6. QED BY <1>1, <2>4, <2>5, QuietKeeps DEF AskMatch
<1>3. CASE stopRequested \/ ~storeActive
  <2>1. thread' = thread BY <1>3 DEF AskMatch
  <2>2. Moved(a, thread[a].step) BY <1>1, <2>1 DEF Moved, StoreTypes
  <2>3. thread[a].step \notin {"found", "generate", "inserted"} BY <1>1 DEF Inside
  <2>4. QED BY <1>1, <2>2, <2>3, QuietKeeps DEF AskMatch
<1>4. QED BY <1>2, <1>3

LEMMA AnswerKeeps ==
  ASSUME StoreInv, NEW a \in Hooks, Answer(a)
  PROVE  StoreInv'
<1>1. StoreTypes /\ a \in DOMAIN thread /\ ~Inside(a)
  BY DEF StoreInv, StoreTypes, Answer, StandsAt, Inside
<1>2. Moved(a, "idle") BY <1>1, FinishMoves DEF Answer
<1>3. "idle" \notin {"found", "generate", "inserted"} OBVIOUS
<1>4. QED BY <1>1, <1>2, <1>3, QuietKeeps DEF Answer

LEMMA EndLeaseKeeps ==
  ASSUME StoreInv, NEW w \in Leasers, EndLease(w)
  PROVE  StoreInv'
<1>1. StoreTypes /\ w \in DOMAIN thread /\ ~Inside(w)
  BY DEF StoreInv, StoreTypes, EndLease, StandsAt, Inside
<1>2. leased' \in [Leasers -> Nat] /\ \A v \in Leasers : leased'[v] = leased[v] \/ leased'[v] = 0
  BY <1>1 DEF StoreTypes, EndLease
<1>3. StoreTypes' BY <1>2 DEF StoreInv, StoreTypes, EndLease
<1>4. ASSUME NEW v \in Leasers PROVE Locked(v)'
  <2>1. Locked(v) BY DEF StoreInv, LockInv
  <2>2. ASSUME NEW vs, Spare(vs) PROVE Spare(vs)'
    <3>1. entries' = entries BY DEF EndLease
    <3>2. ASSUME NEW h \in DOMAIN entries, Unleased(h) PROVE Unleased(h)'
      <4>1. leased'[w] = 0 /\ \A u \in Leasers \ {w} : leased'[u] = leased[u]
        BY <1>1 DEF EndLease, StoreTypes
      <4>2. QED BY <1>1, <3>1, <3>2, <4>1 DEF Unleased, StoreTypes
    <3>3. QED BY <2>2, <3>1, <3>2 DEF Spare
  <2>3. QED BY <2>1, <2>2 DEF Locked, Inside, EndLease
<1>5. LockInv' BY <1>4 DEF LockInv
<1>6. Book(entries, recency, accessCounter)' BY DEF StoreInv, Book, EndLease
<1>7. FlagInv' BY DEF StoreInv, FlagInv, EndLease
<1>8. RevokedStaysEmpty' BY DEF StoreInv, RevokedStaysEmpty, EndLease
<1>9. LeasedIsCached' BY <1>2 DEF StoreInv, LeasedIsCached, EndLease
<1>10. QED BY <1>3, <1>5, <1>6, <1>7, <1>8, <1>9 DEF StoreInv

------------------------------------------------------------------------------
\* The access count has advanced; the entries are the same identities.
Counted ==
  /\ accessCounter' \in Nat /\ accessCounter' <= MaxAccess
  /\ Book(entries, recency, accessCounter)'
  /\ DOMAIN entries' = DOMAIN entries
  /\ \A h \in DOMAIN entries : entries'[h].id = entries[h].id

LEMMA MissCounts ==
  ASSUME StoreInv, accessCounter' = NextAccess, entries' = Renumbered, recency' = recency
  PROVE  Counted /\ \A h \in DOMAIN entries' : entries'[h].access < accessCounter'
<1>1. Cardinality(DOMAIN entries) <= Capacity BY DEF StoreInv, RevokedStaysEmpty
<1>2. /\ NextAccess - 1 \in Nat /\ NextAccess \in Nat /\ NextAccess <= MaxAccess
      /\ Book(Renumbered, recency, NextAccess - 1)
      /\ DOMAIN Renumbered = DOMAIN entries
      /\ \A h \in DOMAIN entries : Renumbered[h].id = entries[h].id
  BY <1>1, RenumberedIs DEF StoreInv, StoreTypes
<1>3. PICK n, e : n = NextAccess /\ e = Renumbered OBVIOUS
<1>4. \A h \in DOMAIN e : e[h].access \in Nat /\ e[h].access <= n - 1 BY <1>2, <1>3 DEF Book
<1>5. n \in Nat BY <1>2, <1>3
<1>6. \A h \in DOMAIN e : e[h].access < n /\ e[h].access <= n BY <1>4, <1>5
<1>7. Book(e, recency, n) BY <1>2, <1>3, <1>6 DEF Book
<1>8. Book(entries', recency', accessCounter') BY <1>3, <1>7
<1>9. QED BY <1>2, <1>3, <1>6, <1>8 DEF Counted, Book

LEMMA HitCounts ==
  ASSUME StoreInv, NEW h \in DOMAIN entries, accessCounter' = NextAccess,
         entries' = [Renumbered EXCEPT ![h].access = NextAccess], recency' = Used(h)
  PROVE  Counted
<1>1. Cardinality(DOMAIN entries) <= Capacity BY DEF StoreInv, RevokedStaysEmpty
<1>2. /\ NextAccess - 1 \in Nat /\ NextAccess \in Nat /\ NextAccess <= MaxAccess
      /\ Book(Renumbered, recency, NextAccess - 1)
      /\ DOMAIN Renumbered = DOMAIN entries
      /\ \A g \in DOMAIN entries : Renumbered[g].id = entries[g].id
  BY <1>1, RenumberedIs DEF StoreInv, StoreTypes
<1>3. PICK n, e : n = NextAccess /\ e = Renumbered OBVIOUS
<1>4. n - 1 \in Nat /\ n \in Nat /\ Book(e, recency, n - 1) /\ h \in DOMAIN e BY <1>2, <1>3
<1>5. /\ Book([e EXCEPT ![h].access = n], Used(h), n)
      /\ DOMAIN [e EXCEPT ![h].access = n] = DOMAIN e
      /\ \A g \in DOMAIN e : [e EXCEPT ![h].access = n][g].id = e[g].id
  BY <1>4, TouchKeepsBook
<1>6. entries' = [e EXCEPT ![h].access = n] BY <1>3
<1>7. Book(entries', recency', accessCounter') BY <1>3, <1>5, <1>6
<1>8. QED BY <1>2, <1>3, <1>5, <1>6, <1>7 DEF Counted, Book

LEMMA CountKeeps ==
  ASSUME StoreInv, Counted, NEW t \in DOMAIN thread, NEW s, Moved(t, s), LockInv',
         UNCHANGED <<stopRequested, storeActive, stopStep, nextId, leased>>
  PROVE  StoreInv'
<1>1. StoreTypes' BY DEF StoreInv, StoreTypes, Moved, Counted
<1>2. Book(entries, recency, accessCounter)' BY DEF Counted
<1>3. FlagInv' BY DEF StoreInv, FlagInv
<1>4. RevokedStaysEmpty' BY DEF StoreInv, RevokedStaysEmpty, Counted
<1>5. LeasedIsCached'
  <2> SUFFICES ASSUME storeActive', NEW w \in Leasers, leased'[w] # 0
               PROVE  \E h \in DOMAIN entries' : entries'[h].id = leased'[w]
    BY DEF LeasedIsCached
  <2>1. PICK h \in DOMAIN entries : entries[h].id = leased[w]
    BY DEF StoreInv, LeasedIsCached
  <2>2. QED BY <2>1 DEF Counted
<1>6. QED BY <1>1, <1>2, <1>3, <1>4, <1>5 DEF StoreInv

\* Some free identity is the least recently used one.
LEMMA VictimsAreSpare ==
  ASSUME StoreInv, ~(Full /\ Evictable = {})
  PROVE  Spare(Victims)
<1>1. Cardinality(DOMAIN entries) \in Nat /\ Capacity \in Nat
  BY FS_CardinalityType, CapacityAssumption DEF StoreInv, Book
<1>2. CASE ~Full BY <1>1, <1>2 DEF Full, Victims, Spare
<1>3. CASE Full
  <2>1. Evictable # {} BY <1>3
  <2>2. \A h \in Evictable : h \in DOMAIN entries /\ entries[h].access \in Nat /\ Unleased(h)
    BY DEF Evictable, StoreInv, Book
  <2>3. PICK N : N = {n \in Nat : \E h \in Evictable : entries[h].access = n} OBVIOUS
  <2>4. N \subseteq Nat /\ N # {} BY <2>1, <2>2, <2>3
  <2>5. PICK n \in N : \A m \in N : n <= m BY <2>4, LeastNumber
  <2>6. \E h \in Evictable : \A g \in Evictable : entries[h].access <= entries[g].access
    BY <2>2, <2>3, <2>5
  <2>7. PICK v : v = CHOOSE h \in Evictable : \A g \in Evictable : entries[h].access <= entries[g].access
    OBVIOUS
  <2>8. v \in Evictable BY <2>6, <2>7
  <2>9. Victims = {v} BY <1>3, <2>7 DEF Victims
  <2>10. QED BY <2>2, <2>8, <2>9 DEF Spare
<1>4. QED BY <1>2, <1>3

LEMMA LookUpKeeps ==
  ASSUME StoreInv, NEW w \in Leasers, LookUp(w)
  PROVE  StoreInv'
<1>1. /\ StoreTypes /\ w \in DOMAIN thread /\ ~Inside(w) /\ LockInv
      /\ holder = Nobody /\ \A v \in Leasers : ~Inside(v) /\ v \in DOMAIN thread
  BY OwnerInside DEF StoreInv, StoreTypes, LookUp, StandsAt, Inside
<1>2. UNCHANGED <<stopRequested, storeActive, nextId, leased, stopStep>> BY DEF LookUp
<1>3. "idle" \notin {"found", "generate", "inserted"} OBVIOUS
<1>4. PICK h : h = thread[w].host OBVIOUS
<1>5. ASSUME NEW s, Moved(w, s) PROVE \A v \in Leasers \ {w} : ~Inside(v)'
  BY <1>1, <1>5 DEF Moved, Inside
<1>6. CASE ~storeActive
  <2>1. Finish(w) /\ UNCHANGED <<holder, entries, accessCounter, recency>>
    BY <1>6 DEF LookUp
  <2>2. Moved(w, "idle") BY <1>1, <2>1, FinishMoves
  <2>3. QED BY <1>1, <1>2, <1>3, <2>1, <2>2, QuietKeeps
<1>7. CASE storeActive /\ h \in DOMAIN entries
  <2>1. /\ accessCounter' = NextAccess /\ entries' = [Renumbered EXCEPT ![h].access = NextAccess]
        /\ recency' = Used(h) /\ holder' = w
        /\ thread' = [thread EXCEPT ![w].step = "found", ![w].id = entries[h].id]
    BY <1>4, <1>7 DEF LookUp
  <2>2. Counted BY <1>7, <2>1, HitCounts
  <2>3. PICK i : i = entries[h].id OBVIOUS
  <2>4. i \in Nat BY <1>7, <2>3 DEF StoreInv, StoreTypes
  <2>5. thread' = [thread EXCEPT ![w].step = "found", ![w].id = i] BY <2>1, <2>3
  <2>6. Moved(w, "found") /\ thread'[w].host = h /\ thread'[w].id = i
    BY <1>1, <1>4, <2>4, <2>5, StepWithIdMoves
  <2>7. thread'[w].step = "found" BY <2>6 DEF Moved
  <2>8. Locked(w)' BY <1>7, <2>1, <2>2, <2>3, <2>6, <2>7 DEF Locked, Inside, Counted
  <2>9. \A v \in Leasers \ {w} : ~Inside(v)' BY <1>5, <2>6
  <2>10. LockInv' BY <2>1, <2>8, <2>9, EnterKeepsLock
  <2>11. QED BY <1>1, <1>2, <2>2, <2>6, <2>10, CountKeeps
<1>8. CASE storeActive /\ h \notin DOMAIN entries
  <2>1. /\ accessCounter' = NextAccess /\ entries' = Renumbered /\ recency' = recency
        /\ IF Full /\ Evictable = {}
           THEN Finish(w) /\ UNCHANGED holder
           ELSE /\ holder' = w
                /\ thread' = [thread EXCEPT ![w].step = "generate", ![w].victims = Victims]
    BY <1>4, <1>8 DEF LookUp
  <2>2. Counted /\ \A g \in DOMAIN entries' : entries'[g].access < accessCounter'
    BY <2>1, MissCounts
  <2>3. CASE Full /\ Evictable = {}
    <3>1. Finish(w) /\ holder' = Nobody BY <1>1, <2>1, <2>3
    <3>2. Moved(w, "idle") BY <1>1, <3>1, FinishMoves
    <3>3. ~Inside(w)' BY <3>2 DEF Moved, Inside
    <3>4. LockInv' BY <1>5, <3>1, <3>2, <3>3, FreeKeepsLock
    <3>5. QED BY <1>1, <1>2, <2>2, <3>2, <3>4, CountKeeps
  <2>4. CASE ~(Full /\ Evictable = {})
    <3>1. PICK vs : vs = Victims OBVIOUS
    <3>2. holder' = w /\ thread' = [thread EXCEPT ![w].step = "generate", ![w].victims = vs]
      BY <2>1, <2>4, <3>1
    <3>3. Moved(w, "generate") /\ thread'[w].host = h /\ thread'[w].victims = vs
      BY <1>1, <1>4, <3>2, StepWithVictimsMoves
    <3>4. thread'[w].step = "generate" BY <3>3 DEF Moved
    <3>5. Spare(vs) BY <2>4, <3>1, VictimsAreSpare
    <3>6. Spare(vs)'
      <4>1. ASSUME NEW g \in DOMAIN entries, Unleased(g) PROVE Unleased(g)'
        BY <1>2, <2>2, <4>1 DEF Unleased, Counted
      <4>2. QED BY <2>2, <3>5, <4>1 DEF Spare, Counted
    <3>7. Locked(w)' BY <1>8, <2>2, <3>2, <3>3, <3>4, <3>6 DEF Locked, Inside, Counted
    <3>8. \A v \in Leasers \ {w} : ~Inside(v)' BY <1>5, <3>3
    <3>9. LockInv' BY <3>2, <3>7, <3>8, EnterKeepsLock
    <3>10. QED BY <1>1, <1>2, <2>2, <3>3, <3>9, CountKeeps
  <2>5. QED BY <2>3, <2>4
<1>9. QED BY <1>6, <1>7, <1>8

LEMMA PinKeeps ==
  ASSUME StoreInv, NEW a \in Hooks, Pin(a)
  PROVE  StoreInv'
<1>1. /\ StoreTypes /\ a \in DOMAIN thread /\ ~Inside(a) /\ LockInv
      /\ holder = Nobody /\ \A v \in Leasers : ~Inside(v) /\ v \in DOMAIN thread
  BY OwnerInside DEF StoreInv, StoreTypes, Pin, StandsAt, Inside
<1>2. UNCHANGED <<stopRequested, storeActive, holder, nextId, leased, stopStep>> BY DEF Pin
<1>3. "idle" \notin {"found", "generate", "inserted"} /\ "matched" \notin {"found", "generate", "inserted"}
  OBVIOUS
<1>4. PICK h : h = thread[a].host OBVIOUS
<1>5. ASSUME NEW s, s \in {"idle", "matched"}, Moved(a, s) PROVE LockInv'
  <2>1. ASSUME NEW v \in Leasers PROVE ~Inside(v)'
    <3>1. CASE v = a BY <1>5, <3>1 DEF Moved, Inside
    <3>2. CASE v # a BY <1>1, <1>5, <3>2 DEF Moved, Inside
    <3>3. QED BY <3>1, <3>2
  <2>2. QED BY <1>1, <1>2, <2>1, FreeKeepsLock
<1>6. CASE ~storeActive
  <2>1. Finish(a) /\ UNCHANGED <<entries, accessCounter, recency>> BY <1>6 DEF Pin
  <2>2. Moved(a, "idle") BY <1>1, <2>1, FinishMoves
  <2>3. QED BY <1>1, <1>2, <1>3, <2>1, <2>2, QuietKeeps
<1>7. CASE storeActive /\ h \in DOMAIN entries
  <2>1. /\ accessCounter' = NextAccess /\ entries' = [Renumbered EXCEPT ![h].access = NextAccess]
        /\ recency' = Used(h) /\ (Move(a, "matched") \/ Finish(a))
    BY <1>4, <1>7 DEF Pin
  <2>2. Counted BY <1>7, <2>1, HitCounts
  <2>3. PICK s \in {"idle", "matched"} : Moved(a, s) BY <1>1, <2>1, FinishMoves, StepMoves
  <2>4. QED BY <1>1, <1>2, <1>5, <2>2, <2>3, CountKeeps
<1>8. CASE storeActive /\ h \notin DOMAIN entries
  <2>1. /\ accessCounter' = NextAccess /\ entries' = Renumbered /\ recency' = recency /\ Finish(a)
    BY <1>4, <1>8 DEF Pin
  <2>2. Counted BY <2>1, MissCounts
  <2>3. Moved(a, "idle") BY <1>1, <2>1, FinishMoves
  <2>4. QED BY <1>1, <1>2, <1>5, <2>2, <2>3, CountKeeps
<1>9. QED BY <1>6, <1>7, <1>8

\* A worker that returns frees the lock.
LEMMA ReturnKeepsLock ==
  ASSUME StoreInv, NEW w \in Leasers, Inside(w), Moved(w, "idle"), holder' = Nobody
  PROVE  LockInv'
<1>1. LockInv /\ DOMAIN thread = Leasers \cup Hooks BY DEF StoreInv, StoreTypes
<1>2. ~Inside(w)' BY DEF Moved, Inside
<1>3. ASSUME NEW v \in Leasers \ {w} PROVE ~Inside(v)'
  <2>1. ~Inside(v) BY <1>1, OwnerInside
  <2>2. thread'[v] = thread[v] BY <1>1 DEF Moved
  <2>3. QED BY <2>1, <2>2 DEF Inside
<1>4. QED BY <1>2, <1>3, FreeKeepsLock

\* Leasing what the worker carries keeps LeasedIsCached.
LEMMA GrantKeepsLeases ==
  ASSUME StoreInv, NEW w \in Leasers, thread[w].step \in {"found", "inserted"}, storeActive,
         leased' = [leased EXCEPT ![w] = thread[w].id], UNCHANGED entries
  PROVE  LeasedIsCached' /\ leased' \in [Leasers -> Nat]
<1>1. /\ leased \in [Leasers -> Nat] /\ thread[w].id \in Nat
      /\ thread[w].host \in DOMAIN entries /\ entries[thread[w].host].id = thread[w].id
  BY DEF StoreInv, StoreTypes, LockInv, Locked
<1>2. leased' \in [Leasers -> Nat] /\ leased'[w] = thread[w].id
      /\ \A v \in Leasers \ {w} : leased'[v] = leased[v]
  BY <1>1
<1>3. QED BY <1>1, <1>2 DEF LeasedIsCached, StoreInv

LEMMA FoundKeeps ==
  ASSUME StoreInv, NEW w \in Leasers, Found(w)
  PROVE  StoreInv'
<1>1. StoreTypes /\ w \in DOMAIN thread /\ Inside(w) /\ thread[w].step \in {"found", "inserted"}
  BY DEF StoreInv, StoreTypes, Found, StandsAt, Inside
<1>2. UNCHANGED <<stopRequested, storeActive, entries, accessCounter, nextId, stopStep, recency>>
  BY DEF Found
<1>3. Moved(w, "idle") BY <1>1, FinishMoves DEF Found
<1>4. LockInv' BY <1>1, <1>3, ReturnKeepsLock DEF Found
<1>5. LeasedIsCached' /\ leased' \in [Leasers -> Nat]
  <2>1. CASE storeActive BY <1>1, <1>2, <2>1, GrantKeepsLeases DEF Found
  <2>2. CASE ~storeActive
    <3>1. leased' = leased /\ ~storeActive' BY <1>2, <2>2 DEF Found
    <3>2. QED BY <1>1, <3>1 DEF LeasedIsCached, StoreTypes
  <2>3. QED BY <2>1, <2>2
<1>6. StoreTypes' BY <1>1, <1>2, <1>3, <1>5 DEF StoreTypes, Moved
<1>7. Book(entries, recency, accessCounter)' BY <1>2 DEF StoreInv, Book
<1>8. FlagInv' /\ RevokedStaysEmpty' BY <1>2 DEF StoreInv, FlagInv, RevokedStaysEmpty
<1>9. QED BY <1>4, <1>5, <1>6, <1>7, <1>8 DEF StoreInv

LEMMA LeaseInsertedKeeps ==
  ASSUME StoreInv, NEW w \in Leasers, LeaseInserted(w)
  PROVE  StoreInv'
<1>1. StoreTypes /\ w \in DOMAIN thread /\ Inside(w) /\ thread[w].step \in {"found", "inserted"}
  BY DEF StoreInv, StoreTypes, LeaseInserted, StandsAt, Inside
<1>2. UNCHANGED <<stopRequested, storeActive, accessCounter, nextId, stopStep>> BY DEF LeaseInserted
<1>3. Moved(w, "idle") BY <1>1, FinishMoves DEF LeaseInserted
<1>4. LockInv' BY <1>1, <1>3, ReturnKeepsLock DEF LeaseInserted
<1>5. CASE storeActive
  <2>1. UNCHANGED <<entries, recency>> /\ leased' = [leased EXCEPT ![w] = thread[w].id]
    BY <1>5 DEF LeaseInserted
  <2>2. LeasedIsCached' /\ leased' \in [Leasers -> Nat] BY <1>1, <1>5, <2>1, GrantKeepsLeases
  <2>3. StoreTypes' BY <1>1, <1>2, <1>3, <2>1, <2>2 DEF StoreTypes, Moved
  <2>4. Book(entries, recency, accessCounter)' BY <1>2, <2>1 DEF StoreInv, Book
  <2>5. FlagInv' /\ RevokedStaysEmpty' BY <1>2, <2>1 DEF StoreInv, FlagInv, RevokedStaysEmpty
  <2>6. QED BY <1>4, <2>2, <2>3, <2>4, <2>5 DEF StoreInv
<1>6. CASE ~storeActive
  <2>1. PICK S : S = DOMAIN entries \ {thread[w].host} OBVIOUS
  <2>2. DOMAIN recency = DOMAIN entries /\ IsFiniteSet(DOMAIN entries) BY DEF StoreInv, Book
  <2>3. entries' = [h \in S |-> entries[h]] /\ recency' = [h \in S |-> recency[h]] /\ leased' = leased
    BY <1>6, <2>1, <2>2 DEF LeaseInserted, EntriesWithout
  <2>4. S \subseteq DOMAIN entries /\ DOMAIN entries' = S /\ \A h \in S : entries'[h] = entries[h]
    BY <2>1, <2>3
  <2>5. Book(entries', recency', accessCounter')
    BY <1>2, <2>3, <2>4, RestrictKeepsBook DEF StoreInv
  <2>6. Book(entries, recency, accessCounter)' BY <2>5 DEF Book
  <2>7. StoreTypes' BY <1>1, <1>2, <1>3, <2>3, <2>4 DEF StoreTypes, Moved
  <2>8. RevokedStaysEmpty'
    <3>1. Cardinality(S) <= Cardinality(DOMAIN entries) /\ IsFiniteSet(S)
      BY <2>2, <2>4, FS_Subset
    <3>2. Cardinality(S) \in Nat /\ Cardinality(DOMAIN entries) \in Nat /\ Capacity \in Nat
      BY <2>2, <3>1, FS_CardinalityType, CapacityAssumption
    <3>3. Cardinality(DOMAIN entries) <= Capacity /\ (stopStep = "cleared" => DOMAIN entries = {})
      BY DEF StoreInv, RevokedStaysEmpty
    <3>4. Cardinality(S) <= Capacity BY <3>1, <3>2, <3>3
    <3>5. stopStep' = "cleared" => S = {} BY <1>2, <2>4, <3>3
    <3>6. QED BY <2>4, <3>4, <3>5 DEF RevokedStaysEmpty
  <2>9. LeasedIsCached' /\ FlagInv' BY <1>2, <1>6 DEF LeasedIsCached, FlagInv, StoreInv
  <2>10. QED BY <1>4, <2>6, <2>7, <2>8, <2>9 DEF StoreInv
<1>7. QED BY <1>5, <1>6

LEMMA GenerateKeeps ==
  ASSUME StoreInv, NEW w \in Leasers, Generate(w)
  PROVE  StoreInv'
<1>1. /\ StoreTypes /\ w \in DOMAIN thread /\ Inside(w) /\ thread[w].step = "generate"
      /\ LockInv /\ DOMAIN thread = Leasers \cup Hooks
  BY DEF StoreInv, StoreTypes, Generate, StandsAt, Inside
<1>2. UNCHANGED <<stopRequested, storeActive, accessCounter, leased, stopStep>> BY DEF Generate
<1>3. CASE holder' = Nobody /\ Finish(w) /\ UNCHANGED <<entries, nextId, recency>>
  <2>1. Moved(w, "idle") BY <1>1, <1>3, FinishMoves
  <2>2. LockInv' BY <1>1, <1>3, <2>1, ReturnKeepsLock
  <2>3. StoreTypes' BY <1>1, <1>2, <1>3, <2>1 DEF StoreTypes, Moved
  <2>4. Book(entries, recency, accessCounter)' BY <1>2, <1>3 DEF StoreInv, Book
  <2>5. FlagInv' /\ RevokedStaysEmpty' /\ LeasedIsCached'
    BY <1>2, <1>3 DEF StoreInv, FlagInv, RevokedStaysEmpty, LeasedIsCached
  <2>6. QED BY <2>2, <2>3, <2>4, <2>5 DEF StoreInv
<1>4. CASE ~(holder' = Nobody /\ Finish(w) /\ UNCHANGED <<entries, nextId, recency>>)
  <2>1. PICK h, vs : h = thread[w].host /\ vs = thread[w].victims OBVIOUS
  <2>2. /\ storeActive
        /\ entries' = [g \in (DOMAIN entries \ vs) \union {h} |->
                         IF g = h THEN [id |-> nextId, access |-> accessCounter] ELSE entries[g]]
        /\ recency' = [g \in DOMAIN Used(h) \ vs |-> Used(h)[g]]
        /\ thread' = [thread EXCEPT ![w].step = "inserted", ![w].id = nextId]
        /\ nextId' = nextId + 1 /\ holder' = holder
    BY <1>4, <2>1 DEF Generate
  <2>3. /\ holder = w /\ h \notin DOMAIN entries /\ Spare(vs)
        /\ \A g \in DOMAIN entries : entries[g].access < accessCounter
    BY <1>1, <2>1, <2>2 DEF LockInv, Locked
  <2>4. /\ Book(entries, recency, accessCounter) /\ accessCounter \in Nat /\ nextId \in Nat \ {0}
        /\ IsFiniteSet(DOMAIN entries)
    BY <1>1 DEF StoreInv, StoreTypes, Book
  <2>5. vs \subseteq DOMAIN entries BY <2>3 DEF Spare
  <2>6. PICK e, r : e = entries' /\ r = recency' OBVIOUS
  <2>7. Book(e, r, accessCounter) BY <2>2, <2>3, <2>4, <2>5, <2>6, InsertKeepsBook
  <2>8. Book(entries, recency, accessCounter)' BY <1>2, <2>6, <2>7 DEF Book
  <2>9. /\ DOMAIN entries' = (DOMAIN entries \ vs) \cup {h}
        /\ \A g \in DOMAIN entries \ vs : entries'[g] = entries[g]
        /\ entries'[h].id = nextId
    BY <2>2, <2>3
  <2>10. Moved(w, "inserted") /\ thread'[w].host = h /\ thread'[w].id = nextId
    BY <1>1, <2>1, <2>2, <2>4, StepWithIdMoves
  <2>11. StoreTypes'
    <3>1. \A g \in DOMAIN entries' : entries'[g].id \in Nat \ {0} BY <1>1, <2>4, <2>9 DEF StoreTypes
    <3>2. nextId' \in Nat \ {0} BY <2>2, <2>4
    <3>3. QED BY <1>1, <1>2, <2>10, <3>1, <3>2 DEF StoreTypes, Moved
  <2>12. thread'[w].step = "inserted" BY <2>10 DEF Moved
  <2>13. Locked(w)' BY <2>2, <2>3, <2>9, <2>10, <2>12 DEF Locked, Inside
  <2>14. ASSUME NEW v \in Leasers \ {w} PROVE ~Inside(v)'
    <3>1. ~Inside(v) BY <1>1, OwnerInside
    <3>2. thread'[v] = thread[v] BY <1>1, <2>10 DEF Moved
    <3>3. QED BY <3>1, <3>2 DEF Inside
  <2>15. LockInv' BY <2>2, <2>3, <2>13, <2>14, EnterKeepsLock
  <2>16. FlagInv' BY <1>2 DEF StoreInv, FlagInv
  <2>17. RevokedStaysEmpty'
    <3>1. stopStep' # "cleared" BY <1>2, <2>2 DEF StoreInv, FlagInv
    <3>2. PICK D : D = DOMAIN entries OBVIOUS
    <3>3. IsFiniteSet(D) /\ Cardinality(D) \in Nat /\ Cardinality(D) <= Capacity /\ Capacity \in Nat
          /\ h \notin D /\ DOMAIN entries' = (D \ vs) \cup {h}
      BY <2>3, <2>4, <2>9, <3>2, FS_CardinalityType, CapacityAssumption DEF StoreInv, RevokedStaysEmpty
    <3>4. CASE vs = {} /\ Cardinality(D) < Capacity
      <4>1. DOMAIN entries' = D \cup {h} BY <3>3, <3>4
      <4>2. Cardinality(D \cup {h}) = Cardinality(D) + 1 BY <3>3, FS_AddElement
      <4>3. Cardinality(DOMAIN entries') <= Capacity BY <3>3, <3>4, <4>1, <4>2
      <4>4. QED BY <3>1, <4>3 DEF RevokedStaysEmpty
    <3>5. CASE \E v \in D : vs = {v}
      <4>1. PICK v \in D : vs = {v} BY <3>5
      <4>2. IsFiniteSet(D \ {v}) /\ Cardinality(D \ {v}) = Cardinality(D) - 1
        BY <3>3, FS_RemoveElement
      <4>3. Cardinality((D \ {v}) \cup {h}) = Cardinality(D \ {v}) + 1
        BY <3>3, <4>2, FS_AddElement
      <4>4. Cardinality(DOMAIN entries') <= Capacity BY <3>3, <4>1, <4>2, <4>3
      <4>5. QED BY <3>1, <4>4 DEF RevokedStaysEmpty
    <3>6. QED BY <2>3, <3>2, <3>4, <3>5 DEF Spare
  <2>18. LeasedIsCached'
    <3> SUFFICES ASSUME NEW v \in Leasers, leased'[v] # 0
                 PROVE  \E g \in DOMAIN entries' : entries'[g].id = leased'[v]
      BY DEF LeasedIsCached
    <3>1. PICK g \in DOMAIN entries : entries[g].id = leased[v]
      BY <1>2, <2>2 DEF StoreInv, LeasedIsCached
    <3>2. g \notin vs BY <2>3, <3>1 DEF Spare, Unleased
    <3>3. QED BY <1>2, <2>9, <3>1, <3>2
  <2>19. QED BY <2>8, <2>11, <2>15, <2>16, <2>17, <2>18 DEF StoreInv
<1>5. QED BY <1>3, <1>4

LEMMA RequestStopKeeps ==
  ASSUME StoreInv, RequestStop
  PROVE  StoreInv'
<1>1. StoreTypes /\ LockInv BY DEF StoreInv
<1>2. UNCHANGED <<holder, accessCounter, nextId, thread, leased>> BY DEF RequestStop
<1>3. CASE UNCHANGED <<entries, recency>> /\ stopStep' # "cleared"
  <2>1. storeActive' => storeActive
    BY <1>3 DEF RequestStop
  <2>2. FlagInv' /\ StoreTypes' BY <1>1, <1>2, <1>3 DEF RequestStop, FlagInv, StoreTypes, StoreInv
  <2>3. \A w \in Leasers : Locked(w)'
    BY <1>1, <1>2, <1>3, <2>1 DEF LockInv, Locked, Inside, Spare, Unleased
  <2>4. Book(entries, recency, accessCounter)' BY <1>2, <1>3 DEF StoreInv, Book
  <2>5. RevokedStaysEmpty' /\ LeasedIsCached'
    BY <1>2, <1>3, <2>1 DEF StoreInv, RevokedStaysEmpty, LeasedIsCached
  <2>6. QED BY <2>2, <2>3, <2>4, <2>5 DEF StoreInv, LockInv
<1>4. CASE stopStep = "revoked" /\ holder = Nobody /\ entries' = << >> /\ recency' = << >>
           /\ stopStep' = "cleared" /\ UNCHANGED <<stopRequested, storeActive>>
  <2>1. DOMAIN entries' = {} /\ DOMAIN recency' = {} BY <1>4
  <2>2. entries' = [h \in DOMAIN entries' |-> entries'[h]] BY <1>4
  <2>3. Book(entries, recency, accessCounter)' BY <2>1, <2>2, FS_EmptySet DEF Book
  <2>4. \A v \in Leasers : ~Inside(v)' BY <1>1, <1>2, <1>4, OwnerInside DEF Inside
  <2>5. LockInv' BY <1>2, <1>4, <2>4, FreeKeepsLock
  <2>6. ~storeActive' /\ FlagInv' BY <1>4 DEF StoreInv, FlagInv
  <2>7. StoreTypes' BY <1>1, <1>2, <1>4, <2>1 DEF StoreTypes
  <2>8. RevokedStaysEmpty' BY <2>1, FS_EmptySet, CapacityAssumption DEF RevokedStaysEmpty
  <2>9. LeasedIsCached' BY <2>6 DEF LeasedIsCached
  <2>10. QED BY <2>3, <2>5, <2>6, <2>7, <2>8, <2>9 DEF StoreInv
<1>5. QED BY <1>3, <1>4 DEF RequestStop

LEMMA StoreStutters ==
  ASSUME StoreInv, UNCHANGED storeVars
  PROVE  StoreInv'
<1>1. StoreTypes' /\ FlagInv' /\ RevokedStaysEmpty' /\ LeasedIsCached'
  BY DEF StoreInv, StoreTypes, FlagInv, RevokedStaysEmpty, LeasedIsCached, storeVars
<1>2. Book(entries, recency, accessCounter)' BY DEF StoreInv, Book, storeVars
<1>3. LockInv' BY DEF StoreInv, LockInv, Locked, Inside, Spare, Unleased, storeVars
<1>4. QED BY <1>1, <1>2, <1>3 DEF StoreInv

LEMMA StoreStep ==
  ASSUME StoreInv, [StoreNext]_storeVars
  PROVE  StoreInv'
<1>1. CASE UNCHANGED storeVars BY <1>1, StoreStutters
<1>2. ASSUME NEW w \in Leasers,
             \/ \E h \in CertHosts : Prepare(w, h)
             \/ LookUp(w) \/ Found(w) \/ Generate(w) \/ LeaseInserted(w) \/ EndLease(w)
      PROVE  StoreInv'
  BY <1>2, PrepareKeeps, LookUpKeeps, FoundKeeps, GenerateKeeps, LeaseInsertedKeeps, EndLeaseKeeps
<1>3. ASSUME NEW a \in Hooks,
             \/ \E h \in CertHosts, der \in 0..(nextId - 1) : AskMatch(a, h, der)
             \/ Pin(a) \/ Answer(a)
      PROVE  StoreInv'
  BY <1>3, AskMatchKeeps, PinKeeps, AnswerKeeps
<1>4. CASE RequestStop BY <1>4, RequestStopKeeps
<1>5. QED BY <1>1, <1>2, <1>3, <1>4 DEF StoreNext

\* For any number of workers, hooks and hosts and any capacity: a revoked store
\* stays empty and within its capacity, what a connection leases stays cached,
\* and eviction goes by the order of use (prepare, pin, deactivate).
THEOREM StoreSafe == StoreSpec => []StoreSafety
<1>1. StoreInit => StoreInv BY StoreInitial
<1>2. StoreInv /\ [StoreNext]_storeVars => StoreInv' BY StoreStep
<1>3. StoreInv => StoreSafety
  BY DEF StoreInv, StoreTypes, Book, StoreSafety, AccessOrder
<1>4. QED BY <1>1, <1>2, <1>3, PTL DEF StoreSpec

(***************************************************************************)
(* The rate limiter.                                                       *)
(*                                                                         *)
(* WindowHolds counts admissions by the time they were given; the limiter  *)
(* counts the instants it was told.  The invariant matches the two: every  *)
(* admission of the last window less the delay has an instant of its own   *)
(* among the recorded ones, at most the delay older.  An instant that      *)
(* expires is then older than what its admission may count for, and the    *)
(* recorded ones are never more than the limit.                            *)
(***************************************************************************)

\* Admissions of the last span of real time that is shorter than the window by
\* the longest delay; and those of them that count against key k.
Recent == {i \in DOMAIN grants : grants[i][2] + limits.window > limiterClock + MaxDelay}
RecentFor(k) == {i \in Recent : hashOf[grants[i][1]] = k}

\* Each admission of S has an instant of its own in q, at most the delay older.
Covered(g, S, q) ==
  \E f \in [S -> DOMAIN q] : /\ \A i, j \in S : f[i] = f[j] => i = j
                             /\ \A i \in S : g[i][2] <= q[f[i]] + MaxDelay

Window(k) == IF k \in DOMAIN windows THEN windows[k] ELSE << >>

LimiterTypes ==
  /\ limits \in [global : Nat, perHost : Nat, window : Nat, tracked : Nat]
  /\ limits.perHost # 0
  /\ limiterClock \in Nat
  /\ grants \in Seq(LimitedHosts \X Nat)
  /\ global \in Seq(Nat)
  /\ IsFiniteSet(DOMAIN windows)
  /\ \A k \in DOMAIN windows : windows[k] \in Seq(Nat)
  /\ DOMAIN sampled = Workers

\* A worker between clock and lock holds an instant that is not older than the delay.
SampledInv ==
  \A w \in Workers : sampled[w].busy =>
    /\ sampled[w].host \in LimitedHosts /\ sampled[w].now \in Nat
    /\ sampled[w].now <= limiterClock /\ limiterClock <= sampled[w].now + MaxDelay

BoundsInv ==
  /\ Len(global) <= limits.global
  /\ \A k \in DOMAIN windows : Len(windows[k]) <= limits.perHost
  /\ Cardinality(DOMAIN windows) <= limits.tracked

CoverInv == Covered(grants, Recent, global) /\ \A k : Covered(grants, RecentFor(k), Window(k))

LimiterInv == LimiterTypes /\ SampledInv /\ BoundsInv /\ CoverInv

------------------------------------------------------------------------------
LEMMA CoveredSubset ==
  ASSUME NEW g, NEW S, NEW q, Covered(g, S, q), NEW T, T \subseteq S
  PROVE  Covered(g, T, q)
<1>1. PICK f \in [S -> DOMAIN q] : /\ \A i, j \in S : f[i] = f[j] => i = j
                                   /\ \A i \in S : g[i][2] <= q[f[i]] + MaxDelay
  BY DEF Covered
<1>2. PICK e : e = [i \in T |-> f[i]] OBVIOUS
<1>3. e \in [T -> DOMAIN q] BY <1>2
<1>4. /\ \A i, j \in T : e[i] = e[j] => i = j
      /\ \A i \in T : g[i][2] <= q[e[i]] + MaxDelay
  BY <1>1, <1>2
<1>5. QED BY <1>3, <1>4 DEF Covered

LEMMA CoveredCounts ==
  ASSUME NEW g, NEW S, NEW q \in Seq(Nat), Covered(g, S, q)
  PROVE  IsFiniteSet(S) /\ Cardinality(S) \in Nat /\ Cardinality(S) <= Len(q)
<1>1. PICK f \in [S -> DOMAIN q] : \A i, j \in S : f[i] = f[j] => i = j
  BY DEF Covered
<1>2. f \in Injection(S, DOMAIN q) BY <1>1 DEF Injection, IsInjective
<1>3. DOMAIN q = 1..Len(q) /\ Len(q) \in Nat OBVIOUS
<1>4. IsFiniteSet(1..Len(q)) /\ Cardinality(1..Len(q)) = Len(q)
  <2>1. 1 \in Int /\ Len(q) \in Int BY <1>3
  <2>2. IsFiniteSet(1..Len(q)) /\ Cardinality(1..Len(q)) = IF 1 > Len(q) THEN 0 ELSE Len(q) - 1 + 1
    BY <2>1, FS_Interval
  <2>3. QED BY <1>3, <2>2
<1>5. IsFiniteSet(S) /\ Cardinality(S) <= Cardinality(DOMAIN q)
  BY <1>2, <1>3, <1>4, FS_Injection
<1>6. Cardinality(S) \in Nat BY <1>5, FS_CardinalityType
<1>7. QED BY <1>3, <1>4, <1>5, <1>6

\* What Expire takes from a window is a prefix that holds nothing live.
LEMMA ExpireIs ==
  ASSUME NEW q \in Seq(Nat), NEW now
  PROVE  /\ Expire(q, now) \in Seq(Nat) /\ Len(Expire(q, now)) <= Len(q)
         /\ \E m \in Nat : /\ Len(q) = m + Len(Expire(q, now))
                           /\ \A i \in 1..Len(Expire(q, now)) : Expire(q, now)[i] = q[m + i]
                           /\ \A i \in DOMAIN q : q[i] + limits.window > now => i > m
<1> DEFINE live == {i \in DOMAIN q : q[i] + limits.window > now}
<1>1. DOMAIN q = 1..Len(q) /\ Len(q) \in Nat OBVIOUS
<1>2. CASE live = {}
  <2>1. Expire(q, now) = << >> BY <1>2 DEF Expire
  <2>2. \A i \in DOMAIN q : ~(q[i] + limits.window > now) BY <1>2
  <2>3. PICK x, m : x = Expire(q, now) /\ m = Len(q) OBVIOUS
  <2>4. x = << >> /\ x \in Seq(Nat) /\ Len(x) = 0 BY <2>1, <2>3
  <2>5. m \in Nat /\ Len(q) = m + Len(x) /\ Len(x) <= Len(q) BY <1>1, <2>3, <2>4
  <2>6. \A i \in 1..Len(x) : x[i] = q[m + i] BY <2>4
  <2>7. \A i \in DOMAIN q : q[i] + limits.window > now => i > m BY <2>2
  <2>8. QED BY <2>3, <2>4, <2>5, <2>6, <2>7
<1>3. CASE live # {}
  <2>1. PICK a : a = CHOOSE i \in live : \A j \in live : i <= j OBVIOUS
  <2>2. live \subseteq Nat BY <1>1
  <2>3. a \in live /\ \A j \in live : a <= j BY <1>3, <2>1, <2>2, LeastNumber
  <2>4. Expire(q, now) = SubSeq(q, a, Len(q)) BY <1>3, <2>1 DEF Expire
  <2>5. a \in 1..Len(q) BY <1>1, <2>3
  <2>6. \A j \in DOMAIN q : q[j] + limits.window > now => a <= j BY <2>3
  <2> HIDE DEF live
  <2>7. PICK x : x = SubSeq(q, a, Len(q)) OBVIOUS
  <2>8. x \in Seq(Nat) /\ Len(x) = Len(q) - a + 1 /\ \A i \in 1..Len(x) : x[i] = q[a + i - 1]
    <3>1. \A i \in a..Len(q) : q[i] \in Nat BY <1>1, <2>5
    <3>2. x \in Seq(Nat) /\ Len(x) = IF a <= Len(q) THEN Len(q) - a + 1 ELSE 0
      BY <1>1, <2>5, <2>7, <3>1, SubSeqProperties
    <3>3. Len(x) = Len(q) - a + 1 BY <2>5, <3>2
    <3>4. \A i \in 1..(Len(q) - a + 1) : x[i] = q[a + i - 1]
      BY <1>1, <2>5, <2>7, <3>1, SubSeqProperties
    <3>5. QED BY <3>2, <3>3, <3>4
  <2>9. PICK m : m = a - 1 OBVIOUS
  <2>10. m \in Nat /\ Len(q) = m + Len(x) /\ Len(x) <= Len(q) BY <1>1, <2>5, <2>8, <2>9
  <2>11. \A i \in 1..Len(x) : x[i] = q[m + i]
    <3>1. \A i \in 1..Len(x) : a + i - 1 = m + i BY <2>5, <2>9
    <3>2. QED BY <2>8, <3>1
  <2>12. \A i \in DOMAIN q : q[i] + limits.window > now => i > m BY <1>1, <2>5, <2>6, <2>9
  <2>13. QED BY <2>4, <2>7, <2>8, <2>10, <2>11, <2>12
<1>4. QED BY <1>2, <1>3

\* Expiry at an instant that is not ahead of the clock spares recent admissions.
LEMMA ExpireCovers ==
  ASSUME LimiterTypes, NEW S, S \subseteq Recent, NEW q \in Seq(Nat), Covered(grants, S, q),
         NEW now \in Nat, now <= limiterClock
  PROVE  Covered(grants, S, Expire(q, now))
<1>1. PICK f \in [S -> DOMAIN q] : /\ \A i, j \in S : f[i] = f[j] => i = j
                                   /\ \A i \in S : grants[i][2] <= q[f[i]] + MaxDelay
  BY DEF Covered
<1>2. PICK x : x = Expire(q, now) OBVIOUS
<1>3. /\ x \in Seq(Nat)
      /\ \E n \in Nat : /\ Len(q) = n + Len(x) /\ \A i \in 1..Len(x) : x[i] = q[n + i]
                        /\ \A i \in DOMAIN q : q[i] + limits.window > now => i > n
  BY <1>2, ExpireIs
<1>4. PICK m \in Nat : /\ Len(q) = m + Len(x) /\ \A i \in 1..Len(x) : x[i] = q[m + i]
                       /\ \A i \in DOMAIN q : q[i] + limits.window > now => i > m
  BY <1>3
<1>5. MaxDelay \in Nat /\ limits.window \in Nat /\ limiterClock \in Nat
      /\ DOMAIN q = 1..Len(q) /\ Len(q) \in Nat /\ DOMAIN x = 1..Len(x) /\ Len(x) \in Nat
  BY <1>3, LimitsAssumption DEF LimiterTypes
<1>6. ASSUME NEW i \in S
      PROVE  /\ f[i] - m \in 1..Len(x) /\ x[f[i] - m] = q[f[i]] /\ f[i] \in Nat
  <2>1. grants[i] \in LimitedHosts \X Nat /\ grants[i][2] + limits.window > limiterClock + MaxDelay
    BY DEF Recent, LimiterTypes
  <2>2. grants[i][2] \in Nat BY <2>1
  <2>3. f[i] \in 1..Len(q) /\ q[f[i]] \in Nat /\ grants[i][2] <= q[f[i]] + MaxDelay BY <1>1, <1>5
  <2>4. q[f[i]] + limits.window > now
    <3>1. PICK t, v, width : t = grants[i][2] /\ v = q[f[i]] /\ width = limits.window OBVIOUS
    <3>2. t \in Nat /\ v \in Nat /\ width \in Nat /\ t + width > limiterClock + MaxDelay /\ t <= v + MaxDelay
      BY <1>5, <2>1, <2>2, <2>3, <3>1
    <3>3. v + width > now BY <1>5, <3>2
    <3>4. QED BY <3>1, <3>3
  <2>5. f[i] > m BY <1>4, <1>5, <2>3, <2>4
  <2>6. f[i] - m \in 1..Len(x) /\ m + (f[i] - m) = f[i] BY <1>4, <1>5, <2>3, <2>5
  <2>7. x[f[i] - m] = q[m + (f[i] - m)] BY <1>4, <2>6
  <2>8. QED BY <2>3, <2>6, <2>7
<1>7. PICK e : e = [i \in S |-> f[i] - m] OBVIOUS
<1>8. e \in [S -> DOMAIN x] /\ \A i \in S : e[i] = f[i] - m BY <1>5, <1>6, <1>7
<1>9. \A i, j \in S : e[i] = e[j] => i = j
  <2>1. SUFFICES ASSUME NEW i \in S, NEW j \in S, e[i] = e[j] PROVE i = j OBVIOUS
  <2>2. f[i] - m = f[j] - m /\ f[i] \in Nat /\ f[j] \in Nat BY <1>6, <1>8, <2>1
  <2>3. f[i] = f[j] BY <2>2
  <2>4. QED BY <1>1, <2>3
<1>10. \A i \in S : grants[i][2] <= x[e[i]] + MaxDelay BY <1>1, <1>6, <1>8
<1>11. QED BY <1>2, <1>8, <1>9, <1>10 DEF Covered

\* An admission now, recorded under an instant within the delay.
LEMMA AppendCovers ==
  ASSUME NEW S, NEW q \in Seq(Nat), grants \in Seq(LimitedHosts \X Nat), S \subseteq DOMAIN grants,
         Covered(grants, S, q), NEW now \in Nat, limiterClock \in Nat, limiterClock <= now + MaxDelay, NEW h,
         NEW n, n = Len(grants) + 1
  PROVE  Covered(Append(grants, <<h, limiterClock>>), S \cup {n}, Append(q, now))
<1>1. PICK f \in [S -> DOMAIN q] : /\ \A i, j \in S : f[i] = f[j] => i = j
                                   /\ \A i \in S : grants[i][2] <= q[f[i]] + MaxDelay
  BY DEF Covered
<1>2. PICK g, x : g = Append(grants, <<h, limiterClock>>) /\ x = Append(q, now) OBVIOUS
<1>3. /\ DOMAIN q = 1..Len(q) /\ Len(q) \in Nat /\ DOMAIN x = 1..(Len(q) + 1)
      /\ (\A i \in 1..Len(q) : x[i] = q[i]) /\ x[Len(q) + 1] = now
  BY <1>2
<1>4. /\ DOMAIN grants = 1..Len(grants) /\ Len(grants) \in Nat
      /\ (\A i \in 1..Len(grants) : g[i] = grants[i]) /\ g[n] = <<h, limiterClock>>
  BY <1>2
<1>5. n \notin S BY <1>4
<1>6. PICK e : e = [i \in S \cup {n} |-> IF i = n THEN Len(q) + 1 ELSE f[i]] OBVIOUS
<1>7. e \in [S \cup {n} -> DOMAIN x] /\ e[n] = Len(q) + 1
      /\ \A i \in S : e[i] = f[i] /\ e[i] \in 1..Len(q)
  BY <1>3, <1>5, <1>6
<1>8. \A i, j \in S \cup {n} : e[i] = e[j] => i = j
  <2>1. SUFFICES ASSUME NEW i \in S \cup {n}, NEW j \in S \cup {n}, e[i] = e[j] PROVE i = j OBVIOUS
  <2>2. CASE i \in S /\ j \in S BY <1>1, <1>7, <2>1, <2>2
  <2>3. CASE i \in S /\ j = n BY <1>3, <1>7, <2>1, <2>3
  <2>4. CASE i = n /\ j \in S BY <1>3, <1>7, <2>1, <2>4
  <2>5. QED BY <2>2, <2>3, <2>4
<1>9. ASSUME NEW i \in S \cup {n} PROVE g[i][2] <= x[e[i]] + MaxDelay
  <2>1. CASE i \in S
    <3>1. g[i] = grants[i] /\ x[e[i]] = q[f[i]] BY <1>3, <1>4, <1>7, <2>1
    <3>2. QED BY <1>1, <2>1, <3>1
  <2>2. CASE i = n
    <3>1. g[i][2] = limiterClock /\ x[e[i]] = now BY <1>3, <1>4, <1>7, <2>2
    <3>2. QED BY <3>1
  <2>3. QED BY <2>1, <2>2
<1>10. QED BY <1>2, <1>7, <1>8, <1>9 DEF Covered

LEMMA LaterGrantsCover ==
  ASSUME NEW S, NEW q, grants \in Seq(LimitedHosts \X Nat), S \subseteq DOMAIN grants,
         Covered(grants, S, q), NEW e
  PROVE  Covered(Append(grants, e), S, q)
<1>1. \A i \in S : Append(grants, e)[i] = grants[i] OBVIOUS
<1>2. QED BY <1>1 DEF Covered

LEMMA NothingExpires ==
  ASSUME NEW now
  PROVE  Expire(<< >>, now) = << >>
<1>1. {i \in DOMAIN << >> : << >>[i] + limits.window > now} = {} OBVIOUS
<1>2. QED BY <1>1 DEF Expire

\* Expiry acts on each window alone, also on those that are then dropped.
LEMMA LiveWindowsIs ==
  ASSUME LimiterTypes, BoundsInv, NEW now, NEW live, live = LiveWindows(now)
  PROVE  /\ DOMAIN live \subseteq DOMAIN windows /\ IsFiniteSet(DOMAIN live)
         /\ Cardinality(DOMAIN live) \in Nat /\ Cardinality(DOMAIN live) <= limits.tracked
         /\ \A k \in DOMAIN live : live[k] \in Seq(Nat) /\ Len(live[k]) <= limits.perHost
         /\ \A k : Expire(Window(k), now) = IF k \in DOMAIN live THEN live[k] ELSE << >>
<1>1. /\ DOMAIN live = {h \in DOMAIN windows : Expire(windows[h], now) # << >>}
      /\ \A k \in DOMAIN live : live[k] = Expire(windows[k], now)
  BY DEF LiveWindows
<1>2. DOMAIN live \in SUBSET DOMAIN windows /\ IsFiniteSet(DOMAIN windows) BY <1>1 DEF LimiterTypes
<1>3. IsFiniteSet(DOMAIN live) /\ Cardinality(DOMAIN live) <= Cardinality(DOMAIN windows)
  BY <1>2, FS_Subset
<1>4. Cardinality(DOMAIN live) \in Nat /\ Cardinality(DOMAIN windows) \in Nat
  BY <1>2, <1>3, FS_CardinalityType
<1>5. limits.tracked \in Nat /\ limits.perHost \in Nat BY DEF LimiterTypes
<1>6. Cardinality(DOMAIN windows) <= limits.tracked BY DEF BoundsInv
<1>7. Cardinality(DOMAIN live) <= limits.tracked BY <1>3, <1>4, <1>5, <1>6
<1>8. ASSUME NEW k \in DOMAIN live
      PROVE  live[k] \in Seq(Nat) /\ Len(live[k]) <= limits.perHost
  <2>1. PICK q : q = windows[k] OBVIOUS
  <2>2. q \in Seq(Nat) /\ Len(q) <= limits.perHost BY <1>2, <2>1 DEF LimiterTypes, BoundsInv
  <2>3. Expire(q, now) \in Seq(Nat) /\ Len(Expire(q, now)) <= Len(q) BY <2>2, ExpireIs
  <2>4. live[k] = Expire(q, now) BY <1>1, <2>1
  <2>5. Len(live[k]) \in Nat /\ Len(q) \in Nat BY <2>2, <2>3, <2>4
  <2>6. QED BY <1>5, <2>2, <2>3, <2>4, <2>5
<1>9. ASSUME NEW k PROVE Expire(Window(k), now) = IF k \in DOMAIN live THEN live[k] ELSE << >>
  <2>1. CASE k \in DOMAIN windows
    <3>1. Window(k) = windows[k] BY <2>1 DEF Window
    <3>2. QED BY <1>1, <2>1, <3>1
  <2>2. CASE k \notin DOMAIN windows
    <3>1. Window(k) = << >> /\ k \notin DOMAIN live BY <1>2, <2>2 DEF Window
    <3>2. QED BY <3>1, NothingExpires
  <2>3. QED BY <2>1, <2>2
<1>10. QED BY <1>2, <1>3, <1>4, <1>7, <1>8, <1>9

LEMMA WindowIs ==
  ASSUME LimiterTypes
  PROVE  \A k : Window(k) \in Seq(Nat)
BY DEF Window, LimiterTypes

------------------------------------------------------------------------------
LEMMA LimiterInitial ==
  ASSUME LimiterInit
  PROVE  LimiterInv
<1>1. /\ limits \in LimitConfigs /\ ValidateLimits(limits) /\ limiterClock = 0 /\ global = << >>
      /\ windows = << >> /\ sampled = [w \in Workers |-> Unasked] /\ grants = << >>
  BY DEF LimiterInit
<1>2. limits \in [global : Nat, perHost : Nat, window : Nat, tracked : Nat] /\ limits.perHost # 0
  BY <1>1, LimitsAssumption DEF ValidateLimits
<1>3. DOMAIN windows = {} /\ IsFiniteSet(DOMAIN windows) /\ Cardinality(DOMAIN windows) = 0
  BY <1>1, FS_EmptySet
<1>4. LimiterTypes BY <1>1, <1>2, <1>3 DEF LimiterTypes
<1>5. SampledInv BY <1>1 DEF SampledInv, Unasked
<1>6. BoundsInv
  <2>1. Len(global) = 0 BY <1>1
  <2>2. QED BY <1>2, <1>3, <2>1 DEF BoundsInv
<1>7. CoverInv
  <2>1. Recent = {} /\ \A k : RecentFor(k) = {} BY <1>1 DEF Recent, RecentFor
  <2>2. ASSUME NEW q PROVE Covered(grants, {}, q)
    <3>1. PICK f : f = [i \in {} |-> i] OBVIOUS
    <3>2. f \in [{} -> DOMAIN q] BY <3>1
    <3>3. QED BY <3>2 DEF Covered
  <2>3. QED BY <2>1, <2>2 DEF CoverInv
<1>8. QED BY <1>4, <1>5, <1>6, <1>7 DEF LimiterInv

LEMMA SampleClockKeeps ==
  ASSUME LimiterInv, NEW w \in Workers, NEW h \in LimitedHosts, SampleClock(w, h)
  PROVE  LimiterInv'
<1>1. UNCHANGED <<limits, hashOf, limiterClock, global, windows, grants>> BY DEF SampleClock
<1>2. limiterClock \in Nat /\ MaxDelay \in Nat /\ DOMAIN sampled = Workers
  BY LimitsAssumption DEF LimiterInv, LimiterTypes
<1>3. PICK r : r = [busy |-> TRUE, host |-> h, now |-> limiterClock] OBVIOUS
<1>4. sampled' = [sampled EXCEPT ![w] = r] BY <1>3 DEF SampleClock
<1>5. /\ DOMAIN sampled' = Workers /\ sampled'[w] = r
      /\ \A v \in Workers \ {w} : sampled'[v] = sampled[v]
  BY <1>2, <1>4
<1>6. LimiterTypes' BY <1>1, <1>5 DEF LimiterInv, LimiterTypes
<1>7. ASSUME NEW v \in Workers, sampled'[v].busy
      PROVE  /\ sampled'[v].host \in LimitedHosts /\ sampled'[v].now \in Nat
             /\ sampled'[v].now <= limiterClock' /\ limiterClock' <= sampled'[v].now + MaxDelay
  <2>1. CASE v = w
    <3>1. r.host = h /\ r.now = limiterClock BY <1>3
    <3>2. QED BY <1>1, <1>2, <1>5, <2>1, <3>1
  <2>2. CASE v # w BY <1>1, <1>5, <1>7, <2>2 DEF LimiterInv, SampledInv
  <2>3. QED BY <2>1, <2>2
<1>8. SampledInv' BY <1>7 DEF SampledInv
<1>9. BoundsInv' BY <1>1 DEF LimiterInv, BoundsInv
<1>10. CoverInv'
  <2>1. Recent' = Recent BY <1>1 DEF Recent
  <2>2. \A k : RecentFor(k)' = RecentFor(k) /\ Window(k)' = Window(k)
    BY <1>1, <2>1 DEF RecentFor, Window
  <2>3. QED BY <1>1, <2>1, <2>2 DEF LimiterInv, CoverInv
<1>11. QED BY <1>6, <1>8, <1>9, <1>10 DEF LimiterInv

LEMMA TimePassesKeeps ==
  ASSUME LimiterInv, TimePasses
  PROVE  LimiterInv'
<1>1. UNCHANGED <<limits, hashOf, global, windows, sampled, grants>> /\ limiterClock' = limiterClock + 1
  BY DEF TimePasses
<1>2. limiterClock \in Nat /\ MaxDelay \in Nat /\ limits.window \in Nat /\ grants \in Seq(LimitedHosts \X Nat)
  BY LimitsAssumption DEF LimiterInv, LimiterTypes
<1>3. LimiterTypes' BY <1>1, <1>2 DEF LimiterInv, LimiterTypes
<1>4. SampledInv'
  <2>1. SUFFICES ASSUME NEW w \in Workers, sampled[w].busy
                 PROVE  /\ sampled[w].host \in LimitedHosts /\ sampled[w].now \in Nat
                        /\ sampled[w].now <= limiterClock + 1 /\ limiterClock + 1 <= sampled[w].now + MaxDelay
    BY <1>1 DEF SampledInv
  <2>2. PICK now : now = sampled[w].now OBVIOUS
  <2>3. sampled[w].host \in LimitedHosts /\ now \in Nat /\ now <= limiterClock
    BY <2>1, <2>2 DEF LimiterInv, SampledInv
  <2>4. limiterClock - now < MaxDelay BY <2>1, <2>2 DEF TimePasses
  <2>5. now <= limiterClock + 1 /\ limiterClock + 1 <= now + MaxDelay BY <1>2, <2>3, <2>4
  <2>6. QED BY <2>2, <2>3, <2>5
<1>5. BoundsInv' BY <1>1 DEF LimiterInv, BoundsInv
<1>6. CoverInv'
  <2>1. Recent' \subseteq Recent
    <3>1. SUFFICES ASSUME NEW i \in DOMAIN grants, grants[i][2] + limits.window > limiterClock + 1 + MaxDelay
                   PROVE  grants[i][2] + limits.window > limiterClock + MaxDelay
      BY <1>1 DEF Recent
    <3>2. grants[i][2] \in Nat BY <1>2
    <3>3. PICK t, width : t = grants[i][2] /\ width = limits.window OBVIOUS
    <3>4. t + width > limiterClock + 1 + MaxDelay /\ t \in Nat /\ width \in Nat BY <1>2, <3>1, <3>2, <3>3
    <3>5. t + width > limiterClock + MaxDelay BY <1>2, <3>4
    <3>6. QED BY <3>3, <3>5
  <2>2. \A k : RecentFor(k)' \subseteq RecentFor(k) BY <1>1, <2>1 DEF RecentFor
  <2>3. Covered(grants, Recent', global) BY <2>1, CoveredSubset DEF LimiterInv, CoverInv
  <2>4. ASSUME NEW k PROVE Covered(grants, RecentFor(k)', Window(k))
    <3>1. Covered(grants, RecentFor(k), Window(k)) BY DEF LimiterInv, CoverInv
    <3>2. QED BY <2>2, <3>1, CoveredSubset
  <2>5. \A k : Window(k)' = Window(k) BY <1>1 DEF Window
  <2>6. QED BY <1>1, <2>3, <2>4, <2>5 DEF CoverInv
<1>7. QED BY <1>3, <1>4, <1>5, <1>6 DEF LimiterInv

LEMMA CheckKeeps ==
  ASSUME LimiterInv, NEW w \in Workers, Check(w)
  PROVE  LimiterInv'
<1>1. PICK now, host, key : now = sampled[w].now /\ host = sampled[w].host /\ key = hashOf[host]
  OBVIOUS
<1>2. PICK live, recent : live = LiveWindows(now) /\ recent = Expire(global, now) OBVIOUS
<1>3. PICK limited : limited <=> \/ Len(recent) >= limits.global
                                 \/ key \in DOMAIN live /\ Len(live[key]) >= limits.perHost
                                 \/ key \notin DOMAIN live /\ Cardinality(DOMAIN live) >= limits.tracked
  OBVIOUS
<1>4. /\ sampled[w].busy /\ sampled' = [sampled EXCEPT ![w] = Unasked]
      /\ UNCHANGED <<limits, hashOf, limiterClock>>
      /\ limited => global' = recent /\ windows' = live /\ grants' = grants
      /\ ~limited => /\ global' = Append(recent, now)
                     /\ windows' = [k \in DOMAIN live \union {key} |->
                           IF k = key THEN Append(IF k \in DOMAIN live THEN live[k] ELSE << >>, now)
                           ELSE live[k]]
                     /\ grants' = Append(grants, <<host, limiterClock>>)
  BY <1>1, <1>2, <1>3 DEF Check
<1>5. /\ LimiterTypes /\ BoundsInv /\ MaxDelay \in Nat /\ limiterClock \in Nat
      /\ limits.global \in Nat /\ limits.perHost \in Nat \ {0} /\ limits.tracked \in Nat
      /\ grants \in Seq(LimitedHosts \X Nat) /\ global \in Seq(Nat)
  BY LimitsAssumption DEF LimiterInv, LimiterTypes
<1>6. host \in LimitedHosts /\ now \in Nat /\ now <= limiterClock /\ limiterClock <= now + MaxDelay
  BY <1>1, <1>4 DEF LimiterInv, SampledInv
<1>7. recent \in Seq(Nat) /\ Len(recent) <= Len(global) /\ Len(recent) \in Nat
  BY <1>2, <1>5, ExpireIs
<1>8. /\ DOMAIN live \subseteq DOMAIN windows /\ IsFiniteSet(DOMAIN live)
      /\ Cardinality(DOMAIN live) \in Nat /\ Cardinality(DOMAIN live) <= limits.tracked
      /\ \A k \in DOMAIN live : live[k] \in Seq(Nat) /\ Len(live[k]) <= limits.perHost
      /\ \A k : Expire(Window(k), now) = IF k \in DOMAIN live THEN live[k] ELSE << >>
  BY <1>2, <1>5, LiveWindowsIs
<1>9. Len(recent) <= limits.global
  <2>1. Len(global) <= limits.global /\ Len(global) \in Nat BY <1>5 DEF BoundsInv
  <2>2. QED BY <1>5, <1>7, <2>1
<1>10. Covered(grants, Recent, recent)
  BY <1>2, <1>5, <1>6, ExpireCovers DEF LimiterInv, CoverInv
<1>11. \A k : Covered(grants, RecentFor(k), Expire(Window(k), now))
  <2>1. \A k : RecentFor(k) \subseteq Recent /\ Window(k) \in Seq(Nat)
    BY <1>5, WindowIs DEF RecentFor
  <2>2. \A k : Covered(grants, RecentFor(k), Window(k)) BY DEF LimiterInv, CoverInv
  <2>3. QED BY <1>5, <1>6, <2>1, <2>2, ExpireCovers
<1>12. /\ DOMAIN sampled' = Workers /\ SampledInv'
  <2>1. DOMAIN sampled' = Workers /\ sampled'[w] = Unasked
        /\ \A v \in Workers \ {w} : sampled'[v] = sampled[v]
    BY <1>4, <1>5 DEF LimiterTypes
  <2>2. ~Unasked.busy BY DEF Unasked
  <2>3. ASSUME NEW v \in Workers, sampled'[v].busy
        PROVE  /\ sampled'[v].host \in LimitedHosts /\ sampled'[v].now \in Nat
               /\ sampled'[v].now <= limiterClock' /\ limiterClock' <= sampled'[v].now + MaxDelay
    <3>1. v # w BY <2>1, <2>2, <2>3
    <3>2. sampled'[v] = sampled[v] BY <2>1, <3>1
    <3>3. QED BY <1>4, <2>3, <3>2 DEF LimiterInv, SampledInv
  <2>4. QED BY <2>1, <2>3 DEF SampledInv
<1>13. CASE limited
  <2>1. global' = recent /\ windows' = live /\ grants' = grants BY <1>4, <1>13
  <2>2. LimiterTypes' BY <1>4, <1>5, <1>7, <1>8, <1>12, <2>1 DEF LimiterTypes
  <2>3. BoundsInv' BY <1>4, <1>8, <1>9, <2>1 DEF BoundsInv
  <2>4. Recent' = Recent BY <1>4, <2>1 DEF Recent
  <2>5. \A k : RecentFor(k)' = RecentFor(k) BY <1>4, <2>1, <2>4 DEF RecentFor
  <2>6. \A k : Window(k)' = Expire(Window(k), now) BY <1>8, <2>1 DEF Window
  <2>7. CoverInv' BY <1>10, <1>11, <2>1, <2>4, <2>5, <2>6 DEF CoverInv
  <2>8. QED BY <1>12, <2>2, <2>3, <2>7 DEF LimiterInv
<1>14. CASE ~limited
  <2>1. PICK q : q = IF key \in DOMAIN live THEN live[key] ELSE << >> OBVIOUS
  <2>2. q \in Seq(Nat) /\ Len(q) < limits.perHost /\ q = Expire(Window(key), now)
    <3>1. CASE key \in DOMAIN live
      <4>1. q = live[key] /\ q \in Seq(Nat) /\ q = Expire(Window(key), now) BY <1>8, <2>1, <3>1
      <4>2. ~(Len(q) >= limits.perHost) /\ Len(q) \in Nat BY <1>3, <1>14, <3>1, <4>1
      <4>3. QED BY <1>5, <4>1, <4>2
    <3>2. CASE key \notin DOMAIN live
      <4>1. q = << >> /\ q = Expire(Window(key), now) BY <1>8, <2>1, <3>2
      <4>2. Len(q) = 0 /\ q \in Seq(Nat) BY <4>1
      <4>3. QED BY <1>5, <4>1, <4>2
    <3>3. QED BY <3>1, <3>2
  <2>3. /\ global' = Append(recent, now) /\ grants' = Append(grants, <<host, limiterClock>>)
        /\ DOMAIN windows' = DOMAIN live \cup {key} /\ windows'[key] = Append(q, now)
        /\ \A k \in DOMAIN live \ {key} : windows'[k] = live[k]
    BY <1>4, <1>14, <2>1
  <2>4. PICK g, n : g = Append(grants, <<host, limiterClock>>) /\ n = Len(grants) + 1 OBVIOUS
  <2>5. /\ g \in Seq(LimitedHosts \X Nat) /\ DOMAIN g = DOMAIN grants \cup {n}
        /\ (\A i \in DOMAIN grants : g[i] = grants[i]) /\ g[n] = <<host, limiterClock>>
        /\ DOMAIN grants = 1..Len(grants) /\ n \notin DOMAIN grants
    BY <1>5, <1>6, <2>4
  <2>6. Append(q, now) \in Seq(Nat) /\ Len(Append(q, now)) <= limits.perHost
    <3>1. Append(q, now) \in Seq(Nat) /\ Len(Append(q, now)) = Len(q) + 1 /\ Len(q) \in Nat
      BY <1>6, <2>2
    <3>2. QED BY <1>5, <2>2, <3>1
  <2>7. Append(recent, now) \in Seq(Nat) /\ Len(Append(recent, now)) <= limits.global
    <3>1. Append(recent, now) \in Seq(Nat) /\ Len(Append(recent, now)) = Len(recent) + 1
      BY <1>6, <1>7
    <3>2. ~(Len(recent) >= limits.global) BY <1>3, <1>14
    <3>3. QED BY <1>5, <1>7, <3>1, <3>2
  <2>8. IsFiniteSet(DOMAIN windows') /\ Cardinality(DOMAIN windows') <= limits.tracked
    <3>1. IsFiniteSet(DOMAIN live \cup {key}) /\ Cardinality(DOMAIN live \cup {key}) =
            IF key \in DOMAIN live THEN Cardinality(DOMAIN live) ELSE Cardinality(DOMAIN live) + 1
      BY <1>8, FS_AddElement
    <3>2. key \notin DOMAIN live => ~(Cardinality(DOMAIN live) >= limits.tracked) BY <1>3, <1>14
    <3>3. Cardinality(DOMAIN live \cup {key}) <= limits.tracked BY <1>5, <1>8, <3>1, <3>2
    <3>4. QED BY <2>3, <3>1, <3>3
  <2>9. \A k \in DOMAIN windows' : windows'[k] \in Seq(Nat) /\ Len(windows'[k]) <= limits.perHost
    <3>1. SUFFICES ASSUME NEW k \in DOMAIN windows'
                   PROVE  windows'[k] \in Seq(Nat) /\ Len(windows'[k]) <= limits.perHost
      OBVIOUS
    <3>2. CASE k = key BY <2>3, <2>6, <3>2
    <3>3. CASE k # key BY <1>8, <2>3, <3>3
    <3>4. QED BY <3>2, <3>3
  <2>10. LimiterTypes'
    <3>1. UNCHANGED limits /\ UNCHANGED limiterClock /\ global' \in Seq(Nat) /\ grants' \in Seq(LimitedHosts \X Nat)
      BY <1>4, <2>3, <2>4, <2>5, <2>7
    <3>2. QED BY <1>5, <1>12, <2>8, <2>9, <3>1 DEF LimiterTypes
  <2>11. BoundsInv' BY <1>4, <2>3, <2>7, <2>8, <2>9 DEF BoundsInv
  <2>12. Recent' \subseteq Recent \cup {n}
    <3>1. grants' = g /\ UNCHANGED <<limits, limiterClock>> BY <1>4, <2>3, <2>4
    <3>2. QED BY <2>5, <3>1 DEF Recent
  <2>13. Recent \subseteq DOMAIN grants /\ \A k : RecentFor(k) \subseteq DOMAIN grants
    BY DEF Recent, RecentFor
  <2>14. Covered(g, Recent \cup {n}, Append(recent, now))
    BY <1>5, <1>6, <1>7, <1>10, <2>4, <2>13, AppendCovers
  <2>15. Covered(g, Recent', Append(recent, now)) BY <2>12, <2>14, CoveredSubset
  <2>16. ASSUME NEW k PROVE Covered(g, RecentFor(k)', Window(k)')
    <3>1. grants' = g /\ UNCHANGED hashOf BY <1>4, <2>3, <2>4
    <3>2. Covered(grants, RecentFor(k), Expire(Window(k), now)) BY <1>11
    <3>3. CASE k = key
      <4>1. RecentFor(k)' \subseteq RecentFor(k) \cup {n}
        BY <2>5, <2>12, <2>13, <3>1 DEF RecentFor
      <4>2. Window(k)' = Append(q, now) BY <2>3, <3>3 DEF Window
      <4>3. Covered(grants, RecentFor(k), q) BY <2>2, <3>2, <3>3
      <4>4. Covered(g, RecentFor(k) \cup {n}, Append(q, now))
        BY <1>5, <1>6, <2>2, <2>4, <2>13, <4>3, AppendCovers
      <4>5. QED BY <4>1, <4>2, <4>4, CoveredSubset
    <3>4. CASE k # key
      <4>1. g[n][1] = host BY <2>5
      <4>2. RecentFor(k)' \subseteq RecentFor(k)
        BY <1>1, <2>5, <2>12, <2>13, <3>1, <3>4, <4>1 DEF RecentFor
      <4>3. Window(k)' = Expire(Window(k), now) BY <1>8, <2>3, <3>4 DEF Window
      <4>4. Covered(g, RecentFor(k), Expire(Window(k), now))
        BY <1>5, <2>4, <2>13, <3>2, LaterGrantsCover
      <4>5. QED BY <4>2, <4>3, <4>4, CoveredSubset
    <3>5. QED BY <3>3, <3>4
  <2>17. CoverInv' BY <2>3, <2>4, <2>15, <2>16 DEF CoverInv
  <2>18. QED BY <1>12, <2>10, <2>11, <2>17 DEF LimiterInv
<1>15. QED BY <1>13, <1>14

\* What is admitted within the narrowed window is covered by what is recorded.
LEMMA CoveredHolds ==
  ASSUME LimiterInv
  PROVE  WindowHolds
<1>1. /\ MaxDelay \in Nat /\ limiterClock \in Nat /\ limits.window \in Nat /\ limits.global \in Nat
      /\ limits.perHost \in Nat /\ grants \in Seq(LimitedHosts \X Nat) /\ global \in Seq(Nat)
      /\ Len(global) <= limits.global
  BY LimitsAssumption DEF LimiterInv, LimiterTypes, BoundsInv
<1>2. ASSUME limits.window > MaxDelay, NEW H
      PROVE  {i \in DOMAIN grants : /\ grants[i][1] \in H /\ grants[i][2] <= limiterClock
                                    /\ grants[i][2] + (limits.window - MaxDelay) > limiterClock}
               \subseteq {i \in Recent : grants[i][1] \in H}
  <2>1. SUFFICES ASSUME NEW i \in DOMAIN grants, grants[i][2] + (limits.window - MaxDelay) > limiterClock
                 PROVE  grants[i][2] + limits.window > limiterClock + MaxDelay
    BY DEF Recent
  <2>2. PICK t, width : t = grants[i][2] /\ width = limits.window OBVIOUS
  <2>3. grants[i] \in LimitedHosts \X Nat BY <1>1
  <2>4. t \in Nat /\ width \in Nat /\ t + (width - MaxDelay) > limiterClock BY <1>1, <2>1, <2>2, <2>3
  <2>5. t + width > limiterClock + MaxDelay BY <1>1, <2>4
  <2>6. QED BY <2>2, <2>5
<1>3. ASSUME limits.window > MaxDelay
      PROVE  Granted(LimitedHosts, limiterClock, limits.window - MaxDelay) <= limits.global
  <2>1. PICK S : S = {i \in DOMAIN grants : /\ grants[i][1] \in LimitedHosts /\ grants[i][2] <= limiterClock
                                            /\ grants[i][2] + (limits.window - MaxDelay) > limiterClock}
    OBVIOUS
  <2>2. S \subseteq Recent BY <1>2, <1>3, <2>1
  <2>3. Covered(grants, S, global) BY <2>2, CoveredSubset DEF LimiterInv, CoverInv
  <2>4. Cardinality(S) \in Nat /\ Cardinality(S) <= Len(global) /\ Len(global) \in Nat
    BY <1>1, <2>3, CoveredCounts
  <2>5. Cardinality(S) <= limits.global BY <1>1, <2>4
  <2>6. QED BY <2>1, <2>5 DEF Granted
<1>4. ASSUME limits.window > MaxDelay, NEW h \in LimitedHosts
      PROVE  Granted({h}, limiterClock, limits.window - MaxDelay) <= limits.perHost
  <2>1. PICK S : S = {i \in DOMAIN grants : /\ grants[i][1] \in {h} /\ grants[i][2] <= limiterClock
                                            /\ grants[i][2] + (limits.window - MaxDelay) > limiterClock}
    OBVIOUS
  <2>2. PICK k : k = hashOf[h] OBVIOUS
  <2>3. S \subseteq {i \in Recent : grants[i][1] \in {h}} BY <1>2, <1>4, <2>1
  <2>4. S \subseteq RecentFor(k) BY <2>2, <2>3 DEF RecentFor
  <2>5. Covered(grants, S, Window(k)) BY <2>4, CoveredSubset DEF LimiterInv, CoverInv
  <2>6. Window(k) \in Seq(Nat) /\ Len(Window(k)) <= limits.perHost /\ Len(Window(k)) \in Nat
    <3>1. CASE k \in DOMAIN windows
      <4>1. Window(k) = windows[k] BY <3>1 DEF Window
      <4>2. windows[k] \in Seq(Nat) /\ Len(windows[k]) <= limits.perHost
        BY <3>1 DEF LimiterInv, LimiterTypes, BoundsInv
      <4>3. QED BY <4>1, <4>2
    <3>2. CASE k \notin DOMAIN windows
      <4>1. Window(k) = << >> BY <3>2 DEF Window
      <4>2. QED BY <1>1, <4>1
    <3>3. QED BY <3>1, <3>2
  <2>7. Cardinality(S) \in Nat /\ Cardinality(S) <= Len(Window(k)) BY <2>5, <2>6, CoveredCounts
  <2>8. Cardinality(S) <= limits.perHost BY <1>1, <2>6, <2>7
  <2>9. QED BY <2>1, <2>8 DEF Granted
<1>5. Cardinality(DOMAIN windows) <= limits.tracked BY DEF LimiterInv, BoundsInv
<1>6. QED BY <1>3, <1>4, <1>5 DEF WindowHolds

LEMMA LimiterStutters ==
  ASSUME LimiterInv, UNCHANGED limiterVars
  PROVE  LimiterInv'
<1>1. UNCHANGED <<limits, hashOf, limiterClock, global, windows, sampled, grants>> BY DEF limiterVars
<1>2. Recent' = Recent BY <1>1 DEF Recent
<1>3. \A k : RecentFor(k)' = RecentFor(k) /\ Window(k)' = Window(k)
  BY <1>1, <1>2 DEF RecentFor, Window
<1>4. CoverInv' BY <1>1, <1>2, <1>3 DEF LimiterInv, CoverInv
<1>5. LimiterTypes' /\ SampledInv' /\ BoundsInv'
  BY <1>1 DEF LimiterInv, LimiterTypes, SampledInv, BoundsInv
<1>6. QED BY <1>4, <1>5 DEF LimiterInv

\* For any workers, hosts, keyed hash, limits and delay: no span of real time
\* shorter than the window by the delay admits more than the limits allow, in
\* total or per host, and the table of hosts keeps its size (RequestRateLimiter).
THEOREM LimiterSafe == LimiterSpec => []WindowHolds
<1>1. LimiterInit => LimiterInv BY LimiterInitial
<1>2. LimiterInv /\ [LimiterNext]_limiterVars => LimiterInv'
  BY LimiterStutters, CheckKeeps, SampleClockKeeps, TimePassesKeeps DEF LimiterNext
<1>3. LimiterInv => WindowHolds BY CoveredHolds
<1>4. QED BY <1>1, <1>2, <1>3, PTL DEF LimiterSpec
=============================================================================
