------------------------ MODULE RelayExchangeProofs -------------------------
(***************************************************************************)
(* Proofs about RelayExchange, for any threads, peers and questions.       *)
(*                                                                         *)
(* ExchangeSafety is not inductive.  That an answer is the caller's own    *)
(* needs every flight to be about the question of all who lead or await    *)
(* it, and a leader's flight to be the live one of its question: that is   *)
(* what keeps it in place until its leader takes it down.  That blame is   *)
(* scoped needs the frame of an attempt to hold only peers whose responses *)
(* were handed over in it, and no suspects when the next attempt begins.   *)
(* That a failed validation is final needs the responses before the last   *)
(* to be good, and a failed first attempt to end in a report or for good.  *)
(***************************************************************************)
EXTENDS RelayExchange, SequenceTheorems, TLAPS

\* Where a thread leads a flight.
Leading == {"lead", "exchange", "remove"}

\* Where a thread is inside an attempt, and where it has seen only good responses in it.
Seeking == Leading \cup {"ask", "wait"}
Attempting == Seeking \cup {"handed"}

\* What the thread has been handed in this attempt, peers and responses.
PeersHanded(t) == UNION {handed[t][i].peer : i \in DOMAIN handed[t]}
GoodUpTo(t, n) == \A i \in 1 .. n : handed[t][i].ok /\ handed[t][i].good

TypeInv == TypeOK /\ handed \in [Thread -> Seq(Result)]

\* A leader's flight is the live one of its question.
LeadInv ==
  \A t \in Thread : pc[t] \in Leading =>
    /\ joined[t] = <<t, attempt[t], asked[t]>>
    /\ asked[t] \in DOMAIN live /\ live[asked[t]] = joined[t]

\* A flight is about the question of those who wait for it, and so is its answer.
FlightInv ==
  /\ \A q \in DOMAIN live : live[q] \in DOMAIN flights /\ live[q][3] = q
  /\ \A t \in Thread : pc[t] = "wait" => joined[t] \in DOMAIN flights /\ joined[t][3] = asked[t]
  /\ \A f \in DOMAIN flights : flights[f].ok => flights[f].question = f[3]

\* Inside an attempt, one frame with peers that were handed to the thread; only a thread with a
\* verdict suspects anyone.
FrameOf(t) ==
  /\ Len(frames[t]) = IF pc[t] \in Attempting THEN 1 ELSE 0
  /\ pc[t] \in Attempting => frames[t][1] \subseteq PeersHanded(t)
  /\ suspects[t] # {} => pc[t] \in {"report", "done"}
  /\ suspects[t] \subseteq PeersHanded(t)

\* A resolver that goes on has had good responses only.
HandedOf(t) ==
  /\ pc[t] \in Seeking => GoodUpTo(t, Len(handed[t]))
  /\ pc[t] = "handed" =>
       /\ Len(handed[t]) > 0 /\ GoodUpTo(t, Len(handed[t]) - 1)
       /\ LastFrame(t).ok => LastFrame(t).id = t /\ LastFrame(t).question = asked[t]

\* Who has failed validation once is on its retry, or done, with a final outcome.
VerdictOf(t) ==
  /\ failed[t] /\ attempt[t] = 0 => pc[t] \in {"report", "done"}
  /\ pc[t] = "report" /\ attempt[t] = 1 => relayed[t] = "RelayDnssecFailed"
  /\ failed[t] /\ pc[t] = "done" =>
       \/ relayed[t] = "RelayDnssecFailed"
       \/ relayed[t] = "answer" /\ GoodUpTo(t, Len(handed[t]))

ThreadInv(t) == FrameOf(t) /\ HandedOf(t) /\ VerdictOf(t)

IInv == TypeInv /\ LeadInv /\ FlightsAreLed /\ FlightInv /\ \A t \in Thread : ThreadInv(t)

----------------------------------------------------------------------------
(* Results and flights.                                                     *)

\* The results a flight can carry, field by field.
LEMMA FailureIs ==
  ASSUME NEW e
  PROVE  /\ ExchangeFailure(e) = [ok |-> FALSE, error |-> e, id |-> Nobody, question |-> 0, peer |-> {},
                          good |-> FALSE]
         /\ ~ExchangeFailure(e).ok /\ ~ExchangeFailure(e).good /\ ExchangeFailure(e).peer = {}
<1>1. PICK p : p = Pending OBVIOUS
<1>2. ExchangeFailure(e) = [p EXCEPT !.error = e] BY <1>1 DEF ExchangeFailure
<1>3. QED BY <1>1, <1>2 DEF Pending

\* A response, field by field.
LEMMA ResponseIs ==
  ASSUME NEW u, NEW q, NEW p, NEW g \in BOOLEAN
  PROVE  /\ Response(u, q, p, g).ok /\ Response(u, q, p, g).id = u
         /\ Response(u, q, p, g).question = q /\ Response(u, q, p, g).peer = {p}
         /\ Response(u, q, p, g).good = g
BY DEF Response

\* A result is a failure or a response of a peer.
LEMMA ResultFields ==
  ASSUME NEW r \in Result
  PROVE  /\ r.ok \in BOOLEAN /\ r.good \in BOOLEAN /\ r.peer \subseteq Peer
         /\ r.ok => \E u \in Thread, q \in Turn, p \in Peer, g \in BOOLEAN : r = Response(u, q, p, g)
<1>1. CASE \E e : r = ExchangeFailure(e)
  <2>1. PICK e : r = ExchangeFailure(e) BY <1>1
  <2>2. r = [ok |-> FALSE, error |-> e, id |-> Nobody, question |-> 0, peer |-> {}, good |-> FALSE]
    BY <2>1, FailureIs
  <2>3. ~r.ok /\ ~r.good /\ r.peer = {} /\ r.ok \in BOOLEAN /\ r.good \in BOOLEAN
    BY <2>2
  <2>4. QED BY <2>3
<1>2. CASE \E u \in Thread, q \in Turn, p \in Peer, g \in BOOLEAN : r = Response(u, q, p, g)
  <2>1. PICK u \in Thread, q \in Turn, p \in Peer, g \in BOOLEAN : r = Response(u, q, p, g)
    BY <1>2
  <2>2. r.ok \in BOOLEAN /\ r.good \in BOOLEAN /\ r.peer \subseteq Peer
    BY <2>1 DEF Response
  <2>3. QED BY <2>1, <2>2
<1>3. QED BY <1>1, <1>2 DEF Result

\* What an exchange makes is a result.
LEMMA ResultsMade ==
  /\ Pending \in Result /\ ~Pending.ok
  /\ \A e \in ExchangeError : ExchangeFailure(e) \in Result
  /\ \A t \in Thread, q \in Turn, p \in Peer, g \in BOOLEAN : Response(t, q, p, g) \in Result
<1>1. Pending = ExchangeFailure("pending") /\ ~Pending.ok BY FailureIs DEF Pending
<1>2. ExchangeFailure("pending") \in Result /\ \A e \in ExchangeError : ExchangeFailure(e) \in Result BY DEF Result
<1>3. \A t \in Thread, q \in Turn, p \in Peer, g \in BOOLEAN : Response(t, q, p, g) \in Result
  BY DEF Result
<1>4. QED BY <1>1, <1>2, <1>3

\* A response under another transaction id.
LEMMA ReId ==
  ASSUME NEW t, NEW u, NEW q, NEW p, NEW g, NEW r, r = Response(u, q, p, g)
  PROVE  [r EXCEPT !.id = t] = Response(t, q, p, g)
<1>1. PICK s, a : s = {p} /\ a = TRUE OBVIOUS
<1>2. r = [ok |-> a, error |-> "none", id |-> u, question |-> q, peer |-> s, good |-> g]
  BY <1>1 DEF Response
<1>3. [r EXCEPT !.id = t] =
        [ok |-> a, error |-> "none", id |-> t, question |-> q, peer |-> s, good |-> g]
  BY <1>2
<1>4. QED BY <1>1, <1>3 DEF Response

\* The response handed to a caller is the flight's, under the caller's id.
LEMMA Restored ==
  ASSUME NEW r \in Result, NEW t \in Thread
  PROVE  LET s == RestoreResponseId(r, t) IN
         /\ s \in Result /\ s.peer = r.peer /\ s.ok = r.ok /\ s.good = r.good
         /\ s.question = r.question
         /\ s.ok => s.id = t
<1>1. CASE r.ok
  <2>1. PICK u \in Thread, q \in Turn, p \in Peer, g \in BOOLEAN : r = Response(u, q, p, g)
    BY <1>1, ResultFields
  <2>2. RestoreResponseId(r, t) = Response(t, q, p, g)
    BY <1>1, <2>1, ReId DEF RestoreResponseId
  <2>3. RestoreResponseId(r, t) \in Result BY <2>2, ResultsMade
  <2>4. /\ r.ok = TRUE /\ r.peer = {p} /\ r.good = g /\ r.question = q
    BY <2>1 DEF Response
  <2>5. PICK s : s = RestoreResponseId(r, t) OBVIOUS
  <2>6. s.ok = TRUE /\ s.peer = {p} /\ s.good = g /\ s.question = q /\ s.id = t
    BY <2>2, <2>5 DEF Response
  <2>7. QED BY <2>3, <2>4, <2>5, <2>6
<1>2. CASE ~r.ok
  BY <1>2 DEF RestoreResponseId
<1>3. QED BY <1>1, <1>2

\* A flight names its leader and its question.
LEMMA FlightParts ==
  ASSUME NEW t \in Thread, NEW a \in {0, 1}, NEW q \in Turn
  PROVE  <<t, a, q>> \in Flight /\ <<t, a, q>>[1] = t /\ <<t, a, q>>[3] = q
BY DEF Flight

\* The invariant holds at first.
LEMMA InitInv ==
  ASSUME ExchangeInit
  PROVE  IInv
<1> USE DEF ExchangeInit
<1>1. 1 \in Turn BY QuestionsAssumption DEF Turn
<1>2. TypeInv
  <2>1. DOMAIN live = {} /\ DOMAIN flights = {} OBVIOUS
  <2>2. joined \in [Thread -> Flight] BY <1>1, FlightParts
  <2>3. frames \in [Thread -> Seq(SUBSET Peer)] /\ handed \in [Thread -> Seq(Result)] OBVIOUS
  <2>4. QED BY <1>1, <2>1, <2>2, <2>3 DEF TypeInv, TypeOK
<1>3. LeadInv /\ FlightsAreLed /\ FlightInv
  BY DEF LeadInv, Leading, FlightsAreLed, FlightInv
<1>4. ASSUME NEW t \in Thread PROVE ThreadInv(t)
  BY DEF ThreadInv, FrameOf, HandedOf, VerdictOf, Attempting, Seeking, Leading
<1>5. QED BY <1>2, <1>3, <1>4 DEF IInv

\* A thread that a step leaves alone keeps its part of the invariant.
LEMMA OthersKeep ==
  ASSUME NEW t \in Thread, ThreadInv(t),
         pc'[t] = pc[t], frames'[t] = frames[t], handed'[t] = handed[t],
         suspects'[t] = suspects[t], asked'[t] = asked[t], attempt'[t] = attempt[t],
         failed'[t] = failed[t], relayed'[t] = relayed[t]
  PROVE  ThreadInv(t)'
BY DEF ThreadInv, FrameOf, HandedOf, VerdictOf, PeersHanded, GoodUpTo, LastFrame

\* The frame stays as it is until the next response or the end of the attempt.
LEMMA FrameKeeps ==
  ASSUME NEW t \in Thread, FrameOf(t), pc[t] \in Attempting, pc'[t] \in Attempting,
         frames'[t] = frames[t], handed'[t] = handed[t], suspects'[t] = suspects[t]
  PROVE  FrameOf(t)'
<1>1. PeersHanded(t)' = PeersHanded(t) BY DEF PeersHanded
<1>2. QED BY <1>1 DEF FrameOf, Attempting, Seeking, Leading

\* The frame holds peers.
LEMMA FrameTop ==
  ASSUME NEW k \in Seq(SUBSET Peer), Len(k) = 1
  PROVE  k[1] \subseteq Peer
<1>1. k[1] \in SUBSET Peer BY ElementOfSeq
<1>2. QED BY <1>1

\* So does one that goes on with its attempt.
LEMMA SeekerKeeps ==
  ASSUME NEW t \in Thread, ThreadInv(t), pc[t] \in Seeking, pc'[t] \in Seeking,
         frames'[t] = frames[t], handed'[t] = handed[t], suspects'[t] = suspects[t],
         attempt'[t] = attempt[t], failed'[t] = failed[t]
  PROVE  ThreadInv(t)'
<1>1. FrameOf(t)'
  BY FrameKeeps DEF ThreadInv, Attempting
<1>2. HandedOf(t)'
  BY DEF ThreadInv, HandedOf, GoodUpTo, Seeking, Leading
<1>3. VerdictOf(t)'
  BY DEF ThreadInv, VerdictOf, Seeking, Leading
<1>4. QED BY <1>1, <1>2, <1>3 DEF ThreadInv

\* A transport is opened.
LEMMA NewTransportKeeps ==
  ASSUME IInv, NEW t \in Thread, NewTransport(t)
  PROVE  IInv'
<1> USE DEF IInv, TypeInv, TypeOK, ThreadInv, NewTransport, Goto, shared
<1>1. TypeInv' OBVIOUS
<1>2. LeadInv' BY DEF LeadInv, Leading
<1>3. FlightsAreLed' BY DEF FlightsAreLed, LeadInv, Leading
<1>4. FlightInv' BY DEF FlightInv, LeadInv, Leading
<1>5. FrameOf(t)' BY DEF FrameOf, Attempting, Seeking, Leading, PeersHanded
<1>6. HandedOf(t)' BY DEF HandedOf, GoodUpTo, Seeking, Leading, LastFrame
<1>7. VerdictOf(t)' BY DEF VerdictOf, GoodUpTo
<1>8. \A u \in Thread \ {t} : ThreadInv(u)' BY OthersKeep
<1>9. QED BY <1>1, <1>2, <1>3, <1>4, <1>5, <1>6, <1>7, <1>8

\* An attempt begins with an empty frame and nothing handed.
LEMMA BeginAttemptKeeps ==
  ASSUME IInv, NEW t \in Thread, BeginAttempt(t)
  PROVE  IInv'
<1> USE DEF IInv, TypeInv, TypeOK, ThreadInv, BeginAttempt, Goto, shared
<1>a. 1 \in Turn BY QuestionsAssumption DEF Turn
<1>b. frames[t] \in Seq(SUBSET Peer) /\ Len(frames[t]) = 0 BY DEF FrameOf, Attempting, Seeking,
      Leading
<1>c. frames'[t] \in Seq(SUBSET Peer) /\ Len(frames'[t]) = 1 /\ frames'[t][1] = {} BY <1>b
<1>1. TypeInv' BY <1>a, <1>b, <1>c 
<1>2. LeadInv' BY <1>a, <1>b, <1>c DEF LeadInv, Leading
<1>3. FlightsAreLed' BY <1>a, <1>b, <1>c DEF FlightsAreLed, LeadInv, Leading
<1>4. FlightInv' BY <1>a, <1>b, <1>c DEF FlightInv, LeadInv, Leading
<1>5. FrameOf(t)' BY <1>a, <1>b, <1>c DEF FrameOf, Attempting, Seeking, Leading, PeersHanded
<1>6. HandedOf(t)' BY <1>a, <1>b, <1>c DEF HandedOf, GoodUpTo, Seeking, Leading, LastFrame
<1>7. VerdictOf(t)' BY <1>a, <1>b, <1>c DEF VerdictOf, GoodUpTo
<1>8. \A u \in Thread \ {t} : ThreadInv(u)' BY OthersKeep
<1>9. QED BY <1>1, <1>2, <1>3, <1>4, <1>5, <1>6, <1>7, <1>8

\* Joining a flight, which is led by someone else and is about the caller's question; or
\* opening one and leading it.
LEMMA JoinFlightKeeps ==
  ASSUME IInv, NEW t \in Thread, JoinFlight(t)
  PROVE  IInv'
<1> USE DEF IInv, TypeInv, TypeOK, ThreadInv, Goto
<1>1. CASE asked[t] \in DOMAIN live
  <2>1. /\ pc[t] = "ask" /\ pc' = [pc EXCEPT ![t] = "wait"]
        /\ joined' = [joined EXCEPT ![t] = live[asked[t]]]
        /\ UNCHANGED <<client, lock, live, flights, connected, struck, broken, attempt, asked,
                       frames, handed, suspects, failed, relayed>>
    BY <1>1 DEF JoinFlight, CoalescingKey
  <2>2. TypeInv' BY <1>1, <2>1
  <2>3. LeadInv' BY <2>1 DEF LeadInv, Leading
  <2>4. FlightsAreLed' BY <2>1 DEF FlightsAreLed
  <2>5. FlightInv' BY <1>1, <2>1 DEF FlightInv
  <2>6. ThreadInv(t)' BY <2>1, SeekerKeeps DEF Seeking, Leading
  <2>7. \A u \in Thread \ {t} : ThreadInv(u)' BY <2>1, OthersKeep
  <2>8. QED BY <2>2, <2>3, <2>4, <2>5, <2>6, <2>7
<1>2. CASE asked[t] \notin DOMAIN live
  <2>1. PICK flight : flight = <<t, attempt[t], asked[t]>> OBVIOUS
  <2>2. /\ pc[t] = "ask" /\ pc' = [pc EXCEPT ![t] = "lead"]
        /\ joined' = [joined EXCEPT ![t] = flight]
        /\ live' = [q \in DOMAIN live \cup {asked[t]} |->
                      IF q = asked[t] THEN flight ELSE live[q]]
        /\ flights' = [f \in DOMAIN flights \cup {flight} |->
                         IF f = flight THEN Pending ELSE flights[f]]
        /\ UNCHANGED <<client, lock, connected, struck, broken, attempt, asked, frames, handed,
                       suspects, failed, relayed>>
    BY <1>2, <2>1 DEF JoinFlight, CoalescingKey
  <2>3. flight \in Flight /\ flight[1] = t /\ flight[3] = asked[t]
    BY <2>1, FlightParts
  <2>4. Pending \in Result /\ ~Pending.ok BY ResultsMade
  <2>5. TypeInv' BY <2>2, <2>3, <2>4
  <2>6. LeadInv'
    BY <1>2, <2>1, <2>2 DEF LeadInv, Leading
  <2>7. FlightsAreLed'
    <3> SUFFICES ASSUME NEW q \in DOMAIN live'
                 PROVE  /\ joined'[live'[q][1]] = live'[q] /\ asked'[live'[q][1]] = q
                        /\ pc'[live'[q][1]] \in {"lead", "exchange", "remove"}
      BY DEF FlightsAreLed
    <3>1. CASE q = asked[t] BY <2>2, <2>3, <3>1
    <3>2. CASE q # asked[t]
      <4>1. q \in DOMAIN live /\ live'[q] = live[q] BY <2>2, <3>2
      <4>2. live[q][1] # t BY <2>2, <4>1 DEF FlightsAreLed
      <4>3. QED BY <2>2, <4>1, <4>2 DEF FlightsAreLed
    <3>3. QED BY <3>1, <3>2
  <2>8. FlightInv'
    <3>1. \A q \in DOMAIN live' : live'[q] \in DOMAIN flights' /\ live'[q][3] = q
      BY <2>2, <2>3 DEF FlightInv
    <3>2. \A u \in Thread : pc'[u] = "wait" =>
            joined'[u] \in DOMAIN flights' /\ joined'[u][3] = asked'[u]
      BY <2>2 DEF FlightInv
    <3>3. \A f \in DOMAIN flights' : flights'[f].ok => flights'[f].question = f[3]
      BY <2>2, <2>4 DEF FlightInv
    <3>4. QED BY <3>1, <3>2, <3>3 DEF FlightInv
  <2>9. ThreadInv(t)' BY <2>2, SeekerKeeps DEF Seeking, Leading
  <2>10. \A u \in Thread \ {t} : ThreadInv(u)' BY <2>2, OthersKeep
  <2>11. QED BY <2>5, <2>6, <2>7, <2>8, <2>9, <2>10
<1>3. QED BY <1>1, <1>2

\* A result lands in the flight of its leader, and answers the question the flight is about.
LEMMA LandsKeeps ==
  ASSUME IInv, NEW t \in Thread, pc[t] \in {"lead", "exchange"}, NEW r \in Result, Lands(t, r),
         r.ok => r.question = asked[t],
         lock' \in Thread \cup {Nobody}, connected' \subseteq Peer,
         UNCHANGED <<client, live, struck, broken, attempt, asked, joined, frames, handed, suspects,
                     failed, relayed>>
  PROVE  IInv'
<1> USE DEF IInv, TypeInv, TypeOK
<1>1. /\ pc' = [pc EXCEPT ![t] = "remove"]
      /\ flights' = [flights EXCEPT ![joined[t]] = r]
  BY DEF Lands, Goto
<1>2. /\ joined[t] = live[asked[t]] /\ asked[t] \in DOMAIN live
      /\ joined[t] \in DOMAIN flights /\ joined[t][3] = asked[t]
  BY DEF LeadInv, Leading, FlightInv
<1>3. /\ DOMAIN flights' = DOMAIN flights /\ flights'[joined[t]] = r
      /\ \A f \in DOMAIN flights \ {joined[t]} : flights'[f] = flights[f]
  BY <1>1, <1>2
<1>4. TypeInv' BY <1>1, <1>3
<1>5. LeadInv' BY <1>1 DEF LeadInv, Leading
<1>6. FlightsAreLed' BY <1>1 DEF FlightsAreLed
<1>7. FlightInv' BY <1>1, <1>2, <1>3 DEF FlightInv
<1>8. ThreadInv(t)' BY <1>1, SeekerKeeps DEF Seeking, Leading
<1>9. \A u \in Thread \ {t} : ThreadInv(u)' BY <1>1, OthersKeep
<1>10. QED BY <1>4, <1>5, <1>6, <1>7, <1>8, <1>9

\* The leader fails at once, or takes the lock of the client.
LEMMA LockClientKeeps ==
  ASSUME IInv, NEW t \in Thread, LockClient(t)
  PROVE  IInv'
<1>1. CASE broken[t]
  <2>1. ExchangeFailure("transport") \in Result /\ ~ExchangeFailure("transport").ok
    BY ResultsMade, FailureIs DEF ExchangeError
  <2>2. QED BY <1>1, <2>1, LandsKeeps DEF LockClient, IInv, TypeInv, TypeOK
<1>2. CASE ~broken[t]
  <2> USE DEF IInv, TypeInv, TypeOK
  <2>a. /\ pc[t] = "lead" /\ pc' = [pc EXCEPT ![t] = "exchange"] /\ lock' = t
        /\ UNCHANGED <<client, live, flights, connected, struck, broken, attempt, asked, joined,
                       frames, handed, suspects, failed, relayed>>
    BY <1>2 DEF LockClient, Goto
  <2> USE <2>a
  <2>1. TypeInv' OBVIOUS
  <2>2. LeadInv' BY DEF LeadInv, Leading
  <2>3. FlightsAreLed' BY DEF FlightsAreLed
  <2>4. FlightInv' BY DEF FlightInv
  <2>5. ThreadInv(t)' BY SeekerKeeps DEF Seeking, Leading
  <2>6. \A u \in Thread \ {t} : ThreadInv(u)' BY OthersKeep
  <2>7. QED BY <2>1, <2>2, <2>3, <2>4, <2>5, <2>6
<1>3. QED BY <1>1, <1>2

\* The exchange, with a response of some peer or an error.
LEMMA ExchangeKeeps ==
  ASSUME IInv, NEW t \in Thread, Exchange(t)
  PROVE  IInv'
<1>1. ASSUME NEW p \in Peer \ struck, NEW good \in BOOLEAN, connected' = connected \cup {p},
             Lands(t, Response(t, asked[t], p, good))
      PROVE  IInv'
  <2>1. /\ Response(t, asked[t], p, good) \in Result
        /\ Response(t, asked[t], p, good).question = asked[t]
    BY ResultsMade, ResponseIs DEF IInv, TypeInv, TypeOK
  <2>2. QED BY <1>1, <2>1, LandsKeeps DEF Exchange, IInv, TypeInv, TypeOK
<1>2. ASSUME NEW e \in MapRelayError, Lands(t, ExchangeFailure(e)), UNCHANGED connected
      PROVE  IInv'
  <2>1. ExchangeFailure(e) \in Result /\ ~ExchangeFailure(e).ok
    BY ResultsMade, FailureIs DEF MapRelayError
  <2>2. QED BY <1>2, <2>1, LandsKeeps DEF Exchange, IInv, TypeInv, TypeOK
<1>3. QED BY <1>1, <1>2 DEF Exchange

\* Handing a result to a thread: it goes to the end of what the thread was handed, and its peer
\* to the thread's frame.
LEMMA Delivered ==
  ASSUME IInv, NEW t \in Thread, pc[t] \in {"remove", "wait"}, NEW r \in Result, Deliver(t, r),
         r.ok => r.question = asked[t],
         UNCHANGED <<attempt, asked, suspects, failed, relayed>>
  PROVE  /\ \A u \in Thread : ThreadInv(u)'
         /\ pc' = [pc EXCEPT ![t] = "handed"]
         /\ frames' \in [Thread -> Seq(SUBSET Peer)] /\ handed' \in [Thread -> Seq(Result)]
<1> USE DEF IInv, TypeInv, TypeOK
<1>1. PICK s \in Result : /\ s = RestoreResponseId(r, t) /\ s.peer = r.peer
                          /\ s.ok => s.id = t /\ s.question = asked[t]
  BY Restored
<1>2. /\ pc' = [pc EXCEPT ![t] = "handed"]
      /\ handed' = [handed EXCEPT ![t] = Append(handed[t], s)]
  BY <1>1 DEF Deliver, Goto
<1>3. /\ handed'[t] \in Seq(Result) /\ Len(handed'[t]) = Len(handed[t]) + 1
      /\ handed'[t][Len(handed[t]) + 1] = s
      /\ \A i \in 1 .. Len(handed[t]) : handed'[t][i] = handed[t][i]
  BY <1>2
<1>4. frames[t] \in Seq(SUBSET Peer) /\ Len(frames[t]) = 1 /\ frames[t][1] \subseteq PeersHanded(t)
  BY DEF ThreadInv, FrameOf, Attempting, Seeking, Leading
<1>5. /\ frames'[t] \in Seq(SUBSET Peer) /\ Len(frames'[t]) = 1
      /\ frames'[t][1] = frames[t][1] \cup s.peer
  <2>1. PICK k : k = frames[t] OBVIOUS
  <2>2. frames' = [frames EXCEPT ![t] = [k EXCEPT ![Len(k)] = k[Len(k)] \cup r.peer]]
    BY <2>1 DEF Deliver, Observe
  <2>3. frames'[t] = [k EXCEPT ![1] = k[1] \cup s.peer]
    BY <1>1, <1>4, <2>1, <2>2
  <2>4. k \in Seq(SUBSET Peer) /\ Len(k) = 1
    BY <1>4, <2>1
  <2>5. k[1] \in SUBSET Peer
    BY <2>4, FrameTop
  <2>6. s.peer \in SUBSET Peer
    BY <1>1, ResultFields
  <2>7. QED BY <2>1, <2>3, <2>4, <2>5, <2>6
<1>6. PeersHanded(t)' = PeersHanded(t) \cup s.peer
  <2>1. DOMAIN handed'[t] = DOMAIN handed[t] \cup {Len(handed[t]) + 1}
        /\ DOMAIN handed[t] = 1 .. Len(handed[t])
    BY <1>3
  <2>2. QED BY <1>3, <2>1 DEF PeersHanded
<1>7. ThreadInv(t)'
  <2>1. FrameOf(t)'
    BY <1>2, <1>4, <1>5, <1>6 DEF ThreadInv, FrameOf, Attempting, Seeking, Leading
  <2>2. HandedOf(t)'
    <3>1. LastFrame(t)' = s /\ Len(handed'[t]) - 1 = Len(handed[t]) /\ Len(handed'[t]) > 0
      BY <1>3 DEF LastFrame
    <3>2. GoodUpTo(t, Len(handed[t])) BY DEF ThreadInv, HandedOf, Seeking, Leading
    <3>3. \A i \in 1 .. Len(handed'[t]) - 1 : handed'[t][i].ok /\ handed'[t][i].good
      BY <1>3, <3>1, <3>2 DEF GoodUpTo
    <3>4. QED BY <1>1, <1>2, <3>1, <3>3 DEF HandedOf, GoodUpTo, Seeking, Leading
  <2>3. VerdictOf(t)'
    BY <1>2 DEF ThreadInv, VerdictOf
  <2>4. QED BY <2>1, <2>2, <2>3 DEF ThreadInv
<1>8. \A u \in Thread \ {t} : /\ frames'[u] = frames[u] /\ handed'[u] = handed[u]
                              /\ pc'[u] = pc[u]
  BY <1>2 DEF Deliver, Observe
<1>9. \A u \in Thread \ {t} : ThreadInv(u)' BY <1>8, OthersKeep
<1>10. frames' \in [Thread -> Seq(SUBSET Peer)]
  <2>1. DOMAIN frames' = Thread /\ frames' = [u \in Thread |-> frames'[u]] BY DEF Deliver, Observe
  <2>2. QED BY <1>5, <1>8, <2>1
<1>11. QED BY <1>2, <1>3, <1>7, <1>9, <1>10

\* The leader takes the flight down and has its result.
LEMMA RemoveFlightKeeps ==
  ASSUME IInv, NEW t \in Thread, RemoveFlight(t)
  PROVE  IInv'
<1> USE DEF IInv, TypeInv, TypeOK, RemoveFlight
<1>1. /\ joined[t] = live[asked[t]] /\ asked[t] \in DOMAIN live
      /\ joined[t] \in DOMAIN flights /\ joined[t][3] = asked[t]
  BY DEF LeadInv, Leading, FlightInv
<1>2. /\ flights[joined[t]] \in Result
      /\ flights[joined[t]].ok => flights[joined[t]].question = asked[t]
  BY <1>1 DEF FlightInv
<1>3. /\ \A u \in Thread : ThreadInv(u)'
      /\ pc' = [pc EXCEPT ![t] = "handed"]
      /\ frames' \in [Thread -> Seq(SUBSET Peer)] /\ handed' \in [Thread -> Seq(Result)]
  BY <1>2, Delivered
<1>4. DOMAIN live' = DOMAIN live \ {asked[t]} /\ \A q \in DOMAIN live' : live'[q] = live[q]
  OBVIOUS
<1>5. TypeInv' BY <1>3, <1>4
<1>6. LeadInv'
  <2> SUFFICES ASSUME NEW u \in Thread, pc'[u] \in Leading
               PROVE  /\ joined[u] = <<u, attempt[u], asked[u]>>
                      /\ asked[u] \in DOMAIN live' /\ live'[asked[u]] = joined[u]
    BY DEF LeadInv
  <2>1. u # t /\ pc[u] \in Leading BY <1>3 DEF Leading
  <2>2. /\ joined[u] = <<u, attempt[u], asked[u]>> /\ live[asked[u]] = joined[u]
        /\ joined[t] = <<t, attempt[t], asked[t]>> /\ asked[u] \in DOMAIN live
    BY <2>1 DEF LeadInv, Leading
  <2>3. asked[u] # asked[t]
    <3> SUFFICES ASSUME asked[u] = asked[t] PROVE u = t BY <2>1
    <3>1. <<u, attempt[u], asked[u]>> = <<t, attempt[t], asked[t]>> BY <1>1, <2>2
    <3>2. QED BY <3>1
  <2>4. QED BY <1>4, <2>2, <2>3
<1>7. FlightsAreLed' BY <1>3, <1>4 DEF FlightsAreLed
<1>8. FlightInv' BY <1>3, <1>4 DEF FlightInv
<1>9. QED BY <1>3, <1>5, <1>6, <1>7, <1>8

\* A follower has the leader's result.
LEMMA WakeKeeps ==
  ASSUME IInv, NEW t \in Thread, Wake(t)
  PROVE  IInv'
<1> USE DEF IInv, TypeInv, TypeOK, Wake, shared
<1>1. /\ flights[joined[t]] \in Result
      /\ flights[joined[t]].ok => flights[joined[t]].question = asked[t]
  BY DEF FlightInv
<1>2. /\ \A u \in Thread : ThreadInv(u)'
      /\ pc' = [pc EXCEPT ![t] = "handed"]
      /\ frames' \in [Thread -> Seq(SUBSET Peer)] /\ handed' \in [Thread -> Seq(Result)]
  BY <1>1, Delivered
<1>3. TypeInv' BY <1>2
<1>4. LeadInv' BY <1>2 DEF LeadInv, Leading
<1>5. FlightsAreLed' BY <1>2 DEF FlightsAreLed
<1>6. FlightInv' BY <1>2 DEF FlightInv
<1>7. QED BY <1>2, <1>3, <1>4, <1>5, <1>6

\* The next question follows a good response.
LEMMA NextQuestionKeeps ==
  ASSUME IInv, NEW t \in Thread, NextQuestion(t)
  PROVE  IInv'
<1> USE DEF IInv, TypeInv, TypeOK, NextQuestion, Goto, shared
<1>1. asked[t] + 1 \in Turn BY DEF Turn
<1>2. TypeInv' BY <1>1
<1>3. LeadInv' BY DEF LeadInv, Leading
<1>4. FlightsAreLed' BY DEF FlightsAreLed
<1>5. FlightInv' BY DEF FlightInv
<1>6. ThreadInv(t)'
  <2>1. pc[t] = "handed" /\ pc'[t] = "ask" /\ UNCHANGED <<frames, suspects, handed>> OBVIOUS
  <2>2. FrameOf(t)' BY <2>1, FrameKeeps DEF ThreadInv, Attempting, Seeking
  <2>3. HandedOf(t)'
    <3>1. handed[t] \in Seq(Result) /\ Len(handed[t]) \in Nat OBVIOUS
    <3>2. GoodUpTo(t, Len(handed[t]))
      BY <3>1 DEF ThreadInv, HandedOf, GoodUpTo, LastFrame
    <3>3. QED BY <3>2 DEF HandedOf, GoodUpTo, Seeking, Leading
  <2>4. VerdictOf(t)' BY DEF ThreadInv, VerdictOf
  <2>5. QED BY <2>2, <2>3, <2>4 DEF ThreadInv
<1>7. \A u \in Thread \ {t} : ThreadInv(u)' BY OthersKeep
<1>8. QED BY <1>2, <1>3, <1>4, <1>5, <1>6, <1>7

\* The end of an attempt: what the frame holds becomes the suspects, and the verdict decides.
LEMMA FinishAttemptKeeps ==
  ASSUME IInv, NEW t \in Thread, FinishAttempt(t)
  PROVE  IInv'
<1> USE DEF IInv, TypeInv, TypeOK
<1>1. PICK verdict, peers :
        /\ verdict = Verdict(LastFrame(t)) /\ peers = frames[t][Len(frames[t])]
        /\ failed' = [failed EXCEPT ![t] = @ \/ verdict = "DnssecFailed"]
        /\ attempt[t] = 0 => FirstAttemptEnds(t, verdict, peers)
        /\ attempt[t] # 0 => RetryEnds(t, verdict, peers)
  BY DEF FinishAttempt
<1>2. /\ pc[t] = "handed" /\ frames' = [frames EXCEPT ![t] = SubSeq(frames[t], 1, Len(frames[t]) - 1)]
      /\ UNCHANGED <<client, lock, live, flights, connected, struck, broken, attempt, asked, joined,
                     handed>>
  BY DEF FinishAttempt, shared
<1>3. /\ frames[t] \in Seq(SUBSET Peer) /\ Len(frames[t]) = 1
      /\ peers \subseteq PeersHanded(t) /\ peers \subseteq Peer
  BY <1>1, <1>2 DEF ThreadInv, FrameOf, Attempting
<1>4. frames'[t] \in Seq(SUBSET Peer) /\ Len(frames'[t]) = 0
  BY <1>2, <1>3
<1>5. verdict \in {"answer", "DnsTransport", "InvalidDnsResponse", "DnssecFailed"}
      /\ (verdict = "answer" => LastFrame(t).ok /\ LastFrame(t).good)
  BY <1>1 DEF Verdict
<1>6. /\ pc' = [pc EXCEPT ![t] = pc'[t]] /\ pc'[t] \in {"report", "done"}
      /\ suspects' = [suspects EXCEPT ![t] = suspects'[t]] /\ suspects'[t] \in {peers, suspects[t]}
      /\ relayed' = [relayed EXCEPT ![t] = relayed'[t]]
      /\ relayed'[t] \in {relayed[t], verdict, "RelayDnssecFailed"}
  BY <1>1, <1>5 DEF FirstAttemptEnds, RetryEnds, Goto
<1>7. TypeInv'
  <2>1. frames' \in [Thread -> Seq(SUBSET Peer)] BY <1>2, <1>4
  <2>2. pc' \in [Thread -> {"new", "begin", "ask", "lead", "exchange", "remove", "wait", "handed",
                            "report", "done"}]
    BY <1>6
  <2>3. suspects' \in [Thread -> SUBSET Peer] BY <1>3, <1>6
  <2>4. failed' \in [Thread -> BOOLEAN] BY <1>1
  <2>5. relayed' \in [Thread -> {"none", "answer", "DnsTransport", "InvalidDnsResponse",
                                 "DnssecFailed", "RelayDnssecFailed"}]
    BY <1>5, <1>6
  <2>6. QED BY <1>2, <2>1, <2>2, <2>3, <2>4, <2>5
<1>8. LeadInv' BY <1>2, <1>6 DEF LeadInv, Leading
<1>9. FlightsAreLed'
  <2> SUFFICES ASSUME NEW q \in DOMAIN live
               PROVE  /\ joined[live[q][1]] = live[q] /\ asked[live[q][1]] = q
                      /\ pc'[live[q][1]] \in {"lead", "exchange", "remove"}
    BY <1>2 DEF FlightsAreLed
  <2>1. live[q][1] # t BY <1>2 DEF FlightsAreLed
  <2>2. live[q][1] \in Thread BY DEF Flight
  <2>3. QED BY <1>6, <2>1, <2>2 DEF FlightsAreLed
<1>10. FlightInv' BY <1>2, <1>6 DEF FlightInv
<1>11. ThreadInv(t)'
  <2>1. PeersHanded(t)' = PeersHanded(t) BY <1>2 DEF PeersHanded
  <2>2. FrameOf(t)' BY <1>2, <1>3, <1>4, <1>6, <2>1 DEF ThreadInv, FrameOf, Attempting, Seeking,
        Leading
  <2>3. HandedOf(t)' BY <1>6 DEF HandedOf, Seeking, Leading
  <2>4. verdict = "answer" => GoodUpTo(t, Len(handed[t]))
    BY <1>2, <1>5 DEF ThreadInv, HandedOf, GoodUpTo, LastFrame
  <2>5. GoodUpTo(t, Len(handed[t]))' <=> GoodUpTo(t, Len(handed[t])) BY <1>2 DEF GoodUpTo
  <2>6. VerdictOf(t)'
    <3>1. failed'[t] <=> failed[t] \/ verdict = "DnssecFailed" BY <1>1
    <3>2. CASE attempt[t] = 0
      <4>1. ~failed[t] BY <1>2, <3>2 DEF ThreadInv, VerdictOf
      <4>2. /\ verdict = "DnssecFailed" /\ pc'[t] = "done" => relayed'[t] = "RelayDnssecFailed"
            /\ attempt'[t] = 0
        BY <1>1, <1>2, <3>2 DEF FirstAttemptEnds, Goto
      <4>3. QED BY <1>6, <3>1, <4>1, <4>2 DEF VerdictOf
    <3>3. CASE attempt[t] = 1
      <4>1. /\ relayed'[t] # "RelayDnssecFailed" => relayed'[t] = "answer" /\ verdict = "answer"
            /\ verdict = "answer" => pc'[t] = "done"
            /\ attempt'[t] = 1
        BY <1>1, <1>2, <3>3 DEF RetryEnds, Goto
      <4>2. QED BY <1>6, <2>4, <2>5, <4>1 DEF VerdictOf
    <3>4. QED BY <3>2, <3>3
  <2>7. QED BY <2>2, <2>3, <2>6 DEF ThreadInv
<1>12. \A u \in Thread \ {t} : ThreadInv(u)' BY <1>1, <1>2, <1>6, OthersKeep
<1>13. QED BY <1>7, <1>8, <1>9, <1>10, <1>11, <1>12

\* The report, after which the thread retries or is done and suspects nobody.
LEMMA ReportDnssecFailureKeeps ==
  ASSUME IInv, NEW t \in Thread, ReportDnssecFailure(t)
  PROVE  IInv'
<1> USE DEF IInv, TypeInv, TypeOK, ReportDnssecFailure, Goto
<1>1. TypeInv' OBVIOUS
<1>2. LeadInv' BY DEF LeadInv, Leading
<1>3. FlightsAreLed' BY DEF FlightsAreLed
<1>4. FlightInv' BY DEF FlightInv
<1>5. ThreadInv(t)'
  <2>1. FrameOf(t)' BY DEF ThreadInv, FrameOf, Attempting, Seeking, Leading
  <2>2. HandedOf(t)' BY DEF HandedOf, Seeking, Leading
  <2>3. VerdictOf(t)' BY DEF ThreadInv, VerdictOf
  <2>4. QED BY <2>1, <2>2, <2>3 DEF ThreadInv
<1>6. \A u \in Thread \ {t} : ThreadInv(u)' BY OthersKeep
<1>7. QED BY <1>1, <1>2, <1>3, <1>4, <1>5, <1>6

\* Every step of every thread keeps the invariant.
LEMMA NextKeeps ==
  ASSUME IInv, [ExchangeNext]_exchangeVars
  PROVE  IInv'
<1>1. ASSUME NEW t \in Thread, Step(t) PROVE IInv'
  BY <1>1, NewTransportKeeps, BeginAttemptKeeps, JoinFlightKeeps, LockClientKeeps, ExchangeKeeps,
     RemoveFlightKeeps, WakeKeeps, NextQuestionKeeps, FinishAttemptKeeps, ReportDnssecFailureKeeps
  DEF Step
<1>2. CASE UNCHANGED exchangeVars
  <2> USE <1>2 DEF exchangeVars, IInv
  <2>1. TypeInv' BY DEF TypeInv, TypeOK
  <2>2. LeadInv' /\ FlightsAreLed' /\ FlightInv' BY DEF LeadInv, FlightsAreLed, FlightInv
  <2>3. \A t \in Thread : ThreadInv(t)' BY OthersKeep
  <2>4. QED BY <2>1, <2>2, <2>3
<1>3. QED BY <1>1, <1>2 DEF ExchangeNext

\* The invariant says what the shared relay owes its callers.
LEMMA InvIsSafe == IInv => ExchangeSafety
<1> SUFFICES ASSUME IInv PROVE ExchangeSafety OBVIOUS
<1>1. TypeOK /\ FlightsAreLed BY DEF IInv, TypeInv
<1>2. OwnAnswer /\ BlameScoped
  BY DEF IInv, ThreadInv, FrameOf, HandedOf, OwnAnswer, BlameScoped, PeersHanded
<1>3. RelayFailureFinal
  <2> SUFFICES ASSUME NEW t \in Thread, failed[t], pc[t] = "done", relayed[t] # "RelayDnssecFailed"
               PROVE  relayed[t] = "answer" /\ \A i \in DOMAIN handed[t] : handed[t][i].ok /\ handed[t][i].good
    BY DEF RelayFailureFinal
  <2>1. relayed[t] = "answer" /\ GoodUpTo(t, Len(handed[t])) BY DEF IInv, ThreadInv, VerdictOf
  <2>2. DOMAIN handed[t] = 1 .. Len(handed[t]) BY DEF IInv, TypeInv
  <2>3. QED BY <2>1, <2>2 DEF GoodUpTo
<1>4. QED BY <1>1, <1>2, <1>3 DEF ExchangeSafety

\* However many threads share the relay and however their flights, wake-ups, retries and reports
\* interleave: each caller is handed answers to its own question under its own id, every live
\* flight has its leader at work, a thread reports only peers whose responses it was handed in the
\* attempt that failed, and a failed validation is never turned into anything but a validated
\* answer or RelayDnssecFailed.
THEOREM ExchangeSafe ==
  ExchangeSpec => []ExchangeSafety
<1>1. ExchangeInit => IInv BY InitInv
<1>2. IInv /\ [ExchangeNext]_exchangeVars => IInv' BY NextKeeps
<1>3. QED BY <1>1, <1>2, InvIsSafe, PTL DEF ExchangeSpec

=============================================================================
