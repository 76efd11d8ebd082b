--------------------------- MODULE RelayExchange ---------------------------
(***************************************************************************)
(* Gateway threads that resolve delegated names through the peer relay     *)
(* (HnsP2pDnsTransport and RelayDnssecRetryDelegatedResolver of crate      *)
(* hns-browser-runtime).                                                   *)
(*                                                                         *)
(* Threads whose queries differ only in the DNS transaction id share one   *)
(* flight: the first one leads, exchanges the query under the lock of the  *)
(* relay client, publishes the result and only then forgets the flight.    *)
(* Every thread notes the peers whose responses it was handed, and reports *)
(* them when what they sent fails local DNSSEC validation.                 *)
(*                                                                         *)
(* A resolution asks a fixed list of questions; the validator (module      *)
(* Dnssec) is the choice whether a response is good.  Peer selection is    *)
(* module RelayPeers: here any peer that is not banned may be asked.       *)
(***************************************************************************)
EXTENDS Naturals, Sequences, FiniteSets

CONSTANTS
  Thread,    \* gateway requests; each has its own DNS transaction id
  Questions, \* the questions a resolution asks, in order
  Peer,
  Nobody     \* no thread

\* A resolution asks something.
ASSUME QuestionsAssumption == Len(Questions) \in Nat \ {0}

VARIABLES
  client,    \* the shared relay client has been initialised
  lock,      \* who holds the mutex of the client
  live,      \* live_queries: the flight of every question under way
  flights,   \* results of the flights, by flight
  connected, \* peers the client has a connection to
  struck,    \* peers reported for a DNSSEC failure, and banned
  pc,        \* where a thread stands
  broken,    \* initialization_error of the thread's transport
  attempt,   \* retry_offset of the attempt under way
  asked,     \* the question it has come to
  joined,    \* the flight it leads or waits for
  frames,    \* DnsRelayAttemptTracker: peers observed, a frame per attempt
  handed,    \* history: responses handed to the thread in this attempt
  suspects,  \* peers to report
  failed,    \* relayed DNS has failed validation in this resolution
  relayed    \* what the resolution returned

shared == <<client, lock, live, flights, connected, struck>>
exchangeVars == <<client, lock, live, flights, connected, struck, pc, broken, attempt, asked,
          joined, frames, handed, suspects, failed, relayed>>

Turn == 1..Len(Questions)
Pending == [ok |-> FALSE, error |-> "pending", id |-> Nobody, question |-> 0, peer |-> {}, good |-> FALSE]
ExchangeFailure(error) == [Pending EXCEPT !.error = error]
Response(id, q, p, good) ==
  [ok |-> TRUE, error |-> "none", id |-> id, question |-> q, peer |-> {p}, good |-> good]

\* Flights are told apart by who leads them and for which question of which attempt.
Flight == Thread \X {0, 1} \X Turn
ExchangeError == {"transport", "invalid"}
Result == {ExchangeFailure(e) : e \in ExchangeError \cup {"pending", "none"}}
            \cup {Response(t, q, p, g) : t \in Thread, q \in Turn, p \in Peer, g \in BOOLEAN}

TypeOK ==
  /\ client \in BOOLEAN /\ lock \in Thread \cup {Nobody}
  /\ DOMAIN live \subseteq Turn /\ \A q \in DOMAIN live : live[q] \in Flight
  /\ DOMAIN flights \subseteq Flight /\ \A f \in DOMAIN flights : flights[f] \in Result
  /\ connected \subseteq Peer /\ struck \subseteq Peer
  /\ pc \in [Thread -> {"new", "begin", "ask", "lead", "exchange", "remove", "wait",
                        "handed", "report", "done"}]
  /\ broken \in [Thread -> BOOLEAN] /\ attempt \in [Thread -> {0, 1}]
  /\ asked \in [Thread -> Turn] /\ joined \in [Thread -> Flight]
  /\ frames \in [Thread -> Seq(SUBSET Peer)]
  /\ \A t \in Thread : handed[t] \in Seq(Result)
  /\ suspects \in [Thread -> SUBSET Peer] /\ failed \in [Thread -> BOOLEAN]
  /\ relayed \in [Thread -> {"none", "answer", "DnsTransport", "InvalidDnsResponse",
                             "DnssecFailed", "RelayDnssecFailed"}]

ExchangeInit ==
  /\ client = FALSE /\ lock = Nobody
  /\ live = <<>> /\ flights = <<>> /\ connected = {} /\ struck = {}
  /\ pc = [t \in Thread |-> "new"] /\ broken = [t \in Thread |-> FALSE]
  /\ attempt = [t \in Thread |-> 0] /\ asked = [t \in Thread |-> 1]
  /\ joined = [t \in Thread |-> <<t, 0, 1>>]
  /\ frames = [t \in Thread |-> <<>>] /\ handed = [t \in Thread |-> <<>>]
  /\ suspects = [t \in Thread |-> {}] /\ failed = [t \in Thread |-> FALSE]
  /\ relayed = [t \in Thread |-> "none"]

Goto(t, label) == pc' = [pc EXCEPT ![t] = label]

\* HnsP2pDnsTransport::new: whoever finds no client opens the peer store for
\* one, which may fail; the failure stays with this transport.
NewTransport(t) ==
  /\ pc[t] = "new" /\ lock = Nobody
  /\ \E fails \in IF client THEN {FALSE} ELSE BOOLEAN :
       /\ client' = (client \/ ~fails)
       /\ broken' = [broken EXCEPT ![t] = fails]
  /\ Goto(t, "begin")
  /\ UNCHANGED <<lock, live, flights, connected, struck, attempt, asked, joined, frames, handed,
                 suspects, failed, relayed>>

\* resolve_attempt, up to the first question of the delegated resolver.
BeginAttempt(t) ==
  /\ pc[t] = "begin"
  /\ frames' = [frames EXCEPT ![t] = Append(@, {})]
  /\ asked' = [asked EXCEPT ![t] = 1]
  /\ handed' = [handed EXCEPT ![t] = <<>>]
  /\ Goto(t, "ask")
  /\ UNCHANGED <<shared, broken, attempt, joined, suspects, failed, relayed>>

\* dns_relay_coalescing_key: the wire query with its transaction id zeroed.
CoalescingKey(t) == asked[t]

\* coalesced_exchange under the lock of live_queries: join the flight, or open one.
JoinFlight(t) ==
  /\ pc[t] = "ask"
  /\ LET key == CoalescingKey(t)
         flight == <<t, attempt[t], asked[t]>>
     IN IF key \in DOMAIN live
        THEN /\ joined' = [joined EXCEPT ![t] = live[key]]
             /\ Goto(t, "wait")
             /\ UNCHANGED <<live, flights>>
        ELSE /\ joined' = [joined EXCEPT ![t] = flight]
             /\ live' = [q \in DOMAIN live \cup {key} |-> IF q = key THEN flight ELSE live[q]]
             /\ flights' = [f \in DOMAIN flights \cup {flight} |->
                              IF f = flight THEN Pending ELSE flights[f]]
             /\ Goto(t, "lead")
  /\ UNCHANGED <<client, lock, connected, struck, broken, attempt, asked, frames, handed,
                 suspects, failed, relayed>>

\* The leader's result on its way to the flight.
Lands(t, result) ==
  /\ flights' = [flights EXCEPT ![joined[t]] = result]
  /\ Goto(t, "remove")

\* exchange: an initialisation error comes before the lock of the client.
LockClient(t) ==
  /\ pc[t] = "lead"
  /\ IF broken[t] THEN Lands(t, ExchangeFailure("transport")) /\ UNCHANGED lock
     ELSE lock = Nobody /\ lock' = t /\ Goto(t, "exchange") /\ UNCHANGED flights
  /\ UNCHANGED <<client, live, connected, struck, broken, attempt, asked, joined, frames, handed,
                 suspects, failed, relayed>>

\* map_dns_relay_client_error, by its two outcomes.
MapRelayError == ExchangeError

\* exchange with the client locked: the book is refreshed, the query resolved
\* and the book saved (a failed save is ignored).  Publishing the result in
\* the flight follows without another lock in between.
Exchange(t) ==
  /\ pc[t] = "exchange"
  /\ \/ \E p \in Peer \ struck, good \in BOOLEAN :
          /\ connected' = connected \cup {p}
          /\ Lands(t, Response(t, asked[t], p, good))
     \/ \E e \in MapRelayError : Lands(t, ExchangeFailure(e)) /\ UNCHANGED connected
  /\ lock' = Nobody
  /\ UNCHANGED <<client, live, struck, broken, attempt, asked, joined, frames, handed, suspects,
                 failed, relayed>>

\* restore_dns_relay_response_id: a shared response gets the caller's own id.
RestoreResponseId(result, t) == IF result.ok THEN [result EXCEPT !.id = t] ELSE result

MutantObserve(t, result) ==
  frames' = [u \in Thread |->
               IF frames[u] = <<>> THEN <<>>
               ELSE [frames[u] EXCEPT ![Len(frames[u])] = @ \cup result.peer]]

\* DnsRelayAttemptTracker::observe: the peer goes to the top frame of this thread.
Observe(t, result) ==
  frames' = [frames EXCEPT ![t][Len(frames[t])] = @ \cup result.peer]

\* traced_exchange: what the caller is handed, and the peer it notes.
Deliver(t, result) ==
  /\ handed' = [handed EXCEPT ![t] = Append(@, RestoreResponseId(result, t))]
  /\ Observe(t, result)
  /\ Goto(t, "handed")

\* The leader forgets the flight and takes the result itself.
RemoveFlight(t) ==
  /\ pc[t] = "remove"
  /\ live' = [q \in DOMAIN live \ {asked[t]} |-> live[q]]
  /\ Deliver(t, flights[joined[t]])
  /\ UNCHANGED <<client, lock, flights, connected, struck, broken, attempt, asked, joined,
                 suspects, failed, relayed>>

MutantWake(t) ==
  /\ pc[t] = "wait"
  /\ joined[t] \in {live[q] : q \in DOMAIN live}
  /\ flights[joined[t]] # Pending
  /\ Deliver(t, flights[joined[t]])
  /\ UNCHANGED <<shared, broken, attempt, asked, joined, suspects, failed, relayed>>

\* A follower waits on the condition variable while the result is pending.
Wake(t) ==
  /\ pc[t] = "wait"
  /\ flights[joined[t]] # Pending
  /\ Deliver(t, flights[joined[t]])
  /\ UNCHANGED <<shared, broken, attempt, asked, joined, suspects, failed, relayed>>

LastFrame(t) == handed[t][Len(handed[t])]

\* The delegated resolver goes on to its next question after a good response.
NextQuestion(t) ==
  /\ pc[t] = "handed" /\ LastFrame(t).ok /\ LastFrame(t).good /\ asked[t] < Len(Questions)
  /\ asked' = [asked EXCEPT ![t] = @ + 1]
  /\ Goto(t, "ask")
  /\ UNCHANGED <<shared, broken, attempt, joined, frames, handed, suspects, failed, relayed>>

\* What the delegated resolver returns when it stops.
Verdict(result) ==
  IF ~result.ok THEN IF result.error = "transport" THEN "DnsTransport" ELSE "InvalidDnsResponse"
  ELSE IF result.good THEN "answer" ELSE "DnssecFailed"

\* RelayDnssecRetryDelegatedResolver::resolve_delegated after the first
\* attempt: only a DNSSEC failure of a relayed answer is reported and retried.
FirstAttemptEnds(t, verdict, peers) ==
  IF verdict = "DnssecFailed" /\ peers # {}
  THEN /\ suspects' = [suspects EXCEPT ![t] = peers]
       /\ Goto(t, "report") /\ UNCHANGED relayed
  ELSE /\ relayed' = [relayed EXCEPT ![t] =
                        IF verdict = "DnssecFailed" THEN "RelayDnssecFailed" ELSE verdict]
       /\ Goto(t, "done") /\ UNCHANGED suspects

\* ... and after the retry, every failure of which is final.
RetryEnds(t, verdict, peers) ==
  /\ relayed' = [relayed EXCEPT ![t] = IF verdict = "answer" THEN "answer" ELSE "RelayDnssecFailed"]
  /\ suspects' = [suspects EXCEPT ![t] = peers]
  /\ Goto(t, IF verdict = "answer" \/ peers = {} THEN "done" ELSE "report")

\* resolve_attempt after the resolver: DnsRelayAttemptTracker::finish pops the frame.
FinishAttempt(t) ==
  /\ pc[t] = "handed" /\ ~(LastFrame(t).ok /\ LastFrame(t).good /\ asked[t] < Len(Questions))
  /\ LET verdict == Verdict(LastFrame(t))
         peers == frames[t][Len(frames[t])]
     IN /\ failed' = [failed EXCEPT ![t] = @ \/ verdict = "DnssecFailed"]
        /\ IF attempt[t] = 0 THEN FirstAttemptEnds(t, verdict, peers)
           ELSE RetryEnds(t, verdict, peers)
  /\ frames' = [frames EXCEPT ![t] = SubSeq(@, 1, Len(@) - 1)]
  /\ UNCHANGED <<shared, broken, attempt, asked, joined, handed>>

\* report_dnssec_failure, under the lock of the client: a peer that is still
\* connected is banned and its connection dropped.
ReportDnssecFailure(t) ==
  /\ pc[t] = "report" /\ lock = Nobody
  /\ struck' = struck \cup (suspects[t] \cap connected)
  /\ connected' = connected \ suspects[t]
  /\ attempt' = [attempt EXCEPT ![t] = 1]
  /\ suspects' = [suspects EXCEPT ![t] = {}]
  /\ Goto(t, IF attempt[t] = 0 THEN "begin" ELSE "done")
  /\ UNCHANGED <<client, lock, live, flights, broken, asked, joined, frames, handed, failed,
                 relayed>>

Step(t) ==
  \/ NewTransport(t)
  \/ BeginAttempt(t)
  \/ JoinFlight(t)
  \/ LockClient(t)
  \/ Exchange(t)
  \/ RemoveFlight(t)
  \/ Wake(t)
  \/ NextQuestion(t)
  \/ FinishAttempt(t)
  \/ ReportDnssecFailure(t)

ExchangeNext == \E t \in Thread : Step(t)

\* Threads run.  The mutex of the client need not be fair: each thread takes
\* it a bounded number of times.
Fairness == \A t \in Thread : WF_exchangeVars(Step(t))

ExchangeSpec == ExchangeInit /\ [][ExchangeNext]_exchangeVars /\ Fairness

----------------------------------------------------------------------------
(* Properties *)

\* coalesced_exchange hands every caller a response to the question it asked,
\* under the transaction id it used, although another thread's query went out.
OwnAnswer ==
  \A t \in Thread : pc[t] = "handed" /\ LastFrame(t).ok =>
    LastFrame(t).id = t /\ LastFrame(t).question = asked[t]

\* A flight in live_queries has its leader still at work on it: no caller can
\* join a flight that nobody will complete.
FlightsAreLed ==
  \A q \in DOMAIN live : LET leader == live[q][1] IN
    /\ joined[leader] = live[q] /\ asked[leader] = q
    /\ pc[leader] \in {"lead", "exchange", "remove"}

\* The peers a thread reports supplied responses handed to that thread in the
\* attempt that failed, shared flights included, and no others.
BlameScoped ==
  \A t \in Thread : suspects[t] \subseteq UNION {handed[t][i].peer : i \in DOMAIN handed[t]}

\* Once relayed DNS has failed local validation, the resolution ends with a
\* fully validated answer or with RelayDnssecFailed, which no fallback accepts.
RelayFailureFinal ==
  \A t \in Thread : failed[t] /\ pc[t] = "done" =>
    \/ relayed[t] = "RelayDnssecFailed"
    \/ relayed[t] = "answer" /\ \A i \in DOMAIN handed[t] : handed[t][i].ok /\ handed[t][i].good

\* What the coalesced relay owes each of the threads that share it.
ExchangeSafety == TypeOK /\ OwnAnswer /\ FlightsAreLed /\ BlameScoped /\ RelayFailureFinal

\* Every resolution through the relay ends: no leader, follower or reporter
\* waits for ever for a flight or for the client's mutex.
EveryCallerEnds == \A t \in Thread : <>(pc[t] = "done")
=============================================================================
