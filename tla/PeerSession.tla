----------------------------- MODULE PeerSession -----------------------------
(***************************************************************************)
(* One conversation with a Handshake peer: PeerConnection and              *)
(* HeaderSyncSession of crate hns-p2p, and the callers of crate hns-sync.  *)
(*                                                                         *)
(* A caller connects, shakes hands, makes its requests one after the other *)
(* and books the peer's conduct.  The peer sends what it likes when it     *)
(* likes, in pieces that need not end where a packet does; packets that    *)
(* arrive early wait in the connection until a request takes them.  A read *)
(* may time out, a write may fail, and so may the peer store.              *)
(***************************************************************************)
EXTENDS Naturals, Sequences, FiniteSets

CONSTANTS
  MaxPages,    \* max_header_batches_per_peer
  MaxPackets   \* bound: packets taken in a conversation

\* sync_peer takes the larger of the configured value and one.
ASSUME PagesAssumption == MaxPages \in Nat \ {0}

VARIABLES
  caller,      \* what the conversation is for
  ahead,       \* whether the peer's height is above the local best header
  request,     \* the request under way or next, or "end"
  waiting,     \* whether it was sent and has not returned
  pagesLeft,   \* pages the caller may still ask for
  answers,     \* what each request returned, in order
  booked,      \* what the peer was charged or credited with, in order
  aborted,     \* whether the peer store failed
  outstanding, \* ProofSyncCoordinator::pending holds the request
  state,       \* HeaderSyncState
  ack,         \* ack_received
  remote,      \* whether remote_version is set
  buffer,      \* pieces of an incomplete frame in the decoder, two make a frame
  garbled,     \* whether the decoder holds a frame it cannot read
  pending,     \* packets decoded and not yet taken
  taken        \* packets taken so far

session == <<state, ack, remote>>
wire == <<buffer, garbled, pending>>
conduct == <<caller, ahead, request, waiting, pagesLeft, answers, booked, aborted, outstanding>>
sessionVars == <<conduct, session, wire, taken>>

\* sync_peer without and with discovery, discover_more_peers, probe_tcp_header_peer,
\* request_tcp_header_batch and request_hash_and_store_with_height.
Callers == {"sync", "sync_discover", "discover", "probe", "race", "proof"}

\* The callers that keep the peer store up to date as they go, and the ones
\* that leave the booking to the code that called them.
Persisting == {"sync", "sync_discover", "discover"}
Leaving == {"race", "proof"}

\* The answer each request is after.
Returned == [handshake |-> "ready", headers |-> "headers", proof |-> "proof", addresses |-> "addr"]

\* Kinds of packets: "weak" is a version without the network service, "other" a
\* proof nobody asked for, "foreign" one no client is sent, "ignored" one that
\* asks for nothing.
Kinds == {"version", "weak", "verack", "headers", "proof", "other", "addr", "ping", "ignored", "foreign"}

\* What ingest_headers makes of a page.
Pages == {"empty", "full", "short", "known", "orphan", "malformed", "unstored"}

States == {"AwaitingVersion", "AwaitingVerack", "Ready", "HeadersRequested", "ProofRequested", "Closed"}

SessionTypes ==
  /\ caller \in Callers /\ ahead \in BOOLEAN /\ waiting \in BOOLEAN /\ pagesLeft \in 0..MaxPages
  /\ request \in {"handshake", "headers", "proof", "addresses", "end"}
  /\ answers \in Seq([request : {"handshake", "headers", "proof", "addresses"},
                       answer : {"error", "ready", "headers", "proof", "addr"}])
  /\ booked \in Seq({"success", "transient", "stale", "malformed"})
  /\ aborted \in BOOLEAN /\ outstanding \in BOOLEAN
  /\ state \in States /\ ack \in BOOLEAN /\ remote \in BOOLEAN
  /\ buffer \in 0..1 /\ garbled \in BOOLEAN /\ pending \in Seq(Kinds) /\ taken \in Seq(Kinds)

\* PeerConnection::new and HeaderSyncSession::new, for a caller.
SessionInit ==
  /\ caller \in Callers /\ ahead \in BOOLEAN /\ request = "handshake" /\ waiting = FALSE
  /\ pagesLeft = MaxPages /\ answers = <<>> /\ booked = <<>> /\ aborted = FALSE /\ outstanding = FALSE
  /\ state = "AwaitingVersion" /\ ack = FALSE /\ remote = FALSE
  /\ buffer = 0 /\ garbled = FALSE /\ pending = <<>> /\ taken = <<>>

----------------------------------------------------------------------------
(* The session *)

Result(next, a, r, actions) == [state |-> next, ack |-> a, remote |-> r, actions |-> actions]
Same(actions) == Result(state, ack, remote, actions)

\* Mutant: the services of the peer are not looked at.
MutantOnVersion(kind) ==
  IF ack THEN Result("Ready", ack, TRUE, <<"send", "ready">>)
         ELSE Result("AwaitingVerack", ack, TRUE, <<"send">>)

\* A version while one is awaited; its verack may have come before it.
OnVersion(kind) ==
  CASE kind = "weak" -> Result("Closed", ack, remote, <<"disconnect">>)
    [] kind # "weak" /\ ack -> Result("Ready", ack, TRUE, <<"send", "ready">>)
    [] OTHER -> Result("AwaitingVerack", ack, TRUE, <<"send">>)

\* HeaderSyncSession::on_packet.
OnPacket(kind) ==
  CASE state = "AwaitingVersion" /\ kind \in {"version", "weak"} -> OnVersion(kind)
    [] state = "AwaitingVersion" /\ kind = "verack" -> Result(state, TRUE, remote, <<>>)
    [] state = "AwaitingVerack" /\ kind = "verack" -> Result("Ready", TRUE, remote, <<"ready">>)
    [] state = "HeadersRequested" /\ kind = "headers" -> Result("Ready", ack, remote, <<"headers">>)
    [] state = "ProofRequested" /\ kind \in {"proof", "other"} -> Result("Ready", ack, remote, <<kind>>)
    [] state = "Closed" -> Same(<<"disconnect">>)
    [] state # "Closed" /\ kind \in {"addr", "ignored"} -> Same(<<>>)
    [] state # "Closed" /\ kind = "ping" -> Same(<<"send">>)
    [] OTHER -> Same(<<"disconnect">>)

\* request_addresses looks at packets itself and leaves the session alone.
OnAddressPacket(kind) ==
  CASE kind = "addr" -> Same(<<"addr">>)
    [] kind = "ping" -> Same(<<"send">>)
    [] kind \in {"ignored", "verack"} -> Same(<<>>)
    [] OTHER -> Same(<<"unexpected">>)

----------------------------------------------------------------------------
(* The caller *)

\* What a caller does next: another request, or the end with the peer charged.
Go(next) == [request |-> next, charge |-> <<>>, aborted |-> FALSE]
End(charge) == [request |-> "end", charge |-> IF caller \in Leaving THEN <<>> ELSE <<charge>>, aborted |-> FALSE]

\* persist_peer_manager may fail and take the caller with it.
Saved(outcome) ==
  {outcome} \cup {[request |-> "end", charge |-> outcome.charge, aborted |-> TRUE]
                : c \in {caller} \cap Persisting}

\* sync_peer asks a peer for headers only when it is ahead.
HeadersIfAhead == IF ahead THEN Go("headers") ELSE End("success")

AfterHandshake ==
  CASE caller = "race" -> {Go("headers")}
    [] caller = "proof" -> {Go("proof")}
    [] caller = "sync" -> Saved(HeadersIfAhead)
    [] OTHER -> Saved(Go("addresses"))

\* The addresses, or none: a peer owes nobody an answer here.
AfterAddresses == Saved(IF caller = "sync_discover" THEN HeadersIfAhead ELSE End("success"))

\* The loop of sync_peer over pages, with record_chain_failure.
AfterPage(page) ==
  IF caller = "race" THEN {End("success")} ELSE
  CASE page = "orphan" -> {End("stale")}
    [] page = "malformed" -> {End("malformed")}
    [] page = "unstored" -> {End("transient")}
    [] page = "full" /\ pagesLeft > 1 -> {Go("headers")}
    [] OTHER -> Saved(End("success"))

After(answer) ==
  IF answer = "error" /\ request # "addresses" THEN {End("transient")} ELSE
  CASE request = "addresses" -> AfterAddresses
    [] request = "handshake" -> AfterHandshake
    [] request = "headers" -> UNION {AfterPage(page) : page \in Pages}
    [] OTHER -> {End("success")}

\* A request returns.
Returns(answer) ==
  /\ \E outcome \in After(answer) :
       /\ request' = outcome.request /\ booked' = booked \o outcome.charge /\ aborted' = outcome.aborted
  /\ answers' = Append(answers, [request |-> request, answer |-> answer])
  /\ pagesLeft' = IF answer = "headers" THEN pagesLeft - 1 ELSE pagesLeft
  /\ waiting' = FALSE /\ UNCHANGED <<caller, ahead>>

\* PeerConnection::connect fails: the caller gives up.
ConnectFails ==
  /\ request = "handshake" /\ ~waiting /\ Returns("error") /\ UNCHANGED <<outstanding, session, wire, taken>>

\* A request is sent and the caller waits, or the write fails.
SendRequest ==
  \/ waiting' = TRUE /\ UNCHANGED <<caller, ahead, request, pagesLeft, answers, booked, aborted>>
  \/ Returns("error")

\* request_headers and request_proof: the session refuses before it is ready, and
\* has changed when the write fails.  A proof asked for is tracked until then.
RequestOfSession ==
  /\ ~waiting /\ request \in {"headers", "proof"}
  /\ \/ /\ state # "Ready" /\ Returns("error") /\ UNCHANGED <<state, outstanding>>
     \/ /\ state = "Ready" /\ SendRequest
        /\ state' = IF request = "headers" THEN "HeadersRequested" ELSE "ProofRequested"
        /\ outstanding' = (request = "proof" /\ waiting')
  /\ UNCHANGED <<ack, remote, wire, taken>>

\* start and request_addresses do not ask the session.
RequestOfPeer ==
  /\ ~waiting /\ request \in {"handshake", "addresses"}
  /\ SendRequest /\ UNCHANGED <<outstanding, session, wire, taken>>

\* A read and FrameDecoder::feed: the packets its pieces complete wait, the rest
\* stays in the decoder.
Feed ==
  /\ waiting /\ pending = <<>> /\ ~garbled
  /\ \E pieces \in 1..3 :
       LET whole == (buffer + pieces) \div 2
       IN /\ Len(taken) + whole <= MaxPackets
          /\ pending' \in [1..whole -> Kinds]
          /\ buffer' = (buffer + pieces) % 2
  /\ UNCHANGED <<conduct, session, garbled, taken>>

\* A read times out or finds the connection closed, or the decoder fails on bad
\* magic, a length beyond its limit or a payload that does not parse.  Such a
\* frame is not drained and fails every later read.
ReceiveFails ==
  /\ waiting /\ pending = <<>> /\ Returns("error") /\ outstanding' = FALSE
  /\ garbled' \in {garbled, TRUE}
  /\ UNCHANGED <<session, buffer, pending, taken>>

\* The packet at the head is taken and the actions it calls for are carried out
\* in order: a write that fails or a disconnect ends the request, an answer
\* returns it, and otherwise it waits on.  A proof that was not asked for ends it
\* too, and leaves the one that was in the coordinator.
Receive ==
  /\ waiting /\ pending # <<>>
  /\ LET kind == Head(pending)
         result == IF request = "addresses" THEN OnAddressPacket(kind) ELSE OnPacket(kind)
         last == IF result.actions = <<>> THEN "send" ELSE result.actions[Len(result.actions)]
         sends == result.actions # <<>> /\ result.actions[1] = "send"
     IN /\ state' = result.state /\ ack' = result.ack /\ remote' = result.remote
        /\ \/ sends /\ Returns("error") /\ outstanding' = FALSE
           \/ last = "send" /\ UNCHANGED conduct
           \/ /\ last = Returned[request] /\ outstanding' = FALSE
              /\ Returns(IF last # "ready" \/ result.remote THEN last ELSE "error")
           \/ /\ last \notin {"send", Returned[request]} /\ Returns("error")
              /\ outstanding' = (outstanding /\ last = "other")
        /\ pending' = Tail(pending) /\ taken' = Append(taken, kind)
  /\ UNCHANGED <<buffer, garbled>>

SessionNext == ConnectFails \/ RequestOfSession \/ RequestOfPeer \/ Feed \/ ReceiveFails \/ Receive
SessionSpec == SessionInit /\ [][SessionNext]_sessionVars

----------------------------------------------------------------------------
(* What a conversation promises *)

TakenKind(kind) == \E i \in DOMAIN taken : taken[i] = kind
Answered(kind) == \E i \in DOMAIN answers : answers[i].answer = kind

\* A handshake succeeds only with a peer whose first version offers the network
\* service and whose verack was taken, whichever came first.
ReadyIsHandshaken ==
  Answered("ready") =>
    /\ TakenKind("verack")
    /\ \E i \in DOMAIN taken :
         taken[i] = "version" /\ \A j \in 1..(i - 1) : taken[j] \notin {"version", "weak"}

\* Each request returns what it asked for or an error, and each answer is a
\* packet of its own: early, late and unasked packets do not shift the answers.
AnswersMatch ==
  /\ \A i \in DOMAIN answers : answers[i].answer \in {"error", Returned[answers[i].request]}
  /\ \A kind \in {"headers", "proof", "addr"} :
       Cardinality({i \in DOMAIN answers : answers[i].answer = kind})
         <= Cardinality({i \in DOMAIN taken : taken[i] = kind})

\* Whatever a peer sends while it is asked for addresses, answered or not, the
\* session is ready for the next request.
ReadyBetweenRequests == (answers # <<>> /\ request # "end" /\ ~waiting) => state = "Ready"

\* At the end of a conversation the peer was booked once, unless the peer store
\* failed: with a failure if a request other than for addresses failed, and
\* otherwise with success or for the page it sent.
BookedOnce ==
  (request = "end" /\ caller \notin Leaving /\ ~aborted) =>
    LET failed == \E i \in DOMAIN answers : answers[i].answer = "error" /\ answers[i].request # "addresses"
    IN /\ Len(booked) = 1
       /\ failed => booked[1] = "transient"
       /\ booked[1] \in {"stale", "malformed"} => Answered("headers")
       /\ (~failed /\ ~Answered("headers")) => booked[1] = "success"

\* A proof asked for is not tracked beyond the conversation, unless the peer sent
\* another one.
NotTrackedAfterwards == outstanding => (waiting \/ TakenKind("other"))

\* The conversation with a peer that may send anything, in any pieces.
SessionSafety ==
  /\ SessionTypes
  /\ ReadyIsHandshaken /\ AnswersMatch /\ ReadyBetweenRequests /\ BookedOnce /\ NotTrackedAfterwards
=============================================================================
