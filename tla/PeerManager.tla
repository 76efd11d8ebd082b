---------------------------- MODULE PeerManager ----------------------------
(***************************************************************************)
(* The peer book of crate hns-p2p: what PeerManager keeps of every peer,   *)
(* the records of good and bad behaviour, and the choice of outbound       *)
(* peers.  A book maps the known addresses to their states.                *)
(*                                                                         *)
(* Of PeerState, last_connected_at, successes and failures are left out:   *)
(* they only order select_discovery_outbound.  banned_until is kept as the *)
(* time left, 0 when there is no ban or it is over.                        *)
(***************************************************************************)
EXTENDS Integers, FiniteSets

CONSTANTS
  Address,         \* socket addresses of allowed endpoints
  Rank,            \* the order of the addresses
  Group,           \* PeerAddressGroup of an address
  SuccessReward,   \* SUCCESS_REWARD
  TransientScore,  \* TRANSIENT_FAILURE_SCORE
  StaleTipScore,   \* STALE_TIP_SCORE
  MalformedScore,  \* MALFORMED_SCORE
  BanScore,        \* BAN_SCORE
  MaxScore         \* i32::MAX, at which saturating_add stops

ASSUME ScoreAssumption ==
  /\ SuccessReward \in Nat /\ TransientScore \in Nat /\ StaleTipScore \in Nat
  /\ MalformedScore \in Nat /\ BanScore \in Nat /\ MaxScore \in Nat
  /\ BanScore <= MalformedScore /\ MalformedScore <= MaxScore

ASSUME RankAssumption ==
  /\ Rank \in [Address -> Nat]
  /\ \A a, b \in Address : Rank[a] = Rank[b] => a = b

PeerState == [score : 0..MaxScore, height : Nat, ban : Nat]
IsBook(book) == DOMAIN book \subseteq Address /\ book \in [DOMAIN book -> PeerState]

NewPeer == [score |-> 0, height |-> 0, ban |-> 0]

IsBanned(peer) == peer.ban > 0

(***************************************************************************)
(* Records.  Each one enters an unknown peer into the book first (upsert). *)
(***************************************************************************)

Get(book, a) == IF a \in DOMAIN book THEN book[a] ELSE NewPeer
Put(book, a, peer) == [b \in DOMAIN book \cup {a} |-> IF b = a THEN peer ELSE book[b]]

Upsert(book, a) == Put(book, a, Get(book, a))

Reward(score) == IF score > SuccessReward THEN score - SuccessReward ELSE 0

\* Mutant: the addition is not saturating.
MutantUnsaturated(score, penalty) == score + penalty

Charge(score, penalty) == IF score + penalty > MaxScore THEN MaxScore ELSE score + penalty

RecordSuccess(book, a, height) ==
  Put(book, a, [Get(book, a) EXCEPT !.score = Reward(@), !.height = height])

RecordObservedHeight(book, a, height) == Put(book, a, [Get(book, a) EXCEPT !.height = height])

RecordTransportSuccess(book, a) == Put(book, a, [Get(book, a) EXCEPT !.score = Reward(@)])

RecordTransientFailure(book, a) ==
  Put(book, a, [Get(book, a) EXCEPT !.score = Charge(@, TransientScore)])

RecordStaleTip(book, a) ==
  Put(book, a, [Get(book, a) EXCEPT !.score = Charge(@, StaleTipScore)])

\* A ban replaces the one before it, whichever ends later.
RecordMalformed(book, a, banTime) ==
  LET charged == Charge(Get(book, a).score, MalformedScore)
  IN  Put(book, a, [Get(book, a) EXCEPT !.score = charged,
                                        !.ban = IF charged >= BanScore THEN banTime ELSE @])

(***************************************************************************)
(* Selection                                                               *)
(***************************************************************************)

Usable(book) == {a \in DOMAIN book : ~IsBanned(book[a])}

\* The order of select_outbound: low score, then great height, then address.
OutboundOrder(book) ==
  {p \in Usable(book) \X Usable(book) :
     LET a == p[1]  b == p[2] IN
     \/ book[a].score < book[b].score
     \/ book[a].score = book[b].score /\ book[a].height > book[b].height
     \/ book[a].score = book[b].score /\ book[a].height = book[b].height /\ Rank[a] < Rank[b]}

\* The first of every address group of S goes before all the others.
Leaders(S, order) == {a \in S : \A b \in S \ {a} : Group[b] = Group[a] => <<a, b>> \in order}

Precedes(a, b, first, order) ==
  IF (a \in first) = (b \in first) THEN <<a, b>> \in order ELSE a \in first
============================================================================
