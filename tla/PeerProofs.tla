---------------------------- MODULE PeerProofs -----------------------------
(***************************************************************************)
(* Proofs about the peers of hns-p2p and the sync of headers from them:    *)
(* RelayPeers, for any set of addresses and any bounds, PeerSession, the   *)
(* conversation with one of them, and HeaderSync, for any block tree, any  *)
(* peers and any pages the faulty ones may send.                           *)
(*                                                                         *)
(* None of the properties is inductive.  BanNeverRelaxed needs to know     *)
(* that the book a chain thread holds has every row of the store with a    *)
(* ban at least as long (the lock keeps the relay from writing meanwhile), *)
(* and that no ban is longer than a fresh one of the chain.                *)
(* AsksNoBarredPeer needs the relay's book to carry every ban seen at the  *)
(* refresh until the exchange.  The promises of a conversation need to     *)
(* know which packets each state of the session goes with, and that a      *)
(* caller goes on only while nothing it needs has failed.  That no honest  *)
(* peer is charged needs its pages to be runs of checked headers whose     *)
(* first parent is stored by the time they are ingested; and for that the  *)
(* table must hold the whole branch of the locator.                        *)
(***************************************************************************)
EXTENDS RelayPeers, PeerSession, HeaderSync, FiniteSetTheorems, WellFoundedInduction, TLAPS

\* A book of well-formed peers, none banned for longer than a chain ban lasts.
GoodBook(b) == IsBook(b) /\ \A a \in DOMAIN b : b[a].ban <= ChainBan

\* Every row of b is also in c, with a ban at least as long.
Dominates(c, b) == DOMAIN b \subseteq DOMAIN c /\ \A a \in DOMAIN b : b[a].ban <= c[a].ban

GoodBooks == GoodBook(stored) /\ GoodBook(book) /\ GoodBook(local)

\* What the peer_state lock gives a chain thread.
LockedBook == (held => Dominates(book, stored)) /\ (~held => DOMAIN book = {})

\* The relay's book keeps the bans of the store that the resolution began with.
BarredAreBanned ==
  phase \in {"attempt", "replenish", "exchange"} =>
    \A a \in barred : a \in DOMAIN local /\ local[a].ban > 0

IInv == GoodBooks /\ LockedBook /\ BarredAreBanned /\ AsksNoBarredPeer /\ pool \subseteq Address

----------------------------------------------------------------------------
(***************************************************************************)
(* Books                                                                   *)
(***************************************************************************)

\* Putting a peer that is not banned for too long keeps a book good.
LEMMA PutGood ==
  ASSUME NEW b, GoodBook(b), NEW a \in Address, NEW p \in PeerState, p.ban <= ChainBan
  PROVE  GoodBook(Put(b, a, p))
BY DEF GoodBook, IsBook, Put

\* Get returns a well-formed peer.
LEMMA GetGood ==
  ASSUME NEW b, GoodBook(b), NEW a
  PROVE  Get(b, a) \in PeerState /\ Get(b, a).ban <= ChainBan
<1>1. NewPeer \in PeerState /\ NewPeer.ban <= ChainBan
  BY ScoreAssumption, RelayAssumption DEF NewPeer, PeerState
<1>2. QED BY <1>1 DEF Get, GoodBook, IsBook

\* Putting a peer with at least the ban it had keeps what the book dominates.
LEMMA PutDominates ==
  ASSUME NEW b, GoodBook(b), NEW a \in Address, NEW p \in PeerState, Get(b, a).ban <= p.ban
  PROVE  Dominates(Put(b, a, p), b)
BY DEF Dominates, Put, Get, GoodBook, IsBook, PeerState

\* Dominance is transitive on good books.
LEMMA DominatesTrans ==
  ASSUME NEW b, NEW c, NEW d, GoodBook(b), GoodBook(c), GoodBook(d), Dominates(c, b), Dominates(d, c)
  PROVE  Dominates(d, b)
BY DEF Dominates, GoodBook, IsBook, PeerState

\* Dominance is reflexive on good books.
LEMMA DominatesRefl ==
  ASSUME NEW b, GoodBook(b)
  PROVE  Dominates(b, b)
BY DEF Dominates, GoodBook, IsBook, PeerState

\* What every record does to a book: it stays good, and unless it is a shorter ban it
\* dominates the book before it.
LEMMA Records ==
  ASSUME NEW b, GoodBook(b), NEW a \in Address
  PROVE  /\ \A h \in Nat : /\ GoodBook(RecordSuccess(b, a, h)) /\ Dominates(RecordSuccess(b, a, h), b)
                           /\ GoodBook(RecordObservedHeight(b, a, h))
                           /\ Dominates(RecordObservedHeight(b, a, h), b)
         /\ GoodBook(RecordTransportSuccess(b, a)) /\ Dominates(RecordTransportSuccess(b, a), b)
         /\ GoodBook(RecordTransientFailure(b, a)) /\ Dominates(RecordTransientFailure(b, a), b)
         /\ GoodBook(RecordStaleTip(b, a)) /\ Dominates(RecordStaleTip(b, a), b)
         /\ GoodBook(Upsert(b, a)) /\ Dominates(Upsert(b, a), b)
         /\ GoodBook(RecordMalformed(b, a, ChainBan)) /\ Dominates(RecordMalformed(b, a, ChainBan), b)
         /\ GoodBook(RecordMalformed(b, a, RelayBan))
<1> DEFINE g == Get(b, a)
<1>0. g \in PeerState /\ g.ban <= ChainBan BY GetGood
<1>a. \A s \in 0..MaxScore : Reward(s) \in 0..MaxScore BY ScoreAssumption DEF Reward
<1>b. \A s \in 0..MaxScore, n \in Nat : Charge(s, n) \in 0..MaxScore BY ScoreAssumption DEF Charge
<1>c. ASSUME NEW p \in PeerState, p.ban = g.ban
      PROVE  GoodBook(Put(b, a, p)) /\ Dominates(Put(b, a, p), b)
  <2>1. p.ban <= ChainBan BY <1>0, <1>c
  <2>2. GoodBook(Put(b, a, p)) BY <2>1, PutGood
  <2>3. Get(b, a).ban <= p.ban BY <1>0, <1>c DEF PeerState
  <2>4. QED BY <2>2, <2>3, PutDominates
<1>1. ASSUME NEW h \in Nat
      PROVE  /\ GoodBook(RecordSuccess(b, a, h)) /\ Dominates(RecordSuccess(b, a, h), b)
             /\ GoodBook(RecordObservedHeight(b, a, h)) /\ Dominates(RecordObservedHeight(b, a, h), b)
  <2>1. /\ [g EXCEPT !.score = Reward(@), !.height = h] \in PeerState
        /\ [g EXCEPT !.score = Reward(@), !.height = h].ban = g.ban
    BY <1>0, <1>a DEF PeerState
  <2>2. /\ [g EXCEPT !.height = h] \in PeerState /\ [g EXCEPT !.height = h].ban = g.ban
    BY <1>0 DEF PeerState
  <2>3. QED BY <2>1, <2>2, <1>c DEF RecordSuccess, RecordObservedHeight
<1>2. GoodBook(RecordTransportSuccess(b, a)) /\ Dominates(RecordTransportSuccess(b, a), b)
  <2>1. /\ [g EXCEPT !.score = Reward(@)] \in PeerState /\ [g EXCEPT !.score = Reward(@)].ban = g.ban
    BY <1>0, <1>a DEF PeerState
  <2>2. QED BY <2>1, <1>c DEF RecordTransportSuccess
<1>3. ASSUME NEW n \in Nat
      PROVE  /\ [g EXCEPT !.score = Charge(@, n)] \in PeerState
             /\ [g EXCEPT !.score = Charge(@, n)].ban = g.ban
  BY <1>0, <1>b DEF PeerState
<1>4. /\ GoodBook(RecordTransientFailure(b, a)) /\ Dominates(RecordTransientFailure(b, a), b)
      /\ GoodBook(RecordStaleTip(b, a)) /\ Dominates(RecordStaleTip(b, a), b)
  BY <1>3, <1>c, ScoreAssumption DEF RecordTransientFailure, RecordStaleTip
<1>5. GoodBook(Upsert(b, a)) /\ Dominates(Upsert(b, a), b)
  BY <1>0, <1>c DEF Upsert
<1>6. ASSUME NEW n \in Nat, n <= ChainBan
      PROVE  GoodBook(RecordMalformed(b, a, n))
  <2> DEFINE s == Charge(g.score, MalformedScore)
             p == [g EXCEPT !.score = s, !.ban = IF s >= BanScore THEN n ELSE @]
  <2>1. s \in 0..MaxScore BY <1>0, <1>b, ScoreAssumption DEF PeerState
  <2>2. p \in PeerState /\ p.ban <= ChainBan BY <1>0, <1>6, <2>1 DEF PeerState
  <2>3. QED BY <2>2, PutGood DEF RecordMalformed
<1>7. Dominates(RecordMalformed(b, a, ChainBan), b)
  <2> DEFINE s == Charge(g.score, MalformedScore)
             p == [g EXCEPT !.score = s, !.ban = IF s >= BanScore THEN ChainBan ELSE @]
  <2>1. s \in 0..MaxScore BY <1>0, <1>b, ScoreAssumption DEF PeerState
  <2>2. ChainBan \in Nat BY RelayAssumption
  <2>3. p \in PeerState BY <1>0, <2>1, <2>2 DEF PeerState
  <2>4. g.ban <= p.ban BY <1>0, <2>1, <2>2 DEF PeerState
  <2>5. QED BY <2>3, <2>4, PutDominates DEF RecordMalformed
<1>8. QED BY <1>1, <1>2, <1>4, <1>5, <1>6, <1>7, RelayAssumption

\* A record of one peer leaves the bans of the others alone.
LEMMA MalformedOthers ==
  ASSUME NEW b, NEW a, NEW c \in DOMAIN b, c # a, NEW n
  PROVE  LET r == RecordMalformed(b, a, n) IN c \in DOMAIN r /\ r[c] = b[c]
BY DEF RecordMalformed, Put

\* Saving one good book over another gives a good book.
LEMMA SaveGood ==
  ASSUME NEW b, NEW c, GoodBook(b), GoodBook(c)
  PROVE  GoodBook(SaveManager(b, c))
BY DEF GoodBook, IsBook, SaveManager

\* Saving rows whose bans are no shorter than those of the store relaxes no ban.
LEMMA SaveDominates ==
  ASSUME NEW b, NEW c, GoodBook(c), \A a \in DOMAIN b \cap DOMAIN c : c[a].ban <= b[a].ban
  PROVE  Dominates(SaveManager(b, c), c)
BY DEF GoodBook, IsBook, PeerState, Dominates, SaveManager

\* A part of a good book is a good book.
LEMMA PartGood ==
  ASSUME NEW b, GoodBook(b), NEW S \in SUBSET DOMAIN b
  PROVE  GoodBook([a \in S |-> b[a]])
BY DEF GoodBook, IsBook

\* The merge of a row and a peer is a peer with the longer of the two bans.
LEMMA MergeGood ==
  ASSUME NEW r \in PeerState, NEW p \in PeerState, r.ban <= ChainBan, p.ban <= ChainBan
  PROVE  LET m == MergeRelayPeer(r, p)
         IN  m \in PeerState /\ m.ban <= ChainBan /\ r.ban <= m.ban /\ p.ban <= m.ban
BY ScoreAssumption, RelayAssumption DEF MergeRelayPeer, Larger, PeerState

\* The rows the relay writes make a good book, and none relaxes a ban.
LEMMA PersistedGood ==
  ASSUME GoodBook(stored), GoodBook(local), NEW S \in SUBSET DOMAIN local
  PROVE  LET rows == [a \in S |-> PersistedRow(a)]
         IN  /\ GoodBook(SaveManager(rows, stored))
             /\ Dominates(SaveManager(rows, stored), stored)
<1> DEFINE rows == [a \in S |-> PersistedRow(a)]
<1>1. ASSUME NEW a \in S
      PROVE  /\ PersistedRow(a) \in PeerState /\ PersistedRow(a).ban <= ChainBan
             /\ a \in DOMAIN stored => stored[a].ban <= PersistedRow(a).ban
  <2>1. local[a] \in PeerState /\ local[a].ban <= ChainBan BY DEF GoodBook, IsBook
  <2>2. CASE a \in DOMAIN stored
    <3>1. stored[a] \in PeerState /\ stored[a].ban <= ChainBan BY <2>2 DEF GoodBook, IsBook
    <3>2. QED BY <2>1, <2>2, <3>1, MergeGood DEF PersistedRow
  <2>3. CASE a \notin DOMAIN stored BY <2>1, <2>3 DEF PersistedRow
  <2>4. QED BY <2>2, <2>3
<1>2. GoodBook(rows) BY <1>1 DEF GoodBook, IsBook
<1>3. \A a \in DOMAIN rows \cap DOMAIN stored : stored[a].ban <= rows[a].ban BY <1>1
<1>4. QED BY <1>2, <1>3, SaveGood, SaveDominates

\* The refreshed book is good and has every row of the store with its ban.
LEMMA RefreshedGood ==
  ASSUME GoodBook(stored), GoodBook(local)
  PROVE  GoodBook(Refreshed) /\ Dominates(Refreshed, stored)
<1>1. ASSUME NEW a \in DOMAIN stored
      PROVE  /\ Refreshed[a] \in PeerState /\ Refreshed[a].ban <= ChainBan
             /\ stored[a].ban <= Refreshed[a].ban
  <2>1. stored[a] \in PeerState /\ stored[a].ban <= ChainBan BY DEF GoodBook, IsBook
  <2>2. CASE a \in DOMAIN local
    <3>1. local[a] \in PeerState /\ local[a].ban <= ChainBan BY <2>2 DEF GoodBook, IsBook
    <3>2. Refreshed[a] = MergeRelayPeer(stored[a], local[a]) BY <2>2 DEF Refreshed
    <3>3. QED BY <2>1, <3>1, <3>2, MergeGood
  <2>3. CASE a \notin DOMAIN local
    <3>1. Refreshed[a] = stored[a] BY <2>3 DEF Refreshed
    <3>2. QED BY <2>1, <3>1 DEF PeerState
  <2>4. QED BY <2>2, <2>3
<1>2. DOMAIN Refreshed = DOMAIN stored /\ Refreshed = [a \in DOMAIN Refreshed |-> Refreshed[a]]
  BY DEF Refreshed
<1>3. QED BY <1>1, <1>2 DEF GoodBook, IsBook, Dominates

\* Time passing keeps a book good and lowers no ban below another by order.
LEMMA PassGood ==
  ASSUME NEW b, GoodBook(b)
  PROVE  /\ GoodBook(Pass(b)) /\ DOMAIN Pass(b) = DOMAIN b
         /\ \A a \in DOMAIN b : Pass(b)[a].ban = Left(b[a].ban)
<1>1. ASSUME NEW a \in DOMAIN b
      PROVE  Pass(b)[a] \in PeerState /\ Pass(b)[a].ban <= ChainBan /\ Pass(b)[a].ban = Left(b[a].ban)
  <2>1. b[a] \in PeerState /\ b[a].ban <= ChainBan BY DEF GoodBook, IsBook
  <2>2. Pass(b)[a] = [b[a] EXCEPT !.ban = Left(@)] BY DEF Pass
  <2>3. QED BY <2>1, <2>2, RelayAssumption DEF PeerState, Left
<1>2. QED BY <1>1 DEF GoodBook, IsBook, Pass
----------------------------------------------------------------------------
(***************************************************************************)
(* The invariant                                                           *)
(***************************************************************************)

\* The invariant holds at first.
LEMMA InitInv == Init => IInv
<1> SUFFICES ASSUME Init PROVE IInv OBVIOUS
<1>1. NewPeer \in PeerState /\ NewPeer.ban <= ChainBan
  BY ScoreAssumption, RelayAssumption DEF NewPeer, PeerState
<1>2. GoodBook(stored) BY <1>1, RelayAssumption DEF Init, GoodBook, IsBook
<1>3. GoodBook(NoBook) BY <1>1 DEF NoBook, GoodBook, IsBook
<1>4. GoodBooks BY <1>2, <1>3 DEF Init, GoodBooks
<1>5. LockedBook BY DEF Init, LockedBook, NoBook
<1>6. BarredAreBanned /\ AsksNoBarredPeer /\ pool \subseteq Address
  BY DEF Init, BarredAreBanned, AsksNoBarredPeer
<1>7. QED BY <1>4, <1>5, <1>6 DEF IInv

\* A step that changes only the book of a chain thread, by a record that keeps it good
\* and dominating.
LEMMA RecordStep ==
  ASSUME IInv, Recording, GoodBook(book'), Dominates(book', book)
  PROVE  IInv'
<1>1. GoodBooks' BY DEF IInv, GoodBooks, Recording, relayVars, resolution
<1>2. Dominates(book', stored)
  BY DominatesTrans DEF IInv, GoodBooks, LockedBook, Recording
<1>3. LockedBook' BY <1>2 DEF LockedBook, Recording
<1>4. (BarredAreBanned /\ AsksNoBarredPeer /\ pool \subseteq Address)'
  BY DEF IInv, BarredAreBanned, AsksNoBarredPeer, Recording, relayVars, resolution
<1>5. QED BY <1>1, <1>3, <1>4 DEF IInv

\* The steps of chain threads keep the invariant.
LEMMA ChainStep ==
  ASSUME IInv, LoadManager \/ ChainSuccess \/ ChainObservesHeight \/ ChainFailure
               \/ ChainDiscovers \/ SavePeers \/ ReleasePeers
  PROVE  IInv'
<1> USE DEF relayVars, resolution
<1>0. GoodBook(stored) /\ GoodBook(book) /\ GoodBook(local) BY DEF IInv, GoodBooks
<1>1. CASE LoadManager
  <2>1. GoodBooks' BY <1>0, <1>1 DEF LoadManager, GoodBooks
  <2>2. LockedBook' BY <1>0, <1>1, DominatesRefl DEF LoadManager, LockedBook
  <2>3. (BarredAreBanned /\ AsksNoBarredPeer /\ pool \subseteq Address)'
    BY <1>1 DEF IInv, BarredAreBanned, AsksNoBarredPeer, LoadManager
  <2>4. QED BY <2>1, <2>2, <2>3 DEF IInv
<1>2. CASE ChainSuccess
  <2>1. PICK a \in Address, h \in Height : book' = RecordSuccess(book, a, h) BY <1>2 DEF ChainSuccess
  <2>2. h \in Nat BY RelayAssumption
  <2>3. GoodBook(book') /\ Dominates(book', book) BY <1>0, <2>1, <2>2, Records
  <2>4. QED BY <1>2, <2>3, RecordStep DEF ChainSuccess
<1>3. CASE ChainObservesHeight
  <2>1. PICK a \in Address, h \in Height : book' = RecordObservedHeight(book, a, h)
    BY <1>3 DEF ChainObservesHeight
  <2>2. h \in Nat BY RelayAssumption
  <2>3. GoodBook(book') /\ Dominates(book', book) BY <1>0, <2>1, <2>2, Records
  <2>4. QED BY <1>3, <2>3, RecordStep DEF ChainObservesHeight
<1>4. CASE ChainFailure
  <2>1. PICK a \in Address : book' \in {RecordTransientFailure(book, a), RecordStaleTip(book, a),
                                         RecordMalformed(book, a, ChainBan)}
    BY <1>4 DEF ChainFailure
  <2>2. GoodBook(book') /\ Dominates(book', book) BY <1>0, <2>1, Records
  <2>3. QED BY <1>4, <2>2, RecordStep DEF ChainFailure
<1>5. CASE ChainDiscovers
  <2>1. PICK a \in Address : book' = Upsert(book, a) BY <1>5 DEF ChainDiscovers
  <2>2. GoodBook(book') /\ Dominates(book', book) BY <1>0, <2>1, Records
  <2>3. QED BY <1>5, <2>2, RecordStep DEF ChainDiscovers
<1>6. CASE SavePeers
  <2>1. GoodBook(stored') BY <1>0, <1>6, SaveGood DEF SavePeers
  <2>2. GoodBooks' BY <1>0, <1>6, <2>1 DEF SavePeers, GoodBooks
  <2>3. DOMAIN stored' = DOMAIN book /\ \A a \in DOMAIN book : stored'[a] = book[a]
    BY <1>6 DEF SavePeers, SaveManager, IInv, LockedBook, Dominates
  <2>4. Dominates(book, stored') BY <1>0, <2>3 DEF Dominates, GoodBook, IsBook, PeerState
  <2>5. LockedBook' BY <1>6, <2>4 DEF SavePeers, LockedBook
  <2>6. (BarredAreBanned /\ AsksNoBarredPeer /\ pool \subseteq Address)'
    BY <1>6 DEF IInv, BarredAreBanned, AsksNoBarredPeer, SavePeers
  <2>7. QED BY <2>2, <2>5, <2>6 DEF IInv
<1>7. CASE ReleasePeers
  <2>1. GoodBook(NoBook) BY DEF NoBook, GoodBook, IsBook
  <2>2. GoodBooks' BY <1>0, <1>7, <2>1 DEF ReleasePeers, GoodBooks
  <2>3. LockedBook' BY <1>7 DEF ReleasePeers, LockedBook, NoBook
  <2>4. (BarredAreBanned /\ AsksNoBarredPeer /\ pool \subseteq Address)'
    BY <1>7 DEF IInv, BarredAreBanned, AsksNoBarredPeer, ReleasePeers
  <2>5. QED BY <2>2, <2>3, <2>4 DEF IInv
<1>8. QED BY <1>1, <1>2, <1>3, <1>4, <1>5, <1>6, <1>7

\* A step of a resolution that leaves the store and the chain threads alone keeps the
\* invariant if it keeps the relay's book good and what the resolution relies on.
LEMMA RelayStep ==
  ASSUME IInv, UNCHANGED <<stored, held, book>>, GoodBook(local'),
         BarredAreBanned', AsksNoBarredPeer', pool' \subseteq Address
  PROVE  IInv'
<1>1. GoodBooks' BY DEF IInv, GoodBooks
<1>2. LockedBook' BY DEF IInv, LockedBook
<1>3. QED BY <1>1, <1>2 DEF IInv

\* The steps of a resolution keep the invariant.
LEMMA ResolveStep ==
  ASSUME IInv, Resolve
  PROVE  IInv'
<1> USE DEF others, chainVars, resolution
<1>0. GoodBook(stored) /\ GoodBook(book) /\ GoodBook(local) BY DEF IInv, GoodBooks
<1>t. phase = "exchange" => target \in Address BY DEF IInv, AsksNoBarredPeer
<1>1. CASE StartAttempt
  <2>1. UNCHANGED <<stored, held, book, local>> BY <1>1 DEF StartAttempt
  <2>2. BarredAreBanned' /\ AsksNoBarredPeer' /\ pool' \subseteq Address
    BY <1>1 DEF StartAttempt, IInv, BarredAreBanned, AsksNoBarredPeer
  <2>3. QED BY <1>0, <2>1, <2>2, RelayStep
<1>2. CASE Handshake
  <2>1. UNCHANGED <<stored, held, book, phase, barred, target>> /\ phase = "replenish"
    BY <1>2 DEF Handshake
  <2>2. PICK a \in Candidates :
          \/ a \in Address /\ local' = RecordTransientFailure(local, a) /\ pool' = pool
          \/ a \in Capable /\ pool' = pool \cup {a} /\ local' = local
          \/ pool' = pool /\ local' = local
    BY <1>2, RelayAssumption DEF Handshake, Fault
  <2>3. pool' \subseteq Address BY <2>2, RelayAssumption DEF IInv
  <2>4. GoodBook(local') /\ Dominates(local', local) BY <1>0, <2>2, Records, DominatesRefl
  <2>5. BarredAreBanned'
    BY <1>0, <2>1, <2>4 DEF IInv, BarredAreBanned, Dominates, GoodBook, IsBook, PeerState
  <2>6. AsksNoBarredPeer' BY <2>1 DEF AsksNoBarredPeer
  <2>7. QED BY <2>1, <2>3, <2>4, <2>5, <2>6, RelayStep
<1>3. CASE SelectConnection
  <2>1. UNCHANGED <<stored, held, book, local, pool, barred>> /\ phase = "replenish"
    BY <1>3 DEF SelectConnection
  <2>2. PICK a \in Eligible : target' = a BY <1>3 DEF SelectConnection
  <2>3. a \in pool /\ a \in DOMAIN local /\ ~(local[a].ban > 0)
    BY DEF Eligible, Usable, IsBanned
  <2>4. a \notin barred BY <2>1, <2>3 DEF IInv, BarredAreBanned
  <2>5. BarredAreBanned' /\ AsksNoBarredPeer' /\ pool' \subseteq Address
    BY <2>1, <2>2, <2>3, <2>4 DEF IInv, BarredAreBanned, AsksNoBarredPeer
  <2>6. QED BY <1>0, <2>1, <2>5, RelayStep
<1>4. CASE NoCapablePeer
  <2>1. UNCHANGED <<stored, held, book, local, pool>> /\ phase' = "persist" BY <1>4 DEF NoCapablePeer, Return
  <2>2. QED BY <1>0, <2>1, RelayStep DEF IInv, BarredAreBanned, AsksNoBarredPeer
<1>5. CASE Answer
  <2>1. /\ UNCHANGED <<stored, held, book, pool>> /\ phase' = "persist" /\ phase = "exchange"
        /\ local' = RecordTransportSuccess(local, target)
    BY <1>5 DEF Answer, Return
  <2>2. GoodBook(local') BY <1>0, <1>t, <2>1, Records
  <2>3. QED BY <2>1, <2>2, RelayStep DEF IInv, BarredAreBanned, AsksNoBarredPeer
<1>6. CASE ExchangeFails
  <2>1. /\ UNCHANGED <<stored, held, book>> /\ phase = "exchange" /\ pool' \subseteq pool
        /\ phase' = "persist" \/ (phase' = "attempt" /\ UNCHANGED barred)
        /\ \/ local' = local \/ local' = RecordTransientFailure(local, target)
           \/ local' = RecordMalformed(local, target, RelayBan)
    BY <1>6 DEF ExchangeFails, MalformedAnswer, TransportFails, TemporaryStatus, UnknownStatus,
                RefusedStatus, InvalidQueryStatus, Failing, Retry, Return
  <2>2. GoodBook(local') BY <1>0, <1>t, <2>1, Records
  <2>3. target \notin barred BY <2>1 DEF IInv, AsksNoBarredPeer
  <2>4. ASSUME NEW a \in barred PROVE a \in DOMAIN local' /\ local'[a].ban > 0
    <3>1. a \in DOMAIN local /\ local[a].ban > 0 /\ a # target
      BY <2>1, <2>3 DEF IInv, BarredAreBanned
    <3>2. CASE local' = local BY <3>1, <3>2
    <3>3. CASE local' = RecordTransientFailure(local, target)
      BY <3>1, <3>3 DEF RecordTransientFailure, Put
    <3>4. CASE local' = RecordMalformed(local, target, RelayBan)
      BY <3>1, <3>4, MalformedOthers
    <3>5. QED BY <2>1, <3>2, <3>3, <3>4
  <2>5. BarredAreBanned' BY <2>1, <2>4 DEF BarredAreBanned
  <2>6. AsksNoBarredPeer' /\ pool' \subseteq Address BY <2>1 DEF IInv, AsksNoBarredPeer
  <2>7. QED BY <2>1, <2>2, <2>5, <2>6, RelayStep
<1>7. QED BY <1>1, <1>2, <1>3, <1>4, <1>5, <1>6 DEF Resolve

\* Opening the client, merging its book with the store, and verdicts on its answers.
LEMMA StoreStep ==
  ASSUME IInv, InitializeRelay \/ RefreshPeers \/ PersistPeers \/ PersistFails
               \/ AcceptAnswer \/ ReportDnssecFailure
  PROVE  IInv'
<1> USE DEF others, chainVars, resolution
<1>0. GoodBook(stored) /\ GoodBook(book) /\ GoodBook(local) BY DEF IInv, GoodBooks
<1>1. CASE InitializeRelay
  <2>1. UNCHANGED <<stored, held, book, pool>> /\ phase' = "idle" /\ local' = stored
    BY <1>1 DEF InitializeRelay
  <2>2. QED BY <1>0, <2>1, RelayStep DEF IInv, BarredAreBanned, AsksNoBarredPeer
<1>2. CASE RefreshPeers
  <2>1. /\ UNCHANGED <<stored, held, book>> /\ phase' = "attempt" /\ local' = Refreshed
        /\ barred' = {a \in DOMAIN stored : IsBanned(stored[a])} /\ pool' \subseteq pool
    BY <1>2 DEF RefreshPeers
  <2>2. GoodBook(Refreshed) /\ Dominates(Refreshed, stored) BY <1>0, RefreshedGood
  <2>3. BarredAreBanned'
    BY <1>0, <2>1, <2>2 DEF BarredAreBanned, Dominates, IsBanned, GoodBook, IsBook, PeerState
  <2>4. AsksNoBarredPeer' /\ pool' \subseteq Address BY <2>1 DEF IInv, AsksNoBarredPeer
  <2>5. QED BY <2>1, <2>2, <2>3, <2>4, RelayStep
<1>3. CASE PersistPeers \/ PersistFails
  <2>1. /\ UNCHANGED <<held, book, local, pool>> /\ ~held /\ phase' = "idle"
        /\ \E S \in SUBSET DOMAIN local :
             stored' = SaveManager([a \in S |-> PersistedRow(a)], stored)
    <3>1. CASE PersistPeers
      <4>1. DOMAIN local \in SUBSET DOMAIN local OBVIOUS
      <4>2. QED BY <3>1, <4>1 DEF PersistPeers
    <3>2. CASE PersistFails BY <3>2 DEF PersistFails
    <3>3. QED BY <1>3, <3>1, <3>2
  <2>2. GoodBook(stored') BY <1>0, <2>1, PersistedGood
  <2>3. GoodBooks' BY <1>0, <2>1, <2>2 DEF GoodBooks
  <2>4. LockedBook' BY <2>1 DEF IInv, LockedBook
  <2>5. (BarredAreBanned /\ AsksNoBarredPeer /\ pool \subseteq Address)'
    BY <2>1 DEF IInv, BarredAreBanned, AsksNoBarredPeer
  <2>6. QED BY <2>3, <2>4, <2>5 DEF IInv
<1>4. CASE AcceptAnswer
  <2>1. UNCHANGED <<stored, held, book, pool, local, phase, barred, target>> BY <1>4 DEF AcceptAnswer
  <2>2. QED BY <1>0, <2>1, RelayStep DEF IInv, BarredAreBanned, AsksNoBarredPeer
<1>5. CASE ReportDnssecFailure
  <2>1. /\ UNCHANGED <<stored, held, book>> /\ phase' = "persist" /\ pool' \subseteq pool
        /\ \/ local' = local
           \/ \E a \in Address : local' = RecordMalformed(local, a, RelayBan)
    BY <1>5, RelayAssumption DEF ReportDnssecFailure, Fault
  <2>2. GoodBook(local') BY <1>0, <2>1, Records
  <2>3. QED BY <2>1, <2>2, RelayStep DEF IInv, BarredAreBanned, AsksNoBarredPeer
<1>6. QED BY <1>1, <1>2, <1>3, <1>4, <1>5

\* The passing of time keeps the invariant: all bans run down together.
LEMMA TickStep ==
  ASSUME IInv, Tick
  PROVE  IInv'
<1>0. GoodBook(stored) /\ GoodBook(book) /\ GoodBook(local) BY DEF IInv, GoodBooks
<1>1. /\ stored' = Pass(stored) /\ book' = Pass(book) /\ local' = Pass(local)
      /\ UNCHANGED <<held, phase, pool>> /\ phase \in {"off", "idle", "persist"}
  BY DEF Tick
<1>2. GoodBooks' BY <1>0, <1>1, PassGood DEF GoodBooks
<1>3. ASSUME held PROVE Dominates(book', stored')
  <2>1. Dominates(book, stored) BY <1>3 DEF IInv, LockedBook
  <2>2. ASSUME NEW a \in DOMAIN stored PROVE Left(stored[a].ban) <= Left(book[a].ban)
    <3>1. stored[a].ban \in Nat /\ book[a].ban \in Nat /\ stored[a].ban <= book[a].ban
      BY <1>0, <2>1 DEF Dominates, GoodBook, IsBook, PeerState
    <3>2. QED BY <3>1 DEF Left
  <2>3. /\ DOMAIN Pass(stored) = DOMAIN stored /\ DOMAIN Pass(book) = DOMAIN book
        /\ \A a \in DOMAIN stored : Pass(stored)[a].ban = Left(stored[a].ban)
        /\ \A a \in DOMAIN book : Pass(book)[a].ban = Left(book[a].ban)
    BY <1>0, PassGood
  <2>4. QED BY <1>1, <2>1, <2>2, <2>3 DEF Dominates
<1>4. LockedBook' BY <1>0, <1>1, <1>3, PassGood DEF IInv, LockedBook
<1>5. (BarredAreBanned /\ AsksNoBarredPeer /\ pool \subseteq Address)'
  BY <1>1 DEF IInv, BarredAreBanned, AsksNoBarredPeer
<1>6. QED BY <1>2, <1>4, <1>5 DEF IInv

\* What a crash leaves in the store is good and has no ban relaxed.
LEMMA CrashStore ==
  ASSUME IInv, Crash
  PROVE  GoodBook(stored') /\ Dominates(stored', stored)
<1>0. GoodBook(stored) /\ GoodBook(book) /\ GoodBook(local) BY DEF IInv, GoodBooks
<1>1. CASE \E S \in SUBSET DOMAIN book : stored' = SaveManager([a \in S |-> book[a]], stored)
  <2>1. PICK S \in SUBSET DOMAIN book : stored' = SaveManager([a \in S |-> book[a]], stored)
    BY <1>1
  <2>2. GoodBook([a \in S |-> book[a]]) BY <1>0, PartGood
  <2>3. \A a \in S \cap DOMAIN stored : stored[a].ban <= book[a].ban
    BY DEF IInv, LockedBook, Dominates
  <2>4. \A a \in DOMAIN [c \in S |-> book[c]] \cap DOMAIN stored :
          stored[a].ban <= [c \in S |-> book[c]][a].ban
    BY <2>3
  <2>5. QED BY <1>0, <2>1, <2>2, <2>4, SaveGood, SaveDominates
<1>2. CASE \E S \in SUBSET DOMAIN local :
             stored' = SaveManager([a \in S |-> PersistedRow(a)], stored)
  BY <1>0, <1>2, PersistedGood
<1>3. QED BY <1>1, <1>2 DEF Crash

\* A crash keeps the invariant.
LEMMA CrashStep ==
  ASSUME IInv, Crash
  PROVE  IInv'
<1>1. GoodBook(NoBook) BY DEF NoBook, GoodBook, IsBook
<1>2. GoodBooks' BY <1>1, CrashStore DEF Crash, GoodBooks
<1>3. LockedBook' BY DEF Crash, LockedBook, NoBook
<1>4. (BarredAreBanned /\ AsksNoBarredPeer /\ pool \subseteq Address)'
  BY DEF Crash, BarredAreBanned, AsksNoBarredPeer
<1>5. QED BY <1>2, <1>3, <1>4 DEF IInv

\* Every step keeps the invariant.
LEMMA NextInv == IInv /\ [Next]_vars => IInv'
<1> SUFFICES ASSUME IInv, [Next]_vars PROVE IInv' OBVIOUS
<1>1. CASE UNCHANGED vars
  BY <1>1 DEF vars, IInv, GoodBooks, LockedBook, BarredAreBanned, AsksNoBarredPeer
<1>2. CASE Next
  BY <1>2, ChainStep, StoreStep, ResolveStep, TickStep, CrashStep DEF Next
<1>3. QED BY <1>1, <1>2

\* A step that is not the passing of time relaxes no ban of the store.
LEMMA NextDominates == IInv /\ [Next]_vars => Tick \/ Dominates(stored', stored)
<1> SUFFICES ASSUME IInv, [Next]_vars, ~Tick PROVE Dominates(stored', stored) OBVIOUS
<1>0. GoodBook(stored) /\ GoodBook(book) /\ GoodBook(local) BY DEF IInv, GoodBooks
<1>1. CASE UNCHANGED stored BY <1>0, <1>1, DominatesRefl
<1>2. CASE SavePeers
  <2>1. \A a \in DOMAIN book \cap DOMAIN stored : stored[a].ban <= book[a].ban
    BY <1>2 DEF SavePeers, IInv, LockedBook, Dominates
  <2>2. QED BY <1>0, <1>2, <2>1, SaveDominates DEF SavePeers
<1>3. CASE PersistPeers
  <2>1. DOMAIN local \in SUBSET DOMAIN local OBVIOUS
  <2>2. QED BY <1>0, <1>3, <2>1, PersistedGood DEF PersistPeers
<1>4. CASE PersistFails BY <1>0, <1>4, PersistedGood DEF PersistFails
<1>5. CASE Crash BY <1>5, CrashStore
<1>6. UNCHANGED stored \/ SavePeers \/ PersistPeers \/ PersistFails \/ Crash
  BY DEF Next, vars, LoadManager, ChainSuccess, ChainObservesHeight, ChainFailure, ChainDiscovers,
         Recording, ReleasePeers, InitializeRelay, RefreshPeers, AcceptAnswer, ReportDnssecFailure,
         Resolve, StartAttempt, Handshake, SelectConnection, NoCapablePeer, Answer, ExchangeFails,
         MalformedAnswer, TransportFails, TemporaryStatus, UnknownStatus, RefusedStatus,
         InvalidQueryStatus, Failing, others
<1>7. QED BY <1>1, <1>2, <1>3, <1>4, <1>5, <1>6

\* The books stay well formed, the lock keeps a chain thread's book ahead of the store,
\* and bans seen at a refresh last to the exchange.
THEOREM RelayInvariant == Spec => []IInv
<1>1. Init => IInv BY InitInv
<1>2. IInv /\ [Next]_vars => IInv' BY NextInv
<1>3. QED BY <1>1, <1>2, PTL DEF Spec

\* No resolution asks a peer that the store had banned when it began.
THEOREM RelayAsksNoBarredPeer == Spec => []AsksNoBarredPeer
<1>1. IInv => AsksNoBarredPeer BY DEF IInv
<1>2. QED BY <1>1, RelayInvariant, PTL

\* Bans in peers.sqlite end by time alone.
THEOREM BansEndByTime == Spec => BanNeverRelaxed
<1>1. IInv /\ [Next]_vars => [\A a \in DOMAIN stored :
         a \in DOMAIN stored' /\ (stored'[a].ban < stored[a].ban => Tick)]_vars
  <2> SUFFICES ASSUME IInv, [Next]_vars, NEW a \in DOMAIN stored
               PROVE  a \in DOMAIN stored' /\ (stored'[a].ban < stored[a].ban => Tick)
    OBVIOUS
  <2>0. GoodBook(stored) /\ GoodBook(stored')
    BY NextInv DEF IInv, GoodBooks
  <2>1. CASE Tick
    <3>1. DOMAIN stored' = DOMAIN stored BY <2>0, <2>1, PassGood DEF Tick
    <3>2. QED BY <2>1, <3>1
  <2>2. CASE Dominates(stored', stored)
    BY <2>0, <2>2 DEF Dominates, GoodBook, IsBook, PeerState
  <2>3. QED BY <2>1, <2>2, NextDominates
<1>2. QED BY <1>1, RelayInvariant, PTL DEF Spec, BanNeverRelaxed
----------------------------------------------------------------------------
(***************************************************************************)
(* Types and limits                                                        *)
(***************************************************************************)

\* The pool holds capable peers, at most MaxConnections of them.
PoolOK == pool \subseteq Capable /\ IsFiniteSet(pool) /\ Cardinality(pool) <= MaxConnections

CoolOK == cool \in [Address -> 0..Cooldown]

\* The variables of a resolution, its budget and its retries among them.
ResolutionOK ==
  /\ phase \in {"off", "idle", "attempt", "replenish", "exchange", "persist"}
  /\ attempted \subseteq Address /\ budget \in 0..HandshakeBudget
  /\ retry \in 0..AlternateRetries
  /\ leaders \subseteq Address /\ supplier \in Address \cup {None}
  /\ target \in Address \cup {None} /\ barred \subseteq Address
  /\ outcome \in {"none", "answer", "rejected", "failed"}

SharedOK == held \in BOOLEAN /\ proofPeer \in Address \cup {None} /\ suspects \subseteq Address

TypeInv == PoolOK /\ CoolOK /\ ResolutionOK /\ SharedOK

\* A pool that loses connections keeps its limit.
LEMMA SmallerPool ==
  ASSUME PoolOK, pool' \subseteq pool
  PROVE  PoolOK'
<1>1. IsFiniteSet(pool') /\ Cardinality(pool') <= Cardinality(pool) BY FS_Subset DEF PoolOK
<1>2. Cardinality(pool') \in Nat /\ Cardinality(pool) \in Nat BY <1>1, FS_CardinalityType DEF PoolOK
<1>3. QED BY <1>1, <1>2, RelayAssumption DEF PoolOK

\* A new connection to a capable peer fits while the pool is below its limit.
LEMMA LargerPool ==
  ASSUME PoolOK, NEW a \in Capable, Cardinality(pool) < MaxConnections, pool' = pool \cup {a}
  PROVE  PoolOK'
<1>0. Cardinality(pool) \in Nat BY FS_CardinalityType DEF PoolOK
<1>1. IsFiniteSet(pool') /\ Cardinality(pool') \in {Cardinality(pool), Cardinality(pool) + 1}
  BY <1>0, FS_AddElement DEF PoolOK
<1>2. QED BY <1>0, <1>1, RelayAssumption DEF PoolOK

\* The pool keeps its limit: only a handshake adds to it.
LEMMA PoolStep ==
  ASSUME PoolOK, Next
  PROVE  PoolOK'
<1> USE DEF relayVars, resolution, chainVars, others, bounds
<1>1. CASE pool' \subseteq pool BY <1>1, SmallerPool
<1>2. CASE Handshake
  <2>1. Cardinality(pool) < MaxConnections BY <1>2 DEF Handshake, Replenishes
  <2>2. pool' = pool \/ \E a \in Capable : pool' = pool \cup {a} BY <1>2 DEF Handshake
  <2>3. QED BY <2>1, <2>2, LargerPool, SmallerPool
<1>3. pool' \subseteq pool \/ Handshake
  BY DEF Next, LoadManager, ChainSuccess, ChainObservesHeight, ChainFailure, ChainDiscovers,
         Recording, SavePeers, ReleasePeers, InitializeRelay, RefreshPeers, AcceptAnswer,
         ReportDnssecFailure, PersistPeers, PersistFails, Tick, Crash,
         Resolve, StartAttempt, SelectConnection, NoCapablePeer, Answer, ExchangeFails,
         MalformedAnswer, TransportFails, TemporaryStatus, UnknownStatus, RefusedStatus,
         InvalidQueryStatus
<1>4. QED BY <1>1, <1>2, <1>3

\* Cooldowns stay between nothing and a full one.
LEMMA CoolStep ==
  ASSUME IInv, TypeInv, Next
  PROVE  CoolOK'
<1> USE DEF relayVars, resolution, chainVars, others, bounds
<1>0. CoolOK BY DEF TypeInv
<1>t. phase = "exchange" => target \in Address BY DEF IInv, AsksNoBarredPeer
<1>1. CASE UNCHANGED cool BY <1>0, <1>1 DEF CoolOK
<1>2. CASE \E a \in Address : CoolDown(a)
  BY <1>0, <1>2, RelayAssumption DEF CoolOK, CoolDown
<1>3. CASE Tick
  <2>1. \A n \in 0..Cooldown : Left(n) \in 0..Cooldown BY RelayAssumption DEF Left
  <2>2. cool' = [a \in Address |-> Left(cool[a])] BY <1>3 DEF Tick
  <2>3. QED BY <1>0, <2>1, <2>2 DEF CoolOK
<1>4. CASE Crash
  <2>1. cool' = [a \in Address |-> 0] BY <1>4 DEF Crash
  <2>2. QED BY <2>1, RelayAssumption DEF CoolOK
<1>5. CASE Handshake
  <2>1. Candidates \subseteq Address
    BY DEF Candidates, Usable, IInv, GoodBooks, GoodBook, IsBook
  <2>2. UNCHANGED cool \/ \E a \in Candidates : CoolDown(a) BY <1>5 DEF Handshake
  <2>3. QED BY <1>1, <1>2, <2>1, <2>2
<1>6. CASE ReportDnssecFailure
  <2>1. UNCHANGED cool \/ \E a \in suspects : CoolDown(a) BY <1>6 DEF ReportDnssecFailure
  <2>2. QED BY <1>1, <1>2, <2>1 DEF TypeInv, SharedOK
<1>7. CASE ExchangeFails
  <2>1. phase = "exchange" /\ (UNCHANGED cool \/ CoolDown(target))
    BY <1>7 DEF ExchangeFails, MalformedAnswer, TransportFails, TemporaryStatus, UnknownStatus,
                RefusedStatus, InvalidQueryStatus, Failing
  <2>2. QED BY <1>1, <1>2, <1>t, <2>1
<1>8. UNCHANGED cool \/ Tick \/ Crash \/ Handshake \/ ReportDnssecFailure \/ ExchangeFails
  BY DEF Next, LoadManager, ChainSuccess, ChainObservesHeight, ChainFailure, ChainDiscovers,
         Recording, SavePeers, ReleasePeers, InitializeRelay, RefreshPeers, AcceptAnswer,
         PersistPeers, PersistFails, Resolve, StartAttempt, SelectConnection, NoCapablePeer, Answer
<1>9. QED BY <1>1, <1>3, <1>4, <1>5, <1>6, <1>7, <1>8

\* A resolution stays within its handshake budget and its alternates.
LEMMA ResolutionStep ==
  ASSUME IInv, TypeInv, Next
  PROVE  ResolutionOK'
<1> USE DEF relayVars, resolution, chainVars, others, bounds
<1>0. ResolutionOK /\ SharedOK BY DEF TypeInv
<1>b. DOMAIN stored \subseteq Address /\ DOMAIN local \subseteq Address
  BY DEF IInv, GoodBooks, GoodBook, IsBook
<1>p. pool \subseteq Address BY DEF IInv
<1>r. \A r \in {"none", "answer", "rejected", "failed"} : Return(r) => ResolutionOK'
  BY RelayAssumption DEF Return, Forget, ResolutionOK
<1>1. CASE UNCHANGED <<resolution, phase, outcome>> BY <1>0, <1>1 DEF ResolutionOK
<1>2. CASE InitializeRelay \/ PersistPeers \/ PersistFails \/ ReportDnssecFailure
  <2>1. UNCHANGED <<resolution, outcome>> /\ phase' \in {"idle", "persist"}
    BY <1>2 DEF InitializeRelay, PersistPeers, PersistFails, ReportDnssecFailure
  <2>2. QED BY <1>0, <2>1 DEF ResolutionOK
<1>3. CASE RefreshPeers
  BY <1>0, <1>3, <1>b, RelayAssumption DEF RefreshPeers, ResolutionOK
<1>4. CASE StartAttempt
  <2>1. Leaders(Usable(local), OutboundOrder(local)) \subseteq Address BY <1>b DEF Leaders, Usable
  <2>2. QED BY <1>0, <1>4, <2>1 DEF StartAttempt, ResolutionOK, SharedOK
<1>5. CASE Handshake
  <2>1. budget > 0 /\ budget' = budget - 1 BY <1>5 DEF Handshake, Replenishes
  <2>2. UNCHANGED <<phase, attempted, retry, leaders, supplier, target, barred, outcome>>
    BY <1>5 DEF Handshake
  <2>3. budget' \in 0..HandshakeBudget BY <1>0, <2>1, RelayAssumption DEF ResolutionOK
  <2>4. QED BY <1>0, <2>2, <2>3 DEF ResolutionOK
<1>6. CASE SelectConnection
  <2>1. Eligible \subseteq Address BY <1>p DEF Eligible
  <2>2. QED BY <1>0, <1>6, <2>1 DEF SelectConnection, ResolutionOK
<1>7. CASE NoCapablePeer \/ Answer BY <1>7, <1>r DEF NoCapablePeer, Answer
<1>8. CASE ExchangeFails
  <2>1. Retry \/ Return("rejected")
    BY <1>8 DEF ExchangeFails, MalformedAnswer, TransportFails, TemporaryStatus, UnknownStatus,
                RefusedStatus, InvalidQueryStatus
  <2>2. CASE Return("rejected") \/ Return("failed") BY <2>2, <1>r
  <2>3. CASE /\ retry < AlternateRetries /\ retry' = retry + 1 /\ phase' = "attempt"
             /\ UNCHANGED <<attempted, budget, leaders, supplier, target, barred, outcome>>
    BY <1>0, <2>3, RelayAssumption DEF ResolutionOK
  <2>4. QED BY <2>1, <2>2, <2>3 DEF Retry
<1>9. CASE Crash BY <1>9, RelayAssumption DEF Crash, Forget, ResolutionOK
<1>10. \/ UNCHANGED <<resolution, phase, outcome>>
       \/ InitializeRelay \/ PersistPeers \/ PersistFails \/ ReportDnssecFailure
       \/ RefreshPeers \/ Resolve \/ Crash
  BY DEF Next, LoadManager, ChainSuccess, ChainObservesHeight, ChainFailure, ChainDiscovers,
         Recording, SavePeers, ReleasePeers, AcceptAnswer, Tick
<1>11. QED BY <1>1, <1>2, <1>3, <1>4, <1>5, <1>6, <1>7, <1>8, <1>9, <1>10 DEF Resolve

\* The lock, the proof peer and the suspects keep their types.
LEMMA SharedStep ==
  ASSUME IInv, TypeInv, Next
  PROVE  SharedOK'
<1> USE DEF relayVars, resolution, chainVars, others, bounds
<1>0. SharedOK BY DEF TypeInv
<1>1. held' \in BOOLEAN
  <2>1. UNCHANGED held \/ held' = TRUE \/ held' = FALSE
    BY DEF Next, LoadManager, ChainSuccess, ChainObservesHeight, ChainFailure, ChainDiscovers,
           Recording, SavePeers, ReleasePeers, InitializeRelay, RefreshPeers, AcceptAnswer,
           ReportDnssecFailure, PersistPeers, PersistFails, Tick, Crash,
           Resolve, StartAttempt, Handshake, SelectConnection, NoCapablePeer, Answer, ExchangeFails,
           MalformedAnswer, TransportFails, TemporaryStatus, UnknownStatus, RefusedStatus,
           InvalidQueryStatus, Failing
  <2>2. QED BY <1>0, <2>1 DEF SharedOK
<1>2. proofPeer' \in Address \cup {None}
  BY <1>0 DEF SharedOK, Next, LoadManager, ChainSuccess, ChainObservesHeight, ChainFailure,
         ChainDiscovers, Recording, SavePeers, ReleasePeers, InitializeRelay, RefreshPeers,
         AcceptAnswer, ReportDnssecFailure, PersistPeers, PersistFails, Tick, Crash,
         Resolve, StartAttempt, Handshake, SelectConnection, NoCapablePeer, Answer, ExchangeFails,
         MalformedAnswer, TransportFails, TemporaryStatus, UnknownStatus, RefusedStatus,
         InvalidQueryStatus, Failing
<1>3. suspects' \subseteq suspects \cup Faulty
  BY DEF Next, LoadManager, ChainSuccess, ChainObservesHeight, ChainFailure, ChainDiscovers,
         Recording, SavePeers, ReleasePeers, InitializeRelay, RefreshPeers, AcceptAnswer,
         ReportDnssecFailure, PersistPeers, PersistFails, Tick, Crash,
         Resolve, StartAttempt, Handshake, SelectConnection, NoCapablePeer, Answer, ExchangeFails,
         MalformedAnswer, TransportFails, TemporaryStatus, UnknownStatus, RefusedStatus,
         InvalidQueryStatus, Failing
<1>4. QED BY <1>0, <1>1, <1>2, <1>3, RelayAssumption DEF SharedOK

\* Every variable keeps its type: scores stay below i32::MAX, the pool within
\* MaxConnections, a resolution within its handshakes and alternates.
THEOREM RelayTypes == Spec => []TypeOK
<1>1. Init => TypeInv
  <2> SUFFICES ASSUME Init PROVE TypeInv OBVIOUS
  <2>1. PoolOK BY FS_EmptySet, RelayAssumption DEF Init, PoolOK
  <2>2. CoolOK BY RelayAssumption DEF Init, CoolOK
  <2>3. ResolutionOK BY RelayAssumption DEF Init, ResolutionOK
  <2>4. SharedOK BY DEF Init, SharedOK
  <2>5. QED BY <2>1, <2>2, <2>3, <2>4 DEF TypeInv
<1>2. IInv /\ TypeInv /\ [Next]_vars => TypeInv'
  <2> SUFFICES ASSUME IInv, TypeInv, [Next]_vars PROVE TypeInv' OBVIOUS
  <2>1. CASE Next BY <2>1, PoolStep, CoolStep, ResolutionStep, SharedStep DEF TypeInv
  <2>2. CASE UNCHANGED vars
    BY <2>2 DEF vars, TypeInv, PoolOK, CoolOK, ResolutionOK, SharedOK
  <2>3. QED BY <2>1, <2>2
<1>3. IInv /\ TypeInv => TypeOK
  BY DEF IInv, GoodBooks, GoodBook, TypeInv, PoolOK, CoolOK, ResolutionOK, SharedOK, TypeOK
<1>4. QED BY <1>1, <1>2, <1>3, RelayInvariant, PTL DEF Spec

----------------------------------------------------------------------------
(***************************************************************************)
(* The conversation with a peer                                            *)
(***************************************************************************)

\* The peer's first version offers the network service, and its verack was taken.
FirstVersion ==
  \E i \in DOMAIN taken :
    taken[i] = "version" /\ \A j \in 1..(i - 1) : taken[j] \notin {"version", "weak"}
Handshaken == TakenKind("verack") /\ FirstVersion

\* What a state of the session says about the packets taken.
HandshakeInv ==
  /\ ack => TakenKind("verack")
  /\ state = "AwaitingVersion" => ~TakenKind("version") /\ ~TakenKind("weak")
  /\ state = "AwaitingVerack" => FirstVersion
  /\ state \in {"Ready", "HeadersRequested", "ProofRequested"} => Handshaken

\* The state of the session that goes with the request under way or next.
StateOf ==
  /\ request = "handshake" => state \in (IF waiting THEN {"AwaitingVersion", "AwaitingVerack"} ELSE {"AwaitingVersion"})
  /\ request = "headers" => state = (IF waiting THEN "HeadersRequested" ELSE "Ready")
  /\ request = "proof" => state = (IF waiting THEN "ProofRequested" ELSE "Ready")
  /\ request = "addresses" => state = "Ready"
  /\ request = "end" => ~waiting
  /\ request # "end" => pagesLeft >= 1
  /\ request = "handshake" => answers = <<>>

\* A caller goes on only while nothing it needs has failed, and books at its end.
BookInv ==
  request # "end" =>
    /\ booked = <<>> /\ ~aborted
    /\ \A i \in DOMAIN answers : answers[i].answer = "error" => answers[i].request = "addresses"

\* The inductive invariant the promises of a conversation rest on.
SessionInv ==
  /\ SessionTypes /\ HandshakeInv /\ StateOf /\ BookInv
  /\ ReadyIsHandshaken /\ AnswersMatch /\ BookedOnce /\ NotTrackedAfterwards

RequestKinds == {"handshake", "headers", "proof", "addresses"}
Marks == {"success", "transient", "stale", "malformed"}
WholeOutcome(o) == o = [request |-> o.request, charge |-> o.charge, aborted |-> o.aborted]

LEMMA OneMore ==
  ASSUME NEW n \in Nat, NEW S, S \subseteq 1..n
  PROVE  /\ IsFiniteSet(S) /\ Cardinality(S) \in Nat
         /\ IsFiniteSet(S \cup {n + 1}) /\ Cardinality(S \cup {n + 1}) = Cardinality(S) + 1
<1>1. 1 \in Int /\ n \in Int OBVIOUS
<1>2. IsFiniteSet(1..n) BY <1>1, FS_Interval
<1>3. IsFiniteSet(S) BY <1>2, FS_Subset
<1>4. n + 1 \notin S OBVIOUS
<1>5. QED BY <1>3, <1>4, FS_AddElement, FS_CardinalityType

\* What taking a packet leaves of the packets taken.
LEMMA TakingKeeps ==
  ASSUME SessionTypes, NEW kind \in Kinds, taken' = Append(taken, kind)
  PROVE  /\ taken' \in Seq(Kinds) /\ Len(taken') = Len(taken) + 1
         /\ \A k : TakenKind(k)' <=> (TakenKind(k) \/ k = kind)
         /\ FirstVersion => FirstVersion'
         /\ (~TakenKind("version") /\ ~TakenKind("weak") /\ kind = "version") => FirstVersion'
<1>1. taken \in Seq(Kinds) /\ Len(taken) \in Nat /\ DOMAIN taken = 1..Len(taken) BY DEF SessionTypes
<1>2. /\ taken' \in Seq(Kinds) /\ Len(taken') = Len(taken) + 1 /\ DOMAIN taken' = 1..(Len(taken) + 1)
      /\ \A i \in 1..Len(taken) : taken'[i] = taken[i]
      /\ taken'[Len(taken) + 1] = kind
  BY <1>1
<1>3. \A k : TakenKind(k)' <=> (TakenKind(k) \/ k = kind)
  <2>1. ASSUME NEW k PROVE TakenKind(k)' <=> (TakenKind(k) \/ k = kind)
    <3>1. TakenKind(k)' <=> \E i \in 1..(Len(taken) + 1) : taken'[i] = k BY <1>2 DEF TakenKind
    <3>2. TakenKind(k) <=> \E i \in 1..Len(taken) : taken[i] = k BY <1>1 DEF TakenKind
    <3>3. \A i : i \in 1..(Len(taken) + 1) <=> (i \in 1..Len(taken) \/ i = Len(taken) + 1) BY <1>1
    <3>4. QED BY <1>2, <3>1, <3>2, <3>3
  <2>2. QED BY <2>1
<1>4. ASSUME FirstVersion PROVE FirstVersion'
  <2>1. PICK i \in 1..Len(taken) :
          taken[i] = "version" /\ \A j \in 1..(i - 1) : taken[j] \notin {"version", "weak"}
    BY <1>1, <1>4 DEF FirstVersion
  <2>2. i \in DOMAIN taken' /\ taken'[i] = "version" BY <1>1, <1>2, <2>1
  <2>3. \A j \in 1..(i - 1) : taken'[j] \notin {"version", "weak"} BY <1>1, <1>2, <2>1
  <2>4. QED BY <2>2, <2>3 DEF FirstVersion
<1>5. ASSUME ~TakenKind("version"), ~TakenKind("weak"), kind = "version" PROVE FirstVersion'
  <2>1. \A j \in 1..Len(taken) : taken[j] \notin {"version", "weak"} BY <1>1, <1>5 DEF TakenKind
  <2>2. PICK i : i = Len(taken) + 1 OBVIOUS
  <2>3. i \in DOMAIN taken' /\ taken'[i] = "version" BY <1>1, <1>2, <1>5, <2>2
  <2>4. \A j \in 1..(i - 1) : taken'[j] \notin {"version", "weak"} BY <1>1, <1>2, <2>1, <2>2
  <2>5. QED BY <2>3, <2>4 DEF FirstVersion
<1>6. QED BY <1>2, <1>3, <1>4, <1>5

LEMMA SavedIs ==
  ASSUME NEW o, NEW x \in Saved(o)
  PROVE  x = o \/ x = [request |-> "end", charge |-> o.charge, aborted |-> TRUE]
BY DEF Saved

\* What a caller may do once a request has returned.
Fits(o, answer) ==
  /\ WholeOutcome(o) /\ o.aborted \in BOOLEAN /\ o.request \in {"headers", "proof", "addresses", "end"}
  /\ o.request # "end" =>
       o.charge = <<>> /\ o.aborted = FALSE /\ (answer = "error" => request = "addresses")
  /\ (o.request # "end" /\ request = "headers") => pagesLeft > 1
  /\ o.request = "addresses" => request = "handshake"
  /\ IF caller \in Leaving \/ o.request # "end" THEN o.charge = <<>>
     ELSE \E mark \in Marks :
       /\ o.charge = <<mark>> \/ (o.charge = <<>> /\ o.aborted)
       /\ (answer = "error" /\ request # "addresses") => mark = "transient"
       /\ mark \in {"stale", "malformed"} => answer = "headers"
       /\ ((answer = "error" => request = "addresses") /\ answer # "headers") => mark = "success"

LEMMA GoFits ==
  ASSUME NEW next \in {"headers", "proof", "addresses"}, NEW answer,
         answer = "error" => request = "addresses",
         request = "headers" => pagesLeft > 1,
         next = "addresses" => request = "handshake"
  PROVE  Fits(Go(next), answer)
<1>1. PICK o : o = Go(next) OBVIOUS
<1>2. o = [request |-> next, charge |-> <<>>, aborted |-> FALSE] BY <1>1 DEF Go
<1>3. o.request = next /\ o.charge = <<>> /\ o.aborted = FALSE /\ WholeOutcome(o)
  BY <1>2 DEF WholeOutcome
<1>4. Fits(o, answer) BY <1>3 DEF Fits
<1>5. QED BY <1>1, <1>4

LEMMA EndFits ==
  ASSUME NEW mark \in Marks, NEW answer,
         (answer = "error" /\ request # "addresses") => mark = "transient",
         mark \in {"stale", "malformed"} => answer = "headers",
         ((answer = "error" => request = "addresses") /\ answer # "headers") => mark = "success"
  PROVE  Fits(End(mark), answer)
<1>1. PICK o : o = End(mark) OBVIOUS
<1>2. o = [request |-> "end", charge |-> IF caller \in Leaving THEN <<>> ELSE <<mark>>, aborted |-> FALSE]
  BY <1>1 DEF End
<1>3. /\ o.request = "end" /\ o.aborted = FALSE /\ WholeOutcome(o)
      /\ o.charge = IF caller \in Leaving THEN <<>> ELSE <<mark>>
  BY <1>2 DEF WholeOutcome
<1>4. CASE caller \in Leaving
  <2>1. Fits(o, answer) BY <1>3, <1>4 DEF Fits
  <2>2. QED BY <1>1, <2>1
<1>5. CASE caller \notin Leaving
  <2>1. o.charge = <<mark>> BY <1>3, <1>5
  <2>2. Fits(o, answer) BY <1>3, <1>5, <2>1 DEF Fits
  <2>3. QED BY <1>1, <2>2
<1>6. QED BY <1>4, <1>5

LEMMA SavedFits ==
  ASSUME NEW o, NEW answer, Fits(o, answer), NEW x \in Saved(o)
  PROVE  Fits(x, answer)
<1>1. CASE x = o BY <1>1
<1>2. CASE x = [request |-> "end", charge |-> o.charge, aborted |-> TRUE]
  <2>1. x.request = "end" /\ x.charge = o.charge /\ x.aborted = TRUE /\ WholeOutcome(x)
    BY <1>2 DEF WholeOutcome
  <2>2. CASE caller \in Leaving
    <3>1. x.charge = <<>> BY <2>1, <2>2 DEF Fits
    <3>2. QED BY <2>1, <2>2, <3>1 DEF Fits
  <2>3. CASE caller \notin Leaving /\ o.request # "end"
    <3>1. x.charge = <<>> BY <2>1, <2>3 DEF Fits
    <3>2. PICK mark \in Marks :
            /\ (answer = "error" /\ request # "addresses") => mark = "transient"
            /\ mark \in {"stale", "malformed"} => answer = "headers"
            /\ ((answer = "error" => request = "addresses") /\ answer # "headers") => mark = "success"
      <4>1. answer = "error" => request = "addresses" BY <2>3 DEF Fits
      <4>2. "success" \in Marks BY DEF Marks
      <4>3. QED BY <4>1, <4>2
    <3>3. QED BY <2>1, <2>3, <3>1, <3>2 DEF Fits
  <2>4. CASE caller \notin Leaving /\ o.request = "end"
    <3>1. PICK mark \in Marks :
            /\ o.charge = <<mark>> \/ (o.charge = <<>> /\ o.aborted)
            /\ (answer = "error" /\ request # "addresses") => mark = "transient"
            /\ mark \in {"stale", "malformed"} => answer = "headers"
            /\ ((answer = "error" => request = "addresses") /\ answer # "headers") => mark = "success"
      BY <2>4 DEF Fits
    <3>2. QED BY <2>1, <2>4, <3>1 DEF Fits
  <2>5. QED BY <2>2, <2>3, <2>4
<1>3. QED BY <1>1, <1>2, SavedIs

LEMMA AheadFits ==
  ASSUME NEW answer, answer = "error" => request = "addresses", answer # "headers", request # "headers"
  PROVE  Fits(HeadersIfAhead, answer)
<1>1. CASE ahead
  <2>1. Fits(Go("headers"), answer) BY GoFits
  <2>2. QED BY <1>1, <2>1 DEF HeadersIfAhead
<1>2. CASE ~ahead
  <2>1. Fits(End("success"), answer) BY EndFits DEF Marks
  <2>2. QED BY <1>2, <2>1 DEF HeadersIfAhead
<1>3. QED BY <1>1, <1>2

LEMMA PageFits ==
  ASSUME request = "headers", NEW page \in Pages, NEW o \in AfterPage(page)
  PROVE  Fits(o, "headers")
<1>1. \A mark \in Marks : Fits(End(mark), "headers")
  <2>1. ASSUME NEW mark \in Marks PROVE Fits(End(mark), "headers") BY EndFits
  <2>2. QED BY <2>1
<1>2. pagesLeft > 1 => Fits(Go("headers"), "headers") BY GoFits
<1>3. \A x \in Saved(End("success")) : Fits(x, "headers")
  <2>1. Fits(End("success"), "headers") BY <1>1 DEF Marks
  <2>2. QED BY <2>1, SavedFits
<1>4. \/ o \in {End("success"), End("stale"), End("malformed"), End("transient")}
      \/ pagesLeft > 1 /\ o = Go("headers")
      \/ o \in Saved(End("success"))
  BY DEF AfterPage
<1>5. QED BY <1>1, <1>2, <1>3, <1>4 DEF Marks

LEMMA OutcomeFits ==
  ASSUME request \in RequestKinds, NEW answer \in {"error", Returned[request]}, NEW o \in After(answer)
  PROVE  Fits(o, answer)
<1>1. CASE request = "addresses"
  <2>1. answer \in {"error", "addr"} BY <1>1 DEF Returned
  <2>2. o \in Saved(IF caller = "sync_discover" THEN HeadersIfAhead ELSE End("success"))
    BY <1>1 DEF After, AfterAddresses
  <2>3. Fits(HeadersIfAhead, answer) BY <1>1, <2>1, AheadFits
  <2>4. Fits(End("success"), answer) BY <1>1, <2>1, EndFits DEF Marks
  <2>5. QED BY <2>2, <2>3, <2>4, SavedFits
<1>2. CASE request # "addresses" /\ answer = "error"
  <2>1. o = End("transient") BY <1>2 DEF After
  <2>2. Fits(End("transient"), answer) BY <1>2, EndFits DEF Marks
  <2>3. QED BY <2>1, <2>2
<1>3. CASE request = "handshake" /\ answer # "error"
  <2>1. answer = "ready" BY <1>3 DEF Returned
  <2>2. o \in AfterHandshake BY <1>3 DEF After
  <2>3. /\ Fits(Go("headers"), answer) /\ Fits(Go("proof"), answer) /\ Fits(Go("addresses"), answer)
    <3>1. Fits(Go("headers"), answer) BY <1>3, GoFits
    <3>2. Fits(Go("proof"), answer) BY <1>3, GoFits
    <3>3. Fits(Go("addresses"), answer) BY <1>3, GoFits
    <3>4. QED BY <3>1, <3>2, <3>3
  <2>4. Fits(HeadersIfAhead, answer) BY <1>3, <2>1, AheadFits
  <2>5. o \in {Go("headers"), Go("proof")} \/ o \in Saved(HeadersIfAhead) \/ o \in Saved(Go("addresses"))
    BY <2>2 DEF AfterHandshake
  <2>6. QED BY <2>3, <2>4, <2>5, SavedFits
<1>4. CASE request = "headers" /\ answer # "error"
  <2>1. answer = "headers" BY <1>4 DEF Returned
  <2>2. PICK page \in Pages : o \in AfterPage(page) BY <1>4 DEF After
  <2>3. QED BY <1>4, <2>1, <2>2, PageFits
<1>5. CASE request = "proof" /\ answer # "error"
  <2>1. answer = "proof" BY <1>5 DEF Returned
  <2>2. o = End("success") BY <1>5 DEF After
  <2>3. Fits(End("success"), answer) BY <1>5, <2>1, EndFits DEF Marks
  <2>4. QED BY <2>2, <2>3
<1>6. QED BY <1>1, <1>2, <1>3, <1>4, <1>5 DEF RequestKinds

AnswersOf(k) == {i \in DOMAIN answers : answers[i].answer = k}
TakenOf(k) == {i \in DOMAIN taken : taken[i] = k}

\* One more answer and one more packet of the same kind.
LEMMA MatchGrows ==
  ASSUME SessionTypes, NEW k, NEW answer,
         Cardinality(AnswersOf(k)) <= Cardinality(TakenOf(k)),
         DOMAIN answers' = 1..(Len(answers) + 1),
         \A i \in 1..Len(answers) : answers'[i] = answers[i],
         answers'[Len(answers) + 1].answer = answer,
         \/ taken' = taken /\ answer # k
         \/ \E kind \in Kinds : taken' = Append(taken, kind) /\ (answer = k => kind = k)
  PROVE  Cardinality(AnswersOf(k)') <= Cardinality(TakenOf(k)')
<1>0. PICK A, T, A1, T1, n, m :
        /\ A = AnswersOf(k) /\ T = TakenOf(k) /\ A1 = AnswersOf(k)' /\ T1 = TakenOf(k)'
        /\ n = Len(answers) /\ m = Len(taken)
  OBVIOUS
<1>1. /\ n \in Nat /\ m \in Nat /\ DOMAIN answers = 1..n /\ DOMAIN taken = 1..m
      /\ A \subseteq 1..n /\ T \subseteq 1..m
  BY <1>0 DEF SessionTypes, AnswersOf, TakenOf
<1>2. \A i : i \in 1..(n + 1) <=> (i \in 1..n \/ i = n + 1) BY <1>1
<1>3. A1 = IF answer = k THEN A \cup {n + 1} ELSE A BY <1>0, <1>1, <1>2 DEF AnswersOf
<1>4. /\ Cardinality(A) \in Nat /\ Cardinality(A \cup {n + 1}) = Cardinality(A) + 1
  BY <1>1, OneMore
<1>5. /\ Cardinality(T) \in Nat /\ Cardinality(T \cup {m + 1}) = Cardinality(T) + 1
  BY <1>1, OneMore
<1>6. ASSUME taken' = taken, answer # k PROVE Cardinality(A1) <= Cardinality(T1)
  <2>1. T1 = T /\ A1 = A BY <1>0, <1>3, <1>6 DEF TakenOf
  <2>2. Cardinality(A) <= Cardinality(T) BY <1>0
  <2>3. QED BY <2>1, <2>2
<1>7. ASSUME NEW kind \in Kinds, taken' = Append(taken, kind), answer = k => kind = k
      PROVE  Cardinality(A1) <= Cardinality(T1)
  <2>1. /\ DOMAIN taken' = 1..(m + 1) /\ \A i \in 1..m : taken'[i] = taken[i]
        /\ taken'[m + 1] = kind
    <3>1. taken \in Seq(Kinds) BY DEF SessionTypes
    <3>2. QED BY <1>0, <1>7, <3>1
  <2>2. \A i : i \in 1..(m + 1) <=> (i \in 1..m \/ i = m + 1) BY <1>1
  <2>3. T1 = IF kind = k THEN T \cup {m + 1} ELSE T BY <1>0, <1>1, <2>1, <2>2 DEF TakenOf
  <2>4. Cardinality(A) <= Cardinality(T) BY <1>0
  <2>5. CASE answer = k
    <3>1. A1 = A \cup {n + 1} /\ T1 = T \cup {m + 1} BY <1>3, <1>7, <2>3, <2>5
    <3>2. Cardinality(A1) = Cardinality(A) + 1 BY <1>4, <3>1
    <3>3. Cardinality(T1) = Cardinality(T) + 1 BY <1>5, <3>1
    <3>4. QED BY <1>4, <1>5, <2>4, <3>2, <3>3
  <2>6. CASE answer # k
    <3>1. A1 = A /\ (T1 = T \cup {m + 1} \/ T1 = T) BY <1>3, <2>3, <2>6
    <3>2. Cardinality(A1) = Cardinality(A) BY <3>1
    <3>3. Cardinality(T1) \in {Cardinality(T) + 1, Cardinality(T)} BY <1>5, <3>1
    <3>4. QED BY <1>4, <1>5, <2>4, <3>2, <3>3
  <2>7. QED BY <2>5, <2>6
<1>8. Cardinality(A1) <= Cardinality(T1) BY <1>6, <1>7
<1>9. QED BY <1>0, <1>8

\* A request returns: with what it asked for, which was taken just now, or an error.
LEMMA ReturnKeeps ==
  ASSUME SessionInv, request \in RequestKinds,
         NEW answer \in {"error", Returned[request]}, Returns(answer),
         state' \in States, ack' \in BOOLEAN, remote' \in BOOLEAN, buffer' \in 0..1,
         garbled' \in BOOLEAN, pending' \in Seq(Kinds), outstanding' \in BOOLEAN,
         HandshakeInv', (answer # "error" \/ request = "addresses") => state' = "Ready",
         outstanding' => TakenKind("other")',
         \/ taken' = taken /\ answer = "error"
         \/ \E kind \in Kinds : /\ taken' = Append(taken, kind)
                                /\ answer \in {"headers", "proof", "addr"} => kind = answer
  PROVE  SessionInv'
<1>1. PICK o \in After(answer) :
        request' = o.request /\ booked' = booked \o o.charge /\ aborted' = o.aborted
  BY DEF Returns
<1>2. /\ answers' = Append(answers, [request |-> request, answer |-> answer])
      /\ pagesLeft' = IF answer = "headers" THEN pagesLeft - 1 ELSE pagesLeft
      /\ waiting' = FALSE /\ caller' = caller /\ ahead' = ahead
  BY DEF Returns
<1>3. Fits(o, answer) BY <1>1, OutcomeFits
<1>4. SessionTypes /\ booked = <<>> /\ aborted = FALSE /\ request # "end" BY DEF SessionInv, BookInv, RequestKinds
<1>5. booked' = o.charge /\ request' = o.request /\ aborted' = o.aborted
  <2>1. o.charge = <<>> \/ \E mark \in Marks : o.charge = <<mark>> BY <1>3 DEF Fits
  <2>2. booked' = <<>> \o o.charge BY <1>1, <1>4
  <2>3. CASE o.charge = <<>> BY <2>2, <2>3, <1>1
  <2>4. ASSUME NEW mark \in Marks, o.charge = <<mark>> PROVE booked' = o.charge
    BY <2>2, <2>4
  <2>5. QED BY <1>1, <2>1, <2>3, <2>4
<1>6. SessionTypes'
  <2>1. request' \in {"handshake", "headers", "proof", "addresses", "end"} /\ aborted' \in BOOLEAN
    BY <1>3, <1>5 DEF Fits
  <2>2. booked' \in Seq({"success", "transient", "stale", "malformed"})
    <3>1. o.charge = <<>> \/ \E mark \in Marks : o.charge = <<mark>> BY <1>3 DEF Fits
    <3>2. \A mark \in Marks : <<mark>> \in Seq({"success", "transient", "stale", "malformed"}) BY DEF Marks
    <3>3. <<>> \in Seq({"success", "transient", "stale", "malformed"}) OBVIOUS
    <3>4. QED BY <1>5, <3>1, <3>2, <3>3
  <2>3. answers' \in Seq([request : {"handshake", "headers", "proof", "addresses"},
                          answer : {"error", "ready", "headers", "proof", "addr"}])
    <3>1. answer \in {"error", "ready", "headers", "proof", "addr"} BY DEF RequestKinds, Returned
    <3>2. QED BY <1>2, <1>4, <3>1 DEF SessionTypes, RequestKinds
  <2>4. pagesLeft' \in 0..MaxPages
    <3>1. pagesLeft \in 0..MaxPages /\ pagesLeft >= 1 BY <1>4 DEF SessionInv, SessionTypes, StateOf
    <3>2. QED BY <1>2, <3>1, PagesAssumption
  <2>5. taken' \in Seq(Kinds) BY <1>4 DEF SessionTypes
  <2>6. QED BY <1>2, <1>4, <2>1, <2>2, <2>3, <2>4, <2>5 DEF SessionTypes
<1>7. StateOf'
  <2>1. request' \in {"headers", "proof", "addresses", "end"} BY <1>3, <1>5 DEF Fits
  <2>2. request' # "end" => state' = "Ready" BY <1>3, <1>5 DEF Fits
  <2>3. request' # "end" => pagesLeft' >= 1
    <3>1. pagesLeft \in Nat /\ pagesLeft >= 1 BY <1>4 DEF SessionInv, SessionTypes, StateOf
    <3>2. answer = "headers" => request = "headers" BY DEF RequestKinds, Returned
    <3>3. (request' # "end" /\ request = "headers") => pagesLeft > 1 BY <1>3, <1>5 DEF Fits
    <3>4. QED BY <1>2, <3>1, <3>2, <3>3
  <2>4. QED BY <1>2, <2>1, <2>2, <2>3 DEF StateOf
<1>8. /\ DOMAIN answers = 1..Len(answers) /\ Len(answers) \in Nat /\ DOMAIN answers' = 1..(Len(answers) + 1)
      /\ \A i \in 1..Len(answers) : answers'[i] = answers[i]
      /\ answers'[Len(answers) + 1].answer = answer /\ answers'[Len(answers) + 1].request = request
  BY <1>2, <1>4 DEF SessionTypes
<1>9. \A i \in DOMAIN answers : answers[i].answer = "error" => answers[i].request = "addresses"
  BY <1>4 DEF SessionInv, BookInv
<1>10. BookInv'
  <2>1. ASSUME request' # "end" PROVE booked' = <<>> /\ ~aborted' BY <1>3, <1>5, <2>1 DEF Fits
  <2>2. ASSUME request' # "end", NEW i \in DOMAIN answers', answers'[i].answer = "error"
        PROVE  answers'[i].request = "addresses"
    <3>1. answer = "error" => request = "addresses" BY <1>3, <1>5, <2>2 DEF Fits
    <3>2. i \in 1..Len(answers) \/ i = Len(answers) + 1 BY <1>8, <2>2
    <3>3. CASE i \in 1..Len(answers) BY <1>8, <1>9, <2>2, <3>3
    <3>4. CASE i = Len(answers) + 1 BY <1>8, <2>2, <3>1, <3>4
    <3>5. QED BY <3>2, <3>3, <3>4
  <2>3. QED BY <2>1, <2>2 DEF BookInv
<1>11. /\ Answered("ready") => Handshaken
       /\ Handshaken => Handshaken'
  <2>1. Answered("ready") => Handshaken BY DEF SessionInv, ReadyIsHandshaken, Handshaken, FirstVersion
  <2>2. CASE taken' = taken
    <3>1. TakenKind("verack")' <=> TakenKind("verack") BY <2>2 DEF TakenKind
    <3>2. FirstVersion' <=> FirstVersion BY <2>2 DEF FirstVersion
    <3>3. QED BY <2>1, <3>1, <3>2 DEF Handshaken
  <2>3. ASSUME NEW kind \in Kinds, taken' = Append(taken, kind) PROVE Handshaken => Handshaken'
    <3>1. (\A k : TakenKind(k)' <=> (TakenKind(k) \/ k = kind)) /\ (FirstVersion => FirstVersion')
      BY <1>4, <2>3, TakingKeeps
    <3>2. QED BY <3>1 DEF Handshaken
  <2>4. QED BY <2>1, <2>2, <2>3
<1>12. ReadyIsHandshaken'
  <2>1. ASSUME Answered("ready")' PROVE Handshaken'
    <3>1. PICK i \in DOMAIN answers' : answers'[i].answer = "ready" BY <2>1 DEF Answered
    <3>2. CASE i \in 1..Len(answers)
      <4>1. Answered("ready") BY <1>8, <3>1, <3>2 DEF Answered
      <4>2. QED BY <1>11, <4>1
    <3>3. CASE i = Len(answers) + 1
      <4>1. answer = "ready" BY <1>8, <3>1, <3>3
      <4>2. state' = "Ready" BY <4>1
      <4>3. QED BY <4>2 DEF HandshakeInv
    <3>4. i \in 1..Len(answers) \/ i = Len(answers) + 1 BY <1>8, <3>1
    <3>5. QED BY <3>2, <3>3, <3>4
  <2>2. QED BY <2>1 DEF ReadyIsHandshaken, Handshaken, FirstVersion
<1>13. AnswersMatch'
  <2>1. ASSUME NEW i \in DOMAIN answers'
        PROVE  answers'[i].answer \in {"error", Returned[answers'[i].request]}
    <3>1. i \in 1..Len(answers) \/ i = Len(answers) + 1 BY <1>8, <2>1
    <3>2. CASE i \in 1..Len(answers) BY <1>8, <3>2 DEF SessionInv, AnswersMatch
    <3>3. CASE i = Len(answers) + 1 BY <1>8, <3>3
    <3>4. QED BY <3>1, <3>2, <3>3
  <2>2. ASSUME NEW k \in {"headers", "proof", "addr"}
        PROVE  Cardinality({i \in DOMAIN answers' : answers'[i].answer = k})
                 <= Cardinality({i \in DOMAIN taken' : taken'[i] = k})
    <3>1. Cardinality(AnswersOf(k)) <= Cardinality(TakenOf(k))
      BY <2>2 DEF SessionInv, AnswersMatch, AnswersOf, TakenOf
    <3>2. \/ taken' = taken /\ answer # k
          \/ \E kind \in Kinds : taken' = Append(taken, kind) /\ (answer = k => kind = k)
      BY <2>2
    <3>3. Cardinality(AnswersOf(k)') <= Cardinality(TakenOf(k)')
      BY <1>4, <1>8, <3>1, <3>2, MatchGrows
    <3>4. QED BY <3>3 DEF AnswersOf, TakenOf
  <2>3. QED BY <2>1, <2>2 DEF AnswersMatch
<1>14. BookedOnce'
  <2>1. SUFFICES ASSUME request' = "end", caller' \notin Leaving, ~aborted'
        PROVE  LET failed == \E i \in DOMAIN answers' : answers'[i].answer = "error" /\ answers'[i].request # "addresses"
               IN /\ Len(booked') = 1
                  /\ failed => booked'[1] = "transient"
                  /\ booked'[1] \in {"stale", "malformed"} => Answered("headers")'
                  /\ (~failed /\ ~Answered("headers")') => booked'[1] = "success"
    BY DEF BookedOnce
  <2>2. PICK mark \in Marks :
          /\ o.charge = <<mark>> \/ (o.charge = <<>> /\ o.aborted)
          /\ (answer = "error" /\ request # "addresses") => mark = "transient"
          /\ mark \in {"stale", "malformed"} => answer = "headers"
          /\ ((answer = "error" => request = "addresses") /\ answer # "headers") => mark = "success"
    BY <1>2, <1>3, <1>5, <2>1 DEF Fits
  <2>3. booked' = <<mark>> BY <1>5, <2>1, <2>2
  <2>4. Len(booked') = 1 /\ booked'[1] = mark BY <2>3
  <2>5. (\E i \in DOMAIN answers' : answers'[i].answer = "error" /\ answers'[i].request # "addresses")
          <=> (answer = "error" /\ request # "addresses")
    <3>1. ASSUME NEW i \in DOMAIN answers', answers'[i].answer = "error", answers'[i].request # "addresses"
          PROVE  answer = "error" /\ request # "addresses"
      <4>1. i \in 1..Len(answers) \/ i = Len(answers) + 1 BY <1>8, <3>1
      <4>2. i \notin 1..Len(answers) BY <1>8, <1>9, <3>1
      <4>3. QED BY <1>8, <3>1, <4>1, <4>2
    <3>2. Len(answers) + 1 \in DOMAIN answers' BY <1>8
    <3>3. QED BY <1>8, <3>1, <3>2
  <2>6. answer = "headers" => Answered("headers")'
    <3>1. Len(answers) + 1 \in DOMAIN answers' BY <1>8
    <3>2. QED BY <1>8, <3>1 DEF Answered
  <2>7. QED BY <2>2, <2>4, <2>5, <2>6
<1>15. NotTrackedAfterwards' BY DEF NotTrackedAfterwards
<1>16. QED BY <1>6, <1>7, <1>10, <1>12, <1>13, <1>14, <1>15 DEF SessionInv

LEMMA StartHolds == SessionInit => SessionInv
<1> SUFFICES ASSUME SessionInit PROVE SessionInv OBVIOUS
<1>1. SessionTypes
  <2>1. MaxPages \in 0..MaxPages BY PagesAssumption
  <2>2. <<>> \in Seq(Kinds) /\ <<>> \in Seq({"success", "transient", "stale", "malformed"})
        /\ <<>> \in Seq([request : {"handshake", "headers", "proof", "addresses"},
                        answer : {"error", "ready", "headers", "proof", "addr"}])
    OBVIOUS
  <2>3. caller \in Callers /\ 0 \in 0..1 BY DEF SessionInit
  <2>4. QED BY <2>1, <2>2, <2>3 DEF SessionInit, SessionTypes, States
<1>2. HandshakeInv BY DEF SessionInit, HandshakeInv, TakenKind
<1>3. StateOf BY PagesAssumption DEF SessionInit, StateOf
<1>4. BookInv BY DEF SessionInit, BookInv
<1>5. ReadyIsHandshaken /\ BookedOnce /\ NotTrackedAfterwards
  BY DEF SessionInit, ReadyIsHandshaken, Answered, BookedOnce, NotTrackedAfterwards
<1>6. AnswersMatch
  <2>1. ASSUME NEW k PROVE Cardinality(AnswersOf(k)) <= Cardinality(TakenOf(k))
    <3>1. AnswersOf(k) = {} /\ TakenOf(k) = {} BY DEF SessionInit, AnswersOf, TakenOf
    <3>2. QED BY <3>1, FS_EmptySet
  <2>2. \A i \in DOMAIN answers : answers[i].answer \in {"error", Returned[answers[i].request]}
    BY DEF SessionInit
  <2>3. QED BY <2>1, <2>2 DEF AnswersMatch, AnswersOf, TakenOf
<1>7. QED BY <1>1, <1>2, <1>3, <1>4, <1>5, <1>6 DEF SessionInv

\* The handshake is a matter of the session and of the packets taken.
LEMMA StillHandshaken ==
  ASSUME HandshakeInv, UNCHANGED <<state, ack, taken>>
  PROVE  HandshakeInv'
<1>1. \A k : TakenKind(k)' <=> TakenKind(k) BY DEF TakenKind
<1>2. FirstVersion' <=> FirstVersion BY DEF FirstVersion
<1>3. Handshaken' <=> Handshaken BY <1>1, <1>2 DEF Handshaken
<1>4. QED BY <1>1, <1>2, <1>3 DEF HandshakeInv

\* Nothing that is promised speaks of the bytes that wait, nor of a request that goes on.
Promised == <<caller, ahead, request, pagesLeft, answers, booked, aborted>>

\* A step in which no request returns: packets may be taken and the session may move on.
LEMMA GoingOnKeeps ==
  ASSUME SessionInv, UNCHANGED Promised, SessionTypes', HandshakeInv', StateOf',
         taken' = taken \/ \E kind \in Kinds : taken' = Append(taken, kind),
         outstanding' => (waiting' \/ TakenKind("other"))
  PROVE  SessionInv'
<1>1. /\ caller' = caller /\ request' = request /\ answers' = answers /\ booked' = booked /\ aborted' = aborted
  BY DEF Promised
<1>2. /\ Handshaken => Handshaken'
      /\ TakenKind("other") => TakenKind("other")'
      /\ \A k : Cardinality(TakenOf(k)) <= Cardinality(TakenOf(k)')
  <2>1. /\ \A k : IsFiniteSet(TakenOf(k)) /\ Cardinality(TakenOf(k)) \in Nat
        /\ \A k : Cardinality(TakenOf(k) \cup {Len(taken) + 1}) = Cardinality(TakenOf(k)) + 1
    <3>1. Len(taken) \in Nat /\ DOMAIN taken = 1..Len(taken) BY DEF SessionInv, SessionTypes
    <3>2. ASSUME NEW k
          PROVE  /\ IsFiniteSet(TakenOf(k)) /\ Cardinality(TakenOf(k)) \in Nat
                 /\ Cardinality(TakenOf(k) \cup {Len(taken) + 1}) = Cardinality(TakenOf(k)) + 1
      <4>1. TakenOf(k) \subseteq 1..Len(taken) BY <3>1 DEF TakenOf
      <4>2. QED BY <3>1, <4>1, OneMore
    <3>3. QED BY <3>2
  <2>2. ASSUME taken' = taken
        PROVE  /\ Handshaken => Handshaken'
               /\ TakenKind("other") => TakenKind("other")'
               /\ \A k : Cardinality(TakenOf(k)) <= Cardinality(TakenOf(k)')
    <3>1. \A k : TakenKind(k)' <=> TakenKind(k) BY <2>2 DEF TakenKind
    <3>2. FirstVersion' <=> FirstVersion BY <2>2 DEF FirstVersion
    <3>3. \A k : TakenOf(k)' = TakenOf(k) BY <2>2 DEF TakenOf
    <3>4. \A k : Cardinality(TakenOf(k)) <= Cardinality(TakenOf(k)') BY <2>1, <3>3
    <3>5. QED BY <3>1, <3>2, <3>4 DEF Handshaken
  <2>3. ASSUME NEW kind \in Kinds, taken' = Append(taken, kind)
        PROVE  /\ Handshaken => Handshaken'
               /\ TakenKind("other") => TakenKind("other")'
               /\ \A k : Cardinality(TakenOf(k)) <= Cardinality(TakenOf(k)')
    <3>1. (\A k : TakenKind(k)' <=> (TakenKind(k) \/ k = kind)) /\ (FirstVersion => FirstVersion')
      BY <2>3, TakingKeeps DEF SessionInv
    <3>2. ASSUME NEW k PROVE Cardinality(TakenOf(k)) <= Cardinality(TakenOf(k)')
      <4>1. /\ Len(taken) \in Nat /\ DOMAIN taken = 1..Len(taken) /\ DOMAIN taken' = 1..(Len(taken) + 1)
            /\ \A i \in 1..Len(taken) : taken'[i] = taken[i]
            /\ taken'[Len(taken) + 1] = kind
        <5>1. taken \in Seq(Kinds) BY DEF SessionInv, SessionTypes
        <5>2. QED BY <2>3, <5>1
      <4>2. \A i : i \in 1..(Len(taken) + 1) <=> (i \in 1..Len(taken) \/ i = Len(taken) + 1) BY <4>1
      <4>3. TakenOf(k)' = IF kind = k THEN TakenOf(k) \cup {Len(taken) + 1} ELSE TakenOf(k)
        BY <4>1, <4>2 DEF TakenOf
      <4>4. Cardinality(TakenOf(k)') = IF kind = k THEN Cardinality(TakenOf(k)) + 1 ELSE Cardinality(TakenOf(k))
        BY <2>1, <4>3
      <4>5. Cardinality(TakenOf(k)) \in Nat BY <2>1
      <4>6. QED BY <4>4, <4>5
    <3>3. QED BY <3>1, <3>2 DEF Handshaken
  <2>4. QED BY <2>2, <2>3
<1>3. BookInv' BY <1>1 DEF SessionInv, BookInv
<1>4. ReadyIsHandshaken'
  <2>1. Answered("ready")' => Answered("ready") BY <1>1 DEF Answered
  <2>2. Answered("ready") => Handshaken BY DEF SessionInv, ReadyIsHandshaken, Handshaken, FirstVersion
  <2>3. Answered("ready")' => Handshaken' BY <1>2, <2>1, <2>2
  <2>4. QED BY <2>3 DEF ReadyIsHandshaken, Handshaken, FirstVersion
<1>5. AnswersMatch'
  <2>1. \A i \in DOMAIN answers' : answers'[i].answer \in {"error", Returned[answers'[i].request]}
    BY <1>1 DEF SessionInv, AnswersMatch
  <2>2. ASSUME NEW k \in {"headers", "proof", "addr"}
        PROVE  Cardinality(AnswersOf(k)') <= Cardinality(TakenOf(k)')
    <3>1. Cardinality(AnswersOf(k)) <= Cardinality(TakenOf(k))
      BY <2>2 DEF SessionInv, AnswersMatch, AnswersOf, TakenOf
    <3>2. AnswersOf(k)' = AnswersOf(k) BY <1>1 DEF AnswersOf
    <3>3. Cardinality(TakenOf(k)) <= Cardinality(TakenOf(k)') BY <1>2
    <3>4. /\ Cardinality(AnswersOf(k)) \in Nat /\ Cardinality(TakenOf(k)) \in Nat
          /\ Cardinality(TakenOf(k)') \in Nat
      <4>1. /\ Len(answers) \in Nat /\ AnswersOf(k) \subseteq 1..Len(answers)
            /\ Len(taken) \in Nat /\ TakenOf(k) \subseteq 1..Len(taken)
            /\ Len(taken') \in Nat /\ TakenOf(k)' \subseteq 1..Len(taken')
        BY DEF SessionInv, SessionTypes, AnswersOf, TakenOf
      <4>2. QED BY <4>1, OneMore
    <3>5. QED BY <3>1, <3>2, <3>3, <3>4
  <2>3. QED BY <2>1, <2>2 DEF AnswersMatch, AnswersOf, TakenOf
<1>6. BookedOnce' BY <1>1 DEF SessionInv, BookedOnce, Answered
<1>7. NotTrackedAfterwards' BY <1>2 DEF NotTrackedAfterwards
<1>8. QED BY <1>3, <1>4, <1>5, <1>6, <1>7 DEF SessionInv

LEMMA ConnectKeeps == SessionInv /\ ConnectFails => SessionInv'
<1> SUFFICES ASSUME SessionInv, ConnectFails PROVE SessionInv' OBVIOUS
<1>1. /\ request = "handshake" /\ ~waiting /\ Returns("error")
      /\ UNCHANGED <<outstanding, state, ack, remote, buffer, garbled, pending, taken>>
  BY DEF ConnectFails, session, wire
<1>2. HandshakeInv' BY <1>1, StillHandshaken DEF SessionInv
<1>3. outstanding' => TakenKind("other")' BY <1>1 DEF SessionInv, NotTrackedAfterwards, TakenKind
<1>4. request \in RequestKinds BY <1>1 DEF RequestKinds
<1>5. SessionTypes BY DEF SessionInv
<1>6. /\ state' \in States /\ ack' \in BOOLEAN /\ remote' \in BOOLEAN /\ buffer' \in 0..1
      /\ garbled' \in BOOLEAN /\ pending' \in Seq(Kinds) /\ outstanding' \in BOOLEAN
  BY <1>1, <1>5 DEF SessionTypes
<1>7. QED BY <1>1, <1>2, <1>3, <1>4, <1>6, ReturnKeeps

\* Steps that leave the session and the packets taken alone and return an error.
LEMMA ErrorKeeps ==
  ASSUME SessionInv, request \in RequestKinds, Returns("error"),
         UNCHANGED <<ack, remote, taken>>, buffer' \in 0..1, garbled' \in BOOLEAN, pending' \in Seq(Kinds),
         state' \in States, HandshakeInv', request = "addresses" => state' = "Ready",
         outstanding' \in BOOLEAN, outstanding' => TakenKind("other")
  PROVE  SessionInv'
<1>1. SessionTypes BY DEF SessionInv
<1>2. ack' \in BOOLEAN /\ remote' \in BOOLEAN BY <1>1 DEF SessionTypes
<1>3. outstanding' => TakenKind("other")' BY DEF TakenKind
<1>4. QED BY <1>2, <1>3, ReturnKeeps

LEMMA RequestOfSessionKeeps == SessionInv /\ RequestOfSession => SessionInv'
<1> SUFFICES ASSUME SessionInv, RequestOfSession PROVE SessionInv' OBVIOUS
<1>1. /\ ~waiting /\ request \in {"headers", "proof"}
      /\ UNCHANGED <<ack, remote, buffer, garbled, pending, taken>>
  BY DEF RequestOfSession, wire
<1>2. SessionTypes /\ HandshakeInv /\ StateOf /\ NotTrackedAfterwards BY DEF SessionInv
<1>3. state = "Ready" BY <1>1, <1>2 DEF StateOf
<1>4. /\ SendRequest
      /\ state' = IF request = "headers" THEN "HeadersRequested" ELSE "ProofRequested"
      /\ outstanding' = (request = "proof" /\ waiting')
  BY <1>3 DEF RequestOfSession
<1>5. HandshakeInv'
  <2>1. \A k : TakenKind(k)' <=> TakenKind(k) BY <1>1 DEF TakenKind
  <2>2. FirstVersion' <=> FirstVersion BY <1>1 DEF FirstVersion
  <2>3. Handshaken' BY <1>2, <1>3, <2>1, <2>2 DEF HandshakeInv, Handshaken
  <2>4. state' \in {"HeadersRequested", "ProofRequested"} BY <1>4
  <2>5. QED BY <1>1, <1>2, <2>1, <2>3, <2>4 DEF HandshakeInv
<1>6. /\ state' \in States /\ ack' \in BOOLEAN /\ remote' \in BOOLEAN /\ buffer' \in 0..1
      /\ garbled' \in BOOLEAN /\ pending' \in Seq(Kinds) /\ taken' \in Seq(Kinds)
  <2>1. state' \in States BY <1>4 DEF States
  <2>2. QED BY <1>1, <1>2, <2>1 DEF SessionTypes
<1>7. ASSUME waiting' = TRUE, UNCHANGED <<caller, ahead, request, pagesLeft, answers, booked, aborted>>
      PROVE  SessionInv'
  <2>1. outstanding' \in BOOLEAN BY <1>4, <1>7
  <2>2. SessionTypes' BY <1>2, <1>6, <1>7, <2>1 DEF SessionTypes
  <2>3. StateOf' BY <1>1, <1>2, <1>4, <1>7 DEF StateOf
  <2>4. UNCHANGED Promised BY <1>7 DEF Promised
  <2>5. QED BY <1>1, <1>5, <1>7, <2>2, <2>3, <2>4, GoingOnKeeps
<1>8. ASSUME Returns("error") PROVE SessionInv'
  <2>1. waiting' = FALSE BY <1>8 DEF Returns
  <2>2. outstanding' = FALSE BY <1>4, <2>1
  <2>3. request \in RequestKinds /\ request # "addresses" BY <1>1 DEF RequestKinds
  <2>4. QED BY <1>1, <1>5, <1>6, <1>8, <2>2, <2>3, ErrorKeeps
<1>9. QED BY <1>4, <1>7, <1>8 DEF SendRequest

LEMMA RequestOfPeerKeeps == SessionInv /\ RequestOfPeer => SessionInv'
<1> SUFFICES ASSUME SessionInv, RequestOfPeer PROVE SessionInv' OBVIOUS
<1>1. /\ ~waiting /\ request \in {"handshake", "addresses"} /\ SendRequest
      /\ UNCHANGED <<outstanding, state, ack, remote, buffer, garbled, pending, taken>>
  BY DEF RequestOfPeer, session, wire
<1>2. SessionTypes /\ HandshakeInv /\ StateOf /\ NotTrackedAfterwards BY DEF SessionInv
<1>3. HandshakeInv' BY <1>1, <1>2, StillHandshaken
<1>4. /\ state' \in States /\ ack' \in BOOLEAN /\ remote' \in BOOLEAN /\ buffer' \in 0..1
      /\ garbled' \in BOOLEAN /\ pending' \in Seq(Kinds) /\ taken' \in Seq(Kinds) /\ outstanding' \in BOOLEAN
  BY <1>1, <1>2 DEF SessionTypes
<1>5. outstanding' => TakenKind("other") BY <1>1, <1>2 DEF NotTrackedAfterwards
<1>6. request = "addresses" => state' = "Ready" BY <1>1, <1>2 DEF StateOf
<1>7. ASSUME waiting' = TRUE, UNCHANGED <<caller, ahead, request, pagesLeft, answers, booked, aborted>>
      PROVE  SessionInv'
  <2>1. SessionTypes' BY <1>2, <1>4, <1>7 DEF SessionTypes
  <2>2. StateOf' BY <1>1, <1>2, <1>7 DEF StateOf
  <2>3. UNCHANGED Promised BY <1>7 DEF Promised
  <2>4. QED BY <1>1, <1>3, <1>5, <2>1, <2>2, <2>3, GoingOnKeeps
<1>8. ASSUME Returns("error") PROVE SessionInv'
  <2>1. request \in RequestKinds BY <1>1 DEF RequestKinds
  <2>2. QED BY <1>1, <1>3, <1>4, <1>5, <1>6, <1>8, <2>1, ErrorKeeps
<1>9. QED BY <1>1, <1>7, <1>8 DEF SendRequest

LEMMA FeedKeeps == SessionInv /\ Feed => SessionInv'
<1> SUFFICES ASSUME SessionInv, Feed PROVE SessionInv' OBVIOUS
<1>1. /\ waiting
      /\ UNCHANGED <<caller, ahead, request, waiting, pagesLeft, answers, booked, aborted, outstanding>>
      /\ UNCHANGED <<state, ack, remote, garbled, taken>>
  BY DEF Feed, conduct, session
<1>2. SessionTypes /\ HandshakeInv /\ StateOf BY DEF SessionInv
<1>3. PICK pieces \in 1..3 : /\ pending' \in [1..((buffer + pieces) \div 2) -> Kinds]
                             /\ buffer' = (buffer + pieces) % 2
  BY DEF Feed
<1>4. pending' \in Seq(Kinds) /\ buffer' \in 0..1
  <2>1. buffer \in {0, 1} /\ pieces \in {1, 2, 3} BY <1>2, <1>3 DEF SessionTypes
  <2>2. (buffer + pieces) \div 2 \in Nat /\ (buffer + pieces) % 2 \in 0..1 BY <2>1
  <2>3. QED BY <1>3, <2>2
<1>5. HandshakeInv' BY <1>1, <1>2, StillHandshaken
<1>6. SessionTypes' BY <1>1, <1>2, <1>4 DEF SessionTypes
<1>7. StateOf' BY <1>1, <1>2 DEF StateOf
<1>8. UNCHANGED Promised BY <1>1 DEF Promised
<1>9. QED BY <1>1, <1>5, <1>6, <1>7, <1>8, GoingOnKeeps

LEMMA WaitingForSome == ASSUME SessionInv, waiting PROVE request \in RequestKinds
<1>1. SessionTypes /\ StateOf BY DEF SessionInv
<1>2. QED BY <1>1 DEF SessionTypes, StateOf, RequestKinds

LEMMA ReceiveFailsKeeps == SessionInv /\ ReceiveFails => SessionInv'
<1> SUFFICES ASSUME SessionInv, ReceiveFails PROVE SessionInv' OBVIOUS
<1>1. /\ waiting /\ Returns("error") /\ outstanding' = FALSE /\ garbled' \in {garbled, TRUE}
      /\ UNCHANGED <<state, ack, remote, buffer, pending, taken>>
  BY DEF ReceiveFails, session
<1>2. SessionTypes /\ HandshakeInv /\ StateOf BY DEF SessionInv
<1>3. HandshakeInv' BY <1>1, <1>2, StillHandshaken
<1>4. /\ state' \in States /\ buffer' \in 0..1 /\ garbled' \in BOOLEAN /\ pending' \in Seq(Kinds)
      /\ outstanding' \in BOOLEAN
  BY <1>1, <1>2 DEF SessionTypes
<1>5. request \in RequestKinds BY <1>1, WaitingForSome
<1>6. request = "addresses" => state' = "Ready" BY <1>1, <1>2 DEF StateOf
<1>7. QED BY <1>1, <1>3, <1>4, <1>5, <1>6, ErrorKeeps

\* What the session makes of a packet: it moves on only for the packet its state is after.
Moves(kind, r) ==
  \/ state = "AwaitingVersion" /\ kind = "weak" /\ r.state = "Closed" /\ r.ack = ack /\ r.actions = <<"disconnect">>
  \/ state = "AwaitingVersion" /\ kind = "version" /\ ack /\ r.state = "Ready" /\ r.ack = ack /\ r.actions = <<"send", "ready">>
  \/ state = "AwaitingVersion" /\ kind = "version" /\ ~ack /\ r.state = "AwaitingVerack" /\ r.ack = ack /\ r.actions = <<"send">>
  \/ state = "AwaitingVersion" /\ kind = "verack" /\ r.state = "AwaitingVersion" /\ r.ack = TRUE /\ r.actions = <<>>
  \/ state = "AwaitingVerack" /\ kind = "verack" /\ r.state = "Ready" /\ r.ack = TRUE /\ r.actions = <<"ready">>
  \/ state = "HeadersRequested" /\ kind = "headers" /\ r.state = "Ready" /\ r.ack = ack /\ r.actions = <<"headers">>
  \/ state = "ProofRequested" /\ kind = "proof" /\ r.state = "Ready" /\ r.ack = ack /\ r.actions = <<"proof">>
  \/ state = "ProofRequested" /\ kind = "other" /\ r.state = "Ready" /\ r.ack = ack /\ r.actions = <<"other">>
Stays(kind, r) ==
  /\ r.state = state /\ r.ack = ack
  /\ r.actions \in {<<>>, <<"send">>, <<"disconnect">>} /\ (kind \in {"version", "weak"} => state # "AwaitingVersion")

LEMMA ResultIs ==
  ASSUME NEW st, NEW a, NEW b, NEW actions, NEW r, r = Result(st, a, b, actions)
  PROVE  r.state = st /\ r.ack = a /\ r.remote = b /\ r.actions = actions
BY DEF Result

LEMMA SessionReacts ==
  ASSUME SessionTypes, NEW kind \in Kinds, NEW r, r = OnPacket(kind)
  PROVE  (Moves(kind, r) \/ Stays(kind, r)) /\ r.remote \in BOOLEAN
<1>1. state \in States /\ ack \in BOOLEAN /\ remote \in BOOLEAN BY DEF SessionTypes
<1>2. CASE state = "AwaitingVersion" /\ kind \in {"version", "weak"}
  <2>1. r = OnVersion(kind) BY <1>2 DEF OnPacket
  <2>2. CASE kind = "weak"
    <3>1. r = Result("Closed", ack, remote, <<"disconnect">>) BY <2>1, <2>2 DEF OnVersion
    <3>2. QED BY <1>1, <1>2, <2>2, <3>1, ResultIs DEF Moves
  <2>3. CASE kind = "version" /\ ack
    <3>1. r = Result("Ready", ack, TRUE, <<"send", "ready">>) BY <2>1, <2>3 DEF OnVersion
    <3>2. r.state = "Ready" /\ r.ack = ack /\ r.remote = TRUE /\ r.actions = <<"send", "ready">>
      BY <3>1 DEF Result
    <3>3. QED BY <1>1, <1>2, <2>3, <3>2 DEF Moves
  <2>4. CASE kind = "version" /\ ~ack
    <3>1. r = Result("AwaitingVerack", ack, TRUE, <<"send">>) BY <2>1, <2>4 DEF OnVersion
    <3>2. r.state = "AwaitingVerack" /\ r.ack = ack /\ r.remote = TRUE /\ r.actions = <<"send">>
      BY <3>1 DEF Result
    <3>3. QED BY <1>1, <1>2, <2>4, <3>2 DEF Moves
  <2>5. QED BY <1>2, <2>2, <2>3, <2>4
<1>3. CASE state = "AwaitingVersion" /\ kind = "verack"
  <2>1. r = Result(state, TRUE, remote, <<>>) BY <1>3 DEF OnPacket
  <2>2. r.state = state /\ r.ack = TRUE /\ r.remote = remote /\ r.actions = <<>> BY <2>1 DEF Result
  <2>3. QED BY <1>1, <1>3, <2>2 DEF Moves
<1>4. CASE state = "AwaitingVerack" /\ kind = "verack"
  <2>1. r = Result("Ready", TRUE, remote, <<"ready">>) BY <1>4 DEF OnPacket
  <2>2. r.state = "Ready" /\ r.ack = TRUE /\ r.remote = remote /\ r.actions = <<"ready">> BY <2>1 DEF Result
  <2>3. QED BY <1>1, <1>4, <2>2 DEF Moves
<1>5. CASE state = "HeadersRequested" /\ kind = "headers"
  <2>1. r = Result("Ready", ack, remote, <<"headers">>) BY <1>5 DEF OnPacket
  <2>2. QED BY <1>1, <1>5, <2>1, ResultIs DEF Moves
<1>6. CASE state = "ProofRequested" /\ kind \in {"proof", "other"}
  <2>1. r = Result("Ready", ack, remote, <<kind>>) BY <1>6 DEF OnPacket
  <2>2. QED BY <1>1, <1>6, <2>1, ResultIs DEF Moves
<1>7. CASE /\ ~(state = "AwaitingVersion" /\ kind \in {"version", "weak", "verack"})
           /\ ~(state = "AwaitingVerack" /\ kind = "verack")
           /\ ~(state = "HeadersRequested" /\ kind = "headers")
           /\ ~(state = "ProofRequested" /\ kind \in {"proof", "other"})
  <2>1. \E actions \in {<<>>, <<"send">>, <<"disconnect">>} : r = Result(state, ack, remote, actions)
    BY <1>7 DEF OnPacket, Same
  <2>2. QED BY <1>1, <1>7, <2>1, ResultIs DEF Stays
<1>8. QED BY <1>2, <1>3, <1>4, <1>5, <1>6, <1>7

LEMMA ReactionKeepsHandshake ==
  ASSUME SessionTypes, HandshakeInv, NEW kind \in Kinds, NEW r,
         Moves(kind, r) \/ (r.state = state /\ r.ack = ack /\ (kind \in {"version", "weak"} => state # "AwaitingVersion")),
         state' = r.state, ack' = r.ack, taken' = Append(taken, kind)
  PROVE  HandshakeInv' /\ state' \in States /\ ack' \in BOOLEAN
<1>1. /\ \A k : TakenKind(k)' <=> (TakenKind(k) \/ k = kind)
      /\ FirstVersion => FirstVersion'
      /\ (~TakenKind("version") /\ ~TakenKind("weak") /\ kind = "version") => FirstVersion'
  BY TakingKeeps
<1>2. Handshaken => Handshaken' BY <1>1 DEF Handshaken
<1>3. CASE r.state = state /\ r.ack = ack /\ (kind \in {"version", "weak"} => state # "AwaitingVersion")
  BY <1>1, <1>2, <1>3 DEF HandshakeInv, SessionTypes
<1>4. CASE Moves(kind, r)
  <2>1. state' \in States /\ ack' \in BOOLEAN BY <1>4 DEF Moves, States, SessionTypes
  <2>2. ack' => TakenKind("verack")' BY <1>1, <1>4 DEF Moves, HandshakeInv
  <2>3. state' = "AwaitingVersion" => ~TakenKind("version")' /\ ~TakenKind("weak")'
    BY <1>1, <1>4 DEF Moves, HandshakeInv
  <2>4. state' = "AwaitingVerack" => FirstVersion' BY <1>1, <1>4 DEF Moves, HandshakeInv
  <2>5. ASSUME state' \in {"Ready", "HeadersRequested", "ProofRequested"} PROVE Handshaken'
    <3>1. CASE state = "AwaitingVersion"
      <4>1. kind = "version" /\ ack BY <1>4, <2>5, <3>1 DEF Moves
      <4>2. QED BY <1>1, <3>1, <4>1 DEF HandshakeInv, Handshaken
    <3>2. CASE state = "AwaitingVerack"
      <4>1. kind = "verack" BY <1>4, <3>2 DEF Moves
      <4>2. QED BY <1>1, <3>2, <4>1 DEF HandshakeInv, Handshaken
    <3>3. CASE state \notin {"AwaitingVersion", "AwaitingVerack"}
      <4>1. state \in {"HeadersRequested", "ProofRequested"} BY <1>4, <3>3 DEF Moves
      <4>2. QED BY <1>2, <4>1 DEF HandshakeInv
    <3>4. QED BY <3>1, <3>2, <3>3
  <2>6. QED BY <2>1, <2>2, <2>3, <2>4, <2>5 DEF HandshakeInv
<1>5. QED BY <1>3, <1>4

\* The last action decides what becomes of the request.
Last(actions) == IF actions = <<>> THEN "send" ELSE actions[Len(actions)]

\* A packet of the handshake, of the headers or of the proof.
LEMMA LastIs ==
  ASSUME SessionInv, waiting, request # "addresses", NEW kind \in Kinds, NEW r,
         Moves(kind, r) \/ Stays(kind, r), NEW last, last = Last(r.actions)
  PROVE  /\ last = Returned[request] => r.state = "Ready"
         /\ last = "send" =>
              /\ request = "handshake" => r.state \in {"AwaitingVersion", "AwaitingVerack"}
              /\ request # "handshake" => r.state = state
         /\ last \in {"headers", "proof", "addr", "other"} => kind = last
<1>1. /\ <<>> = <<>> /\ Last(<<>>) = "send" /\ Last(<<"send">>) = "send" /\ Last(<<"disconnect">>) = "disconnect"
      /\ Last(<<"send", "ready">>) = "ready" /\ Last(<<"ready">>) = "ready" /\ Last(<<"headers">>) = "headers"
      /\ Last(<<"proof">>) = "proof" /\ Last(<<"other">>) = "other"
  BY DEF Last
<1>2. request \in {"handshake", "headers", "proof"} BY WaitingForSome DEF RequestKinds
<1>3. /\ request = "handshake" => state \in {"AwaitingVersion", "AwaitingVerack"}
      /\ request = "headers" => state = "HeadersRequested"
      /\ request = "proof" => state = "ProofRequested"
  BY <1>2 DEF SessionInv, StateOf
<1>4. Returned[request] \in {"ready", "headers", "proof"} BY <1>2 DEF Returned
<1>5. CASE Stays(kind, r)
  <2>1. last \in {"send", "disconnect"} BY <1>1, <1>5 DEF Stays
  <2>2. QED BY <1>2, <1>3, <1>4, <1>5, <2>1 DEF Stays
<1>6. CASE Moves(kind, r)
  <2>1. CASE state = "AwaitingVersion"
    <3>1. request = "handshake" BY <1>2, <1>3, <2>1
    <3>2. QED BY <1>1, <1>4, <1>6, <2>1, <3>1 DEF Moves
  <2>2. CASE state = "AwaitingVerack"
    <3>1. last = "ready" /\ r.state = "Ready" BY <1>1, <1>6, <2>2 DEF Moves
    <3>2. QED BY <3>1
  <2>3. CASE state = "HeadersRequested"
    <3>1. last = "headers" /\ kind = "headers" /\ r.state = "Ready" BY <1>1, <1>6, <2>3 DEF Moves
    <3>2. QED BY <3>1
  <2>4. CASE state = "ProofRequested"
    <3>1. last = kind /\ kind \in {"proof", "other"} /\ r.state = "Ready" BY <1>1, <1>6, <2>4 DEF Moves
    <3>2. QED BY <3>1
  <2>5. QED BY <1>2, <1>3, <2>1, <2>2, <2>3, <2>4
<1>7. QED BY <1>5, <1>6

LEMMA AddressReacts ==
  ASSUME SessionTypes, NEW kind \in Kinds, NEW r, r = OnAddressPacket(kind), NEW last, last = Last(r.actions)
  PROVE  /\ r.state = state /\ r.ack = ack /\ r.remote \in BOOLEAN
         /\ last \in {"addr", "send", "unexpected"} /\ (last = "addr" => kind = "addr")
<1>1. remote \in BOOLEAN BY DEF SessionTypes
<1>2. CASE kind = "addr"
  <2>1. r = Result(state, ack, remote, <<"addr">>) BY <1>2 DEF OnAddressPacket, Same
  <2>2. r.actions = <<"addr">> BY <2>1, ResultIs
  <2>3. last = "addr" BY <2>2 DEF Last
  <2>4. QED BY <1>1, <1>2, <2>1, <2>3, ResultIs
<1>3. CASE kind = "ping"
  <2>1. r = Result(state, ack, remote, <<"send">>) BY <1>3 DEF OnAddressPacket, Same
  <2>2. r.actions = <<"send">> BY <2>1, ResultIs
  <2>3. last = "send" BY <2>2 DEF Last
  <2>4. QED BY <1>1, <2>1, <2>3, ResultIs
<1>4. CASE kind \in {"ignored", "verack"}
  <2>1. r = Result(state, ack, remote, <<>>) BY <1>4 DEF OnAddressPacket, Same
  <2>2. r.actions = <<>> BY <2>1, ResultIs
  <2>3. last = "send" BY <2>2 DEF Last
  <2>4. QED BY <1>1, <2>1, <2>3, ResultIs
<1>5. CASE kind \notin {"addr", "ping", "ignored", "verack"}
  <2>1. r = Result(state, ack, remote, <<"unexpected">>) BY <1>5 DEF OnAddressPacket, Same
  <2>2. r.actions = <<"unexpected">> BY <2>1, ResultIs
  <2>3. last = "unexpected" BY <2>2 DEF Last
  <2>4. QED BY <1>1, <2>1, <2>3, ResultIs
<1>6. QED BY <1>2, <1>3, <1>4, <1>5

LEMMA ReceiveKeeps == SessionInv /\ Receive => SessionInv'
<1> SUFFICES ASSUME SessionInv, Receive PROVE SessionInv' OBVIOUS
<1>1. waiting /\ pending # <<>> /\ UNCHANGED <<buffer, garbled>> BY DEF Receive
<1>2. SessionTypes /\ HandshakeInv /\ StateOf BY DEF SessionInv
<1>3. request \in RequestKinds BY <1>1, WaitingForSome
<1>4. PICK kind : kind = Head(pending) OBVIOUS
<1>5. PICK r : r = IF request = "addresses" THEN OnAddressPacket(kind) ELSE OnPacket(kind) OBVIOUS
<1>6. PICK last : last = Last(r.actions) OBVIOUS
<1>7. /\ state' = r.state /\ ack' = r.ack /\ remote' = r.remote
      /\ \/ Returns("error") /\ outstanding' = FALSE
         \/ last = "send" /\ UNCHANGED conduct
         \/ /\ last = Returned[request] /\ outstanding' = FALSE
            /\ Returns(IF last # "ready" \/ r.remote THEN last ELSE "error")
         \/ Returns("error") /\ outstanding' = (outstanding /\ last = "other")
      /\ pending' = Tail(pending) /\ taken' = Append(taken, kind)
  BY <1>4, <1>5, <1>6 DEF Receive, Last
<1>8. kind \in Kinds /\ pending' \in Seq(Kinds) BY <1>1, <1>2, <1>4, <1>7 DEF SessionTypes
<1>9. buffer' \in 0..1 /\ garbled' \in BOOLEAN BY <1>1, <1>2 DEF SessionTypes
<1>10. /\ r.remote \in BOOLEAN /\ HandshakeInv' /\ state' \in States /\ ack' \in BOOLEAN
       /\ request = "addresses" => state' = "Ready"
       /\ last = Returned[request] => state' = "Ready"
       /\ last = "send" =>
            /\ request = "handshake" => state' \in {"AwaitingVersion", "AwaitingVerack"}
            /\ request # "handshake" => state' = state
       /\ last \in {"headers", "proof", "addr", "other"} => kind = last
  <2>1. CASE request = "addresses"
    <3>1. /\ r.state = state /\ r.ack = ack /\ r.remote \in BOOLEAN
          /\ last \in {"addr", "send", "unexpected"} /\ (last = "addr" => kind = "addr")
      BY <1>2, <1>5, <1>6, <1>8, <2>1, AddressReacts
    <3>2. state = "Ready" BY <1>2, <2>1 DEF StateOf
    <3>3. HandshakeInv' /\ state' \in States /\ ack' \in BOOLEAN
      BY <1>2, <1>7, <1>8, <3>1, <3>2, ReactionKeepsHandshake
    <3>4. QED BY <1>7, <2>1, <3>1, <3>2, <3>3
  <2>2. CASE request # "addresses"
    <3>1. (Moves(kind, r) \/ Stays(kind, r)) /\ r.remote \in BOOLEAN
      BY <1>2, <1>5, <1>8, <2>2, SessionReacts
    <3>2. HandshakeInv' /\ state' \in States /\ ack' \in BOOLEAN
      BY <1>2, <1>7, <1>8, <3>1, ReactionKeepsHandshake DEF Stays
    <3>3. /\ last = Returned[request] => r.state = "Ready"
          /\ last = "send" =>
               /\ request = "handshake" => r.state \in {"AwaitingVersion", "AwaitingVerack"}
               /\ request # "handshake" => r.state = state
          /\ last \in {"headers", "proof", "addr", "other"} => kind = last
      BY <1>1, <1>6, <1>8, <2>2, <3>1, LastIs
    <3>4. QED BY <1>7, <2>2, <3>1, <3>2, <3>3
  <2>3. QED BY <2>1, <2>2
<1>11. remote' \in BOOLEAN BY <1>7, <1>10
<1>12. \A k : TakenKind(k)' <=> (TakenKind(k) \/ k = kind) BY <1>2, <1>7, <1>8, TakingKeeps
<1>13. ASSUME Returns("error"), outstanding' \in BOOLEAN, outstanding' => TakenKind("other")' PROVE SessionInv'
  <2>1. \E k \in Kinds : taken' = Append(taken, k) /\ ("error" \in {"headers", "proof", "addr"} => k = "error")
    BY <1>7, <1>8
  <2>2. QED BY <1>3, <1>8, <1>9, <1>10, <1>11, <1>13, <2>1, ReturnKeeps
<1>14. ASSUME last = "send", UNCHANGED conduct PROVE SessionInv'
  <2>1. UNCHANGED <<caller, ahead, request, waiting, pagesLeft, answers, booked, aborted, outstanding>>
    BY <1>14 DEF conduct
  <2>2. taken' \in Seq(Kinds) BY <1>2, <1>7, <1>8 DEF SessionTypes
  <2>3. SessionTypes' BY <1>2, <1>8, <1>9, <1>10, <1>11, <2>1, <2>2 DEF SessionTypes
  <2>4. StateOf' BY <1>1, <1>2, <1>10, <1>14, <2>1 DEF StateOf
  <2>5. UNCHANGED Promised BY <2>1 DEF Promised
  <2>6. QED BY <1>1, <1>7, <1>8, <1>10, <2>1, <2>3, <2>4, <2>5, GoingOnKeeps
<1>15. ASSUME last = Returned[request], outstanding' = FALSE, Returns(last) PROVE SessionInv'
  <2>1. \E k \in Kinds : taken' = Append(taken, k) /\ (last \in {"headers", "proof", "addr"} => k = last)
    BY <1>7, <1>8, <1>10
  <2>2. QED BY <1>3, <1>8, <1>9, <1>10, <1>11, <1>15, <2>1, ReturnKeeps
<1>16. ASSUME Returns("error"), outstanding' = (outstanding /\ last = "other") PROVE SessionInv'
  <2>1. outstanding' => TakenKind("other")' BY <1>10, <1>12, <1>16
  <2>2. QED BY <1>13, <1>16, <2>1
<1>17. ASSUME Returns("error"), outstanding' = FALSE PROVE SessionInv' BY <1>13, <1>17
<1>18. QED BY <1>7, <1>14, <1>15, <1>16, <1>17

\* Waiting or not, nothing changes.
LEMMA StutterKeeps == SessionInv /\ UNCHANGED sessionVars => SessionInv'
<1> SUFFICES ASSUME SessionInv, UNCHANGED sessionVars PROVE SessionInv' OBVIOUS
<1>1. UNCHANGED <<caller, ahead, request, waiting, pagesLeft, answers, booked, aborted, outstanding,
                  state, ack, remote, buffer, garbled, pending, taken>>
  BY DEF sessionVars, conduct, session, wire
<1>2. SessionTypes /\ HandshakeInv /\ StateOf /\ NotTrackedAfterwards BY DEF SessionInv
<1>3. HandshakeInv' BY <1>1, <1>2, StillHandshaken
<1>4. SessionTypes' BY <1>1, <1>2 DEF SessionTypes
<1>5. StateOf' BY <1>1, <1>2 DEF StateOf
<1>6. UNCHANGED Promised BY <1>1 DEF Promised
<1>7. outstanding' => (waiting' \/ TakenKind("other")) BY <1>1, <1>2 DEF NotTrackedAfterwards
<1>8. QED BY <1>1, <1>3, <1>4, <1>5, <1>6, <1>7, GoingOnKeeps

LEMMA PromisesFollow == SessionInv => SessionSafety
<1> SUFFICES ASSUME SessionInv PROVE SessionSafety OBVIOUS
<1>1. SessionTypes /\ StateOf BY DEF SessionInv
<1>2. ReadyBetweenRequests
  <2>1. SUFFICES ASSUME answers # <<>>, request # "end", ~waiting PROVE state = "Ready" BY DEF ReadyBetweenRequests
  <2>2. request \in {"headers", "proof", "addresses"} BY <1>1, <2>1 DEF SessionTypes, StateOf
  <2>3. QED BY <1>1, <2>1, <2>2 DEF StateOf
<1>3. QED BY <1>2 DEF SessionInv, SessionSafety

\* A conversation with a peer that sends anything, in any pieces and at any time,
\* succeeds only with a peer that shook hands, matches each answer with a packet
\* of its own, is ready between requests, books the peer once and tracks no proof
\* afterwards (PeerConnection and HeaderSyncSession of hns-p2p, sync_peer and the
\* other callers of hns-sync).
THEOREM SessionSafe == SessionSpec => []SessionSafety
<1>1. SessionInit => SessionInv BY StartHolds
<1>2. SessionInv /\ [SessionNext]_sessionVars => SessionInv'
  <2> SUFFICES ASSUME SessionInv, [SessionNext]_sessionVars PROVE SessionInv' OBVIOUS
  <2>1. CASE ConnectFails BY <2>1, ConnectKeeps
  <2>2. CASE RequestOfSession BY <2>2, RequestOfSessionKeeps
  <2>3. CASE RequestOfPeer BY <2>3, RequestOfPeerKeeps
  <2>4. CASE Feed BY <2>4, FeedKeeps
  <2>5. CASE ReceiveFails BY <2>5, ReceiveFailsKeeps
  <2>6. CASE Receive BY <2>6, ReceiveKeeps
  <2>7. CASE UNCHANGED sessionVars BY <2>7, StutterKeeps
  <2>8. QED BY <2>1, <2>2, <2>3, <2>4, <2>5, <2>6, <2>7 DEF SessionNext
<1>3. SessionInv => SessionSafety BY PromisesFollow
<1>4. QED BY <1>1, <1>2, <1>3, PTL DEF SessionSpec

----------------------------------------------------------------------------
(***************************************************************************)
(* HeaderSync                                                              *)
(***************************************************************************)

\* Every non-empty set of numbers has a least one: induction over numbers, with
\* the set of counterexamples in place of a predicate.
LEMMA LeastNumber ==
  ASSUME NEW S \in SUBSET Nat, S # {}
  PROVE  \E x \in S : \A y \in S : x <= y
<1>1. \E R : IsWellFoundedOn(R, Nat) /\ \A x, y \in Nat : <<y, x>> \in R <=> y < x
  <2>1. \A x, y \in Nat : <<y, x>> \in OpToRel(<, Nat) <=> y < x BY DEF OpToRel
  <2>2. QED BY <2>1, NatLessThanWellFounded, Zenon
<1>2. PICK R : IsWellFoundedOn(R, Nat) /\ \A x, y \in Nat : <<y, x>> \in R <=> y < x BY <1>1
<1>3. PICK x \in S : \A y \in S : ~(<<y, x>> \in R) BY <1>2, WFMin
<1>4. ASSUME NEW y \in S PROVE x <= y
  <2>1. x \in Nat /\ y \in Nat OBVIOUS
  <2>2. ~(y < x) BY <1>2, <1>3, <2>1, Zenon
  <2>3. QED BY <2>1, <2>2
<1>5. QED BY <1>4

\* Some position of a set is the last of those at which w is greatest.
IsLastHeaviest(w, S, i) ==
  \A j \in S : w[j] <= w[i] /\ (j > i => w[j] < w[i])

Upto(S, m) == {j \in S : j <= m}
HasLastHeaviest(w, S) == \E i \in S : IsLastHeaviest(w, S, i)

LEMMA LastHeaviestExists ==
  ASSUME NEW n \in Nat, NEW S, S \subseteq 1..n, S # {}, NEW w \in [1..n -> Nat]
  PROVE  \E i \in S : IsLastHeaviest(w, S, i)
<1> DEFINE Bad == {m \in 0..n : Upto(S, m) # {} /\ ~HasLastHeaviest(w, Upto(S, m))}
<1>0. \A j \in S : j \in Nat /\ 1 <= j /\ j <= n /\ w[j] \in Nat OBVIOUS
<1>1. ASSUME Bad = {} PROVE HasLastHeaviest(w, S)
  <2>1. Upto(S, n) = S BY <1>0 DEF Upto
  <2>2. n \in 0..n OBVIOUS
  <2>3. n \notin Bad BY <1>1
  <2>4. Upto(S, n) # {} BY <2>1
  <2>5. HasLastHeaviest(w, Upto(S, n)) BY <2>2, <2>3, <2>4
  <2>6. QED BY <2>1, <2>5
<1>2. ASSUME Bad # {} PROVE FALSE
  <2>1. Bad \in SUBSET Nat OBVIOUS
  <2>2. PICK m \in Bad : \A k \in Bad : m <= k
    <3> HIDE DEF Bad
    <3>1. QED BY <1>2, <2>1, LeastNumber, Zenon
  <2>3. m \in 0..n /\ Upto(S, m) # {} /\ ~HasLastHeaviest(w, Upto(S, m)) BY <2>2
  <2>4. m # 0
    <3>0. \A j \in S : ~(j <= 0) BY <1>0
    <3>1. Upto(S, 0) = {} BY <3>0 DEF Upto
    <3>2. QED BY <2>3, <3>1
  <2>5. m - 1 \in 0..n /\ m - 1 \notin Bad
    <3>1. m \in Nat /\ m >= 1 /\ m <= n BY <2>3, <2>4
    <3>2. m - 1 \in 0..n /\ ~(m <= m - 1) BY <3>1
    <3> HIDE DEF Bad
    <3>3. QED BY <2>2, <3>2
  <2>6. Upto(S, m - 1) # {} => HasLastHeaviest(w, Upto(S, m - 1)) BY <2>5
  <2> HIDE DEF Bad
  <2>7. m \in Nat /\ m >= 1 BY <2>3, <2>4
  <2>8. \A j \in S : j <= m <=> (j <= m - 1 \/ j = m) BY <1>0, <2>7
  <2>9. m \in S
    <3>1. m \notin S => Upto(S, m) = Upto(S, m - 1) BY <2>8 DEF Upto
    <3>2. QED BY <2>3, <2>6, <3>1
  <2>10. Upto(S, m) = Upto(S, m - 1) \cup {m} BY <2>7, <2>8, <2>9 DEF Upto
  <2>11. w[m] \in Nat BY <1>0, <2>9
  <2>12. CASE Upto(S, m - 1) = {}
    <3>1. Upto(S, m) = {m} BY <2>10, <2>12
    <3>2. IsLastHeaviest(w, {m}, m) BY <2>7, <2>11 DEF IsLastHeaviest
    <3>3. QED BY <2>3, <3>1, <3>2 DEF HasLastHeaviest
  <2>13. CASE Upto(S, m - 1) # {}
    <3>1. PICK i \in Upto(S, m - 1) : IsLastHeaviest(w, Upto(S, m - 1), i)
      BY <2>6, <2>13 DEF HasLastHeaviest
    <3>2. \A j \in Upto(S, m - 1) : w[j] \in Nat /\ j \in Nat /\ j < m BY <1>0, <2>7 DEF Upto
    <3>3. w[i] \in Nat /\ i \in Nat /\ i < m BY <3>2
    <3>4. CASE w[m] >= w[i]
      <4>1. \A j \in Upto(S, m - 1) : w[j] <= w[m] /\ ~(j > m)
        BY <2>7, <2>11, <3>1, <3>2, <3>3, <3>4 DEF IsLastHeaviest
      <4>2. IsLastHeaviest(w, Upto(S, m), m) BY <2>7, <2>10, <2>11, <4>1 DEF IsLastHeaviest
      <4>3. m \in Upto(S, m) BY <2>10
      <4>4. QED BY <2>3, <4>2, <4>3 DEF HasLastHeaviest
    <3>5. CASE w[m] < w[i]
      <4>1. \A j \in Upto(S, m) : j \in Upto(S, m - 1) \/ j = m BY <2>10
      <4>2. IsLastHeaviest(w, Upto(S, m), i) BY <2>11, <3>1, <3>3, <3>5, <4>1 DEF IsLastHeaviest
      <4>3. i \in Upto(S, m) BY <2>10
      <4>4. QED BY <2>3, <4>2, <4>3 DEF HasLastHeaviest
    <3>6. QED BY <2>11, <3>3, <3>4, <3>5
  <2>14. QED BY <2>12, <2>13
<1>3. QED BY <1>1, <1>2 DEF HasLastHeaviest

\* Every non-empty set of numbers up to a bound has a greatest one.
LEMMA GreatestNumber ==
  ASSUME NEW n \in Nat, NEW S, S \subseteq 1..n, S # {}
  PROVE  \E i \in S : \A j \in S : j <= i
<1>1. PICK w : w = [i \in 1..n |-> i] OBVIOUS
<1>2. w \in [1..n -> Nat] BY <1>1
<1>3. PICK i \in S : IsLastHeaviest(w, S, i) BY <1>2, LastHeaviestExists
<1>4. \A j \in S : j <= i BY <1>1, <1>3 DEF IsLastHeaviest
<1>5. QED BY <1>4

----------------------------------------------------------------------------
\* The block tree.

\* Sets of headers with their ancestors, and what solves the recursion on one.
Closed(D) == D \subseteq Header /\ \A h \in D : PrevBlock[h] = Nil \/ PrevBlock[h] \in D
Solves(f, D, V, base, grow) ==
  /\ f \in [D -> V]
  /\ \A h \in D : f[h] = IF PrevBlock[h] = Nil THEN base[h] ELSE grow[<<f[PrevBlock[h]], h>>]

\* Two solutions agree where both are defined.
LEMMA SolutionsAgree ==
  ASSUME NEW V, NEW base, NEW grow, NEW D, NEW E, NEW f, NEW e,
         Closed(D), Closed(E), Solves(f, D, V, base, grow), Solves(e, E, V, base, grow)
  PROVE  \A h \in D \cap E : f[h] = e[h]
<1> DEFINE T == {h \in D \cap E : f[h] # e[h]}
<1>1. SUFFICES ASSUME T # {} PROVE FALSE OBVIOUS
<1>2. T \in SUBSET Header BY DEF Closed
<1>3. PICK h \in T : PrevBlock[h] \notin T
  <2> HIDE DEF T
  <2>1. QED BY <1>1, <1>2, AncestryAssumption
<1>4. h \in D /\ h \in E /\ f[h] # e[h] BY <1>3
<1>40. /\ f[h] = IF PrevBlock[h] = Nil THEN base[h] ELSE grow[<<f[PrevBlock[h]], h>>]
       /\ e[h] = IF PrevBlock[h] = Nil THEN base[h] ELSE grow[<<e[PrevBlock[h]], h>>]
  BY <1>4 DEF Solves
<1>5. CASE PrevBlock[h] = Nil BY <1>4, <1>40, <1>5
<1>6. CASE PrevBlock[h] # Nil
  <2>1. PrevBlock[h] \in D /\ PrevBlock[h] \in E BY <1>4, <1>6 DEF Closed
  <2>2. f[PrevBlock[h]] = e[PrevBlock[h]] BY <1>3, <2>1
  <2>3. QED BY <1>4, <1>40, <1>6, <2>2
<1>7. QED BY <1>5, <1>6

\* What is defined along the ancestors of a header is defined for every header.
LEMMA DefinedByAncestry ==
  ASSUME NEW V, NEW base \in [Header -> V], NEW grow \in [V \X Header -> V]
  PROVE  \E f : Solves(f, Header, V, base, grow)
<1> DEFINE Good(h) == \E D \in SUBSET Header : \E f \in [D -> V] :
                        h \in D /\ Closed(D) /\ Solves(f, D, V, base, grow)
           T == {h \in Header : ~Good(h)}
<1>1. T = {}
  <2>1. SUFFICES ASSUME T # {} PROVE FALSE OBVIOUS
  <2>2. PICK h \in T : PrevBlock[h] \notin T
    <3>1. T \in SUBSET Header OBVIOUS
    <3> HIDE DEF T
    <3>2. QED BY <2>1, <3>1, AncestryAssumption
  <2>3. h \in Header /\ ~Good(h) BY <2>2
  <2> HIDE DEF Good
  <2>4. PrevBlock[h] \in Header \cup {Nil} BY <2>3, SyncAssumption
  <2>5. CASE PrevBlock[h] = Nil
    <3>1. PICK f : f = [x \in {h} |-> base[h]] OBVIOUS
    <3>2. f \in [{h} -> V] BY <2>3, <3>1
    <3>3. Closed({h}) BY <2>3, <2>5 DEF Closed
    <3>4. Solves(f, {h}, V, base, grow) BY <2>5, <3>1, <3>2 DEF Solves
    <3>5. Good(h) BY <2>3, <3>2, <3>3, <3>4 DEF Good
    <3>6. QED BY <2>3, <3>5
  <2>6. CASE PrevBlock[h] # Nil
    <3>1. Good(PrevBlock[h]) BY <2>2, <2>4, <2>6
    <3>2. PICK D \in SUBSET Header : \E f \in [D -> V] :
            PrevBlock[h] \in D /\ Closed(D) /\ Solves(f, D, V, base, grow)
      BY <3>1 DEF Good
    <3>20. PICK f \in [D -> V] : PrevBlock[h] \in D /\ Closed(D) /\ Solves(f, D, V, base, grow)
      BY <3>2
    <3>3. h \notin D BY <2>3, <3>20 DEF Good
    <3>4. PICK D1 : D1 = D \cup {h} OBVIOUS
    <3>5. PICK v : v = grow[<<f[PrevBlock[h]], h>>] OBVIOUS
    <3>6. v \in V BY <2>3, <3>20, <3>5
    <3>7. PICK f1 : f1 = [x \in D1 |-> IF x = h THEN v ELSE f[x]] OBVIOUS
    <3>8. f1 \in [D1 -> V] BY <3>4, <3>6, <3>7
    <3>9. \A x \in D : f1[x] = f[x] BY <3>3, <3>4, <3>7
    <3>10. f1[h] = v BY <3>4, <3>7
    <3>11. Closed(D1) BY <2>3, <3>20, <3>4 DEF Closed
    <3>12. Solves(f1, D1, V, base, grow)
      <4>1. ASSUME NEW x \in D
            PROVE  f1[x] = IF PrevBlock[x] = Nil THEN base[x] ELSE grow[<<f1[PrevBlock[x]], x>>]
        <5>1. f[x] = IF PrevBlock[x] = Nil THEN base[x] ELSE grow[<<f[PrevBlock[x]], x>>]
          BY <3>20 DEF Solves
        <5>2. PrevBlock[x] # Nil => f1[PrevBlock[x]] = f[PrevBlock[x]] BY <3>20, <3>9 DEF Closed
        <5>3. QED BY <3>9, <5>1, <5>2
      <4>2. f1[h] = grow[<<f1[PrevBlock[h]], h>>] BY <3>20, <3>5, <3>9, <3>10
      <4>3. QED BY <2>6, <3>4, <3>8, <4>1, <4>2 DEF Solves
    <3>13. D1 \in SUBSET Header /\ h \in D1 BY <2>3, <3>4
    <3>14. Good(h) BY <3>8, <3>11, <3>12, <3>13 DEF Good
    <3>15. QED BY <2>3, <3>14
  <2>7. QED BY <2>5, <2>6
<1>2. \A h \in Header : Good(h) BY <1>1
<1>3. PICK value : value = [h \in Header |-> CHOOSE v : \E D \in SUBSET Header : \E f \in [D -> V] :
                               h \in D /\ Closed(D) /\ Solves(f, D, V, base, grow) /\ v = f[h]]
  OBVIOUS
<1>4. ASSUME NEW D \in SUBSET Header, NEW f \in [D -> V], Closed(D), Solves(f, D, V, base, grow), NEW h \in D
      PROVE  value[h] = f[h]
  <2>1. PICK v : v = value[h] OBVIOUS
  <2>2. \E D1 \in SUBSET Header : \E f1 \in [D1 -> V] :
          h \in D1 /\ Closed(D1) /\ Solves(f1, D1, V, base, grow) /\ v = f1[h]
    <3>1. h \in Header OBVIOUS
    <3>2. \E x : \E D1 \in SUBSET Header : \E f1 \in [D1 -> V] :
          h \in D1 /\ Closed(D1) /\ Solves(f1, D1, V, base, grow) /\ x = f1[h] BY <1>4
    <3>3. QED BY <1>3, <2>1, <3>1, <3>2
  <2>3. PICK D1 \in SUBSET Header : \E f1 \in [D1 -> V] :
          h \in D1 /\ Closed(D1) /\ Solves(f1, D1, V, base, grow) /\ v = f1[h]
    BY <2>2
  <2>30. PICK f1 \in [D1 -> V] : h \in D1 /\ Closed(D1) /\ Solves(f1, D1, V, base, grow) /\ v = f1[h]
    BY <2>3
  <2>4. f1[h] = f[h] BY <1>4, <2>30, SolutionsAgree
  <2>5. QED BY <2>1, <2>30, <2>4
<1>5. ASSUME NEW h \in Header
      PROVE  /\ value[h] \in V
             /\ value[h] = IF PrevBlock[h] = Nil THEN base[h] ELSE grow[<<value[PrevBlock[h]], h>>]
  <2>10. PICK D \in SUBSET Header : \E f \in [D -> V] : h \in D /\ Closed(D) /\ Solves(f, D, V, base, grow)
    BY <1>2
  <2>1. PICK f \in [D -> V] : h \in D /\ Closed(D) /\ Solves(f, D, V, base, grow) BY <2>10
  <2>2. \A x \in D : value[x] = f[x] BY <1>4, <2>1
  <2>3. f[h] = IF PrevBlock[h] = Nil THEN base[h] ELSE grow[<<f[PrevBlock[h]], h>>] BY <2>1 DEF Solves
  <2>4. PrevBlock[h] # Nil => PrevBlock[h] \in D BY <2>1 DEF Closed
  <2>5. QED BY <2>1, <2>2, <2>3, <2>4
<1>6. DOMAIN value = Header /\ value = [h \in Header |-> value[h]] BY <1>3
<1>7. value \in [Header -> V] BY <1>5, <1>6
<1>8. Solves(value, Header, V, base, grow) BY <1>5, <1>7 DEF Solves
<1>9. QED BY <1>8

\* The recursive functions of the model are what their definitions say.
LEMMA BranchIs ==
  /\ Branch \in [Header -> Seq(Header)]
  /\ \A h \in Header : Branch[h] = IF PrevBlock[h] = Nil THEN <<h>> ELSE Append(Branch[PrevBlock[h]], h)
<1>1. PICK base : base = [h \in Header |-> <<h>>] OBVIOUS
<1>2. PICK grow : grow = [x \in Seq(Header) \X Header |-> Append(x[1], x[2])] OBVIOUS
<1>3. base \in [Header -> Seq(Header)] BY <1>1
<1>4. grow \in [Seq(Header) \X Header -> Seq(Header)] BY <1>2
<1>5. PICK f : Solves(f, Header, Seq(Header), base, grow) BY <1>3, <1>4, DefinedByAncestry
<1>6. f \in [Header -> Seq(Header)] BY <1>5 DEF Solves
<1>7. \A h \in Header : f[h] = IF PrevBlock[h] = Nil THEN <<h>> ELSE Append(f[PrevBlock[h]], h)
  <2>1. ASSUME NEW h \in Header PROVE f[h] = IF PrevBlock[h] = Nil THEN <<h>> ELSE Append(f[PrevBlock[h]], h)
    <3>1. f[h] = IF PrevBlock[h] = Nil THEN base[h] ELSE grow[<<f[PrevBlock[h]], h>>] BY <1>5 DEF Solves
    <3>2. CASE PrevBlock[h] = Nil BY <1>1, <3>1, <3>2
    <3>3. CASE PrevBlock[h] # Nil
      <4>1. PrevBlock[h] \in Header BY <3>3, SyncAssumption
      <4>2. <<f[PrevBlock[h]], h>> \in Seq(Header) \X Header BY <1>6, <4>1
      <4>3. QED BY <1>2, <3>1, <3>3, <4>2
    <3>4. QED BY <3>2, <3>3
  <2>2. QED BY <2>1
<1>8. f = [h \in Header |-> IF PrevBlock[h] = Nil THEN <<h>> ELSE Append(f[PrevBlock[h]], h)] BY <1>6, <1>7
<1>9. Branch = [h \in Header |-> IF PrevBlock[h] = Nil THEN <<h>> ELSE Append(Branch[PrevBlock[h]], h)]
  BY <1>8 DEF Branch
<1>10. \A h \in Header : Branch[h] = IF PrevBlock[h] = Nil THEN <<h>> ELSE Append(Branch[PrevBlock[h]], h)
  BY <1>9
<1>11. Branch \in [Header -> Seq(Header)]
  <2> DEFINE T == {h \in Header : Branch[h] \notin Seq(Header)}
  <2>1. ASSUME T # {} PROVE FALSE
    <3>2. PICK h \in T : PrevBlock[h] \notin T
      <4>1. T \in SUBSET Header OBVIOUS
      <4> HIDE DEF T
      <4>2. QED BY <2>1, <4>1, AncestryAssumption
    <3>3. h \in Header /\ Branch[h] \notin Seq(Header) BY <3>2
    <3>4. <<h>> \in Seq(Header) BY <3>3
    <3>5. CASE PrevBlock[h] = Nil
      <4>1. Branch[h] = <<h>> BY <1>10, <3>3, <3>5
      <4>2. QED BY <3>3, <3>4, <4>1
    <3>6. CASE PrevBlock[h] # Nil
      <4>1. PrevBlock[h] \in Header BY <3>3, <3>6, SyncAssumption
      <4>2. Branch[PrevBlock[h]] \in Seq(Header) BY <3>2, <4>1
      <4>3. Append(Branch[PrevBlock[h]], h) \in Seq(Header) BY <3>3, <4>2
      <4>4. Branch[h] = Append(Branch[PrevBlock[h]], h) BY <1>10, <3>3, <3>6
      <4>5. QED BY <3>3, <4>3, <4>4
    <3>7. QED BY <3>5, <3>6
  <2>2. \A h \in Header : Branch[h] \in Seq(Header) BY <2>1
  <2> HIDE DEF T
  <2>3. QED BY <1>9, <2>2
<1>12. QED BY <1>10, <1>11

\* The work of a branch is what its recursive definition says.
LEMMA ChainWorkIs ==
  /\ ChainWork \in [Header -> Nat]
  /\ \A h \in Header : ChainWork[h] = Work[h] + (IF PrevBlock[h] = Nil THEN 0 ELSE ChainWork[PrevBlock[h]])
<1>0. Work \in [Header -> Nat] /\ PrevBlock \in [Header -> Header \cup {Nil}] BY SyncAssumption
<1>1. PICK grow : grow = [x \in Nat \X Header |-> Work[x[2]] + x[1]] OBVIOUS
<1>2. grow \in [Nat \X Header -> Nat] BY <1>0, <1>1
<1>3. PICK f : Solves(f, Header, Nat, Work, grow) BY <1>0, <1>2, DefinedByAncestry
<1>4. f \in [Header -> Nat] BY <1>3 DEF Solves
<1>5. \A h \in Header : f[h] = Work[h] + (IF PrevBlock[h] = Nil THEN 0 ELSE f[PrevBlock[h]])
  <2>1. ASSUME NEW h \in Header PROVE f[h] = Work[h] + (IF PrevBlock[h] = Nil THEN 0 ELSE f[PrevBlock[h]])
    <3>1. f[h] = IF PrevBlock[h] = Nil THEN Work[h] ELSE grow[<<f[PrevBlock[h]], h>>] BY <1>3 DEF Solves
    <3>2. Work[h] \in Nat BY <1>0
    <3>3. CASE PrevBlock[h] = Nil BY <3>1, <3>2, <3>3
    <3>4. CASE PrevBlock[h] # Nil
      <4>1. PrevBlock[h] \in Header BY <1>0, <3>4
      <4>2. <<f[PrevBlock[h]], h>> \in Nat \X Header BY <1>4, <4>1
      <4>3. QED BY <1>1, <3>1, <3>4, <4>2
    <3>5. QED BY <3>3, <3>4
  <2>2. QED BY <2>1
<1>6. f = [h \in Header |-> Work[h] + (IF PrevBlock[h] = Nil THEN 0 ELSE f[PrevBlock[h]])] BY <1>4, <1>5
<1>7. ChainWork = [h \in Header |-> Work[h] + (IF PrevBlock[h] = Nil THEN 0 ELSE ChainWork[PrevBlock[h]])]
  BY <1>6 DEF ChainWork
<1>8. \A h \in Header : ChainWork[h] = Work[h] + (IF PrevBlock[h] = Nil THEN 0 ELSE ChainWork[PrevBlock[h]])
  BY <1>7
<1>9. ChainWork \in [Header -> Nat]
  <2> DEFINE T == {h \in Header : ChainWork[h] \notin Nat}
  <2>1. ASSUME T # {} PROVE FALSE
    <3>1. PICK h \in T : PrevBlock[h] \notin T
      <4>1. T \in SUBSET Header OBVIOUS
      <4> HIDE DEF T
      <4>2. QED BY <2>1, <4>1, AncestryAssumption
    <3>2. h \in Header /\ ChainWork[h] \notin Nat /\ Work[h] \in Nat BY <1>0, <3>1
    <3>3. PrevBlock[h] # Nil BY <1>8, <3>2
    <3>4. PrevBlock[h] \in Header BY <1>0, <3>2, <3>3
    <3>5. ChainWork[PrevBlock[h]] \in Nat BY <3>1, <3>4
    <3>6. ChainWork[h] = Work[h] + ChainWork[PrevBlock[h]] BY <1>8, <3>2, <3>3
    <3>7. QED BY <3>2, <3>5, <3>6
  <2>2. \A h \in Header : ChainWork[h] \in Nat BY <2>1
  <2> HIDE DEF T
  <2>3. QED BY <1>7, <2>2
<1>10. QED BY <1>8, <1>9

\* What a branch looks like: it ends in its header and goes on where the branch
\* of the parent ends.
LEMMA BranchEnds ==
  ASSUME NEW h \in Header
  PROVE  /\ Branch[h] \in Seq(Header) /\ Len(Branch[h]) \in Nat \ {0}
         /\ Branch[h][Len(Branch[h])] = h
         /\ PrevBlock[h] = Nil => Branch[h] = <<h>>
         /\ PrevBlock[h] # Nil =>
              /\ PrevBlock[h] \in Header
              /\ Len(Branch[h]) = Len(Branch[PrevBlock[h]]) + 1
              /\ \A i \in 1..Len(Branch[PrevBlock[h]]) : Branch[h][i] = Branch[PrevBlock[h]][i]
<1>1. Branch[h] \in Seq(Header) BY BranchIs
<1>2. CASE PrevBlock[h] = Nil
  <2>1. Branch[h] = <<h>> BY <1>2, BranchIs
  <2>2. QED BY <1>1, <1>2, <2>1
<1>3. CASE PrevBlock[h] # Nil
  <2>1. PrevBlock[h] \in Header BY <1>3, SyncAssumption
  <2>2. PICK s : s = Branch[PrevBlock[h]] OBVIOUS
  <2>3. s \in Seq(Header) BY <2>1, <2>2, BranchIs
  <2>4. Branch[h] = Append(s, h) BY <1>3, <2>2, BranchIs
  <2>5. Len(Append(s, h)) = Len(s) + 1 /\ Append(s, h)[Len(s) + 1] = h /\ Len(s) \in Nat
        /\ \A i \in 1..Len(s) : Append(s, h)[i] = s[i]
    BY <2>3
  <2>6. QED BY <1>1, <1>3, <2>1, <2>2, <2>4, <2>5
<1>4. QED BY <1>2, <1>3

IsPath(s) == \A i \in 1..Len(s) : IF i = 1 THEN PrevBlock[s[i]] = Nil ELSE PrevBlock[s[i]] = s[i-1]

\* On a branch every header follows its parent, and the first has none.
LEMMA BranchIsPath == \A h \in Header : IsPath(Branch[h])
<1> DEFINE T == {h \in Header : ~IsPath(Branch[h])}
<1>1. ASSUME T # {} PROVE FALSE
  <2>1. PICK h \in T : PrevBlock[h] \notin T
    <3>1. T \in SUBSET Header OBVIOUS
    <3> HIDE DEF T
    <3>2. QED BY <1>1, <3>1, AncestryAssumption
  <2>2. h \in Header /\ ~IsPath(Branch[h]) BY <2>1
  <2>3. CASE PrevBlock[h] = Nil
    <3>1. Branch[h] = <<h>> BY <2>2, <2>3, BranchEnds
    <3>2. IsPath(<<h>>) BY <2>3 DEF IsPath
    <3>3. QED BY <2>2, <3>1, <3>2
  <2>4. CASE PrevBlock[h] # Nil
    <3>1. PICK g \in Header : g = PrevBlock[h] BY <2>2, <2>4, BranchEnds
    <3>2. IsPath(Branch[g]) BY <2>1, <3>1
    <3>3. /\ Len(Branch[h]) = Len(Branch[g]) + 1 /\ Branch[h][Len(Branch[h])] = h
          /\ \A i \in 1..Len(Branch[g]) : Branch[h][i] = Branch[g][i]
      BY <2>2, <2>4, <3>1, BranchEnds
    <3>4. Len(Branch[g]) \in Nat \ {0} /\ Branch[g][Len(Branch[g])] = g BY BranchEnds
    <3>5. ASSUME NEW i \in 1..Len(Branch[h])
          PROVE  IF i = 1 THEN PrevBlock[Branch[h][i]] = Nil
                 ELSE PrevBlock[Branch[h][i]] = Branch[h][i-1]
      <4>1. CASE i \in 1..Len(Branch[g])
        <5>1. i # 1 => i - 1 \in 1..Len(Branch[g]) BY <3>4, <4>1
        <5>2. IF i = 1 THEN PrevBlock[Branch[g][i]] = Nil
              ELSE PrevBlock[Branch[g][i]] = Branch[g][i-1] BY <3>2, <4>1 DEF IsPath
        <5>3. QED BY <3>3, <4>1, <5>1, <5>2
      <4>2. CASE i = Len(Branch[h])
        <5>1. i # 1 /\ i - 1 = Len(Branch[g]) /\ Len(Branch[g]) \in 1..Len(Branch[g]) BY <3>3, <3>4, <4>2
        <5>2. Branch[h][i] = h /\ Branch[h][i-1] = g BY <3>3, <3>4, <4>2, <5>1
        <5>3. QED BY <3>1, <5>1, <5>2
      <4>3. QED BY <3>3, <3>4, <4>1, <4>2
    <3>6. QED BY <2>2, <3>5 DEF IsPath
  <2>5. QED BY <2>3, <2>4
<1>2. QED BY <1>1

\* A set with the parents of its members holds their branches.
LEMMA BranchWithin ==
  ASSUME NEW D \in SUBSET Header, Closed(D)
  PROVE  \A h \in D : OnBranch(h) \subseteq D
<1> DEFINE T == {h \in D : ~(OnBranch(h) \subseteq D)}
<1>1. ASSUME T # {} PROVE FALSE
  <2>1. PICK h \in T : PrevBlock[h] \notin T
    <3>1. T \in SUBSET Header OBVIOUS
    <3> HIDE DEF T
    <3>2. QED BY <1>1, <3>1, AncestryAssumption
  <2>2. h \in D /\ h \in Header /\ ~(OnBranch(h) \subseteq D) BY <2>1
  <2>3. ASSUME NEW x \in OnBranch(h) PROVE x \in D
    <3>1. PICK i \in 1..Len(Branch[h]) : x = Branch[h][i] BY DEF OnBranch
    <3>2. CASE PrevBlock[h] = Nil
      <4>1. Branch[h] = <<h>> BY <2>2, <3>2, BranchEnds
      <4>2. QED BY <2>2, <3>1, <4>1
    <3>3. CASE PrevBlock[h] # Nil
      <4>1. PICK g \in Header : g = PrevBlock[h] BY <2>2, <3>3, BranchEnds
      <4>2. g \in D /\ g \notin T BY <2>1, <2>2, <3>3, <4>1 DEF Closed
      <4>3. OnBranch(g) \subseteq D BY <4>2
      <4>4. /\ Len(Branch[h]) = Len(Branch[g]) + 1 /\ Branch[h][Len(Branch[h])] = h
            /\ \A j \in 1..Len(Branch[g]) : Branch[h][j] = Branch[g][j]
        BY <2>2, <3>3, <4>1, BranchEnds
      <4>5. Len(Branch[g]) \in Nat BY BranchEnds
      <4>6. CASE i \in 1..Len(Branch[g])
        <5>1. x = Branch[g][i] BY <3>1, <4>4, <4>6
        <5>2. x \in OnBranch(g) BY <4>6, <5>1 DEF OnBranch
        <5>3. QED BY <4>3, <5>2
      <4>7. CASE i = Len(Branch[h]) BY <2>2, <3>1, <4>4, <4>7
      <4>8. QED BY <4>4, <4>5, <4>6, <4>7
    <3>4. QED BY <3>2, <3>3
  <2>4. QED BY <2>2, <2>3
<1>2. QED BY <1>1

\* The record of a child follows from the record of its parent.
LEMMA RecordGrows ==
  ASSUME NEW h \in Header, PrevBlock[h] \in Header
  PROVE  /\ Record(h).height = Record(PrevBlock[h]).height + 1
         /\ Record(h).chainwork = Record(PrevBlock[h]).chainwork + Work[h]
<1>1. PrevBlock[h] # Nil BY SyncAssumption
<1>2. Len(Branch[h]) = Len(Branch[PrevBlock[h]]) + 1 /\ Len(Branch[PrevBlock[h]]) \in Nat
  BY <1>1, BranchEnds
<1>3. ChainWork[h] = Work[h] + ChainWork[PrevBlock[h]] BY <1>1, ChainWorkIs
<1>4. ChainWork[PrevBlock[h]] \in Nat /\ Work[h] \in Nat BY ChainWorkIs, SyncAssumption
<1>5. QED BY <1>2, <1>3, <1>4 DEF Record, HeightOf

\* Genesis has the record the store promises.
LEMMA RecordOfGenesis == Record(Genesis) = Promise!GenesisRecord
<1>1. Genesis \in Header /\ PrevBlock[Genesis] = Nil /\ Work[Genesis] \in Nat
  BY SyncAssumption, AncestryAssumption
<1>2. Branch[Genesis] = <<Genesis>> BY <1>1, BranchEnds
<1>3. ChainWork[Genesis] = Work[Genesis] BY <1>1, ChainWorkIs
<1>4. HeightOf(Genesis) = 0 BY <1>2 DEF HeightOf
<1>5. QED BY <1>3, <1>4 DEF Record, Promise!GenesisRecord

\* A page the ingest takes whatever the store holds besides the parent of its
\* first header: a run of checked headers, each the child of the one before.
SoundPage(page) ==
  \A i \in 1..Len(page) : /\ page[i] = Genesis \/ WellFormed(page[i])
                          /\ i > 1 => PrevBlock[page[i]] = page[i-1]

\* A peer that follows the protocol answers with a sound page that continues the
\* locator or genesis.
LEMMA HonestPage ==
  ASSUME NEW p, tip[p] \in Header, IsGoodBranch(tip[p]), NEW locator
  PROVE  LET page == GetHeaders(p, locator)
         IN  /\ page \in Seq(Header)
             /\ SoundPage(page)
             /\ page # <<>> => PrevBlock[page[1]] \in locator \cup {Genesis}
<1>1. PICK chain : chain = Branch[tip[p]] OBVIOUS
<1>2. chain \in Seq(Header) /\ Len(chain) \in Nat \ {0} /\ IsPath(chain)
  BY <1>1, BranchEnds, BranchIsPath
<1>3. \A i \in 1..Len(chain) : chain[i] = Genesis \/ WellFormed(chain[i])
  BY <1>1 DEF IsGoodBranch, OnBranch
<1>4. chain[1] = Genesis
  <2>1. chain[1] \in Header /\ PrevBlock[chain[1]] = Nil BY <1>2 DEF IsPath
  <2>2. chain[1] = Genesis \/ chain[1] \in ValidBits BY <1>2, <1>3 DEF WellFormed
  <2>3. QED BY <2>1, <2>2, AncestryAssumption
<1>5. PICK known : known = {i \in 1..Len(chain) : chain[i] \in locator} \cup {1} OBVIOUS
<1>6. known \subseteq 1..Len(chain) /\ known # {} BY <1>2, <1>5
<1>7. PICK from : from = CHOOSE i \in known : \A j \in known : j <= i OBVIOUS
<1>8. from \in known
  <2>1. \E i \in known : \A j \in known : j <= i BY <1>2, <1>6, GreatestNumber
  <2>2. QED BY <1>7, <2>1
<1>9. chain[from] \in locator \cup {Genesis} BY <1>4, <1>5, <1>8
<1>10. PICK to : to = IF from + MaxHeaders < Len(chain) THEN from + MaxHeaders ELSE Len(chain) OBVIOUS
<1>11. from \in 1..Len(chain) /\ to \in Nat /\ to <= Len(chain) /\ from \in Nat
  BY <1>2, <1>6, <1>8, <1>10, SyncAssumption
<1>12. PICK page : page = SubSeq(chain, from + 1, to) OBVIOUS
<1>13. GetHeaders(p, locator) = page BY <1>1, <1>5, <1>7, <1>10, <1>12 DEF GetHeaders
<1>14. /\ page \in Seq(Header)
       /\ \A i \in 1..Len(page) : from + i \in 1..Len(chain) /\ page[i] = chain[from + i]
  BY <1>2, <1>11, <1>12
<1>15. ASSUME NEW i \in 1..Len(page)
       PROVE  /\ page[i] = Genesis \/ WellFormed(page[i])
              /\ i > 1 => PrevBlock[page[i]] = page[i-1]
              /\ i = 1 => PrevBlock[page[1]] = chain[from]
  <2>1. from + i \in 1..Len(chain) /\ page[i] = chain[from + i] BY <1>14
  <2>2. i \in Nat /\ i >= 1 /\ from + i # 1 /\ from >= 1 BY <1>11, <1>14
  <2>3. PrevBlock[chain[from + i]] = chain[(from + i) - 1] BY <1>2, <2>1, <2>2 DEF IsPath
  <2>4. i > 1 => page[i-1] = chain[from + (i - 1)]
    <3>1. i > 1 => i - 1 \in 1..Len(page) BY <1>14, <2>2
    <3>2. QED BY <1>14, <3>1
  <2>5. from + (i - 1) = (from + i) - 1 /\ (i = 1 => (from + i) - 1 = from) BY <1>11, <2>2
  <2>6. QED BY <1>3, <2>1, <2>3, <2>4, <2>5
<1>16. SoundPage(page) BY <1>15 DEF SoundPage
<1>17. page # <<>> => 1 \in 1..Len(page) BY <1>14
<1>18. QED BY <1>9, <1>13, <1>14, <1>15, <1>16, <1>17

\* A header of a page that is not stored is new where it first comes.
LEMMA FirstPosition ==
  ASSUME NEW page \in Seq(Header), NEW i \in 1..Len(page), page[i] \notin DOMAIN headers
  PROVE  \E k \in 1..i : page[k] = page[i] /\ IsNew(page, k)
<1> DEFINE S == {k \in 1..i : page[k] = page[i]}
<1>1. i \in Nat /\ i >= 1 OBVIOUS
<1>2. S \in SUBSET Nat /\ S # {} BY <1>1
<1>3. PICK k \in S : \A j \in S : k <= j
  <2> HIDE DEF S
  <2>1. QED BY <1>2, LeastNumber
<1>4. k \in 1..i /\ page[k] = page[i] BY <1>3
<1>5. ASSUME NEW j \in 1..(k-1) PROVE page[j] # page[k]
  <2>1. j \in 1..i /\ ~(k <= j) BY <1>1, <1>4
  <2>2. QED BY <1>3, <1>4, <2>1
<1>6. IsNew(page, k) BY <1>4, <1>5 DEF IsNew
<1>7. QED BY <1>4, <1>6

----------------------------------------------------------------------------
(***************************************************************************)
(* The inductive invariant                                                 *)
(***************************************************************************)

\* The table is a tree of checked headers with the records of their branches.
TableInv ==
  /\ Genesis \in DOMAIN headers
  /\ headers = [h \in DOMAIN headers |-> Record(h)]
  /\ \A h \in DOMAIN headers : h = Genesis \/ (PrevBlock[h] \in DOMAIN headers /\ WellFormed(h))

\* The pages on their way were not empty and those of honest peers are sound.
PagesInv ==
  /\ \A r \in staged : r.page # <<>> /\ (r.peer \in Honest => SoundPage(r.page))
  /\ stage = "ingest" =>
       /\ batch.peer \in Peer
       /\ batch.page # <<>>
       /\ batch.peer \in Honest =>
            SoundPage(batch.page) /\ PrevBlock[batch.page[1]] \in DOMAIN headers
  /\ stage = "promote" =>
       /\ batch.accepted # {}
       /\ batch.accepted \subseteq 1..Len(batch.page)
       /\ \A i \in batch.accepted : batch.page[i] \in DOMAIN headers

HonestTips == \A p \in Honest : IsGoodBranch(tip[p])

SyncInv == TickSafety /\ TableInv /\ PagesInv /\ HonestTips

\* The first tick starts with genesis alone, no page and no charge.
LEMMA SyncInitInv == SyncInit => SyncInv
<1> SUFFICES ASSUME SyncInit PROVE SyncInv OBVIOUS
<1>1. headers = [h \in {Genesis} |-> Record(h)] /\ DOMAIN headers = {Genesis} BY DEF SyncInit
<1>2. NoThreads \in [Peer -> {"none", "connecting", "requested"}] /\ NoHeights \in [Peer -> Nat]
  BY DEF NoThreads, NoHeights
<1>3. NoBatch \in [peer : Peer \cup {Nil}, range : BOOLEAN, page : Seq(Header), accepted : SUBSET Nat]
  <2>1. <<>> \in Seq(Header) /\ {} \in SUBSET Nat /\ FALSE \in BOOLEAN OBVIOUS
  <2>2. QED BY <2>1 DEF NoBatch
<1>4. SyncTypes
  <2>1. 0 \in 0..MaxBatches BY SyncAssumption
  <2>2. QED BY <1>1, <1>2, <1>3, <2>1, SyncAssumption DEF SyncTypes, SyncInit
<1>5. TableInv BY <1>1 DEF TableInv
<1>6. PagesInv BY DEF PagesInv, SyncInit
<1>7. HonestTips BY HonestAssumption DEF HonestTips, SyncInit
<1>8. HonestNotPenalised BY DEF HonestNotPenalised, SyncInit
<1>9. QED BY <1>4, <1>5, <1>6, <1>7, <1>8 DEF SyncInv, TickSafety

\* The part of the invariant about the store holds while the store does.
LEMMA TableStays == TableInv /\ UNCHANGED headers => TableInv'
  BY DEF TableInv

\* Honest peers follow good branches while their tips stay.
LEMMA TipsStay == HonestTips /\ UNCHANGED tip => HonestTips'
  BY DEF HonestTips

\* No honest peer is charged by a step that charges none.
LEMMA PenaltiesStay == HonestNotPenalised /\ UNCHANGED <<banned, stale>> => HonestNotPenalised'
  BY DEF HonestNotPenalised

\* What a peer answers is a page, and a sound one from an honest peer.
LEMMA RepliesAreSound ==
  ASSUME SyncInv, NEW p \in Peer, NEW locator, NEW page \in Replies(p, locator)
  PROVE  /\ page \in Seq(Header)
         /\ p \in Honest => SoundPage(page)
         /\ p \in Honest /\ page # <<>> => PrevBlock[page[1]] \in locator \cup {Genesis}
<1>1. CASE p \in FaultyPeer
  BY <1>1, SyncAssumption DEF Replies, Honest
<1>2. CASE p \notin FaultyPeer
  <2>1. p \in Honest /\ page = GetHeaders(p, locator) BY <1>2 DEF Replies, Honest
  <2>2. tip[p] \in Header /\ IsGoodBranch(tip[p])
    BY <2>1 DEF SyncInv, TickSafety, SyncTypes, HonestTips
  <2>3. QED BY <2>1, <2>2, HonestPage
<1>3. QED BY <1>1, <1>2

\* The locator is stored.
LEMMA LocatorStored == SyncInv => Locator \cup {Genesis} \subseteq DOMAIN headers
<1> SUFFICES ASSUME SyncInv PROVE Locator \cup {Genesis} \subseteq DOMAIN headers OBVIOUS
<1>1. DOMAIN headers \in SUBSET Header /\ best \in DOMAIN headers /\ Genesis \in DOMAIN headers
  BY DEF SyncInv, TickSafety, SyncTypes, TableInv
<1>2. Closed(DOMAIN headers)
  BY <1>1, AncestryAssumption DEF SyncInv, TableInv, Closed
<1>3. QED BY <1>1, <1>2, BranchWithin DEF Locator

\* A tick starts with no prefetched range.
LEMMA StartTickInv == SyncInv /\ StartTick => SyncInv'
<1> SUFFICES ASSUME SyncInv, StartTick PROVE SyncInv' OBVIOUS
<1>1. SyncTypes'
  <2>1. MaxBatches \in 0..MaxBatches BY SyncAssumption
  <2>2. asked' \subseteq SyncCheckpoint BY DEF StartTick
  <2>3. QED BY <2>1, <2>2 DEF SyncInv, TickSafety, SyncTypes, StartTick, store, race, peers, syncBounds
<1>2. HonestNotPenalised' BY PenaltiesStay DEF SyncInv, TickSafety, StartTick, peers
<1>3. TableInv' BY TableStays DEF SyncInv, StartTick, store
<1>4. PagesInv' BY DEF PagesInv, StartTick
<1>5. HonestTips' BY TipsStay DEF SyncInv, StartTick
<1>6. QED BY <1>1, <1>2, <1>3, <1>4, <1>5 DEF SyncInv, TickSafety

\* What is prefetched from an honest peer is sound.
LEMMA PrefetchInv ==
  ASSUME SyncInv, NEW c \in SyncCheckpoint, NEW p \in Peer, Prefetch(c, p)
  PROVE  SyncInv'
<1>1. PICK page \in Replies(p, {c}) :
        staged' = IF page # <<>> /\ PrevBlock[page[1]] = c
                  THEN staged \cup {[peer |-> p, checkpoint |-> c, page |-> page]}
                  ELSE staged
  BY DEF Prefetch
<1>2. page \in Seq(Header) /\ (p \in Honest => SoundPage(page)) BY RepliesAreSound
<1>3. PICK range : range = [peer |-> p, checkpoint |-> c, page |-> page] OBVIOUS
<1>4. range \in [peer : Peer, checkpoint : SyncCheckpoint, page : Seq(Header)]
      /\ range.peer = p /\ range.page = page
  BY <1>2, <1>3
<1>5. \A r \in staged' : r \in staged \/ (r = range /\ page # <<>>) BY <1>1, <1>3
<1>6. SyncTypes'
  <2>1. staged \subseteq [peer : Peer, checkpoint : SyncCheckpoint, page : Seq(Header)]
    BY DEF SyncInv, TickSafety, SyncTypes
  <2>2. staged' \subseteq [peer : Peer, checkpoint : SyncCheckpoint, page : Seq(Header)]
    BY <1>4, <1>5, <2>1
  <2>3. QED BY <2>2 DEF SyncInv, TickSafety, SyncTypes, Prefetch, store, race, peers, syncBounds
<1>7. HonestNotPenalised' BY PenaltiesStay DEF SyncInv, TickSafety, Prefetch, peers
<1>8. TableInv' BY TableStays DEF SyncInv, Prefetch, store
<1>9. PagesInv'
  <2>1. \A r \in staged : r.page # <<>> /\ (r.peer \in Honest => SoundPage(r.page))
    BY DEF SyncInv, PagesInv
  <2>2. \A r \in staged' : r.page # <<>> /\ (r.peer \in Honest => SoundPage(r.page))
    BY <1>2, <1>4, <1>5, <2>1
  <2>3. stage' = "prefetch" BY DEF Prefetch
  <2>4. QED BY <2>2, <2>3 DEF PagesInv
<1>10. HonestTips' BY TipsStay DEF SyncInv, Prefetch
<1>11. QED BY <1>6, <1>7, <1>8, <1>9, <1>10 DEF SyncInv, TickSafety

\* Steps that leave the store, the pages on their way and the books of the peers
\* alone, and end where no page is being ingested.
LEMMA QuietStep ==
  ASSUME SyncInv, SyncTypes', UNCHANGED <<store, peers, tip>>, staged' \subseteq staged,
         stage' \notin {"ingest", "promote"}
  PROVE  SyncInv'
<1>1. HonestNotPenalised' BY PenaltiesStay DEF SyncInv, TickSafety, peers
<1>2. TableInv' BY TableStays DEF SyncInv, store
<1>3. PagesInv' BY DEF SyncInv, PagesInv
<1>4. HonestTips' BY TipsStay DEF SyncInv
<1>5. QED BY <1>1, <1>2, <1>3, <1>4 DEF SyncInv, TickSafety

\* The steps that only move the tick and its threads.
LEMMA QuietSteps ==
  ASSUME SyncInv,
         \/ \E c \in SyncCheckpoint : PrefetchFails(c)
         \/ EndPrefetch \/ StartRace \/ EndTick \/ NoUsefulResponse \/ IngestDuplicates \/ TickDies
         \/ \E p \in Peer : RaceHandshake(p) \/ SkipPeer(p) \/ PeerFails(p)
  PROVE  SyncInv'
<1>0. SyncTypes BY DEF SyncInv, TickSafety
<1>0a. /\ NoThreads \in [Peer -> {"none", "connecting", "requested"}]
      /\ NoHeights \in [Peer -> Nat]
      /\ NoBatch \in [peer : Peer \cup {Nil}, range : BOOLEAN, page : Seq(Header), accepted : SUBSET Nat]
      /\ 0 \in 0..MaxBatches
  <2>1. <<>> \in Seq(Header) /\ {} \in SUBSET Nat /\ FALSE \in BOOLEAN OBVIOUS
  <2>2. QED BY <2>1, SyncAssumption DEF NoBatch, NoThreads, NoHeights
<1> USE DEF store, race, peers, syncBounds
<1>1. ASSUME NEW c \in SyncCheckpoint, PrefetchFails(c) PROVE SyncInv'
  BY <1>0, <1>1, QuietStep DEF PrefetchFails, SyncTypes
<1>2. CASE EndPrefetch BY <1>0, <1>2, QuietStep DEF EndPrefetch, SyncTypes
<1>3. CASE StartRace
  <2>1. batches - 1 \in 0..MaxBatches BY <1>0, <1>3, SyncAssumption DEF StartRace, LoopContinues, SyncTypes
  <2>2. QED BY <1>0, <1>3, <2>1, QuietStep DEF StartRace, SyncTypes
<1>4. CASE EndTick BY <1>0, <1>0a, <1>4, QuietStep DEF EndTick, LeaveTick, SyncTypes
<1>5. CASE NoUsefulResponse BY <1>0, <1>5, QuietStep DEF NoUsefulResponse, SyncTypes
<1>6. CASE IngestDuplicates
  <2>1. more' \in BOOLEAN BY <1>0, <1>6 DEF IngestDuplicates, AfterIngest, SyncTypes
  <2>2. QED BY <1>0, <1>0a, <1>6, <2>1, QuietStep DEF IngestDuplicates, AfterIngest, SyncTypes
<1>7. CASE TickDies BY <1>0, <1>0a, <1>7, QuietStep DEF TickDies, LeaveTick, SyncTypes
<1>8. ASSUME NEW p \in Peer, RaceHandshake(p) PROVE SyncInv'
  <2>1. Heights(p) \subseteq Nat
    <3>1. tip[p] \in Header BY <1>0 DEF SyncTypes
    <3>2. HeightOf(tip[p]) \in Nat BY <3>1, BranchEnds DEF HeightOf
    <3>3. MaxHeaders * MaxBatches \in Nat BY SyncAssumption
    <3>4. QED BY <3>2, <3>3 DEF Heights
  <2>2. PICK n \in Heights(p) : advertised' = [advertised EXCEPT ![p] = n] BY <1>8 DEF RaceHandshake
  <2>3. advertised' \in [Peer -> Nat] BY <1>0, <2>1, <2>2 DEF SyncTypes
  <2>4. thread' \in [Peer -> {"none", "connecting", "requested"}] BY <1>0, <1>8 DEF RaceHandshake, SyncTypes
  <2>5. QED BY <1>0, <1>8, <2>3, <2>4, QuietStep DEF RaceHandshake, SyncTypes
<1>9. ASSUME NEW p \in Peer, SkipPeer(p) PROVE SyncInv'
  BY <1>0, <1>9, QuietStep DEF SkipPeer, SyncTypes
<1>10. ASSUME NEW p \in Peer, PeerFails(p) PROVE SyncInv'
  BY <1>0, <1>10, QuietStep DEF PeerFails, SyncTypes
<1>11. QED BY <1>1, <1>2, <1>3, <1>4, <1>5, <1>6, <1>7, <1>8, <1>9, <1>10

\* A ban that expires charges nobody.
LEMMA BanExpiresInv == ASSUME SyncInv, NEW p \in Peer, BanExpires(p) PROVE SyncInv'
<1>1. SyncTypes' BY DEF SyncInv, TickSafety, SyncTypes, BanExpires, store, race, syncBounds
<1>2. HonestNotPenalised' BY DEF SyncInv, TickSafety, HonestNotPenalised, BanExpires
<1>3. TableInv' BY TableStays DEF SyncInv, BanExpires, store
<1>4. PagesInv' BY DEF SyncInv, PagesInv, BanExpires, store
<1>5. HonestTips' BY TipsStay DEF SyncInv, BanExpires
<1>6. QED BY <1>1, <1>2, <1>3, <1>4, <1>5 DEF SyncInv, TickSafety

\* An honest peer moves only to a good branch.
LEMMA MoveTipInv == ASSUME SyncInv, NEW p \in Peer, NEW h \in Header, MoveTip(p, h) PROVE SyncInv'
<1>0. tip \in [Peer -> Header] BY DEF SyncInv, TickSafety, SyncTypes
<1>1. SyncTypes' BY DEF SyncInv, TickSafety, SyncTypes, MoveTip, store, race, peers, syncBounds
<1>2. HonestNotPenalised' BY PenaltiesStay DEF SyncInv, TickSafety, MoveTip, peers
<1>3. TableInv' BY TableStays DEF SyncInv, MoveTip, store
<1>4. PagesInv' BY DEF SyncInv, PagesInv, MoveTip, store
<1>5. HonestTips'
  <2>1. \A q \in Honest : tip'[q] = IF q = p THEN h ELSE tip[q]
    BY <1>0 DEF MoveTip, Honest
  <2>2. \A q \in Honest : IsGoodBranch(tip[q]) BY DEF SyncInv, HonestTips
  <2>3. IsGoodBranch(h) BY DEF MoveTip
  <2>4. \A q \in Honest : IsGoodBranch(tip'[q])
    <3>1. TAKE q \in Honest
    <3>2. tip'[q] = h \/ tip'[q] = tip[q] BY <2>1
    <3>3. QED BY <2>2, <2>3, <3>2
  <2>5. QED BY <2>4 DEF HonestTips
<1>6. QED BY <1>1, <1>2, <1>3, <1>4, <1>5 DEF SyncInv, TickSafety

\* A range is ingested when the parent of its first header is stored.
LEMMA ApplyRangeInv == SyncInv /\ ApplyRange => SyncInv'
<1> SUFFICES ASSUME SyncInv, ApplyRange PROVE SyncInv' OBVIOUS
<1>1. PICK r \in Ready :
        /\ staged' = staged \ {r}
        /\ batch' = [peer |-> r.peer, range |-> TRUE, page |-> r.page, accepted |-> {}]
  BY DEF ApplyRange
<1>2. r \in staged /\ PrevBlock[r.page[1]] \in DOMAIN headers BY DEF Ready
<1>3. r \in [peer : Peer, checkpoint : SyncCheckpoint, page : Seq(Header)]
  BY <1>2 DEF SyncInv, TickSafety, SyncTypes
<1>4. /\ batch' \in [peer : Peer \cup {Nil}, range : BOOLEAN, page : Seq(Header), accepted : SUBSET Nat]
      /\ batch'.peer = r.peer /\ batch'.page = r.page
  <2>1. r.peer \in Peer /\ r.page \in Seq(Header) BY <1>3
  <2>2. TRUE \in BOOLEAN /\ {} \in SUBSET Nat OBVIOUS
  <2>3. QED BY <1>1, <2>1, <2>2
<1>5. SyncTypes' BY <1>1, <1>4 DEF SyncInv, TickSafety, SyncTypes, ApplyRange, store, race, peers, syncBounds
<1>6. HonestNotPenalised' BY PenaltiesStay DEF SyncInv, TickSafety, ApplyRange, peers
<1>7. TableInv' BY TableStays DEF SyncInv, ApplyRange, store
<1>8. PagesInv'
  <2>1. \A x \in staged' : x \in staged BY <1>1
  <2>2. stage' = "ingest" /\ headers' = headers BY DEF ApplyRange, store
  <2>3. \A x \in staged : x.page # <<>> /\ (x.peer \in Honest => SoundPage(x.page))
    BY DEF SyncInv, PagesInv
  <2>4. r.peer \in Peer BY <1>3
  <2>5. QED BY <1>2, <1>4, <2>1, <2>2, <2>3, <2>4 DEF PagesInv
<1>9. HonestTips' BY TipsStay DEF SyncInv, ApplyRange
<1>10. QED BY <1>5, <1>6, <1>7, <1>8, <1>9 DEF SyncInv, TickSafety

\* A page that won the race continues the locator, which is stored.
LEMMA WinRaceInv == ASSUME SyncInv, NEW p \in Peer, WinRace(p) PROVE SyncInv'
<1>1. PICK page \in Replies(p, Locator) :
        /\ IsUseful(p, page)
        /\ batch' = [peer |-> p, range |-> FALSE, page |-> page, accepted |-> {}]
  BY DEF WinRace
<1>2. /\ page \in Seq(Header)
      /\ p \in Honest => SoundPage(page)
      /\ p \in Honest /\ page # <<>> => PrevBlock[page[1]] \in Locator \cup {Genesis}
  BY RepliesAreSound
<1>3. page # <<>> BY <1>1 DEF IsUseful
<1>4. /\ batch' \in [peer : Peer \cup {Nil}, range : BOOLEAN, page : Seq(Header), accepted : SUBSET Nat]
      /\ batch'.peer = p /\ batch'.page = page
  <2>1. FALSE \in BOOLEAN /\ {} \in SUBSET Nat OBVIOUS
  <2>2. QED BY <1>1, <1>2, <2>1
<1>5. SyncTypes'
  <2>1. NoThreads \in [Peer -> {"none", "connecting", "requested"}] /\ NoHeights \in [Peer -> Nat]
    BY DEF NoThreads, NoHeights
  <2>2. QED BY <1>4, <2>1 DEF SyncInv, TickSafety, SyncTypes, WinRace, store, peers, syncBounds
<1>6. HonestNotPenalised' BY PenaltiesStay DEF SyncInv, TickSafety, WinRace, peers
<1>7. TableInv' BY TableStays DEF SyncInv, WinRace, store
<1>8. PagesInv'
  <2>1. stage' = "ingest" /\ headers' = headers /\ staged' = staged BY DEF WinRace, store
  <2>2. \A x \in staged : x.page # <<>> /\ (x.peer \in Honest => SoundPage(x.page))
    BY DEF SyncInv, PagesInv
  <2>3. p \in Honest => PrevBlock[page[1]] \in DOMAIN headers BY <1>2, <1>3, LocatorStored
  <2>4. QED BY <1>2, <1>3, <1>4, <2>1, <2>2, <2>3 DEF PagesInv
<1>9. HonestTips' BY TipsStay DEF SyncInv, WinRace
<1>10. QED BY <1>5, <1>6, <1>7, <1>8, <1>9 DEF SyncInv, TickSafety

\* insert_headers takes a sound page whose parent is stored.
LEMMA SoundPageIsTaken ==
  ASSUME NEW page \in Seq(Header), SoundPage(page), PrevBlock[page[1]] \in DOMAIN headers,
         Genesis \in DOMAIN headers
  PROVE  Refused(page) = {}
<1>1. ASSUME NEW i \in 1..Len(page), IsNew(page, i) PROVE ParentKnown(page, i) /\ WellFormed(page[i])
  <2>1. page[i] # Genesis BY <1>1 DEF IsNew
  <2>2. WellFormed(page[i]) BY <2>1 DEF SoundPage
  <2>3. CASE i = 1 BY <2>2, <2>3 DEF ParentKnown
  <2>4. CASE i # 1
    <3>1. i > 1 /\ i - 1 \in 1..(i-1) BY <2>4
    <3>2. page[i-1] = PrevBlock[page[i]] BY <3>1 DEF SoundPage
    <3>3. QED BY <2>2, <3>1, <3>2 DEF ParentKnown
  <2>5. QED BY <2>3, <2>4
<1>2. QED BY <1>1 DEF Refused

\* Whoever is charged for a refused page does not follow the protocol.
LEMMA IngestRefusedInv == SyncInv /\ IngestRefused => SyncInv'
<1> SUFFICES ASSUME SyncInv, IngestRefused PROVE SyncInv' OBVIOUS
<1>1. /\ batch.page \in Seq(Header) /\ batch.peer \in Peer
      /\ batch.peer \in Honest => SoundPage(batch.page) /\ PrevBlock[batch.page[1]] \in DOMAIN headers
      /\ Genesis \in DOMAIN headers
  BY DEF SyncInv, TickSafety, SyncTypes, PagesInv, TableInv, IngestRefused
<1>2. batch.peer \notin Honest
  <2>1. Refused(batch.page) # {} BY DEF IngestRefused
  <2>2. QED BY <1>1, <2>1, SoundPageIsTaken
<1>3. banned' \subseteq banned \cup {batch.peer} /\ stale' \subseteq stale \cup {batch.peer}
  BY DEF IngestRefused
<1>4. SyncTypes'
  <2>1. NoBatch \in [peer : Peer \cup {Nil}, range : BOOLEAN, page : Seq(Header), accepted : SUBSET Nat]
    <3>1. <<>> \in Seq(Header) /\ {} \in SUBSET Nat /\ FALSE \in BOOLEAN OBVIOUS
    <3>2. QED BY <3>1 DEF NoBatch
  <2>2. 0 \in 0..MaxBatches BY SyncAssumption
  <2>3. banned' \subseteq Peer /\ stale' \subseteq Peer
    BY <1>1, <1>3 DEF SyncInv, TickSafety, SyncTypes
  <2>4. /\ asked' \in {asked, {}} /\ staged' \in {staged, {}} /\ batches' \in {batches, 0}
        /\ more' \in {more, FALSE} /\ stage' \in {"apply", "idle"}
    BY DEF IngestRefused, LeaveTick
  <2>5. UNCHANGED <<headers, best, thread, advertised, tip>> /\ batch' = NoBatch
    BY DEF IngestRefused, store, race
  <2>6. QED BY <2>1, <2>2, <2>3, <2>4, <2>5 DEF SyncInv, TickSafety, SyncTypes
<1>5. HonestNotPenalised' BY <1>2, <1>3 DEF SyncInv, TickSafety, HonestNotPenalised
<1>6. TableInv' BY TableStays DEF SyncInv, IngestRefused, store
<1>7. PagesInv'
  <2>1. staged' \subseteq staged /\ stage' \in {"apply", "idle"} BY DEF IngestRefused, LeaveTick
  <2>2. QED BY <2>1 DEF SyncInv, PagesInv
<1>8. HonestTips' BY TipsStay DEF SyncInv, IngestRefused
<1>9. QED BY <1>4, <1>5, <1>6, <1>7, <1>8 DEF SyncInv, TickSafety

\* The table after put_headers.
LEMMA PutHeadersTable ==
  ASSUME SyncInv, PutHeaders
  PROVE  /\ DOMAIN headers' = DOMAIN headers \cup {batch.page[i] : i \in 1..Len(batch.page)}
         /\ DOMAIN headers' \subseteq Header
         /\ \A h \in DOMAIN headers : headers'[h] = headers[h]
         /\ TableInv'
<1>1. /\ batch.page \in Seq(Header) /\ DOMAIN headers \subseteq Header
      /\ Refused(batch.page) = {}
      /\ TableInv
  BY DEF SyncInv, TickSafety, SyncTypes, PutHeaders
<1>2. PICK page : page = batch.page OBVIOUS
<1>3. PICK D : D = DOMAIN headers \cup {page[i] : i \in 1..Len(page)} OBVIOUS
<1>4. headers' = [h \in D |-> IF h \in DOMAIN headers THEN headers[h] ELSE Record(h)]
  BY <1>2, <1>3 DEF PutHeaders
<1>5. D \subseteq Header BY <1>1, <1>2, <1>3
<1>6. \A h \in DOMAIN headers : headers[h] = Record(h) BY <1>1 DEF TableInv
<1>7. headers' = [h \in D |-> Record(h)] /\ DOMAIN headers' = D BY <1>4, <1>6
<1>8. ASSUME NEW h \in D PROVE h = Genesis \/ (PrevBlock[h] \in D /\ WellFormed(h))
  <2>1. CASE h \in DOMAIN headers BY <1>1, <1>3, <2>1 DEF TableInv
  <2>2. CASE h \notin DOMAIN headers
    <3>1. PICK i \in 1..Len(page) : page[i] = h BY <1>3, <2>2
    <3>2. PICK k \in 1..i : page[k] = h /\ IsNew(page, k) BY <1>1, <1>2, <2>2, <3>1, FirstPosition
    <3>3. k \in 1..Len(page) BY <1>1, <1>2
    <3>4. ParentKnown(page, k) /\ WellFormed(h) BY <1>1, <1>2, <3>2, <3>3 DEF Refused
    <3>5. PrevBlock[h] \in D
      <4>1. CASE PrevBlock[h] \in DOMAIN headers BY <1>3, <4>1
      <4>2. CASE \E j \in 1..(k-1) : page[j] = PrevBlock[h]
        <5>1. PICK j \in 1..(k-1) : page[j] = PrevBlock[h] BY <4>2
        <5>2. j \in 1..Len(page) BY <1>1, <1>2, <3>3
        <5>3. QED BY <1>3, <5>1, <5>2
      <4>3. QED BY <3>2, <3>4, <4>1, <4>2 DEF ParentKnown
    <3>6. QED BY <3>4, <3>5
  <2>3. QED BY <2>1, <2>2
<1>9. TableInv' BY <1>1, <1>3, <1>7, <1>8 DEF TableInv
<1>10. QED BY <1>2, <1>3, <1>4, <1>5, <1>7, <1>9

\* The commit of put_headers stores all the promotion may choose from.
LEMMA PutHeadersInv == SyncInv /\ PutHeaders => SyncInv'
<1> SUFFICES ASSUME SyncInv, PutHeaders PROVE SyncInv' OBVIOUS
<1>1. /\ DOMAIN headers' = DOMAIN headers \cup {batch.page[i] : i \in 1..Len(batch.page)}
      /\ DOMAIN headers' \subseteq Header /\ TableInv'
  BY PutHeadersTable
<1>2. /\ batch \in [peer : Peer \cup {Nil}, range : BOOLEAN, page : Seq(Header), accepted : SUBSET Nat]
      /\ batch' = [batch EXCEPT !.accepted = Accepted(batch.page)]
      /\ Accepted(batch.page) # {}
  BY DEF SyncInv, TickSafety, SyncTypes, PutHeaders
<1>3. Accepted(batch.page) \subseteq 1..Len(batch.page) BY DEF Accepted
<1>30. Accepted(batch.page) \in SUBSET Nat
  <2>1. batch.page \in Seq(Header) BY <1>2
  <2>2. QED BY <1>3, <2>1
<1>4. /\ batch' \in [peer : Peer \cup {Nil}, range : BOOLEAN, page : Seq(Header), accepted : SUBSET Nat]
      /\ batch'.accepted = Accepted(batch.page) /\ batch'.page = batch.page
  BY <1>2, <1>30
<1>5. SyncTypes'
  BY <1>1, <1>4 DEF SyncInv, TickSafety, SyncTypes, PutHeaders, race, peers, syncBounds
<1>6. HonestNotPenalised' BY PenaltiesStay DEF SyncInv, TickSafety, PutHeaders, peers
<1>7. PagesInv'
  <2>1. stage' = "promote" /\ staged' = staged BY DEF PutHeaders
  <2>2. \A i \in batch'.accepted : batch'.page[i] \in DOMAIN headers' BY <1>1, <1>3, <1>4
  <2>3. \A x \in staged : x.page # <<>> /\ (x.peer \in Honest => SoundPage(x.page))
    BY DEF SyncInv, PagesInv
  <2>4. QED BY <1>2, <1>3, <1>4, <2>1, <2>2, <2>3 DEF PagesInv
<1>8. HonestTips' BY TipsStay DEF SyncInv, PutHeaders
<1>9. QED BY <1>1, <1>5, <1>6, <1>7, <1>8 DEF SyncInv, TickSafety

\* The heaviest of the accepted headers is stored.
LEMMA CandidateStored ==
  ASSUME SyncInv, stage = "promote"
  PROVE  BestCandidate \in DOMAIN headers
<1>1. /\ batch.page \in Seq(Header) /\ batch.accepted # {}
      /\ batch.accepted \subseteq 1..Len(batch.page)
      /\ \A i \in batch.accepted : batch.page[i] \in DOMAIN headers
      /\ DOMAIN headers \subseteq Header
  BY DEF SyncInv, TickSafety, SyncTypes, PagesInv
<1>2. PICK S, page : S = batch.accepted /\ page = batch.page OBVIOUS
<1>3. PICK n \in Nat : n = Len(page) BY <1>1, <1>2
<1>4. PICK w : w = [i \in 1..n |-> ChainWork[page[i]]] OBVIOUS
<1>5. w \in [1..n -> Nat]
  <2>1. \A i \in 1..n : page[i] \in Header BY <1>1, <1>2, <1>3
  <2>2. \A i \in 1..n : ChainWork[page[i]] \in Nat BY <2>1, ChainWorkIs
  <2>3. QED BY <1>4, <2>2
<1>6. S \subseteq 1..n /\ S # {} BY <1>1, <1>2, <1>3
<1>7. PICK i \in S : IsLastHeaviest(w, S, i) BY <1>5, <1>6, LastHeaviestExists
<1>8. \A j \in S : /\ ChainWork[page[j]] <= ChainWork[page[i]]
                   /\ j > i => ChainWork[page[j]] < ChainWork[page[i]]
  BY <1>4, <1>6, <1>7 DEF IsLastHeaviest
<1>9. BestIndex(page, S) \in S BY <1>8 DEF BestIndex
<1>10. QED BY <1>1, <1>2, <1>9 DEF BestCandidate

\* The promotion leaves the table alone and the best header in it.
LEMMA PromoteBestInv == SyncInv /\ PromoteBest => SyncInv'
<1> SUFFICES ASSUME SyncInv, PromoteBest PROVE SyncInv' OBVIOUS
<1>1. BestCandidate \in DOMAIN headers BY CandidateStored DEF PromoteBest
<1>2. SyncTypes'
  <2>1. NoBatch \in [peer : Peer \cup {Nil}, range : BOOLEAN, page : Seq(Header), accepted : SUBSET Nat]
    <3>1. <<>> \in Seq(Header) /\ {} \in SUBSET Nat /\ FALSE \in BOOLEAN OBVIOUS
    <3>2. QED BY <3>1 DEF NoBatch
  <2>2. best' \in DOMAIN headers BY <1>1 DEF SyncInv, TickSafety, SyncTypes, PromoteBest
  <2>3. more' \in BOOLEAN
    BY DEF SyncInv, TickSafety, SyncTypes, PromoteBest, AfterIngest
  <2>4. QED BY <2>1, <2>2, <2>3
       DEF SyncInv, TickSafety, SyncTypes, PromoteBest, AfterIngest, race, peers, syncBounds
<1>3. HonestNotPenalised' BY PenaltiesStay DEF SyncInv, TickSafety, PromoteBest, peers
<1>4. TableInv' BY TableStays DEF SyncInv, PromoteBest
<1>5. PagesInv' BY DEF SyncInv, PagesInv, PromoteBest, AfterIngest
<1>6. HonestTips' BY TipsStay DEF SyncInv, PromoteBest
<1>7. QED BY <1>2, <1>3, <1>4, <1>5, <1>6 DEF SyncInv, TickSafety

\* Every step of the sync keeps the invariant.
LEMMA SyncStepInv == SyncInv /\ [SyncNext]_syncVars => SyncInv'
<1> SUFFICES ASSUME SyncInv, [SyncNext]_syncVars PROVE SyncInv' OBVIOUS
<1>1. ASSUME UNCHANGED syncVars PROVE SyncInv'
  <2>1. SyncTypes' BY <1>1 DEF SyncInv, TickSafety, SyncTypes, syncVars
  <2>2. HonestNotPenalised' BY <1>1, PenaltiesStay DEF SyncInv, TickSafety, syncVars
  <2>3. TableInv' BY <1>1, TableStays DEF SyncInv, syncVars
  <2>4. PagesInv' BY <1>1 DEF SyncInv, PagesInv, syncVars
  <2>5. HonestTips' BY <1>1, TipsStay DEF SyncInv, syncVars
  <2>6. QED BY <2>1, <2>2, <2>3, <2>4, <2>5 DEF SyncInv, TickSafety
<1>2. CASE PrefetchStep
  BY <1>2, StartTickInv, PrefetchInv, QuietSteps DEF PrefetchStep
<1>3. CASE RaceStep
  BY <1>3, ApplyRangeInv, WinRaceInv, QuietSteps DEF RaceStep
<1>4. CASE IngestStep
  BY <1>4, IngestRefusedInv, PutHeadersInv, PromoteBestInv, QuietSteps DEF IngestStep
<1>5. CASE \E c \in SyncCheckpoint : PrefetchFails(c) BY <1>5, QuietSteps
<1>6. CASE \E p \in Peer : PeerFails(p) \/ BanExpires(p) BY <1>6, QuietSteps, BanExpiresInv
<1>7. CASE \E p \in Peer, h \in Header : MoveTip(p, h) BY <1>7, MoveTipInv
<1>8. CASE TickDies BY <1>8, QuietSteps
<1>9. QED BY <1>1, <1>2, <1>3, <1>4, <1>5, <1>6, <1>7, <1>8 DEF SyncNext, SyncStep

\* In every state the table is a tree of checked headers, the pages on their way from
\* honest peers are sound, and no honest peer is charged.
THEOREM SyncInvariant == SyncSpec => []SyncInv
<1>1. QED BY SyncInitInv, SyncStepInv, PTL DEF SyncSpec

\* record_chain_failure never bans or marks stale a peer that follows the protocol,
\* whatever faulty peers send, ranges come ahead of their parents, chains reorganise
\* and the process dies.
THEOREM TicksAreSafe == SyncSpec => []TickSafety
<1>1. SyncInv => TickSafety BY DEF SyncInv
<1>2. QED BY <1>1, SyncInvariant, PTL

\* A table of checked headers with the records of their branches is a header tree.
LEMMA TreeOfBranches ==
  ASSUME NEW table, DOMAIN table \subseteq Header,
         \A h \in DOMAIN table : table[h] = Record(h),
         \A h \in DOMAIN table : h = Genesis \/ (PrevBlock[h] \in DOMAIN table /\ WellFormed(h))
  PROVE  Promise!IsHeaderTree(table)
<1>1. ASSUME NEW h \in DOMAIN table
      PROVE  IF h = Genesis
             THEN table[h] = Promise!GenesisRecord
             ELSE /\ PrevBlock[h] \in DOMAIN table
                  /\ table[h].height = table[PrevBlock[h]].height + 1
                  /\ table[h].chainwork = table[PrevBlock[h]].chainwork + Work[h]
                  /\ h \in ValidBits \cap ValidPow
                  /\ Promise!MeetsCheckpoint(table[h].height, h)
  <2>1. CASE h = Genesis BY <2>1, RecordOfGenesis
  <2>2. CASE h # Genesis
    <3>1. PrevBlock[h] \in DOMAIN table /\ WellFormed(h) BY <2>2
    <3>2. table[h] = Record(h) /\ table[PrevBlock[h]] = Record(PrevBlock[h]) BY <3>1
    <3>3. h \in Header /\ PrevBlock[h] \in Header BY <3>1
    <3>4. /\ Record(h).height = Record(PrevBlock[h]).height + 1
          /\ Record(h).chainwork = Record(PrevBlock[h]).chainwork + Work[h]
      BY <3>3, RecordGrows
    <3>5. Record(h).height = HeightOf(h) BY DEF Record
    <3>6. h \in ValidBits \cap ValidPow /\ Promise!MeetsCheckpoint(HeightOf(h), h)
      BY <3>1 DEF WellFormed
    <3>7. QED BY <2>2, <3>1, <3>2, <3>4, <3>5, <3>6
  <2>3. QED BY <2>1, <2>2
<1>2. QED BY <1>1 DEF Promise!IsHeaderTree

\* The two commits of insert_headers map to the steps of TipStore, all else to stutters.
LEMMA SyncStepKeepsPromise ==
  SyncInv /\ SyncInv' /\ [SyncNext]_syncVars => [Promise!Next]_<<headers, best>>
<1> SUFFICES ASSUME SyncInv, SyncInv', [SyncNext]_syncVars PROVE [Promise!Next]_<<headers, best>>
  OBVIOUS
<1>1. CASE PutHeaders
  <2>1. Promise!Grows(headers, headers') BY PutHeadersTable, <1>1 DEF Promise!Grows
  <2>2. Promise!IsHeaderTree(headers')
    <3>1. TableInv' /\ DOMAIN headers' \subseteq Header BY DEF SyncInv, TickSafety, SyncTypes
    <3>2. QED BY <3>1, TreeOfBranches DEF TableInv
  <2>3. best' = best BY <1>1 DEF PutHeaders
  <2>4. QED BY <2>1, <2>2, <2>3 DEF Promise!Next, Promise!StoreHeaders
<1>2. CASE PromoteBest
  <2>1. BestCandidate \in DOMAIN headers /\ headers' = headers
    BY <1>2, CandidateStored DEF PromoteBest
  <2>2. headers[BestCandidate].chainwork = ChainWork[BestCandidate]
    BY <2>1 DEF SyncInv, TableInv, Record
  <2>3. CASE best' = best BY <2>1, <2>3
  <2>4. CASE best' # best
    <3>1. best' = BestCandidate /\ ChainWork[BestCandidate] > headers[best].chainwork
      BY <1>2, <2>4 DEF PromoteBest
    <3>2. QED BY <2>1, <2>2, <3>1 DEF Promise!Next, Promise!Promote
  <2>5. QED BY <2>3, <2>4
<1>3. CASE UNCHANGED <<headers, best>> BY <1>3
<1>4. UNCHANGED <<headers, best>> \/ PutHeaders \/ PromoteBest
  BY DEF SyncNext, SyncStep, PrefetchStep, RaceStep, IngestStep, syncVars, store,
         StartTick, Prefetch, PrefetchFails, EndPrefetch, ApplyRange, StartRace, EndTick,
         RaceHandshake, WinRace, SkipPeer, PeerFails, NoUsefulResponse, IngestRefused,
         IngestDuplicates, TickDies, BanExpires, MoveTip
<1>5. QED BY <1>1, <1>2, <1>3, <1>4

\* Readers of the store see, from the sync runner, only what TipStore allows: the table
\* grows as a tree of checked headers and the best header only gains work.
THEOREM SyncKeepsPromise == SyncSpec => KeepsStorePromise
<1>1. QED BY SyncInvariant, SyncStepKeepsPromise, PTL DEF SyncSpec, KeepsStorePromise
============================================================================
