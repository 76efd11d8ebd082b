---------------------------- MODULE RelayPeers -----------------------------
(***************************************************************************)
(* The peer store peers.sqlite and its two kinds of users.                 *)
(*                                                                         *)
(* Chain threads (a sync tick, a proof fetch, a manual peer) hold the      *)
(* peer_state lock from load_manager to the last save_manager.  The DNS    *)
(* relay client of crate hns-p2p lives as long as the runtime and keeps a  *)
(* book of its own; it holds the lock only to merge that book with the     *)
(* store, before and after each resolution.  In between it fills a small   *)
(* pool of connections, asks a peer, and tries an alternate if that fails. *)
(*                                                                         *)
(* Time is kept as time left.  One unit is longer than a resolution, whose *)
(* clock is read once, at its beginning.                                   *)
(***************************************************************************)
EXTENDS PeerManager

CONSTANTS
  Seed,             \* addresses known at first
  Capable,          \* peers whose version packet has the relay service bit
  Faulty,           \* peers that may fail, misbehave or be busy
  Relentless,       \* those of them that may do so any number of times
  Height,           \* heights peers advertise
  ChainBan,         \* malformed_ban_seconds of the header sync
  RelayBan,         \* DEFAULT_DNS_RELAY_MALFORMED_BAN_SECONDS
  Cooldown,         \* DEFAULT_DNS_RELAY_COOLDOWN_SECONDS
  MaxConnections,   \* DEFAULT_MAX_DNS_RELAY_CONNECTIONS
  AlternateRetries, \* DEFAULT_DNS_RELAY_ALTERNATE_RETRIES
  HandshakeBudget,  \* MAX_DNS_RELAY_HANDSHAKE_ATTEMPTS_PER_RESOLUTION
  None,
  MaxFaults,        \* bound: failures of peers
  MaxLoads,         \* bound: times a chain thread takes the store
  MaxCrashes        \* bound: process deaths and storage errors

ASSUME RelayAssumption ==
  /\ Seed \subseteq Address /\ Seed # {} /\ Capable \subseteq Address
  /\ Faulty \subseteq Address /\ Relentless \subseteq Faulty
  /\ Height \subseteq Nat
  /\ ChainBan \in Nat /\ RelayBan \in Nat /\ RelayBan <= ChainBan
  /\ Cooldown \in Nat \ {0}
  /\ MaxConnections \in Nat /\ AlternateRetries \in Nat /\ HandshakeBudget \in Nat
  /\ None \notin Address

VARIABLES
  stored,     \* rows of peers.sqlite
  held,       \* a chain thread holds the peer_state lock
  book,       \* the book that thread has loaded
  phase,      \* where the relay client stands
  local,      \* the book of the relay client
  pool,       \* peers with a live relay connection
  cool,       \* cooldowns: time left
  attempted, budget, retry, \* of the resolution under way
  leaders,    \* of replenish_connections: the first of every address group
  supplier,   \* the proof peer the client was told of when the resolution began
  target,     \* the peer being asked
  proofPeer,  \* the peer that supplied the last proof
  barred,     \* history: banned in the store when the resolution began
  suspects,   \* peers whose answers are being validated
  outcome,    \* how the last resolution ended
  faults, loads, crashes

chainVars == <<held, book>>
resolution == <<attempted, budget, retry, leaders, supplier, target, barred>>
bounds == <<faults, loads, crashes>>
vars == <<stored, held, book, phase, local, pool, cool, attempted, budget, retry, leaders,
          supplier, target, proofPeer, barred, suspects, outcome, faults, loads, crashes>>

NoBook == [a \in {} |-> NewPeer]

TypeOK ==
  /\ IsBook(stored) /\ IsBook(book) /\ IsBook(local)
  /\ held \in BOOLEAN
  /\ phase \in {"off", "idle", "attempt", "replenish", "exchange", "persist"}
  /\ pool \subseteq Capable /\ Cardinality(pool) <= MaxConnections
  /\ cool \in [Address -> 0..Cooldown]
  /\ attempted \subseteq Address /\ budget \in 0..HandshakeBudget
  /\ retry \in 0..AlternateRetries
  /\ leaders \subseteq Address /\ supplier \in Address \cup {None}
  /\ target \in Address \cup {None} /\ proofPeer \in Address \cup {None}
  /\ barred \subseteq Address /\ suspects \subseteq Address
  /\ outcome \in {"none", "answer", "rejected", "failed"}

Init ==
  /\ stored = [a \in Seed |-> NewPeer]
  /\ held = FALSE
  /\ book = NoBook
  /\ phase = "off"
  /\ local = NoBook
  /\ pool = {}
  /\ cool = [a \in Address |-> 0]
  /\ attempted = {} /\ budget = 0 /\ retry = 0 /\ leaders = {} /\ supplier = None /\ target = None
  /\ proofPeer = None
  /\ barred = {}
  /\ suspects = {}
  /\ outcome = "none"
  /\ faults = 0 /\ loads = 0 /\ crashes = 0

Fault(a) ==
  /\ a \in Faulty
  /\ IF a \in Relentless THEN UNCHANGED faults
                         ELSE faults < MaxFaults /\ faults' = faults + 1
----------------------------------------------------------------------------
(***************************************************************************)
(* Chain threads                                                           *)
(***************************************************************************)
relayVars == <<phase, local, pool, cool, resolution, suspects, outcome>>

LoadManager ==
  /\ ~held /\ loads < MaxLoads
  /\ held' = TRUE
  /\ book' = stored
  /\ loads' = loads + 1
  /\ UNCHANGED <<stored, relayVars, proofPeer, faults, crashes>>

Recording == held /\ UNCHANGED <<stored, held, relayVars, loads, crashes>>

\* A peer answered with its height; the answer may have been a proof.
ChainSuccess ==
  /\ Recording
  /\ \E a \in Address, h \in Height :
       /\ book' = RecordSuccess(book, a, h)
       /\ proofPeer' \in {proofPeer, a}
  /\ UNCHANGED faults

ChainObservesHeight ==
  /\ Recording
  /\ \E a \in Address, h \in Height : book' = RecordObservedHeight(book, a, h)
  /\ UNCHANGED <<proofPeer, faults>>

ChainFailure ==
  /\ Recording
  /\ \E a \in Address :
       /\ Fault(a)
       /\ book' \in {RecordTransientFailure(book, a), RecordStaleTip(book, a),
                     RecordMalformed(book, a, ChainBan)}
  /\ UNCHANGED proofPeer

\* Seeds and gossiped addresses enter the book.
ChainDiscovers ==
  /\ Recording
  /\ \E a \in Address \ DOMAIN book : book' = Upsert(book, a)
  /\ UNCHANGED <<proofPeer, faults>>

\* Rows are upserted, never deleted.
SaveManager(from, to) == [a \in DOMAIN from \cup DOMAIN to |->
                            IF a \in DOMAIN from THEN from[a] ELSE to[a]]

SavePeers ==
  /\ held
  /\ stored' = SaveManager(book, stored)
  /\ UNCHANGED <<held, book, relayVars, proofPeer, bounds>>

\* Mutant: the thread waits for the relay client while it holds the lock.
MutantWaitsForRelay ==
  /\ held /\ phase \in {"off", "idle"}
  /\ held' = FALSE
  /\ book' = NoBook
  /\ UNCHANGED <<stored, relayVars, proofPeer, bounds>>

\* The thread is through, or gives up on an error with unsaved records.
ReleasePeers ==
  /\ held
  /\ held' = FALSE
  /\ book' = NoBook
  /\ UNCHANGED <<stored, relayVars, proofPeer, bounds>>
----------------------------------------------------------------------------
(***************************************************************************)
(* The relay client and the store                                          *)
(***************************************************************************)

Larger(m, n) == IF m > n THEN m ELSE n

MergeRelayPeer(row, peer) ==
  [score  |-> Larger(row.score, peer.score),
   height |-> Larger(row.height, peer.height),
   ban    |-> Larger(row.ban, peer.ban)]

\* initialize_dns_relay_client
InitializeRelay ==
  /\ phase = "off" /\ ~held
  /\ phase' = "idle"
  /\ local' = stored
  /\ UNCHANGED <<stored, chainVars, pool, cool, resolution, proofPeer, suspects, outcome, bounds>>

\* Mutant: peers the client knows keep their state, only new ones are taken over.
MutantKeepsOwnState == [a \in DOMAIN stored |-> IF a \in DOMAIN local THEN local[a] ELSE stored[a]]

Refreshed == [a \in DOMAIN stored |->
                IF a \in DOMAIN local THEN MergeRelayPeer(stored[a], local[a]) ELSE stored[a]]

InvalidatesConnections ==
  \E a \in DOMAIN local :
    \/ a \notin DOMAIN Refreshed
    \/ IsBanned(Refreshed[a]) /\ ~IsBanned(local[a])

\* A resolution begins: refresh_dns_relay_peers.
RefreshPeers ==
  /\ phase = "idle" /\ ~held
  /\ local' = Refreshed
  /\ pool' = IF InvalidatesConnections THEN {} ELSE pool
  /\ phase' = "attempt"
  /\ attempted' = {} /\ budget' = HandshakeBudget /\ retry' = 0 /\ target' = None
  /\ UNCHANGED <<leaders, supplier>>
  /\ barred' = {a \in DOMAIN stored : IsBanned(stored[a])}
  /\ outcome' = "none"
  /\ UNCHANGED <<stored, chainVars, cool, proofPeer, suspects, bounds>>

\* Mutant: the client's book is written as it is.
MutantOverwritesRow(a) == local[a]

\* The row persist_dns_relay_peers writes for a peer of the client's book.
PersistedRow(a) == IF a \in DOMAIN stored THEN MergeRelayPeer(stored[a], local[a]) ELSE local[a]

PersistPeers ==
  /\ phase = "persist" /\ ~held
  /\ stored' = SaveManager([a \in DOMAIN local |-> PersistedRow(a)], stored)
  /\ phase' = "idle"
  /\ UNCHANGED <<chainVars, local, pool, cool, resolution, proofPeer, suspects, outcome, bounds>>

\* A write fails after some rows; the result is ignored.
PersistFails ==
  /\ phase = "persist" /\ ~held /\ crashes < MaxCrashes
  /\ \E S \in SUBSET DOMAIN local :
       stored' = SaveManager([a \in S |-> PersistedRow(a)], stored)
  /\ phase' = "idle"
  /\ crashes' = crashes + 1
  /\ UNCHANGED <<chainVars, local, pool, cool, resolution, proofPeer, suspects, outcome, faults, loads>>
----------------------------------------------------------------------------
(***************************************************************************)
(* A resolution                                                            *)
(***************************************************************************)
others == <<stored, chainVars, proofPeer, loads, crashes>>

\* The variables of a resolution go when it returns.
Forget ==
  /\ attempted' = {} /\ budget' = 0 /\ retry' = 0 /\ leaders' = {}
  /\ supplier' = None /\ target' = None /\ barred' = {}

Return(result) == phase' = "persist" /\ outcome' = result /\ Forget

\* The head of replenish_connections: connections to banned peers are closed, and the
\* order of select_outbound is fixed.  A resolution begins by noting the proof peer.
StartAttempt ==
  /\ phase = "attempt"
  /\ pool' = {a \in pool : a \in DOMAIN local => ~IsBanned(local[a])}
  /\ leaders' = Leaders(Usable(local), OutboundOrder(local))
  /\ supplier' = IF retry = 0 THEN proofPeer ELSE supplier
  /\ phase' = "replenish"
  /\ UNCHANGED <<others, local, cool, attempted, budget, retry, target, barred, suspects, outcome, faults>>

Candidates ==
  {a \in Usable(local) : a \notin pool /\ a \notin attempted /\ cool[a] = 0}

\* Outbound order, with the supplier of the proof moved to the end.
IsNextCandidate(a) ==
  \A b \in Candidates \ {a} :
    IF supplier \in {a, b} THEN b = supplier
                           ELSE Precedes(a, b, leaders, OutboundOrder(local))

Replenishes == Cardinality(pool) < MaxConnections /\ budget > 0 /\ Candidates # {}

CoolDown(a) == cool' = [cool EXCEPT ![a] = Cooldown]

\* Connect and exchange versions; a peer without the service bit is let go.
Handshake ==
  /\ phase = "replenish" /\ Replenishes
  /\ budget' = budget - 1
  /\ \E a \in Candidates :
       /\ IsNextCandidate(a)
       /\ \/ /\ Fault(a)
             /\ local' = RecordTransientFailure(local, a)
             /\ CoolDown(a)
             /\ UNCHANGED pool
          \/ /\ a \in Capable
             /\ pool' = pool \cup {a}
             /\ UNCHANGED <<local, cool, faults>>
          \/ /\ a \notin Capable
             /\ CoolDown(a)
             /\ UNCHANGED <<local, pool, faults>>
  /\ UNCHANGED <<others, phase, attempted, retry, leaders, supplier, target, barred, suspects, outcome>>

\* select_connection orders the live, able peers, again with the supplier last.
Eligible == {a \in pool : a \in Usable(local) /\ cool[a] = 0}

RelayOrder ==
  {p \in Eligible \X Eligible :
     IF supplier \in {p[1], p[2]} THEN p[2] = supplier ELSE p \in OutboundOrder(local)}

Preferred(a, b) == Precedes(a, b, Leaders(Eligible, RelayOrder), RelayOrder)

IsSelected(a) == a \notin attempted /\ \A b \in Eligible \ (attempted \cup {a}) : Preferred(a, b)

SelectConnection ==
  /\ phase = "replenish" /\ ~Replenishes /\ Eligible \ attempted # {}
  /\ \E a \in Eligible :
       /\ IsSelected(a)
       /\ target' = a
       /\ attempted' = attempted \cup {a}
  /\ phase' = "exchange"
  /\ leaders' = {}
  /\ UNCHANGED <<others, local, pool, cool, budget, retry, supplier, barred, suspects, outcome, faults>>

NoCapablePeer ==
  /\ phase = "replenish" /\ ~Replenishes /\ Eligible \ attempted = {}
  /\ Return("failed")
  /\ UNCHANGED <<others, local, pool, cool, suspects, faults>>

Answer ==
  /\ phase = "exchange"
  /\ local' = RecordTransportSuccess(local, target)
  /\ suspects' = suspects \cup (Faulty \cap {target})
  /\ Return("answer")
  /\ UNCHANGED <<others, pool, cool, faults>>

\* The next attempt, or the end when the alternates are used up.
Retry ==
  \/ /\ retry < AlternateRetries
     /\ retry' = retry + 1 /\ phase' = "attempt"
     /\ UNCHANGED <<attempted, budget, leaders, supplier, target, barred, outcome>>
  \/ retry = AlternateRetries /\ Return("failed")

Failing == phase = "exchange" /\ Fault(target) /\ UNCHANGED <<others, suspects>>

\* An answer that cannot be matched to the request, or does not fit the query.
MalformedAnswer ==
  /\ Failing /\ Retry
  /\ local' = RecordMalformed(local, target, RelayBan)
  /\ CoolDown(target)
  /\ pool' = pool \ {target}

TransportFails ==
  /\ Failing /\ Retry
  /\ local' = RecordTransientFailure(local, target)
  /\ CoolDown(target)
  /\ pool' = pool \ {target}

\* Busy, Timeout and the like keep the connection.
TemporaryStatus ==
  /\ Failing /\ Retry
  /\ CoolDown(target)
  /\ UNCHANGED <<local, pool>>

UnknownStatus ==
  /\ Failing /\ Retry
  /\ pool' = pool \ {target}
  /\ UNCHANGED <<local, cool>>

RefusedStatus == Failing /\ Retry /\ UNCHANGED <<local, pool, cool>>

\* The one status that is final: the query is taken to be at fault.
InvalidQueryStatus ==
  /\ Failing /\ Return("rejected")
  /\ UNCHANGED <<local, pool, cool>>

\* The answer passed local validation.
AcceptAnswer ==
  /\ phase \notin {"off"} /\ suspects # {}
  /\ \E a \in suspects : suspects' = suspects \ {a}
  /\ UNCHANGED <<stored, chainVars, phase, local, pool, cool, resolution, proofPeer, outcome, bounds>>

\* It failed DNSSEC: the peer is banned if its connection is still there.
ReportDnssecFailure ==
  /\ phase = "idle"
  /\ \E a \in suspects :
       /\ suspects' = suspects \ {a}
       /\ Fault(a)
       /\ IF a \in pool
          THEN /\ local' = RecordMalformed(local, a, RelayBan)
               /\ CoolDown(a)
               /\ pool' = pool \ {a}
          ELSE UNCHANGED <<local, cool, pool>>
  /\ phase' = "persist"
  /\ UNCHANGED <<others, resolution, outcome>>
----------------------------------------------------------------------------
(***************************************************************************)
(* Time and crashes                                                        *)
(***************************************************************************)

Left(n) == IF n > 0 THEN n - 1 ELSE 0
Pass(b) == [a \in DOMAIN b |-> [b[a] EXCEPT !.ban = Left(@)]]

Tick ==
  /\ phase \in {"off", "idle", "persist"}
  /\ stored' = Pass(stored) /\ book' = Pass(book) /\ local' = Pass(local)
  /\ cool' = [a \in Address |-> Left(cool[a])]
  /\ <<stored', book', local', cool'>> # <<stored, book, local, cool>>
  /\ UNCHANGED <<held, phase, pool, resolution, proofPeer, suspects, outcome, bounds>>

\* The process dies, perhaps with some of the rows of a save written.
Crash ==
  /\ crashes < MaxCrashes
  /\ crashes' = crashes + 1
  /\ \/ \E S \in SUBSET DOMAIN book : stored' = SaveManager([a \in S |-> book[a]], stored)
     \/ /\ phase = "persist" /\ ~held
        /\ \E S \in SUBSET DOMAIN local :
             stored' = SaveManager([a \in S |-> PersistedRow(a)], stored)
  /\ held' = FALSE /\ book' = NoBook
  /\ phase' = "off" /\ local' = NoBook /\ pool' = {} /\ suspects' = {}
  /\ cool' = [a \in Address |-> 0]
  /\ Forget
  /\ proofPeer' = None /\ outcome' = "none"
  /\ UNCHANGED <<faults, loads>>

ExchangeFails == \/ MalformedAnswer \/ TransportFails \/ TemporaryStatus
                 \/ UnknownStatus \/ RefusedStatus \/ InvalidQueryStatus

Resolve == \/ StartAttempt \/ Handshake \/ SelectConnection \/ NoCapablePeer
           \/ Answer \/ ExchangeFails

Next ==
  \/ LoadManager \/ ChainSuccess \/ ChainObservesHeight \/ ChainFailure \/ ChainDiscovers
  \/ SavePeers \/ ReleasePeers
  \/ InitializeRelay \/ RefreshPeers \/ Resolve \/ PersistPeers \/ PersistFails
  \/ AcceptAnswer \/ ReportDnssecFailure
  \/ Tick \/ Crash

\* Queries keep coming, every network wait has a timeout, and chain threads give
\* the lock back and pause between ticks, so the relay gets it in the end.
Fairness ==
  /\ WF_vars(Resolve) /\ WF_vars(ReleasePeers)
  /\ SF_vars(InitializeRelay) /\ SF_vars(RefreshPeers) /\ SF_vars(PersistPeers)

Spec == Init /\ [][Next]_vars /\ Fairness
----------------------------------------------------------------------------
(***************************************************************************)
(* Properties                                                              *)
(***************************************************************************)

\* A ban in peers.sqlite ends by time alone: no save of a chain thread and no merge of
\* the relay client's older book (merge_dns_relay_peer_state) shortens it or drops the
\* row, not even one cut off by a crash.
BanNeverRelaxed ==
  [][\A a \in DOMAIN stored :
       a \in DOMAIN stored' /\ (stored'[a].ban < stored[a].ban => Tick)]_vars

\* A resolution asks no peer that the store had banned when it began, although the
\* connection is older than the ban and the client's own book never saw it
\* (refresh_dns_relay_peers).
AsksNoBarredPeer == phase = "exchange" => target \notin barred /\ target \in pool

\* Every resolution ends, whatever the peers answer and whoever holds the peer_state
\* lock: the handshake budget, the alternates and the pool bound its steps.
ResolutionEnds == phase = "attempt" ~> phase \in {"idle", "off"}

\* A row of the store is of a peer that serves the relay and never fails.
WorkingPeerKnown == \E a \in DOMAIN stored : a \in Capable \ Faulty

\* One capable peer that works is enough once the store has it: again and again a query
\* is answered, or a peer declares it invalid, as
\* docs/experimental-hns-p2p-dns-relay.md has it.
OneCapableSuffices == []<>(WorkingPeerKnown => outcome \in {"answer", "rejected"})

\* What a caller of the relay client can count on: resolve returns, and a capable peer
\* that works and is known gets its query answered in the end.
RelayProgress == ResolutionEnds /\ OneCapableSuffices
============================================================================
