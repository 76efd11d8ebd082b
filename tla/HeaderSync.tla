---------------------------- MODULE HeaderSync -----------------------------
(***************************************************************************)
(* One sync tick after another of crate hns-sync, on the path the runtime  *)
(* configures (parallel_header_fetch_peers > 1): ranges after the sync     *)
(* checkpoints are prefetched, then pages of headers are raced from all    *)
(* outbound peers, one page at a time, and ingested into the header store. *)
(*                                                                         *)
(* The store is the one of TipStore; an insertion keeps its two commits    *)
(* (put_headers, promotion), between which the process can die.  Peers are *)
(* full nodes that follow some branch of the block tree, except the faulty *)
(* ones, which advertise and send anything.  There are no more peers than  *)
(* are raced at once, so select_outbound returns all that are not banned.  *)
(***************************************************************************)
EXTENDS Integers, Sequences

CONSTANTS
  Header, Genesis, PrevBlock, Work, ValidBits, ValidPow, Checkpoint, Nil,
  SyncCheckpoint,  \* mainnet_sync_checkpoints, as headers
  Peer,            \* outbound peers
  FaultyPeer,      \* peers that need not follow the protocol
  FaultyPages,     \* what those may send
  InitTip,         \* the tip of each peer's best chain at first
  MaxHeaders,      \* MAX_HEADERS, the headers of a full page
  MaxBatches,      \* max_header_batches_per_peer x preferred_peers
  MaxDeaths,       \* bound: process deaths and storage errors of a behaviour
  MaxDrops         \* bound: connections that fail or time out

ASSUME SyncAssumption ==
  /\ Genesis \in Header /\ Nil \notin Header
  /\ PrevBlock \in [Header -> Header \cup {Nil}]
  /\ Work \in [Header -> Nat \ {0}]
  /\ FaultyPeer \subseteq Peer
  /\ InitTip \in [Peer -> Header]
  /\ FaultyPages \subseteq Seq(Header)
  /\ SyncCheckpoint \subseteq Header
  /\ MaxHeaders \in Nat \ {0}
  /\ MaxBatches \in Nat \ {0}

\* Hashes commit to the parent, so no block is among its own ancestors and every
\* branch has a first block; only genesis is accepted without a parent.
ASSUME AncestryAssumption ==
  /\ PrevBlock[Genesis] = Nil
  /\ \A T \in SUBSET Header : T # {} => \E h \in T : PrevBlock[h] \notin T
  /\ \A h \in ValidBits : PrevBlock[h] = Nil => h = Genesis

VARIABLES
  headers,     \* headers_by_hash
  best,        \* best_hash
  stage,       \* where the sync thread stands in a tick
  asked,       \* prefetch: checkpoints whose range has not come back
  staged,      \* prefetched ranges waiting for their parent
  batches,     \* pages the tick may still race for
  more,        \* the loop of the tick has not broken off
  thread,      \* race: how far the thread of each peer is
  advertised,  \* race: the height of the peer's version packet
  batch,       \* the page being ingested and its accepted headers
  banned,      \* peers in cooldown after malformed headers
  stale,       \* peers ever charged with a stale tip
  tip,         \* peers: the tip of their best chain
  deaths, drops

store == <<headers, best>>
race == <<thread, advertised>>
peers == <<banned, stale>>
syncBounds == <<deaths, drops>>
syncVars == <<headers, best, stage, asked, staged, batches, more, thread, advertised, batch,
              banned, stale, tip, deaths, drops>>

Promise == INSTANCE TipStore WITH headers <- headers, best <- best, None <- Nil

Honest == Peer \ FaultyPeer

(***************************************************************************)
(* The block tree                                                          *)
(***************************************************************************)

\* The branch from genesis to h; a header without known parent starts its own.
Branch[h \in Header] ==
  IF PrevBlock[h] = Nil THEN <<h>> ELSE Append(Branch[PrevBlock[h]], h)

OnBranch(h) == {Branch[h][i] : i \in 1..Len(Branch[h])}
HeightOf(h) == Len(Branch[h]) - 1

ChainWork[h \in Header] ==
  Work[h] + (IF PrevBlock[h] = Nil THEN 0 ELSE ChainWork[PrevBlock[h]])

Record(h) == [height |-> HeightOf(h), chainwork |-> ChainWork[h]]

\* locator_with_limit: the first ten hashes back from the best header are dense,
\* so on trees up to ten high the locator is the whole branch.
Locator == OnBranch(best)

\* A full node's answer to getheaders: what follows the last hash of the locator
\* that is on its best chain, at most MAX_HEADERS of it.
GetHeaders(p, locator) ==
  LET chain == Branch[tip[p]]
      known == {i \in 1..Len(chain) : chain[i] \in locator} \cup {1}
      from == CHOOSE i \in known : \A j \in known : j <= i
      to == IF from + MaxHeaders < Len(chain) THEN from + MaxHeaders ELSE Len(chain)
  IN  SubSeq(chain, from + 1, to)

Replies(p, locator) == IF p \in FaultyPeer THEN FaultyPages ELSE {GetHeaders(p, locator)}
Heights(p) ==
  IF p \in FaultyPeer THEN {0, MaxHeaders * MaxBatches} ELSE {HeightOf(tip[p])}

(***************************************************************************)
(* insert_headers, as one validation and two commits                       *)
(***************************************************************************)

IsNew(page, i) == page[i] \notin DOMAIN headers /\ \A j \in 1..(i-1) : page[j] # page[i]

ParentKnown(page, i) ==
  \/ PrevBlock[page[i]] \in DOMAIN headers
  \/ \E j \in 1..(i-1) : page[j] = PrevBlock[page[i]]

WellFormed(h) ==
  h \in ValidBits /\ h \in ValidPow /\ Promise!MeetsCheckpoint(HeightOf(h), h)

\* The headers that make insert_headers give up; the first one names the error.
Refused(page) ==
  {i \in 1..Len(page) : IsNew(page, i) /\ ~(ParentKnown(page, i) /\ WellFormed(page[i]))}

FirstRefused(page) == CHOOSE i \in Refused(page) : \A j \in Refused(page) : i <= j

\* The accepted headers of a page, by their positions.
Accepted(page) == {i \in 1..Len(page) : IsNew(page, i)}

\* max_by returns the last of the heaviest.
BestIndex(page, accepted) ==
  CHOOSE i \in accepted :
    \A j \in accepted : /\ ChainWork[page[j]] <= ChainWork[page[i]]
                        /\ j > i => ChainWork[page[j]] < ChainWork[page[i]]
BestCandidate == batch.page[BestIndex(batch.page, batch.accepted)]

NoBatch == [peer |-> Nil, range |-> FALSE, page |-> <<>>, accepted |-> {}]

\* A branch whose headers insert_headers would all take.
IsGoodBranch(h) == \A a \in OnBranch(h) : a = Genesis \/ WellFormed(a)

\* Honest peers follow branches whose blocks they validated.
ASSUME HonestAssumption == \A p \in Honest : IsGoodBranch(InitTip[p])

NoThreads == [p \in Peer |-> "none"]
NoHeights == [p \in Peer |-> 0]
----------------------------------------------------------------------------
SyncInit ==
  /\ headers = [h \in {Genesis} |-> Record(h)]
  /\ best = Genesis
  /\ stage = "idle"
  /\ asked = {}
  /\ staged = {}
  /\ batches = 0
  /\ more = FALSE
  /\ thread = NoThreads
  /\ advertised = NoHeights
  /\ batch = NoBatch
  /\ banned = {}
  /\ stale = {}
  /\ tip = InitTip
  /\ deaths = 0
  /\ drops = 0

Outbound == Peer \ banned

(***************************************************************************)
(* Prefetch of the ranges after the sync checkpoints                       *)
(***************************************************************************)

StartTick ==
  /\ stage = "idle"
  /\ stage' = "prefetch"
  /\ asked' = IF Outbound = {} THEN {}
              ELSE {c \in SyncCheckpoint : HeightOf(c) > headers[best].height}
  /\ staged' = {}
  /\ batches' = MaxBatches
  /\ more' = TRUE
  /\ UNCHANGED <<store, race, batch, peers, tip, syncBounds>>

\* A range comes back, in any order.  One that does not continue the checkpoint
\* is a failed request, an empty one is none.
Prefetch(c, p) ==
  /\ stage = "prefetch"
  /\ c \in asked
  /\ p \in Outbound
  /\ asked' = asked \ {c}
  /\ \E page \in Replies(p, {c}) :
       staged' = IF page # <<>> /\ PrevBlock[page[1]] = c
                 THEN staged \cup {[peer |-> p, checkpoint |-> c, page |-> page]}
                 ELSE staged
  /\ UNCHANGED <<store, stage, batches, more, race, batch, peers, tip, syncBounds>>

PrefetchFails(c) ==
  /\ stage = "prefetch"
  /\ c \in asked
  /\ drops < MaxDrops
  /\ drops' = drops + 1
  /\ asked' = asked \ {c}
  /\ UNCHANGED <<store, stage, staged, batches, more, race, batch, peers, tip, deaths>>

EndPrefetch ==
  /\ stage = "prefetch"
  /\ asked = {}
  /\ stage' = "apply"
  /\ UNCHANGED <<store, asked, staged, batches, more, race, batch, peers, tip, syncBounds>>

(***************************************************************************)
(* The loop: apply ready ranges, then race for the next page               *)
(***************************************************************************)

\* Mutant: ranges applied as soon as they are there.
MutantAllReady == staged

Ready == {r \in staged : PrevBlock[r.page[1]] \in DOMAIN headers}

\* apply_ready_checkpoint_ranges takes the lowest ready range out and ingests it.
ApplyRange ==
  /\ stage = "apply"
  /\ \E r \in Ready :
       /\ \A q \in Ready : HeightOf(r.checkpoint) <= HeightOf(q.checkpoint)
       /\ staged' = staged \ {r}
       /\ batch' = [peer |-> r.peer, range |-> TRUE, page |-> r.page, accepted |-> {}]
  /\ stage' = "ingest"
  /\ UNCHANGED <<store, asked, batches, more, race, peers, tip, syncBounds>>

\* The tick returns and drops its local state.
LeaveTick ==
  /\ stage' = "idle"
  /\ asked' = {}
  /\ staged' = {}
  /\ batches' = 0
  /\ more' = FALSE

LoopContinues == more /\ batches > 0 /\ Outbound # {}

StartRace ==
  /\ stage = "apply"
  /\ Ready = {}
  /\ LoopContinues
  /\ batches' = batches - 1
  /\ thread' = [p \in Peer |-> IF p \in Outbound THEN "connecting" ELSE "none"]
  /\ stage' = "racing"
  /\ UNCHANGED <<store, asked, staged, more, advertised, batch, peers, tip, syncBounds>>

EndTick ==
  /\ stage = "apply"
  /\ Ready = {}
  /\ ~LoopContinues
  /\ LeaveTick
  /\ UNCHANGED <<store, race, batch, peers, tip, syncBounds>>

\* request_tcp_header_batch: the handshake tells the peer's height, and the
\* request for headers goes out at once.
RaceHandshake(p) ==
  /\ stage = "racing"
  /\ thread[p] = "connecting"
  /\ thread' = [thread EXCEPT ![p] = "requested"]
  /\ \E n \in Heights(p) : advertised' = [advertised EXCEPT ![p] = n]
  /\ UNCHANGED <<store, stage, asked, staged, batches, more, batch, peers, tip, syncBounds>>

\* Mutant: a peer one block ahead is not worth a page.
MutantAheadByTwo(p, page) == advertised[p] > headers[best].height + 1 /\ page # <<>>

IsUseful(p, page) == advertised[p] > headers[best].height /\ page # <<>>

\* The first useful page wins; the other threads find the channel closed.
WinRace(p) ==
  /\ stage = "racing"
  /\ thread[p] = "requested"
  /\ \E page \in Replies(p, Locator) :
       /\ IsUseful(p, page)
       /\ batch' = [peer |-> p, range |-> FALSE, page |-> page, accepted |-> {}]
  /\ thread' = NoThreads
  /\ advertised' = NoHeights
  /\ stage' = "ingest"
  /\ UNCHANGED <<store, asked, staged, batches, more, peers, tip, syncBounds>>

SkipPeer(p) ==
  /\ stage = "racing"
  /\ thread[p] = "requested"
  /\ \E page \in Replies(p, Locator) : ~IsUseful(p, page)
  /\ thread' = [thread EXCEPT ![p] = "none"]
  /\ advertised' = [advertised EXCEPT ![p] = 0]
  /\ UNCHANGED <<store, stage, asked, staged, batches, more, batch, peers, tip, syncBounds>>

PeerFails(p) ==
  /\ stage = "racing"
  /\ thread[p] # "none"
  /\ drops < MaxDrops
  /\ drops' = drops + 1
  /\ thread' = [thread EXCEPT ![p] = "none"]
  /\ advertised' = [advertised EXCEPT ![p] = 0]
  /\ UNCHANGED <<store, stage, asked, staged, batches, more, batch, peers, tip, deaths>>

NoUsefulResponse ==
  /\ stage = "racing"
  /\ thread = NoThreads
  /\ more' = FALSE
  /\ stage' = "apply"
  /\ UNCHANGED <<store, asked, staged, batches, race, batch, peers, tip, syncBounds>>

(***************************************************************************)
(* ingest_headers                                                          *)
(***************************************************************************)

\* After a page of the race the loop goes on only if the page was full and
\* brought something new; a range leaves the loop alone.
AfterIngest(accepted) ==
  /\ more' = IF batch.range THEN more
             ELSE Len(batch.page) = MaxHeaders /\ accepted # {}
  /\ batch' = NoBatch
  /\ stage' = "apply"

\* record_chain_failure; a refused page of the race ends the tick at once.
IngestRefused ==
  /\ stage = "ingest"
  /\ Refused(batch.page) # {}
  /\ IF ParentKnown(batch.page, FirstRefused(batch.page))
     THEN banned' = banned \cup {batch.peer} /\ stale' = stale
     ELSE stale' = stale \cup {batch.peer} /\ banned' = banned
  /\ IF batch.range
     THEN stage' = "apply" /\ UNCHANGED <<asked, staged, batches, more>>
     ELSE LeaveTick
  /\ batch' = NoBatch
  /\ UNCHANGED <<store, race, tip, syncBounds>>

IngestDuplicates ==
  /\ stage = "ingest"
  /\ Refused(batch.page) = {}
  /\ Accepted(batch.page) = {}
  /\ AfterIngest({})
  /\ UNCHANGED <<store, asked, staged, batches, race, peers, tip, syncBounds>>

\* The transaction of put_headers.
PutHeaders ==
  /\ stage = "ingest"
  /\ Refused(batch.page) = {}
  /\ Accepted(batch.page) # {}
  /\ batch' = [batch EXCEPT !.accepted = Accepted(batch.page)]
  /\ headers' = [h \in DOMAIN headers \cup {batch.page[i] : i \in 1..Len(batch.page)} |->
                   IF h \in DOMAIN headers THEN headers[h] ELSE Record(h)]
  /\ stage' = "promote"
  /\ UNCHANGED <<best, asked, staged, batches, more, race, peers, tip, syncBounds>>

\* Mutant: ties go to the newcomer.
MutantPromoteTie ==
  /\ stage = "promote"
  /\ best' = IF ChainWork[BestCandidate] >= headers[best].chainwork THEN BestCandidate ELSE best
  /\ AfterIngest(batch.accepted)
  /\ UNCHANGED <<headers, asked, staged, batches, race, peers, tip, syncBounds>>

\* The transaction of the promotion, when the batch outweighs the best header.
PromoteBest ==
  /\ stage = "promote"
  /\ best' = IF ChainWork[BestCandidate] > headers[best].chainwork THEN BestCandidate ELSE best
  /\ AfterIngest(batch.accepted)
  /\ UNCHANGED <<headers, asked, staged, batches, race, peers, tip, syncBounds>>

(***************************************************************************)
(* Faults and the outside world                                            *)
(***************************************************************************)

\* The process dies or a transaction fails: the tick is over, what was committed
\* stays.
TickDies ==
  /\ stage # "idle"
  /\ deaths < MaxDeaths
  /\ deaths' = deaths + 1
  /\ LeaveTick
  /\ thread' = NoThreads
  /\ advertised' = NoHeights
  /\ batch' = NoBatch
  /\ UNCHANGED <<store, peers, tip, drops>>

\* malformed_ban_seconds have passed.
BanExpires(p) ==
  /\ p \in banned
  /\ banned' = banned \ {p}
  /\ UNCHANGED <<store, stage, asked, staged, batches, more, race, batch, stale, tip, syncBounds>>

\* An honest peer's chain grows, or reorganises to a heavier valid branch.
MoveTip(p, h) ==
  /\ p \in Honest
  /\ ChainWork[h] > ChainWork[tip[p]]
  /\ IsGoodBranch(h)
  /\ tip' = [tip EXCEPT ![p] = h]
  /\ UNCHANGED <<store, stage, asked, staged, batches, more, race, batch, peers, syncBounds>>
----------------------------------------------------------------------------
PrefetchStep ==
  \/ StartTick
  \/ \E c \in SyncCheckpoint, p \in Peer : Prefetch(c, p)
  \/ EndPrefetch

RaceStep ==
  \/ ApplyRange
  \/ StartRace
  \/ EndTick
  \/ \E p \in Peer : RaceHandshake(p) \/ WinRace(p) \/ SkipPeer(p)
  \/ NoUsefulResponse

IngestStep == IngestRefused \/ IngestDuplicates \/ PutHeaders \/ PromoteBest

SyncStep == PrefetchStep \/ RaceStep \/ IngestStep

SyncNext ==
  \/ SyncStep
  \/ \E c \in SyncCheckpoint : PrefetchFails(c)
  \/ \E p \in Peer : PeerFails(p) \/ BanExpires(p)
  \/ \E p \in Peer, h \in Header : MoveTip(p, h)
  \/ TickDies

\* The runtime starts ticks for ever, and no step of a tick waits longer than
\* the timeout of a connection.
SyncSpec == SyncInit /\ [][SyncNext]_syncVars /\ WF_syncVars(SyncStep)
----------------------------------------------------------------------------
(***************************************************************************)
(* Properties                                                              *)
(***************************************************************************)

SyncTypes ==
  /\ DOMAIN headers \subseteq Header
  /\ best \in DOMAIN headers
  /\ stage \in {"idle", "prefetch", "apply", "racing", "ingest", "promote"}
  /\ asked \subseteq SyncCheckpoint
  /\ staged \subseteq [peer : Peer, checkpoint : SyncCheckpoint, page : Seq(Header)]
  /\ batches \in 0..MaxBatches
  /\ more \in BOOLEAN
  /\ thread \in [Peer -> {"none", "connecting", "requested"}]
  /\ advertised \in [Peer -> Nat]
  /\ batch \in [peer : Peer \cup {Nil}, range : BOOLEAN,
                page : Seq(Header), accepted : SUBSET Nat]
  /\ banned \subseteq Peer /\ stale \subseteq Peer
  /\ tip \in [Peer -> Header]

\* Whatever pages and ranges arrive, in whatever order, and wherever the process
\* dies, the sync runner shows the store's readers only what TipStore allows.
KeepsStorePromise == [][Promise!Next]_<<headers, best>>

\* A peer that follows the protocol is never charged for what the local state
\* makes of its answer: neither banned nor marked stale, though ranges are
\* fetched ahead of their parents and its chain may reorganise meanwhile.
HonestNotPenalised == Honest \cap (banned \cup stale) = {}

\* What every state of a tick promises (record_chain_failure and the booking of a
\* race), with its types.
TickSafety == SyncTypes /\ HonestNotPenalised

\* Every tick comes to an end, so ticks keep coming: no reply keeps the runner in
\* its loops ("a stale peer cannot spin the sync runner", docs/security-model.md).
TickEnds == []<>(stage = "idle")

\* Without deaths the best header ends up as heavy as the chain of every honest
\* peer, through dropped connections, prefetched ranges, bans and a fork that fits
\* into a page, unless a faulty peer keeps being first in the race for a page.
CatchesUp ==
  ([](deaths = 0) /\ <>[][\A p \in FaultyPeer : ~WinRace(p)]_syncVars) =>
    <>[](\A p \in Honest : ChainWork[tip[p]] <= headers[best].chainwork)

\* docs/plan.md, deliverables of peer sync: "Restart resumes from stored tip."  The
\* best header is never left a whole page behind an honest peer for good.
ResumesAfterRestart ==
  []<>(\A p \in Honest : HeightOf(tip[p]) <= headers[best].height + MaxHeaders)
============================================================================
