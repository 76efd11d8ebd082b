---------------------------- MODULE HeaderChain ----------------------------
(***************************************************************************)
(* The header chain of crate hns-chain on its SQLite store, with the       *)
(* threads of hns-browser-runtime that open it.                            *)
(*                                                                         *)
(* One thread at a time holds the runtime's sync_lock and may insert       *)
(* headers (SyncThread).  Status threads only hold the maintenance lock    *)
(* for reading, and still run open_initialized_header_chain, which inserts *)
(* the genesis header into an empty store.  A SQLite transaction is one    *)
(* step; everything between two transactions can be interrupted by the     *)
(* other threads, by a storage error or by the death of the process.       *)
(***************************************************************************)
EXTENDS Integers, Sequences

CONSTANTS
  Header,        \* the block headers peers and snapshots can present, by hash
  Genesis,       \* BlockHeader::genesis_for_network
  PrevBlock,     \* header.prev_block, None when the parent is no known header
  Work,          \* Chainwork::from_bits(header.bits)
  ValidBits,     \* headers whose bits are the ones expected after their parent
  ValidPow,      \* headers whose hash meets the target of their bits
  Checkpoint,    \* mainnet_checkpoint_hash, a partial function of heights
  StatusThread,  \* threads that call sync_status
  SyncThread,    \* the holder of sync_lock
  MaxBatch,      \* bound: length of one presented batch
  MaxFaults,     \* bound: crashes and storage errors of a behaviour
  None           \* no header

Thread == StatusThread \cup {SyncThread}

ASSUME HeaderAssumption ==
  /\ Genesis \in Header
  /\ None \notin Header
  /\ PrevBlock \in [Header -> Header \cup {None}]
  /\ Work \in [Header -> Nat \ {0}]
  /\ ValidBits \subseteq Header
  /\ ValidPow \subseteq Header

ASSUME CheckpointAssumption ==
  DOMAIN Checkpoint \subseteq Nat \ {0}

ASSUME BoundAssumption ==
  /\ SyncThread \notin StatusThread
  /\ MaxBatch \in Nat
  /\ MaxFaults \in Nat

VARIABLES
  headers,    \* table headers_by_hash: header -> [height, chainwork]
  canonical,  \* table hash_by_height: height -> header
  best,       \* chain_state best_hash
  pc,         \* where each thread stands
  queue,      \* insert_headers: the part of the batch not yet looked at
  accepted,   \* insert_headers: the headers accepted so far, in order
  pending,    \* insert_headers: height and chainwork of the accepted ones
  exclusive,  \* the sync thread holds the maintenance lock for writing
  faults      \* crashes and storage errors so far

store == <<headers, canonical, best>>
batchvars == <<queue, accepted, pending>>
vars == <<headers, canonical, best, pc, queue, accepted, pending, exclusive, faults>>

StoredHeader == [height : Nat, chainwork : Nat]
EmptyTable == [k \in {} |-> None]

Phases == {"closed", "genesis", "genesis_stored", "open",
           "validating", "putting", "promoting"}

(***************************************************************************)
(* Reading the store                                                       *)
(***************************************************************************)

IsStored(h) == h \in DOMAIN headers

\* pending.get(prev).or_else(|| store.get_header(prev))
IsKnown(h) == h \in DOMAIN pending \/ IsStored(h)
Lookup(h) == IF h \in DOMAIN pending THEN pending[h] ELSE headers[h]

\* The genesis record of insert_genesis.
GenesisRecord == [height |-> 0, chainwork |-> Work[Genesis]]

\* Mutant: the parent's bits counted twice, the header's own not at all.
MutantParentWork(h) ==
  [height |-> Lookup(PrevBlock[h]).height + 1,
   chainwork |-> Lookup(PrevBlock[h]).chainwork + Work[PrevBlock[h]]]

\* The record of a header whose parent is known.
ChildRecord(h) ==
  [height |-> Lookup(PrevBlock[h]).height + 1,
   chainwork |-> Lookup(PrevBlock[h]).chainwork + Work[h]]

MeetsCheckpoint(height, h) ==
  height \in DOMAIN Checkpoint => h = Checkpoint[height]

\* Mutant: a batch whose proof of work is taken for granted.
MutantTrustsPow(h) ==
  /\ PrevBlock[h] # None
  /\ IsKnown(PrevBlock[h])
  /\ h \in ValidBits
  /\ MeetsCheckpoint(ChildRecord(h).height, h)

\* All that insert_header and insert_headers require of a header not yet stored.
Acceptable(h) ==
  /\ PrevBlock[h] # None
  /\ IsKnown(PrevBlock[h])
  /\ h \in ValidBits
  /\ h \in ValidPow
  /\ MeetsCheckpoint(ChildRecord(h).height, h)

(***************************************************************************)
(* Choosing and writing the new tip                                        *)
(***************************************************************************)

\* Mutant: the candidate is the end of the batch.
MutantLastAccepted == Len(accepted)

\* max_by keeps the last of the headers with the greatest chainwork.
BestIndex ==
  CHOOSE i \in 1..Len(accepted) :
    /\ \A j \in 1..Len(accepted) :
         pending[accepted[j]].chainwork <= pending[accepted[i]].chainwork
    /\ \A j \in (i+1)..Len(accepted) :
         pending[accepted[j]].chainwork < pending[accepted[i]].chainwork

BestCandidate == accepted[BestIndex]

ShouldPromote ==
  best = None \/ pending[BestCandidate].chainwork > headers[best].chainwork

\* Mutant: a test for an extension that looks at the first header alone.
MutantFirstExtends ==
  best # None /\ PrevBlock[accepted[1]] = best

ExtendsBest ==
  /\ best # None
  /\ PrevBlock[accepted[1]] = best
  /\ \A i \in 2..BestIndex : PrevBlock[accepted[i]] = accepted[i-1]

\* promote_canonical_tips: upsert each header of path at its height.
HeightsOf(path) == {headers[path[k]].height : k \in DOMAIN path}
AtHeight(path, n) == {k \in DOMAIN path : headers[path[k]].height = n}

Upsert(index, path) ==
  [n \in DOMAIN index \cup HeightsOf(path) |->
     IF n \in HeightsOf(path)
     THEN path[CHOOSE k \in AtHeight(path, n) : \A j \in AtHeight(path, n) : j <= k]
     ELSE index[n]]

\* canonical_chain_to: the walk from h along prev_block down to height 0,
\* every header of it stored at the height the walk expects.
ChainsTo(h) ==
  LET top == headers[h].height
  IN  {p \in [0..top -> DOMAIN headers] :
         /\ p[top] = h
         /\ \A n \in 1..top : PrevBlock[p[n]] = p[n-1]
         /\ \A n \in 0..top : headers[p[n]].height = n}
----------------------------------------------------------------------------
Init ==
  /\ headers = EmptyTable
  /\ canonical = EmptyTable
  /\ best = None
  /\ pc = [t \in Thread |-> "closed"]
  /\ queue = <<>>
  /\ accepted = <<>>
  /\ pending = EmptyTable
  /\ exclusive = FALSE
  /\ faults = 0

\* Where a thread is once open_initialized_header_chain has returned Ok.
AfterOpen(t) == IF t = SyncThread THEN "open" ELSE "closed"

\* open_initialized_header_chain reads best_hash.
OpenChain(t) ==
  /\ pc[t] = "closed"
  /\ t \in StatusThread => ~exclusive
  /\ pc' = [pc EXCEPT ![t] = IF best = None THEN "genesis" ELSE AfterOpen(t)]
  /\ UNCHANGED <<store, batchvars, exclusive, faults>>

\* insert_genesis up to the commit of put_header.
PutGenesis(t) ==
  /\ pc[t] = "genesis"
  /\ ~IsStored(Genesis)
  /\ headers' = [h \in DOMAIN headers \cup {Genesis} |->
                   IF h = Genesis THEN GenesisRecord ELSE headers[h]]
  /\ pc' = [pc EXCEPT ![t] = "genesis_stored"]
  /\ UNCHANGED <<canonical, best, batchvars, exclusive, faults>>

\* put_header reports DuplicateHeader and the open fails.
GenesisDuplicate(t) ==
  /\ pc[t] = "genesis"
  /\ IsStored(Genesis)
  /\ pc' = [pc EXCEPT ![t] = "closed"]
  /\ exclusive' = IF t = SyncThread THEN FALSE ELSE exclusive
  /\ UNCHANGED <<store, batchvars, faults>>

\* promote_best_hash: one transaction replaces the index and sets best_hash.
PromoteBestHash(h) ==
  /\ canonical' \in ChainsTo(h)
  /\ best' = h

\* Mutant: insert_genesis that stores genesis and gives up before promoting it.
MutantSkipPromotion(t) ==
  /\ pc[t] = "genesis_stored"
  /\ pc' = [pc EXCEPT ![t] = "closed"]
  /\ UNCHANGED <<store, batchvars, exclusive, faults>>

PromoteGenesis(t) ==
  /\ pc[t] = "genesis_stored"
  /\ PromoteBestHash(Genesis)
  /\ pc' = [pc EXCEPT ![t] = AfterOpen(t)]
  /\ UNCHANGED <<headers, batchvars, exclusive, faults>>

(***************************************************************************)
(* insert_headers, one header of the batch per step                        *)
(***************************************************************************)

InsertHeaders(batch) ==
  /\ pc[SyncThread] = "open"
  /\ pc' = [pc EXCEPT ![SyncThread] = "validating"]
  /\ queue' = batch
  /\ accepted' = <<>>
  /\ pending' = EmptyTable
  /\ UNCHANGED <<store, exclusive, faults>>

\* A header seen in this batch or stored before is skipped.
SkipKnown ==
  /\ pc[SyncThread] = "validating"
  /\ queue # <<>>
  /\ IsKnown(Head(queue))
  /\ queue' = Tail(queue)
  /\ UNCHANGED <<store, pc, accepted, pending, exclusive, faults>>

AcceptHeader ==
  /\ pc[SyncThread] = "validating"
  /\ queue # <<>>
  /\ ~IsKnown(Head(queue))
  /\ Acceptable(Head(queue))
  /\ queue' = Tail(queue)
  /\ accepted' = Append(accepted, Head(queue))
  /\ pending' = [h \in DOMAIN pending \cup {Head(queue)} |->
                   IF h = Head(queue) THEN ChildRecord(h) ELSE pending[h]]
  /\ UNCHANGED <<store, pc, exclusive, faults>>

EndBatch(phase) ==
  /\ pc' = [pc EXCEPT ![SyncThread] = phase]
  /\ queue' = <<>>
  /\ accepted' = <<>>
  /\ pending' = EmptyTable

\* UnknownParent, InvalidDifficultyBits, InvalidProofOfWork, InvalidCheckpoint:
\* the whole batch is refused and nothing of it is stored.
RejectBatch ==
  /\ pc[SyncThread] = "validating"
  /\ queue # <<>>
  /\ ~IsKnown(Head(queue))
  /\ ~Acceptable(Head(queue))
  /\ EndBatch("open")
  /\ UNCHANGED <<store, exclusive, faults>>

\* Every header was known: insert_headers returns an empty list.
NothingNew ==
  /\ pc[SyncThread] = "validating"
  /\ queue = <<>>
  /\ accepted = <<>>
  /\ EndBatch("open")
  /\ UNCHANGED <<store, exclusive, faults>>

ValidatedBatch ==
  /\ pc[SyncThread] = "validating"
  /\ queue = <<>>
  /\ accepted # <<>>
  /\ pc' = [pc EXCEPT ![SyncThread] = "putting"]
  /\ UNCHANGED <<store, batchvars, exclusive, faults>>

\* The transaction of put_headers.
PutHeaders ==
  /\ pc[SyncThread] = "putting"
  /\ headers' = [h \in DOMAIN headers \cup DOMAIN pending |-> Lookup(h)]
  /\ pc' = [pc EXCEPT ![SyncThread] = "promoting"]
  /\ UNCHANGED <<canonical, best, batchvars, exclusive, faults>>

\* insert_header: put_header commits the one header, promotion follows.
InsertHeader(h) ==
  /\ pc[SyncThread] = "open"
  /\ ~IsStored(h)
  /\ Acceptable(h)
  /\ headers' = [g \in DOMAIN headers \cup {h} |->
                   IF g = h THEN ChildRecord(h) ELSE headers[g]]
  /\ pc' = [pc EXCEPT ![SyncThread] = "promoting"]
  /\ accepted' = <<h>>
  /\ pending' = [g \in {h} |-> ChildRecord(h)]
  /\ UNCHANGED <<canonical, best, queue, exclusive, faults>>

KeepBest ==
  /\ pc[SyncThread] = "promoting"
  /\ ~ShouldPromote
  /\ EndBatch("open")
  /\ UNCHANGED <<store, exclusive, faults>>

\* The transaction of promote_canonical_tips on accepted[..=best_index].
PromoteTips ==
  /\ pc[SyncThread] = "promoting"
  /\ ShouldPromote
  /\ ExtendsBest
  /\ canonical' = Upsert(canonical, SubSeq(accepted, 1, BestIndex))
  /\ best' = BestCandidate
  /\ EndBatch("open")
  /\ UNCHANGED <<headers, exclusive, faults>>

\* The transaction of replace_canonical_chain after a fork.
PromoteFork ==
  /\ pc[SyncThread] = "promoting"
  /\ ShouldPromote
  /\ ~ExtendsBest
  /\ PromoteBestHash(BestCandidate)
  /\ EndBatch("open")
  /\ UNCHANGED <<headers, exclusive, faults>>

CloseChain ==
  /\ pc[SyncThread] = "open"
  /\ pc' = [pc EXCEPT ![SyncThread] = "closed"]
  /\ exclusive' = FALSE
  /\ UNCHANGED <<store, batchvars, faults>>

(***************************************************************************)
(* Maintenance and faults                                                  *)
(***************************************************************************)

\* install_header_snapshot and reset_headers_from_peers take both locks.
BeginMaintenance ==
  /\ \A t \in Thread : pc[t] = "closed"
  /\ ~exclusive
  /\ exclusive' = TRUE
  /\ UNCHANGED <<store, pc, batchvars, faults>>

\* reset_headers_from_peers_inner removes the database, then opens it again.
ResetHeaders ==
  /\ exclusive
  /\ pc[SyncThread] = "closed"
  /\ headers' = EmptyTable
  /\ canonical' = EmptyTable
  /\ best' = None
  /\ pc' = [pc EXCEPT ![SyncThread] = "genesis"]
  /\ UNCHANGED <<batchvars, exclusive, faults>>

\* A transaction fails: nothing of it is kept and the operation returns Err.
StorageError(t) ==
  /\ faults < MaxFaults
  /\ faults' = faults + 1
  /\ \/ /\ pc[t] \in {"genesis", "genesis_stored"}
        /\ pc' = [pc EXCEPT ![t] = "closed"]
        /\ exclusive' = IF t = SyncThread THEN FALSE ELSE exclusive
        /\ UNCHANGED batchvars
     \/ /\ t = SyncThread
        /\ pc[t] \in {"putting", "promoting"}
        /\ EndBatch("open")
        /\ UNCHANGED exclusive
  /\ UNCHANGED store

\* The process dies: only committed transactions survive.
Crash ==
  /\ faults < MaxFaults
  /\ faults' = faults + 1
  /\ pc' = [t \in Thread |-> "closed"]
  /\ queue' = <<>>
  /\ accepted' = <<>>
  /\ pending' = EmptyTable
  /\ exclusive' = FALSE
  /\ UNCHANGED store
----------------------------------------------------------------------------
Batches == UNION {[1..n -> Header] : n \in 1..MaxBatch}

GenesisStep(t) == OpenChain(t) \/ PutGenesis(t) \/ GenesisDuplicate(t) \/ PromoteGenesis(t)

ValidationStep == SkipKnown \/ AcceptHeader \/ RejectBatch \/ NothingNew \/ ValidatedBatch

CommitStep == PutHeaders \/ KeepBest \/ PromoteTips \/ PromoteFork

Next ==
  \/ \E t \in Thread : GenesisStep(t)
  \/ \E batch \in Batches : InsertHeaders(batch)
  \/ \E h \in Header : InsertHeader(h)
  \/ ValidationStep
  \/ CommitStep
  \/ CloseChain
  \/ BeginMaintenance
  \/ ResetHeaders
  \/ \E t \in Thread : StorageError(t)
  \/ Crash

Spec == Init /\ [][Next]_vars

\* What the runtime retries on every tick: it opens the chain, and an open in
\* progress runs to its end.  Nothing makes peers send headers.
FairSpec == Spec /\ \A t \in Thread : WF_vars(GenesisStep(t))
----------------------------------------------------------------------------
(***************************************************************************)
(* Properties                                                              *)
(***************************************************************************)

TypeOK ==
  /\ DOMAIN headers \subseteq Header
  /\ headers \in [DOMAIN headers -> StoredHeader]
  /\ DOMAIN canonical \subseteq Nat
  /\ canonical \in [DOMAIN canonical -> Header]
  /\ best \in Header \cup {None}
  /\ pc \in [Thread -> Phases]
  /\ queue \in Seq(Header)
  /\ accepted \in Seq(Header)
  /\ DOMAIN pending \subseteq Header
  /\ pending \in [DOMAIN pending -> StoredHeader]
  /\ exclusive \in BOOLEAN
  /\ faults \in 0..MaxFaults

\* Every stored header except genesis hangs on a stored parent, one higher and
\* heavier by its own work, and passed every check: whatever batch was refused,
\* cut by a crash or rolled back, headers_by_hash never holds an orphan.
StoredHeadersLinked ==
  \A h \in DOMAIN headers :
    IF h = Genesis
    THEN headers[h] = GenesisRecord
    ELSE /\ PrevBlock[h] \in DOMAIN headers
         /\ headers[h].height = headers[PrevBlock[h]].height + 1
         /\ headers[h].chainwork = headers[PrevBlock[h]].chainwork + Work[h]
         /\ h \in ValidBits \cap ValidPow
         /\ MeetsCheckpoint(headers[h].height, h)

\* hash_by_height and best_hash agree in every committed state, also between the
\* two transactions of an insertion and after a crash: the index is the chain
\* from genesis to the best header, without a gap or a leftover of a fork.
CanonicalIsBestChain ==
  IF best = None
  THEN DOMAIN canonical = {}
  ELSE best \in DOMAIN headers /\ canonical \in ChainsTo(best)

\* Once an insertion is over, no stored header outweighs the best one, unless a
\* fault fell between put_headers and the promotion.
BestIsHeaviest ==
  faults = 0 /\ pc[SyncThread] = "open" =>
    /\ best \in DOMAIN headers
    /\ \A h \in DOMAIN headers : headers[h].chainwork <= headers[best].chainwork

\* A step that is not a reset never gives best_hash up and never moves it to a
\* header with less work, however threads race to initialise the store.
BestNeverLosesWork ==
  [][best # None /\ best' # best =>
       \/ best' = None /\ exclusive
       \/ headers'[best'].chainwork > headers[best].chainwork]_vars

\* Only one thread can be between the two transactions of insert_genesis, so a
\* late promotion of genesis cannot throw away a chain that was synced meanwhile.
GenesisPromotedOnce ==
  \A t \in Thread : pc[t] = "genesis_stored" =>
    /\ best = None
    /\ \A u \in Thread \ {t} : pc[u] # "genesis_stored"

\* The store keeps the promise its readers rely on: threads, transactions and
\* faults show as growth of a checked header tree, moves of the best header to
\* more work, and resets.
Promise == INSTANCE TipStore WITH headers <- headers, best <- best
ImplementsTipStore == Promise!Spec

\* docs/plan.md on the header chain: it "can survive restart and continue".  An
\* opened store gets its genesis tip.
OpenSucceedsEventually == <>(best # None)

\* Short of a crash or a storage error it does, although every thread that loses
\* the race of open_initialized_header_chain to another one fails.
OpensUnlessFaulted == [](faults = 0) => OpenSucceedsEventually
----------------------------------------------------------------------------
(***************************************************************************)
(* The inductive invariant behind the safety properties                    *)
(***************************************************************************)

OpenPhases == {"open", "validating", "putting", "promoting"}

\* Which phases threads can be in together, and what a phase says of the store.
ThreadInv ==
  /\ \A t \in StatusThread : pc[t] \in {"closed", "genesis", "genesis_stored"}
  /\ exclusive => \A t \in StatusThread : pc[t] = "closed"
  /\ \A t \in Thread : pc[t] = "genesis_stored" => IsStored(Genesis)
  /\ pc[SyncThread] \in OpenPhases => best # None
  /\ best = None => DOMAIN headers \subseteq {Genesis}
  /\ pc[SyncThread] \in {"validating", "putting", "promoting"} \/ DOMAIN pending = {}

AcceptedSet == {accepted[i] : i \in 1..Len(accepted)}

\* Until put_headers commits, the accepted headers are new, valid and linked to
\* each other or to the store.
PendingInv ==
  pc[SyncThread] \in {"validating", "putting"} =>
    /\ DOMAIN pending = AcceptedSet
    /\ \A h \in DOMAIN pending :
         /\ ~IsStored(h)
         /\ Acceptable(h)
         /\ pending[h] = ChildRecord(h)
    /\ pc[SyncThread] = "putting" => accepted # <<>>

\* Between the two transactions the accepted headers are in the store.
PromotingInv ==
  pc[SyncThread] = "promoting" =>
    /\ accepted # <<>>
    /\ DOMAIN pending = AcceptedSet
    /\ \A h \in DOMAIN pending : IsStored(h) /\ headers[h] = pending[h] /\ h # Genesis

\* Without faults only the headers of the batch at hand can outweigh the best.
HeaviestInv ==
  faults = 0 /\ best # None =>
    \A h \in DOMAIN headers :
      \/ pc[SyncThread] = "promoting" /\ h \in DOMAIN pending
      \/ headers[h].chainwork <= headers[best].chainwork

IInv ==
  /\ TypeOK
  /\ StoredHeadersLinked
  /\ CanonicalIsBestChain
  /\ GenesisPromotedOnce
  /\ ThreadInv
  /\ PendingInv
  /\ PromotingInv
  /\ HeaviestInv
============================================================================
