---------------------------- MODULE ProofCache -----------------------------
(***************************************************************************)
(* How the browser proves a Handshake name: GatewayProofProvider of the    *)
(* runtime looks the name up in resources.sqlite, accepts the row only if  *)
(* it is anchored to the best header and the local chain is not stale, and *)
(* otherwise fetches a proof from a peer, stores it and looks again.       *)
(*                                                                         *)
(* Several resolutions run at once, next to the sync tick that moves the   *)
(* best header and prunes the rows, and to maintenance that empties them.  *)
(* Resolutions and ticks share the maintenance lock, maintenance holds it  *)
(* alone; a tick and a proof fetch exclude each other by peer_state.       *)
(*                                                                         *)
(* The tick itself is module HeaderSync.  Here it is what TipStore says of *)
(* it: the best header moves to one with more work.                        *)
(***************************************************************************)
EXTENDS PeerManager, Sequences

CONSTANTS
  Header, Genesis, PrevBlock, Height, ChainWork,  \* the tree of checked headers
  TreeRoot,         \* header -> root of the name tree
  Name,
  Committed,        \* root -> name -> what the name tree says of it
  Absent,           \* the value of a name that is not in the tree
  Thread,           \* resolutions that run at once
  Faulty,           \* peers that may send anything, advertise any height, or fail
  Advertised,       \* heights of version packets
  Garbage,          \* what a faulty peer may send for the value
  PreferredPeers,   \* DEFAULT_GATEWAY_PROOF_PEERS
  Window,           \* RESOURCE_PROOF_CACHE_CANONICAL_WINDOW
  Lag,              \* LOCAL_CHAIN_CURRENTNESS_ALLOWED_LAG
  MaxValues,        \* resource_cache_limit_bytes, in values
  Estimate,         \* estimated_tip_height_for_network, None off mainnet
  None,
  MaxMoves,         \* bound: moves of the best header
  MaxFaults         \* bound: lost connections and storage errors

ASSUME ProofCacheAssumption ==
  /\ Genesis \in Header /\ Height \in [Header -> Nat]
  /\ None \notin Header \cup Thread /\ "tick" \notin Thread
  /\ Advertised \subseteq Nat /\ Window \in Nat /\ Lag \in Nat /\ PreferredPeers \in Nat

VARIABLES
  best,     \* best_header of headers.sqlite, None after a reset that failed
  cache,    \* rows of verified_resource_values
  order,    \* names by updated_at_unix, oldest first
  stored,   \* rows of peers.sqlite
  lock,     \* who holds peer_state
  pc, name, row, bestHeight, fetched,  \* of each resolution
  anchor, book, todo, source,          \* of the fetch that holds peer_state
  seen,     \* history: the best headers since a resolution began
  moves, faults

Row == [name : Name, root : {TreeRoot[h] : h \in Header}, height : Nat,
        value : UNION {{Committed[TreeRoot[h]][n] : n \in Name} : h \in Header} \cup Garbage]

resolutions == <<pc, name, row, bestHeight, fetched>>
fetch == <<anchor, book, todo, source>>
vars == <<best, cache, order, stored, lock, pc, name, row, bestHeight, fetched,
          anchor, book, todo, source, seen, moves, faults>>

Active(t) == pc[t] # "idle"

SomeRow == [name |-> None, root |-> None, height |-> 0, value |-> None]
NoBook == [a \in {} |-> NewPeer]

Init ==
  /\ best = Genesis
  /\ cache = {} /\ order = <<>>
  /\ stored = [a \in Address |-> NewPeer]
  /\ lock = None
  /\ pc = [t \in Thread |-> "idle"]
  /\ name = [t \in Thread |-> None]
  /\ row = [t \in Thread |-> SomeRow]
  /\ bestHeight = [t \in Thread |-> None]
  /\ fetched = [t \in Thread |-> FALSE]
  /\ anchor = None /\ book = NoBook /\ todo = {} /\ source = None
  /\ seen = [t \in Thread |-> {}]
  /\ moves = 0 /\ faults = 0

GoTo(t, phase) == pc' = [pc EXCEPT ![t] = phase]

\* A resolution that returns, with an answer or an error, drops what it has read.
Return(t) ==
  /\ GoTo(t, "idle")
  /\ name' = [name EXCEPT ![t] = None]
  /\ row' = [row EXCEPT ![t] = SomeRow]
  /\ bestHeight' = [bestHeight EXCEPT ![t] = None]
  /\ fetched' = [fetched EXCEPT ![t] = FALSE]
  /\ seen' = [seen EXCEPT ![t] = {}]

Fault == faults < MaxFaults /\ faults' = faults + 1
----------------------------------------------------------------------------
(***************************************************************************)
(* cached_records                                                          *)
(***************************************************************************)

Begin(t, n) ==
  /\ ~Active(t)
  /\ GoTo(t, "lookup")
  /\ name' = [name EXCEPT ![t] = n]
  /\ seen' = [seen EXCEPT ![t] = {best} \ {None}]
  /\ UNCHANGED <<best, cache, order, stored, lock, row, bestHeight, fetched, fetch, moves, faults>>

\* ProofUnavailable leads to one fetch; after that it ends the resolution.
Unavailable(t) ==
  IF fetched[t] THEN Return(t)
  ELSE /\ GoTo(t, "fetch")
       /\ row' = [row EXCEPT ![t] = SomeRow]
       /\ UNCHANGED <<name, bestHeight, fetched, seen>>

Lookup(t) ==
  /\ pc[t] = "lookup"
  /\ \/ \E r \in cache : /\ r.name = name[t]
                         /\ row' = [row EXCEPT ![t] = r]
                         /\ GoTo(t, "anchor")
                         /\ UNCHANGED <<name, bestHeight, fetched, seen>>
     \/ /\ \A r \in cache : r.name # name[t]
        /\ Unavailable(t)
  /\ UNCHANGED <<best, cache, order, stored, lock, fetch, moves, faults>>

\* Mutant: an anchor is known by its height alone.
MutantHeightOnly(r) == best # None /\ r.height = Height[best]

\* anchor_is_current_tip_canonical
AnchoredAtTip(r) == best # None /\ r.height = Height[best] /\ r.root = TreeRoot[best]

CheckAnchor(t) ==
  /\ pc[t] = "anchor"
  /\ IF AnchoredAtTip(row[t])
     THEN GoTo(t, "height") /\ UNCHANGED <<name, row, bestHeight, fetched, seen>>
     ELSE Unavailable(t)
  /\ UNCHANGED <<best, cache, order, stored, lock, fetch, moves, faults>>

\* local_chain_currentness opens the header store a second time ...
ReadHeight(t) ==
  /\ pc[t] = "height"
  /\ bestHeight' = [bestHeight EXCEPT ![t] = IF best = None THEN None ELSE Height[best]]
  /\ GoTo(t, "peers")
  /\ UNCHANGED <<best, cache, order, stored, lock, name, row, fetched, fetch, seen, moves, faults>>

\* ... and then the peer store: the greatest height of a peer, or the estimate.
\* Without both heights the chain counts as current.
Target ==
  LET known == {stored[a].height : a \in DOMAIN stored} \ {0}
  IN  IF known = {} THEN Estimate ELSE CHOOSE h \in known : \A k \in known : k <= h

IsStale(height) == height # None /\ Target # None /\ Target - height > Lag

Serve(t) ==
  /\ pc[t] = "peers"
  /\ ~IsStale(bestHeight[t])
  /\ Return(t)
  /\ UNCHANGED <<best, cache, order, stored, lock, fetch, moves, faults>>

LocalChainNotCurrent(t) ==
  /\ pc[t] = "peers"
  /\ IsStale(bestHeight[t])
  /\ Return(t)
  /\ UNCHANGED <<best, cache, order, stored, lock, fetch, moves, faults>>
----------------------------------------------------------------------------
(***************************************************************************)
(* fetch_and_store_live_proof, under peer_state                            *)
(***************************************************************************)

\* select_live_proof_peers
Eligible(h) == {a \in Usable(stored) : stored[a].height >= Height[h]}

Selected(h) ==
  {a \in Eligible(h) :
     Cardinality({b \in Eligible(h) : <<b, a>> \in OutboundOrder(stored)}) < PreferredPeers}

\* best_synced_header refuses a chain of genesis alone.
CanAsk == best # None /\ Height[best] > 0 /\ Selected(best) # {}

LockPeers(t) ==
  /\ pc[t] = "fetch"
  /\ lock = None
  /\ CanAsk
  /\ lock' = t
  /\ anchor' = best
  /\ book' = stored
  /\ todo' = Selected(best)
  /\ GoTo(t, "ask")
  /\ UNCHANGED <<best, cache, order, stored, name, row, bestHeight, fetched, source, seen,
                 moves, faults>>

NobodyToAsk(t) ==
  /\ pc[t] = "fetch"
  /\ lock = None
  /\ ~CanAsk
  /\ Return(t)
  /\ UNCHANGED <<best, cache, order, stored, lock, fetch, moves, faults>>

IsNext(p) == p \in todo /\ \A q \in todo \ {p} : <<p, q>> \in OutboundOrder(book)

\* A proof packet answers a pending request if root and key are those of the
\* request, and passes the Urkel verifier if its path leads to the root.
Proof == [root : {TreeRoot[h] : h \in Header}, key : Name,
          value : {Committed[TreeRoot[anchor]][n] : n \in Name} \cup Garbage]

Leads(proof) == proof.value = Committed[proof.root][proof.key]

\* Mutant: a proof for the right root and name needs no verification.
MutantTrustsPeer(proof, n) == proof.root = TreeRoot[anchor] /\ proof.key = n

Accepted(proof, n) ==
  /\ proof.root = TreeRoot[anchor]
  /\ proof.key = n
  /\ Leads(proof)

Replies(p, n) ==
  IF p \in Faulty THEN Proof
  ELSE {[root |-> TreeRoot[anchor], key |-> n, value |-> Committed[TreeRoot[anchor]][n]]}

\* verified_resource_value
NewRow(proof, n) ==
  [name |-> n, root |-> proof.root, height |-> Height[anchor], value |-> proof.value]

\* SqliteResourceValueProvider::insert
Insert(rows, new) == {r \in rows : r.name # new.name} \cup {new}

ProofStored(t, p) ==
  /\ pc[t] = "ask"
  /\ IsNext(p)
  /\ \E proof \in Replies(p, name[t]) :
       /\ Accepted(proof, name[t])
       /\ cache' = Insert(cache, NewRow(proof, name[t]))
  /\ order' = Append(SelectSeq(order, LAMBDA n : n # name[t]), name[t])
  /\ source' = p
  /\ GoTo(t, "save")
  /\ UNCHANGED <<best, stored, lock, name, row, bestHeight, fetched, anchor, book, todo, seen,
                 moves, faults>>

Unlocked == lock' = None /\ anchor' = None /\ book' = NoBook /\ todo' = {} /\ source' = None

\* Mutant: a failure is not recorded.
MutantForgives(p) == book

Failed(p) == RecordTransientFailure(book, p)

\* Whatever goes wrong with a peer, the next one is asked; after the last one the
\* book is saved and the resolution ends.
AskFails(t, p) ==
  /\ pc[t] = "ask"
  /\ IsNext(p)
  /\ IF p \in Faulty THEN UNCHANGED faults ELSE Fault
  /\ IF todo = {p}
     THEN Unlocked /\ stored' = Failed(p) /\ Return(t)
     ELSE /\ book' = Failed(p)
          /\ todo' = todo \ {p}
          /\ UNCHANGED <<stored, lock, resolutions, anchor, source, seen>>
  /\ UNCHANGED <<best, cache, order, moves>>

\* record_success with the height of the version packet, and the second lookup.
SavePeers(t) ==
  /\ pc[t] = "save"
  /\ \E h \in {k \in Advertised : k >= Height[anchor]} : stored' = RecordSuccess(book, source, h)
  /\ Unlocked
  /\ fetched' = [fetched EXCEPT ![t] = TRUE]
  /\ GoTo(t, "lookup")
  /\ UNCHANGED <<best, cache, order, name, row, bestHeight, seen, moves, faults>>

\* An error of one of the stores ends the resolution and releases the lock.  While
\* peers are asked it only counts against the peer (AskFails), up to the last save.
StorageError(t) ==
  /\ Active(t)
  /\ pc[t] = "fetch" => lock = None
  /\ pc[t] = "ask" => \E p \in Faulty : todo = {p}
  /\ Fault
  /\ IF lock = t THEN Unlocked ELSE UNCHANGED <<lock, fetch>>
  /\ Return(t)
  /\ UNCHANGED <<best, cache, order, stored, moves>>
----------------------------------------------------------------------------
(***************************************************************************)
(* The sync tick and maintenance                                           *)
(***************************************************************************)
Tick == "tick"

Move(h) ==
  /\ best' = h
  /\ moves < MaxMoves /\ moves' = moves + 1
  /\ seen' = [t \in Thread |-> IF Active(t) THEN seen[t] \cup {h} ELSE seen[t]]

\* sync_once takes peer_state and opens the chain, which puts genesis into an
\* empty store.
StartTick ==
  /\ lock = None
  /\ lock' = Tick
  /\ IF best = None
     THEN /\ best' = Genesis
          /\ seen' = [t \in Thread |-> IF Active(t) THEN seen[t] \cup {Genesis} ELSE seen[t]]
     ELSE UNCHANGED <<best, seen>>
  /\ UNCHANGED <<cache, order, stored, resolutions, fetch, moves, faults>>

MoveTip(h) ==
  /\ lock = Tick
  /\ ChainWork[h] > ChainWork[best]
  /\ Move(h)
  /\ UNCHANGED <<cache, order, stored, lock, resolutions, fetch, faults>>

Chain[h \in Header] == IF h = Genesis THEN {h} ELSE {h} \cup Chain[PrevBlock[h]]

\* recent_canonical_resource_anchors
Anchors ==
  {<<TreeRoot[h], Height[h]>> : h \in {k \in Chain[best] : /\ Height[k] > 0
                                                           /\ Height[k] >= Height[best] - Window}}

\* prune_invalid_anchors
Pruned == {r \in cache : <<r.root, r.height>> \in Anchors}

\* enforce_value_byte_limit: the rows but for the k that are longest in the table.
Youngest(rows, k) == {r \in rows : \E i \in (k + 1)..Len(order) : order[i] = r.name}
Values(rows) == Cardinality({r \in rows : r.value # Absent})

Within(rows) ==
  Youngest(rows, CHOOSE k \in 0..Len(order) :
                   /\ Values(Youngest(rows, k)) <= MaxValues
                   /\ \A j \in 0..(k - 1) : Values(Youngest(rows, j)) > MaxValues)

\* The heights a tick has learnt: an honest peer is not behind the best header.  What a
\* tick does to scores is in HeaderSync.
Observed ==
  {heights \in [DOMAIN stored -> Advertised] :
     \A a \in DOMAIN stored \ Faulty : heights[a] >= Height[best]}

SyncedPeers ==
  \E heights \in Observed :
    stored' = [a \in DOMAIN stored |-> [stored[a] EXCEPT !.height = heights[a]]]

EndTick ==
  /\ lock = Tick
  /\ lock' = None
  /\ SyncedPeers
  /\ cache' = Within(Pruned)
  /\ UNCHANGED <<best, order, resolutions, fetch, seen, moves, faults>>

\* A tick that stops at an error of the header store, before the peers are saved, or of
\* resources.sqlite, before or between pruning and eviction.
TickFails ==
  /\ lock = Tick
  /\ Fault
  /\ lock' = None
  /\ \/ UNCHANGED <<stored, cache>>
     \/ SyncedPeers /\ cache' \in {cache, Pruned}
  /\ UNCHANGED <<best, order, resolutions, fetch, seen, moves>>

Alone == lock = None /\ \A t \in Thread : ~Active(t)

InstallSnapshot(h) ==
  /\ Alone
  /\ best # None /\ ChainWork[h] > ChainWork[best]
  /\ Move(h)
  /\ UNCHANGED <<cache, order, stored, lock, resolutions, fetch, faults>>

ClearCache ==
  /\ Alone
  /\ cache' = {} /\ order' = <<>>
  /\ UNCHANGED <<best, stored, lock, resolutions, fetch, seen, moves, faults>>

\* reset_headers_from_peers: header database first, then the rows, then genesis.
ResetHeaders ==
  /\ Alone
  /\ Move(Genesis)
  /\ cache' = {} /\ order' = <<>>
  /\ UNCHANGED <<stored, lock, resolutions, fetch, faults>>

ResetFails ==
  /\ Alone
  /\ Fault
  /\ best' = None
  /\ UNCHANGED <<cache, order>> \/ (cache' = {} /\ order' = <<>>)
  /\ UNCHANGED <<stored, lock, resolutions, fetch, seen, moves>>
----------------------------------------------------------------------------
Cached(t) == Lookup(t) \/ CheckAnchor(t) \/ ReadHeight(t) \/ Serve(t) \/ LocalChainNotCurrent(t)

Locking(t) == LockPeers(t) \/ NobodyToAsk(t)

Fetching(t) == (\E p \in Address : ProofStored(t, p) \/ AskFails(t, p)) \/ SavePeers(t)

Resolving(t) == Cached(t) \/ Locking(t) \/ Fetching(t)

Ticking == StartTick \/ EndTick

Next ==
  \/ \E t \in Thread :
       \/ \E n \in Name : Begin(t, n)
       \/ Resolving(t)
       \/ StorageError(t)
  \/ Ticking
  \/ TickFails
  \/ \E h \in Header : MoveTip(h) \/ InstallSnapshot(h)
  \/ ClearCache
  \/ ResetHeaders
  \/ ResetFails

Spec == Init /\ [][Next]_vars

\* A step of a resolution is bounded by a timeout, and one that waits for peer_state
\* gets it among the ticks and fetches that come and go.  Ticks are started for ever.
\* This is strong fairness of Resolving(t) and of Ticking, with their ENABLED
\* written out.
CanResolve(t) == Active(t) /\ (pc[t] = "fetch" => lock = None)
CanTick == lock \in {None, Tick}

Fairness ==
  /\ \A t \in Thread : []<>CanResolve(t) => []<><<Resolving(t)>>_vars
  /\ []<>CanTick => []<><<Ticking>>_vars

FairSpec == Spec /\ Fairness
----------------------------------------------------------------------------
(***************************************************************************)
(* Properties                                                              *)
(***************************************************************************)

\* The inductive invariant: what a resolution holds between its reads.
HoldsRow(t) == row[t].name = name[t] /\ row[t].value = Committed[row[t].root][row[t].name]

WasAnchored(t) == \E h \in seen[t] : row[t].height = Height[h] /\ row[t].root = TreeRoot[h]

ResolutionInv ==
  \A t \in Thread :
    /\ pc[t] \in {"anchor", "height", "peers"} => HoldsRow(t)
    /\ pc[t] \in {"height", "peers"} => WasAnchored(t)
    /\ Active(t) /\ best # None => best \in seen[t]
    /\ lock = t <=> pc[t] \in {"ask", "save"}

Shapes ==
  /\ best \in Header \cup {None}
  /\ pc \in [Thread -> {"idle", "lookup", "anchor", "height", "peers", "fetch", "ask", "save"}]
  /\ DOMAIN name = Thread /\ DOMAIN row = Thread /\ DOMAIN seen = Thread

\* docs/security-model.md: no cached value is served "unless its proof tree root and
\* height match the current local best header".  What a resolution serves is what the
\* name tree of a header says that was the best one while the resolution ran, whatever
\* ticks, other resolutions and maintenance did to rows and header in between.
AnswerWasCurrent ==
  [][\A t \in Thread : Serve(t) =>
       \E h \in seen[t] :
         /\ row[t].name = name[t] /\ row[t].height = Height[h] /\ row[t].root = TreeRoot[h]
         /\ row[t].value = Committed[TreeRoot[h]][name[t]]]_vars

\* "No TCP proof response should be stored for resolver use unless it matches a
\* tracked getproof request and passes Urkel verification": every row, also one that a
\* faulty peer sent for another request, says what its own tree says.
RowsVerified == \A r \in cache : r.value = Committed[r.root][r.name]

\* While a fetch holds peer_state the best header stays the one it asks for, so a
\* proof is never stored under a header that has been replaced.
ProofForTip == \A t \in Thread : lock = t => anchor = best

IInv == Shapes /\ RowsVerified /\ ResolutionInv /\ ProofForTip

\* When the local chain has caught up for good, lookups that go on for ever are
\* answered again and again: a faulty peer that ranks first and fails is charged until
\* an honest one is asked before it, and no resolution keeps the lock.  (A single thread
\* may be unlucky every time, when the faulty peer earns its rank back by answering the
\* others.)
AnsweredAtLast ==
  <>[](best # None /\ Height[best] > 0 /\ ~IsStale(Height[best]))
    /\ []<>(\E t \in Thread : Active(t))
  => []<><<\E t \in Thread : Serve(t)>>_vars
============================================================================
