------------------------- MODULE ProofCacheProofs --------------------------
(***************************************************************************)
(* Proofs about ProofCache, for any tree of headers, any name trees, any   *)
(* number of resolutions and whatever faulty peers send.                   *)
(*                                                                         *)
(* The inductive invariant IInv says what a resolution carries from one    *)
(* read to the next: a row that its own tree supports, and, once the row   *)
(* has passed the anchor check, a header it was anchored to that was the   *)
(* best one while the resolution ran (seen).  ProofForTip is part of it    *)
(* because a proof is stored under anchor, and the argument that anchor is *)
(* still the best header rests on who holds peer_state.                    *)
(***************************************************************************)
EXTENDS ProofCache, TLAPS

\* Nothing that IInv speaks of changes.
IVars == <<best, cache, lock, pc, name, row, anchor, seen>>

\* IInv is about IVars alone: peers, scores, the age of rows and the bounds play no part.
LEMMA StutterKeeps == IInv /\ UNCHANGED IVars => IInv'
  BY DEF IInv, IVars, Shapes, RowsVerified, ResolutionInv, ProofForTip, HoldsRow, WasAnchored,
         Active

\* A resolution that returns holds nothing any more.
LEMMA ReturnKeeps ==
  ASSUME IInv, NEW t \in Thread, Return(t), UNCHANGED <<best, cache>>,
         \/ UNCHANGED <<lock, anchor>> /\ lock # t
         \/ lock' = None /\ lock = t
  PROVE  IInv'
<1>1. Shapes'
  BY DEF IInv, Shapes, Return, GoTo
<1>2. RowsVerified'
  BY DEF IInv, RowsVerified
<1>3. ResolutionInv'
  <2> SUFFICES ASSUME NEW u \in Thread
               PROVE  /\ pc'[u] \in {"anchor", "height", "peers"} => HoldsRow(u)'
                      /\ pc'[u] \in {"height", "peers"} => WasAnchored(u)'
                      /\ Active(u)' /\ best' # None => best' \in seen'[u]
                      /\ lock' = u <=> pc'[u] \in {"ask", "save"}
    BY DEF ResolutionInv
  <2>1. CASE u = t
    BY <2>1, ProofCacheAssumption DEF IInv, Shapes, Return, GoTo, Active
  <2>2. CASE u # t
    <3>1. pc'[u] = pc[u] /\ name'[u] = name[u] /\ row'[u] = row[u] /\ seen'[u] = seen[u]
      BY <2>2 DEF IInv, Shapes, Return, GoTo
    <3>2. lock' = u <=> lock = u
      BY <2>2, ProofCacheAssumption
    <3> QED
      BY <3>1, <3>2 DEF IInv, ResolutionInv, HoldsRow, WasAnchored, Active
  <2> QED
    BY <2>1, <2>2
<1>4. ProofForTip'
  BY ProofCacheAssumption DEF IInv, ProofForTip
<1> QED
  BY <1>1, <1>2, <1>3, <1>4 DEF IInv

\* A resolution that goes on without the lock, keeping what it holds for its next phase.
LEMMA PhaseKeeps ==
  ASSUME IInv, NEW t \in Thread, NEW phase \in {"lookup", "anchor", "height", "peers", "fetch"},
         GoTo(t, phase), UNCHANGED <<best, cache, lock, anchor>>, lock # t,
         DOMAIN name' = Thread, DOMAIN row' = Thread, DOMAIN seen' = Thread,
         \A u \in Thread \ {t} : name'[u] = name[u] /\ row'[u] = row[u] /\ seen'[u] = seen[u],
         phase \in {"anchor", "height", "peers"} => HoldsRow(t)',
         phase \in {"height", "peers"} => WasAnchored(t)',
         best # None => best \in seen'[t]
  PROVE  IInv'
<1>1. Shapes'
  BY DEF IInv, Shapes, GoTo
<1>2. RowsVerified' /\ ProofForTip'
  BY DEF IInv, RowsVerified, ProofForTip
<1>3. ResolutionInv'
  <2> SUFFICES ASSUME NEW u \in Thread
               PROVE  /\ pc'[u] \in {"anchor", "height", "peers"} => HoldsRow(u)'
                      /\ pc'[u] \in {"height", "peers"} => WasAnchored(u)'
                      /\ Active(u)' /\ best' # None => best' \in seen'[u]
                      /\ lock' = u <=> pc'[u] \in {"ask", "save"}
    BY DEF ResolutionInv
  <2>1. CASE u = t
    BY <2>1 DEF IInv, Shapes, GoTo
  <2>2. CASE u # t
    <3>1. pc'[u] = pc[u] /\ name'[u] = name[u] /\ row'[u] = row[u] /\ seen'[u] = seen[u]
      BY <2>2 DEF IInv, Shapes, GoTo
    <3> QED
      BY <3>1 DEF IInv, ResolutionInv, HoldsRow, WasAnchored, Active
  <2> QED
    BY <2>1, <2>2
<1> QED
  BY <1>1, <1>2, <1>3 DEF IInv

\* The best header changes: nobody asks for a proof, and every resolution sees the new one.
LEMMA MoveKeeps ==
  ASSUME IInv, lock \notin Thread, lock' \notin Thread,
         cache' \subseteq cache, best' \in Header \cup {None},
         UNCHANGED <<pc, name, row>>, DOMAIN seen' = Thread,
         \A t \in Thread : seen[t] \subseteq seen'[t],
         \A t \in Thread : Active(t) /\ best' # None => best' \in seen'[t]
  PROVE  IInv'
<1>1. Shapes' /\ RowsVerified' /\ ProofForTip'
  BY DEF IInv, Shapes, RowsVerified, ProofForTip
<1>2. ResolutionInv'
  BY DEF IInv, ResolutionInv, HoldsRow, WasAnchored, Active
<1> QED
  BY <1>1, <1>2 DEF IInv

\* Rows go away while no fetch holds peer_state.
LEMMA PruneKeeps ==
  ASSUME IInv, lock \notin Thread, lock' \notin Thread, cache' \subseteq cache,
         UNCHANGED <<best, pc, name, row, seen>>
  PROVE  IInv'
<1>1. /\ best' \in Header \cup {None}
      /\ DOMAIN seen' = Thread
      /\ \A t \in Thread : seen[t] \subseteq seen'[t]
      /\ \A t \in Thread : Active(t) /\ best' # None => best' \in seen'[t]
  BY DEF IInv, Shapes, ResolutionInv
<1> QED
  BY <1>1, MoveKeeps

\* Eviction and pruning only take rows away.
LEMMA WithinShrinks == Pruned \subseteq cache /\ Within(Pruned) \subseteq cache
  BY DEF Pruned, Within, Youngest
----------------------------------------------------------------------------
LEMMA InitHolds == Init => IInv
<1> SUFFICES ASSUME Init PROVE IInv
  OBVIOUS
<1>1. Shapes
  BY ProofCacheAssumption DEF Init, Shapes
<1>2. RowsVerified
  BY DEF Init, RowsVerified
<1>3. ResolutionInv
  BY ProofCacheAssumption DEF Init, ResolutionInv, Active
<1>4. ProofForTip
  BY ProofCacheAssumption DEF Init, ProofForTip
<1> QED
  BY <1>1, <1>2, <1>3, <1>4 DEF IInv

\* The lookup of a name that is not served ends the resolution or leads to a fetch.
LEMMA UnavailableKeeps ==
  ASSUME IInv, NEW t \in Thread, Active(t), lock # t, Unavailable(t),
         UNCHANGED <<best, cache, lock, anchor>>
  PROVE  IInv'
<1>1. CASE fetched[t]
  BY <1>1, ReturnKeeps DEF Unavailable
<1>2. CASE ~fetched[t]
  <2>1. GoTo(t, "fetch") /\ row' = [row EXCEPT ![t] = SomeRow] /\ UNCHANGED <<name, seen>>
    BY <1>2 DEF Unavailable
  <2>2. /\ DOMAIN name' = Thread /\ DOMAIN row' = Thread /\ DOMAIN seen' = Thread
        /\ \A u \in Thread \ {t} : name'[u] = name[u] /\ row'[u] = row[u] /\ seen'[u] = seen[u]
        /\ best # None => best \in seen'[t]
    BY <2>1 DEF IInv, Shapes, ResolutionInv
  <2> QED
    BY <2>1, <2>2, PhaseKeeps
<1> QED
  BY <1>1, <1>2

\* Every read of cached_records keeps the invariant.
LEMMA CachedKeeps ==
  ASSUME IInv, NEW t \in Thread, Cached(t) \/ \E n \in Name : Begin(t, n)
  PROVE  IInv'
<1>1. ASSUME NEW n \in Name, Begin(t, n) PROVE IInv'
  <2>1. GoTo(t, "lookup") /\ lock # t /\ UNCHANGED <<best, cache, lock, anchor>>
    BY <1>1 DEF Begin, fetch, IInv, ResolutionInv, Active
  <2>2. /\ DOMAIN name' = Thread /\ DOMAIN row' = Thread /\ DOMAIN seen' = Thread
        /\ \A u \in Thread \ {t} : name'[u] = name[u] /\ row'[u] = row[u] /\ seen'[u] = seen[u]
        /\ best # None => best \in seen'[t]
    BY <1>1 DEF Begin, IInv, Shapes
  <2> QED
    BY <2>1, <2>2, PhaseKeeps
<1>2. CASE Lookup(t)
  <2>1. pc[t] = "lookup" /\ lock # t /\ Active(t) /\ UNCHANGED <<best, cache, lock, anchor>>
    BY <1>2 DEF Lookup, fetch, IInv, ResolutionInv, Active
  <2>2. ASSUME NEW r \in cache, r.name = name[t], row' = [row EXCEPT ![t] = r],
               GoTo(t, "anchor"), UNCHANGED <<name, seen>>
        PROVE  IInv'
    <3>1. /\ DOMAIN name' = Thread /\ DOMAIN row' = Thread /\ DOMAIN seen' = Thread
          /\ \A u \in Thread \ {t} : name'[u] = name[u] /\ row'[u] = row[u] /\ seen'[u] = seen[u]
          /\ best # None => best \in seen'[t]
      BY <2>1, <2>2 DEF IInv, Shapes, ResolutionInv
    <3>2. HoldsRow(t)'
      BY <2>2 DEF HoldsRow, IInv, Shapes, RowsVerified
    <3> QED
      BY <2>1, <2>2, <3>1, <3>2, PhaseKeeps
  <2>3. CASE Unavailable(t)
    BY <2>1, <2>3, UnavailableKeeps
  <2> QED
    BY <1>2, <2>2, <2>3 DEF Lookup
<1>3. CASE CheckAnchor(t)
  <2>1. pc[t] = "anchor" /\ lock # t /\ Active(t) /\ UNCHANGED <<best, cache, lock, anchor>>
    BY <1>3 DEF CheckAnchor, fetch, IInv, ResolutionInv, Active
  <2>2. ASSUME AnchoredAtTip(row[t]), GoTo(t, "height"), UNCHANGED <<name, row, seen>>
        PROVE  IInv'
    <3>1. /\ DOMAIN name' = Thread /\ DOMAIN row' = Thread /\ DOMAIN seen' = Thread
          /\ \A u \in Thread \ {t} : name'[u] = name[u] /\ row'[u] = row[u] /\ seen'[u] = seen[u]
          /\ best # None => best \in seen'[t]
      BY <2>1, <2>2 DEF IInv, Shapes, ResolutionInv
    <3>2. HoldsRow(t)'
      BY <2>1, <2>2 DEF HoldsRow, IInv, ResolutionInv
    <3>3. WasAnchored(t)'
      BY <2>1, <2>2 DEF WasAnchored, AnchoredAtTip, IInv, ResolutionInv
    <3> QED
      BY <2>1, <2>2, <3>1, <3>2, <3>3, PhaseKeeps
  <2>3. CASE Unavailable(t)
    BY <2>1, <2>3, UnavailableKeeps
  <2> QED
    BY <1>3, <2>2, <2>3 DEF CheckAnchor
<1>4. CASE ReadHeight(t)
  <2>1. pc[t] = "height" /\ lock # t /\ Active(t) /\ UNCHANGED <<best, cache, lock, anchor>>
    BY <1>4 DEF ReadHeight, fetch, IInv, ResolutionInv, Active
  <2>2. GoTo(t, "peers") /\ UNCHANGED <<name, row, seen>>
    BY <1>4 DEF ReadHeight
  <2>3. /\ DOMAIN name' = Thread /\ DOMAIN row' = Thread /\ DOMAIN seen' = Thread
        /\ \A u \in Thread \ {t} : name'[u] = name[u] /\ row'[u] = row[u] /\ seen'[u] = seen[u]
        /\ best # None => best \in seen'[t]
    BY <2>1, <2>2 DEF IInv, Shapes, ResolutionInv
  <2>4. HoldsRow(t)' /\ WasAnchored(t)'
    BY <2>1, <2>2 DEF HoldsRow, WasAnchored, IInv, ResolutionInv
  <2> QED
    BY <2>1, <2>2, <2>3, <2>4, PhaseKeeps
<1>5. CASE Serve(t) \/ LocalChainNotCurrent(t)
  <2>1. Return(t) /\ UNCHANGED <<best, cache, lock, anchor>> /\ lock # t
    BY <1>5 DEF Serve, LocalChainNotCurrent, fetch, IInv, ResolutionInv
  <2> QED
    BY <2>1, ReturnKeeps
<1> QED
  BY <1>1, <1>2, <1>3, <1>4, <1>5 DEF Cached

\* A fetch: who takes peer_state asks for the header that is the best one at that moment.
LEMMA FetchKeeps ==
  ASSUME IInv, NEW t \in Thread, Locking(t) \/ Fetching(t) \/ StorageError(t)
  PROVE  IInv'
<1>1. CASE LockPeers(t)
  <2>1. /\ pc[t] = "fetch" /\ lock = None /\ lock' = t /\ anchor' = best /\ GoTo(t, "ask")
        /\ UNCHANGED <<best, cache, name, row, seen>>
    BY <1>1 DEF LockPeers
  <2>2. Shapes' /\ RowsVerified' /\ ProofForTip'
    BY <2>1 DEF IInv, Shapes, RowsVerified, ProofForTip, GoTo
  <2>3. ResolutionInv'
    BY <2>1, ProofCacheAssumption
    DEF IInv, Shapes, ResolutionInv, HoldsRow, WasAnchored, Active, GoTo
  <2> QED
    BY <2>2, <2>3 DEF IInv
<1>2. CASE NobodyToAsk(t)
  <2>1. Return(t) /\ UNCHANGED <<best, cache, lock, anchor>> /\ lock # t
    BY <1>2 DEF NobodyToAsk, fetch, IInv, ResolutionInv
  <2> QED
    BY <2>1, ReturnKeeps
<1>3. ASSUME NEW p \in Address, ProofStored(t, p) PROVE IInv'
  <2>1. /\ pc[t] = "ask" /\ GoTo(t, "save")
        /\ UNCHANGED <<best, lock, name, row, anchor, seen>>
    BY <1>3 DEF ProofStored
  <2>2. PICK proof \in Replies(p, name[t]) :
          /\ Accepted(proof, name[t])
          /\ cache' = Insert(cache, NewRow(proof, name[t]))
    BY <1>3 DEF ProofStored
  <2>3. RowsVerified'
    BY <2>2 DEF IInv, RowsVerified, Insert, NewRow, Accepted, Leads
  <2>4. Shapes' /\ ProofForTip'
    BY <2>1 DEF IInv, Shapes, ProofForTip, GoTo
  <2>5. ResolutionInv'
    BY <2>1 DEF IInv, Shapes, ResolutionInv, HoldsRow, WasAnchored, Active, GoTo
  <2> QED
    BY <2>3, <2>4, <2>5 DEF IInv
<1>4. ASSUME NEW p \in Address, AskFails(t, p) PROVE IInv'
  <2>1. pc[t] = "ask" /\ lock = t /\ UNCHANGED <<best, cache>>
    BY <1>4 DEF AskFails, IInv, ResolutionInv
  <2>2. CASE todo = {p}
    BY <1>4, <2>1, <2>2, ReturnKeeps DEF AskFails, Unlocked
  <2>3. CASE todo # {p}
    BY <1>4, <2>1, <2>3, StutterKeeps DEF AskFails, IVars, resolutions
  <2> QED
    BY <2>2, <2>3
<1>5. CASE SavePeers(t)
  <2>1. /\ pc[t] = "save" /\ lock = t /\ lock' = None /\ GoTo(t, "lookup")
        /\ UNCHANGED <<best, cache, name, row, seen>>
    BY <1>5 DEF SavePeers, Unlocked, IInv, ResolutionInv
  <2>2. Shapes' /\ RowsVerified' /\ ProofForTip'
    BY <2>1, ProofCacheAssumption DEF IInv, Shapes, RowsVerified, ProofForTip, GoTo
  <2>3. ResolutionInv'
    BY <2>1, ProofCacheAssumption
    DEF IInv, Shapes, ResolutionInv, HoldsRow, WasAnchored, Active, GoTo
  <2> QED
    BY <2>2, <2>3 DEF IInv
<1>6. CASE StorageError(t)
  <2>1. Return(t) /\ UNCHANGED <<best, cache>>
    BY <1>6 DEF StorageError
  <2>2. CASE lock = t
    BY <1>6, <2>1, <2>2, ReturnKeeps DEF StorageError, Unlocked
  <2>3. CASE lock # t
    BY <1>6, <2>1, <2>3, ReturnKeeps DEF StorageError, fetch
  <2> QED
    BY <2>2, <2>3
<1> QED
  BY <1>1, <1>2, <1>3, <1>4, <1>5, <1>6 DEF Locking, Fetching

\* A tick holds peer_state, maintenance runs alone: no fetch is under way.
LEMMA RuntimeKeeps ==
  ASSUME IInv,
         \/ Ticking \/ TickFails \/ ClearCache \/ ResetHeaders \/ ResetFails
         \/ \E h \in Header : MoveTip(h) \/ InstallSnapshot(h)
  PROVE  IInv'
<1>0. None \notin Thread /\ Tick \notin Thread /\ Genesis \in Header
  BY ProofCacheAssumption DEF Tick
<1>1. CASE StartTick
  <2>1. lock = None /\ lock' = Tick /\ UNCHANGED <<cache, pc, name, row>>
    BY <1>1 DEF StartTick, resolutions
  <2>2. CASE best = None
    <3>1. /\ best' = Genesis
          /\ seen' = [t \in Thread |-> IF Active(t) THEN seen[t] \cup {Genesis} ELSE seen[t]]
      BY <1>1, <2>2 DEF StartTick
    <3>2. /\ DOMAIN seen' = Thread
          /\ \A t \in Thread : seen[t] \subseteq seen'[t]
          /\ \A t \in Thread : Active(t) /\ best' # None => best' \in seen'[t]
      BY <3>1
    <3> QED
      BY <1>0, <2>1, <3>1, <3>2, MoveKeeps
  <2>3. CASE best # None
    BY <1>0, <1>1, <2>1, <2>3, PruneKeeps DEF StartTick
  <2> QED
    BY <2>2, <2>3
<1>2. CASE EndTick \/ TickFails
  <2>1. /\ lock = Tick /\ lock' = None /\ cache' \subseteq cache
        /\ UNCHANGED <<best, pc, name, row, seen>>
    BY <1>2, WithinShrinks DEF EndTick, TickFails, resolutions
  <2> QED
    BY <1>0, <2>1, PruneKeeps
<1>3. CASE ClearCache
  <2>1. lock = None /\ cache' = {} /\ UNCHANGED <<best, lock, pc, name, row, seen>>
    BY <1>3 DEF ClearCache, Alone, resolutions
  <2> QED
    BY <1>0, <2>1, PruneKeeps
<1>4. ASSUME NEW h \in Header, lock \notin Thread, Move(h), cache' \subseteq cache,
             UNCHANGED <<lock, pc, name, row>>
      PROVE  IInv'
  <2>1. /\ best' = h
        /\ seen' = [t \in Thread |-> IF Active(t) THEN seen[t] \cup {h} ELSE seen[t]]
    BY <1>4 DEF Move
  <2>2. /\ DOMAIN seen' = Thread
        /\ \A t \in Thread : seen[t] \subseteq seen'[t]
        /\ \A t \in Thread : Active(t) /\ best' # None => best' \in seen'[t]
    BY <2>1
  <2> QED
    BY <1>4, <2>1, <2>2, MoveKeeps
<1>5. ASSUME NEW h \in Header, MoveTip(h) \/ InstallSnapshot(h) PROVE IInv'
  BY <1>0, <1>4, <1>5 DEF MoveTip, InstallSnapshot, Alone, resolutions
<1>6. CASE ResetHeaders
  BY <1>0, <1>4, <1>6 DEF ResetHeaders, Alone, resolutions
<1>7. CASE ResetFails
  <2>1. /\ lock = None /\ best' = None /\ cache' \subseteq cache
        /\ UNCHANGED <<lock, pc, name, row, seen>>
    BY <1>7 DEF ResetFails, Alone, resolutions
  <2> QED
    BY <1>0, <2>1, MoveKeeps DEF IInv, Shapes
<1> QED
  BY <1>1, <1>2, <1>3, <1>5, <1>6, <1>7 DEF Ticking

LEMMA StepKeeps == IInv /\ [Next]_vars => IInv'
<1> SUFFICES ASSUME IInv, [Next]_vars PROVE IInv'
  OBVIOUS
<1>1. CASE UNCHANGED vars
  BY <1>1, StutterKeeps DEF vars, IVars
<1>2. CASE Next
  BY <1>2, CachedKeeps, FetchKeeps, RuntimeKeeps DEF Next, Resolving
<1> QED
  BY <1>1, <1>2

LEMMA Inductive == Spec => []IInv
  BY InitHolds, StepKeeps, PTL DEF Spec
----------------------------------------------------------------------------
\* No row is ever stored that its own name tree does not support, whatever a faulty peer
\* sends and however fetches, ticks and maintenance follow each other: the checks of
\* ProofSyncCoordinator are made on every proof that reaches SqliteResourceValueProvider.
THEOREM RowsAreVerified == Spec => []RowsVerified
<1>1. IInv => RowsVerified
  BY DEF IInv
<1> QED
  BY <1>1, Inductive, PTL

\* Between its read of the best header and its release of peer_state no tick, reset or
\* snapshot moves the best header under a fetch (fetch_and_store_live_proof).
THEOREM FetchesForTip == Spec => []ProofForTip
<1>1. IInv => ProofForTip
  BY DEF IInv
<1> QED
  BY <1>1, Inductive, PTL

\* What GatewayProofProvider serves was true at a header that was the best one while the
\* resolution ran, although row, tip and peer heights are read at different moments.
THEOREM AnswersWereCurrent == Spec => AnswerWasCurrent
<1>1. IInv => (\A t \in Thread : Serve(t) =>
         \E h \in seen[t] :
           /\ row[t].name = name[t] /\ row[t].height = Height[h] /\ row[t].root = TreeRoot[h]
           /\ row[t].value = Committed[TreeRoot[h]][name[t]])
  BY DEF IInv, ResolutionInv, HoldsRow, WasAnchored, Serve
<1> QED
  BY <1>1, Inductive, PTL DEF AnswerWasCurrent
============================================================================
