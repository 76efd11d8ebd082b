-------------------------- MODULE HeaderChainProofs -------------------------
(***************************************************************************)
(* Safety of the header chain, for every block tree, every number of       *)
(* threads, batch length and number of faults.                             *)
(***************************************************************************)
EXTENDS HeaderChain, SequenceTheorems, WellFoundedInduction, TLAPS

(***************************************************************************)
(* Every non-empty set of naturals has a least element: the induction used *)
(* below, with the set of counterexamples in place of a predicate.         *)
(***************************************************************************)
LEMMA NatLeast ==
  ASSUME NEW S \in SUBSET Nat, S # {}
  PROVE  \E x \in S : \A y \in S : x <= y
<1>1. \E R : IsWellFoundedOn(R, Nat) /\ \A x, y \in Nat : <<y, x>> \in R <=> y < x
  <2>1. \A x, y \in Nat : <<y, x>> \in OpToRel(<, Nat) <=> y < x
    BY DEF OpToRel
  <2>2. QED  BY <2>1, NatLessThanWellFounded, Zenon
<1>2. PICK R : IsWellFoundedOn(R, Nat) /\ \A x, y \in Nat : <<y, x>> \in R <=> y < x
  BY <1>1
<1>3. PICK x \in S : \A y \in S : ~(<<y, x>> \in R)
  BY <1>2, WFMin
<1>4. ASSUME NEW y \in S  PROVE x <= y
  <2>1. x \in Nat /\ y \in Nat  OBVIOUS
  <2>2. ~(y < x)  BY <1>2, <1>3, <2>1, Zenon
  <2>3. QED  BY <2>1, <2>2
<1>5. QED  BY <1>4

(***************************************************************************)
(* A non-empty finite sequence of naturals has a last maximum: what        *)
(* max_by returns in insert_headers exists.                                *)
(***************************************************************************)
IsLastMax(f, m, i) ==
  /\ \A j \in 1..m : f[j] <= f[i]
  /\ \A j \in (i+1)..m : f[j] < f[i]

\* A non-empty range has a last index at which f is greatest.
LEMMA LastMaximumExists ==
  ASSUME NEW n \in Nat \ {0}, NEW f \in [1..n -> Nat]
  PROVE  \E i \in 1..n : IsLastMax(f, n, i)
<1> DEFINE S == {m \in 1..n : ~ \E i \in 1..m : IsLastMax(f, m, i)}
<1>1. SUFFICES ASSUME n \in S  PROVE FALSE
  OBVIOUS
<1>2. PICK m \in S : \A k \in S : m <= k
  <2>1. S \subseteq 1..n  OBVIOUS
  <2>2. S \in SUBSET Nat  BY <2>1
  <2>3. S # {}  BY <1>1
  <2> HIDE DEF S
  <2>4. QED  BY <2>2, <2>3, NatLeast, Zenon
<1>3. m # 1
  BY <1>2 DEF IsLastMax
<1>4. m-1 \in 1..n /\ m-1 \notin S
  BY <1>2, <1>3
<1>5. PICK i \in 1..(m-1) : IsLastMax(f, m-1, i)
  BY <1>4
<1>6. f[m] \in Nat /\ f[i] \in Nat /\ \A j \in 1..m : f[j] \in Nat
  BY <1>2
<1>7. CASE f[m] >= f[i]
  <2>1. ASSUME NEW j \in 1..m  PROVE f[j] <= f[m]
    <3>1. CASE j = m  BY <1>6, <3>1
    <3>2. CASE j # m
      <4>1. j \in 1..(m-1)  BY <1>2, <3>2
      <4>2. QED  BY <1>5, <1>6, <1>7, <4>1 DEF IsLastMax
    <3>3. QED  BY <3>1, <3>2
  <2>3. IsLastMax(f, m, m)
    BY <1>2, <2>1 DEF IsLastMax
  <2>4. QED  BY <1>2, <2>3
<1>8. CASE f[m] < f[i]
  <2>1. IsLastMax(f, m, i)
    BY <1>5, <1>6, <1>8 DEF IsLastMax
  <2>2. QED  BY <1>2, <2>1
<1>9. QED  BY <1>6, <1>7, <1>8

(***************************************************************************)
(* The candidate of insert_headers is an accepted header, and none of the  *)
(* batch is heavier.                                                       *)
(***************************************************************************)
LEMMA BestIndexIsMaximal ==
  ASSUME TypeOK, PromotingInv, pc[SyncThread] = "promoting"
  PROVE  /\ BestIndex \in 1..Len(accepted)
         /\ BestCandidate \in DOMAIN pending
         /\ \A h \in DOMAIN pending :
              pending[h].chainwork <= pending[BestCandidate].chainwork
<1> DEFINE f == [i \in 1..Len(accepted) |-> pending[accepted[i]].chainwork]
<1>1. Len(accepted) \in Nat \ {0}
  BY EmptySeq DEF TypeOK, PromotingInv
<1>2. \A i \in 1..Len(accepted) : accepted[i] \in DOMAIN pending
  BY DEF PromotingInv, AcceptedSet
<1>3. f \in [1..Len(accepted) -> Nat]
  BY <1>2 DEF TypeOK, StoredHeader
<1>4. PICK i \in 1..Len(accepted) : IsLastMax(f, Len(accepted), i)
  BY <1>1, <1>3, LastMaximumExists
<1> HIDE DEF f
<1>8. \A j \in 1..Len(accepted) : f[j] = pending[accepted[j]].chainwork
  BY DEF f
<1>5. /\ \A j \in 1..Len(accepted) :
           pending[accepted[j]].chainwork <= pending[accepted[i]].chainwork
      /\ \A j \in (i+1)..Len(accepted) :
           pending[accepted[j]].chainwork < pending[accepted[i]].chainwork
  BY <1>1, <1>4, <1>8 DEF IsLastMax
<1>6. /\ BestIndex \in 1..Len(accepted)
      /\ \A j \in 1..Len(accepted) :
           pending[accepted[j]].chainwork <= pending[accepted[BestIndex]].chainwork
  BY <1>5 DEF BestIndex
<1>7. QED
  BY <1>2, <1>6 DEF BestCandidate, PromotingInv, AcceptedSet

(***************************************************************************)
(* Only genesis is stored at height 0, so a store with a best header holds *)
(* genesis.                                                                *)
(***************************************************************************)
LEMMA BestImpliesGenesis ==
  ASSUME TypeOK, StoredHeadersLinked, CanonicalIsBestChain, best # None
  PROVE  Genesis \in DOMAIN headers
<1>1. best \in DOMAIN headers /\ canonical \in ChainsTo(best)
  BY DEF CanonicalIsBestChain
<1>2. headers[best].height \in Nat
  BY <1>1 DEF TypeOK, StoredHeader
<1>3. 0 \in 0..headers[best].height
  BY <1>2
<1>4. canonical[0] \in DOMAIN headers /\ headers[canonical[0]].height = 0
  BY <1>1, <1>3 DEF ChainsTo
<1>5. CASE canonical[0] # Genesis
  <2>1. /\ PrevBlock[canonical[0]] \in DOMAIN headers
        /\ headers[canonical[0]].height = headers[PrevBlock[canonical[0]]].height + 1
    BY <1>4, <1>5 DEF StoredHeadersLinked
  <2>2. headers[PrevBlock[canonical[0]]].height \in Nat
    BY <2>1 DEF TypeOK, StoredHeader
  <2>3. QED  BY <1>4, <2>1, <2>2
<1>6. QED  BY <1>4, <1>5

(***************************************************************************)
(* Adding headers to the table does not change the chain to a header that  *)
(* was already there.                                                      *)
(***************************************************************************)
LEMMA MoreHeadersKeepChain ==
  ASSUME TypeOK, CanonicalIsBestChain, canonical' = canonical, best' = best,
         DOMAIN headers \subseteq DOMAIN headers',
         \A h \in DOMAIN headers : headers'[h] = headers[h]
  PROVE  CanonicalIsBestChain'
<1>1. CASE best = None
  BY <1>1 DEF CanonicalIsBestChain
<1>2. CASE best # None
  <2>1. best \in DOMAIN headers /\ canonical \in ChainsTo(best)
    BY <1>2 DEF CanonicalIsBestChain
  <2>2. canonical \in ChainsTo(best)'
    BY <2>1 DEF ChainsTo
  <2>3. QED  BY <1>2, <2>1, <2>2 DEF CanonicalIsBestChain
<1>3. QED  BY <1>1, <1>2

(***************************************************************************)
(* The record computed for an acceptable header is well typed.             *)
(***************************************************************************)
LEMMA ChildRecordType ==
  ASSUME TypeOK, NEW h \in Header, Acceptable(h)
  PROVE  /\ ChildRecord(h) \in StoredHeader
         /\ PrevBlock[h] \in DOMAIN pending \cup DOMAIN headers
<1>1. PrevBlock[h] \in DOMAIN pending \cup DOMAIN headers
  BY DEF Acceptable, IsKnown, IsStored
<1>2. Lookup(PrevBlock[h]) \in StoredHeader
  BY <1>1 DEF Lookup, TypeOK
<1>3. Work[h] \in Nat
  BY HeaderAssumption
<1>4. QED  BY <1>1, <1>2, <1>3 DEF ChildRecord, StoredHeader

(***************************************************************************)
(* Steps that leave the database alone.                                    *)
(***************************************************************************)
LEMMA StoreKept ==
  ASSUME StoredHeadersLinked, CanonicalIsBestChain, UNCHANGED store
  PROVE  StoredHeadersLinked' /\ CanonicalIsBestChain'
<1>1. StoredHeadersLinked'
  BY DEF StoredHeadersLinked, store
<1>2. CanonicalIsBestChain'
  BY DEF CanonicalIsBestChain, ChainsTo, store
<1>3. QED  BY <1>1, <1>2

\* OpenChain keeps the inductive invariant.
LEMMA OpenChainStep ==
  ASSUME IInv, NEW t \in Thread, OpenChain(t)
  PROVE  IInv'
<1> USE DEF OpenChain, AfterOpen
<1>1. TypeOK'
  BY DEF IInv, TypeOK, store, batchvars, Phases
<1>2. StoredHeadersLinked' /\ CanonicalIsBestChain'
  BY StoreKept DEF IInv
<1>3. GenesisPromotedOnce'
  BY DEF IInv, GenesisPromotedOnce, store, TypeOK
<1>4. ThreadInv'
  BY BoundAssumption DEF IInv, ThreadInv, IsStored, store, TypeOK, Thread, OpenPhases, batchvars, EmptyTable
<1>5. PendingInv' /\ PromotingInv'
  BY DEF IInv, PendingInv, PromotingInv, AcceptedSet, IsStored, IsKnown, Lookup,
         Acceptable, ChildRecord, store, batchvars, TypeOK
<1>6. HeaviestInv'
  BY DEF IInv, HeaviestInv, store, batchvars, TypeOK
<1>7. QED  BY <1>1, <1>2, <1>3, <1>4, <1>5, <1>6 DEF IInv

\* GenesisDuplicate keeps the inductive invariant.
LEMMA GenesisDuplicateStep ==
  ASSUME IInv, NEW t \in Thread, GenesisDuplicate(t)
  PROVE  IInv'
<1> USE DEF GenesisDuplicate
<1>1. TypeOK'
  BY DEF IInv, TypeOK, store, batchvars, Phases
<1>2. StoredHeadersLinked' /\ CanonicalIsBestChain'
  BY StoreKept DEF IInv
<1>3. GenesisPromotedOnce'
  BY DEF IInv, GenesisPromotedOnce, store, TypeOK
<1>4. ThreadInv'
  BY BoundAssumption DEF IInv, ThreadInv, IsStored, store, TypeOK, Thread, OpenPhases, batchvars, EmptyTable
<1>5. PendingInv' /\ PromotingInv'
  BY DEF IInv, PendingInv, PromotingInv, AcceptedSet, IsStored, IsKnown, Lookup,
         Acceptable, ChildRecord, store, batchvars, TypeOK
<1>6. HeaviestInv'
  BY DEF IInv, HeaviestInv, store, batchvars, TypeOK
<1>7. QED  BY <1>1, <1>2, <1>3, <1>4, <1>5, <1>6 DEF IInv

\* InsertHeaders keeps the inductive invariant.
LEMMA InsertHeadersStep ==
  ASSUME IInv, NEW batch \in Seq(Header), InsertHeaders(batch)
  PROVE  IInv'
<1> USE DEF InsertHeaders
<1>1. TypeOK'
  BY EmptySeq DEF IInv, TypeOK, store, batchvars, Phases, EmptyTable, Thread
<1>2. StoredHeadersLinked' /\ CanonicalIsBestChain'
  BY StoreKept DEF IInv, store
<1>3. GenesisPromotedOnce'
  BY DEF IInv, GenesisPromotedOnce, store, TypeOK, Thread
<1>4. ThreadInv'
  BY BoundAssumption DEF IInv, ThreadInv, IsStored, store, TypeOK, Thread, OpenPhases, batchvars, EmptyTable
<1>5. PendingInv'
  BY DEF IInv, PendingInv, PromotingInv, AcceptedSet, IsStored, IsKnown, Lookup,
         Acceptable, ChildRecord, store, batchvars, TypeOK, Thread, EmptyTable
<1>6. PromotingInv'
  BY DEF IInv, PromotingInv, AcceptedSet, IsStored, store, batchvars, TypeOK, Thread
<1>7. HeaviestInv'
  BY DEF IInv, HeaviestInv, store, batchvars, TypeOK, Thread
<1>8. QED  BY <1>1, <1>2, <1>3, <1>4, <1>5, <1>6, <1>7 DEF IInv

\* SkipKnown keeps the inductive invariant.
LEMMA SkipKnownStep ==
  ASSUME IInv, SkipKnown
  PROVE  IInv'
<1> USE DEF SkipKnown
<1>1. TypeOK'
  BY HeadTailProperties, EmptySeq DEF IInv, TypeOK, store, batchvars, Phases, EmptyTable, Thread
<1>2. StoredHeadersLinked' /\ CanonicalIsBestChain'
  BY StoreKept DEF IInv, store
<1>3. GenesisPromotedOnce'
  BY DEF IInv, GenesisPromotedOnce, store, TypeOK, Thread
<1>4. ThreadInv'
  BY BoundAssumption DEF IInv, ThreadInv, IsStored, store, TypeOK, Thread, OpenPhases, batchvars, EmptyTable
<1>5. PendingInv'
  BY HeadTailProperties DEF IInv, PendingInv, PromotingInv, AcceptedSet, IsStored, IsKnown, Lookup,
         Acceptable, ChildRecord, store, batchvars, TypeOK, Thread, EmptyTable
<1>6. PromotingInv'
  BY DEF IInv, PromotingInv, AcceptedSet, IsStored, store, batchvars, TypeOK, Thread
<1>7. HeaviestInv'
  BY DEF IInv, HeaviestInv, store, batchvars, TypeOK, Thread
<1>8. QED  BY <1>1, <1>2, <1>3, <1>4, <1>5, <1>6, <1>7 DEF IInv

\* RejectBatch keeps the inductive invariant.
LEMMA RejectBatchStep ==
  ASSUME IInv, RejectBatch
  PROVE  IInv'
<1> USE DEF RejectBatch, EndBatch
<1>1. TypeOK'
  BY EmptySeq DEF IInv, TypeOK, store, batchvars, Phases, EmptyTable, Thread
<1>2. StoredHeadersLinked' /\ CanonicalIsBestChain'
  BY StoreKept DEF IInv, store
<1>3. GenesisPromotedOnce'
  BY DEF IInv, GenesisPromotedOnce, store, TypeOK, Thread
<1>4. ThreadInv'
  BY BoundAssumption DEF IInv, ThreadInv, IsStored, store, TypeOK, Thread, OpenPhases, batchvars, EmptyTable
<1>5. PendingInv'
  BY DEF IInv, PendingInv, PromotingInv, AcceptedSet, IsStored, IsKnown, Lookup,
         Acceptable, ChildRecord, store, batchvars, TypeOK, Thread, EmptyTable
<1>6. PromotingInv'
  BY DEF IInv, PromotingInv, AcceptedSet, IsStored, store, batchvars, TypeOK, Thread
<1>7. HeaviestInv'
  BY DEF IInv, HeaviestInv, store, batchvars, TypeOK, Thread
<1>8. QED  BY <1>1, <1>2, <1>3, <1>4, <1>5, <1>6, <1>7 DEF IInv

\* NothingNew keeps the inductive invariant.
LEMMA NothingNewStep ==
  ASSUME IInv, NothingNew
  PROVE  IInv'
<1> USE DEF NothingNew, EndBatch
<1>1. TypeOK'
  BY EmptySeq DEF IInv, TypeOK, store, batchvars, Phases, EmptyTable, Thread
<1>2. StoredHeadersLinked' /\ CanonicalIsBestChain'
  BY StoreKept DEF IInv, store
<1>3. GenesisPromotedOnce'
  BY DEF IInv, GenesisPromotedOnce, store, TypeOK, Thread
<1>4. ThreadInv'
  BY BoundAssumption DEF IInv, ThreadInv, IsStored, store, TypeOK, Thread, OpenPhases, batchvars, EmptyTable
<1>5. PendingInv'
  BY DEF IInv, PendingInv, PromotingInv, AcceptedSet, IsStored, IsKnown, Lookup,
         Acceptable, ChildRecord, store, batchvars, TypeOK, Thread, EmptyTable
<1>6. PromotingInv'
  BY DEF IInv, PromotingInv, AcceptedSet, IsStored, store, batchvars, TypeOK, Thread
<1>7. HeaviestInv'
  BY DEF IInv, HeaviestInv, store, batchvars, TypeOK, Thread
<1>8. QED  BY <1>1, <1>2, <1>3, <1>4, <1>5, <1>6, <1>7 DEF IInv

\* ValidatedBatch keeps the inductive invariant.
LEMMA ValidatedBatchStep ==
  ASSUME IInv, ValidatedBatch
  PROVE  IInv'
<1> USE DEF ValidatedBatch
<1>1. TypeOK'
  BY EmptySeq DEF IInv, TypeOK, store, batchvars, Phases, EmptyTable, Thread
<1>2. StoredHeadersLinked' /\ CanonicalIsBestChain'
  BY StoreKept DEF IInv, store
<1>3. GenesisPromotedOnce'
  BY DEF IInv, GenesisPromotedOnce, store, TypeOK, Thread
<1>4. ThreadInv'
  BY BoundAssumption DEF IInv, ThreadInv, IsStored, store, TypeOK, Thread, OpenPhases, batchvars, EmptyTable
<1>5. PendingInv'
  BY DEF IInv, PendingInv, PromotingInv, AcceptedSet, IsStored, IsKnown, Lookup,
         Acceptable, ChildRecord, store, batchvars, TypeOK, Thread, EmptyTable
<1>6. PromotingInv'
  BY DEF IInv, PromotingInv, AcceptedSet, IsStored, store, batchvars, TypeOK, Thread
<1>7. HeaviestInv'
  BY DEF IInv, HeaviestInv, store, batchvars, TypeOK, Thread
<1>8. QED  BY <1>1, <1>2, <1>3, <1>4, <1>5, <1>6, <1>7 DEF IInv

\* KeepBest keeps the inductive invariant.
LEMMA KeepBestStep ==
  ASSUME IInv, KeepBest
  PROVE  IInv'
<1> USE DEF KeepBest, EndBatch
<1>1. TypeOK'
  BY EmptySeq DEF IInv, TypeOK, store, batchvars, Phases, EmptyTable, Thread
<1>2. StoredHeadersLinked' /\ CanonicalIsBestChain'
  BY StoreKept DEF IInv, store
<1>3. GenesisPromotedOnce'
  BY DEF IInv, GenesisPromotedOnce, store, TypeOK, Thread
<1>4. ThreadInv'
  BY BoundAssumption DEF IInv, ThreadInv, IsStored, store, TypeOK, Thread, OpenPhases, batchvars, EmptyTable
<1>5. PendingInv'
  BY DEF IInv, PendingInv, PromotingInv, AcceptedSet, IsStored, IsKnown, Lookup,
         Acceptable, ChildRecord, store, batchvars, TypeOK, Thread, EmptyTable
<1>6. PromotingInv'
  BY DEF IInv, PromotingInv, AcceptedSet, IsStored, store, batchvars, TypeOK, Thread
<1>7. HeaviestInv'
  <2>1. /\ best # None
        /\ pending[BestCandidate].chainwork \in Nat
        /\ headers[best].chainwork \in Nat
        /\ pending[BestCandidate].chainwork <= headers[best].chainwork
    BY BestIndexIsMaximal
    DEF IInv, ShouldPromote, ThreadInv, OpenPhases, TypeOK, StoredHeader, CanonicalIsBestChain
  <2>2. \A h \in DOMAIN pending : headers[h].chainwork <= headers[best].chainwork
    BY <2>1, BestIndexIsMaximal DEF IInv, PromotingInv, TypeOK, StoredHeader
  <2>3. QED  BY <2>1, <2>2 DEF IInv, HeaviestInv, store, TypeOK, Thread
<1>8. QED  BY <1>1, <1>2, <1>3, <1>4, <1>5, <1>6, <1>7 DEF IInv

\* CloseChain keeps the inductive invariant.
LEMMA CloseChainStep ==
  ASSUME IInv, CloseChain
  PROVE  IInv'
<1> USE DEF CloseChain
<1>1. TypeOK'
  BY EmptySeq DEF IInv, TypeOK, store, batchvars, Phases, EmptyTable, Thread
<1>2. StoredHeadersLinked' /\ CanonicalIsBestChain'
  BY StoreKept DEF IInv, store
<1>3. GenesisPromotedOnce'
  BY DEF IInv, GenesisPromotedOnce, store, TypeOK, Thread
<1>4. ThreadInv'
  BY BoundAssumption DEF IInv, ThreadInv, IsStored, store, TypeOK, Thread, OpenPhases, batchvars, EmptyTable
<1>5. PendingInv'
  BY DEF IInv, PendingInv, PromotingInv, AcceptedSet, IsStored, IsKnown, Lookup,
         Acceptable, ChildRecord, store, batchvars, TypeOK, Thread, EmptyTable
<1>6. PromotingInv'
  BY DEF IInv, PromotingInv, AcceptedSet, IsStored, store, batchvars, TypeOK, Thread
<1>7. HeaviestInv'
  BY DEF IInv, HeaviestInv, store, batchvars, TypeOK, Thread
<1>8. QED  BY <1>1, <1>2, <1>3, <1>4, <1>5, <1>6, <1>7 DEF IInv

\* BeginMaintenance keeps the inductive invariant.
LEMMA BeginMaintenanceStep ==
  ASSUME IInv, BeginMaintenance
  PROVE  IInv'
<1> USE DEF BeginMaintenance
<1>1. TypeOK'
  BY EmptySeq DEF IInv, TypeOK, store, batchvars, Phases, EmptyTable, Thread
<1>2. StoredHeadersLinked' /\ CanonicalIsBestChain'
  BY StoreKept DEF IInv, store
<1>3. GenesisPromotedOnce'
  BY DEF IInv, GenesisPromotedOnce, store, TypeOK, Thread
<1>4. ThreadInv'
  BY BoundAssumption DEF IInv, ThreadInv, IsStored, store, TypeOK, Thread, OpenPhases, batchvars, EmptyTable
<1>5. PendingInv'
  BY DEF IInv, PendingInv, PromotingInv, AcceptedSet, IsStored, IsKnown, Lookup,
         Acceptable, ChildRecord, store, batchvars, TypeOK, Thread, EmptyTable
<1>6. PromotingInv'
  BY DEF IInv, PromotingInv, AcceptedSet, IsStored, store, batchvars, TypeOK, Thread
<1>7. HeaviestInv'
  BY DEF IInv, HeaviestInv, store, batchvars, TypeOK, Thread
<1>8. QED  BY <1>1, <1>2, <1>3, <1>4, <1>5, <1>6, <1>7 DEF IInv

\* StorageError keeps the inductive invariant.
LEMMA StorageErrorStep ==
  ASSUME IInv, NEW t \in Thread, StorageError(t)
  PROVE  IInv'
<1> USE DEF StorageError, EndBatch
<1>0. faults \in Nat /\ faults' \in 1..MaxFaults
  BY BoundAssumption DEF IInv, TypeOK
<1>1. TypeOK'
  <2>1. pc' \in [Thread -> Phases] /\ exclusive' \in BOOLEAN
    BY DEF IInv, TypeOK, Phases, Thread
  <2>2. UNCHANGED batchvars \/ (queue' = <<>> /\ accepted' = <<>> /\ pending' = EmptyTable)
    OBVIOUS
  <2>3. /\ queue' \in Seq(Header) /\ accepted' \in Seq(Header)
        /\ DOMAIN pending' \subseteq Header /\ pending' \in [DOMAIN pending' -> StoredHeader]
    BY <2>2, EmptySeq DEF IInv, TypeOK, batchvars, EmptyTable
  <2>4. QED  BY <1>0, <2>1, <2>3 DEF IInv, TypeOK, store
<1>2. StoredHeadersLinked' /\ CanonicalIsBestChain'
  BY StoreKept DEF IInv, store
<1>3. GenesisPromotedOnce'
  BY DEF IInv, GenesisPromotedOnce, store, TypeOK, Thread
<1>4. ThreadInv'
  <2>1. pc' = [pc EXCEPT ![t] = "closed"] \/ (t = SyncThread /\ pc' = [pc EXCEPT ![t] = "open"])
    OBVIOUS
  <2>2. pc[t] \in OpenPhases \/ pc' = [pc EXCEPT ![t] = "closed"]
    BY DEF OpenPhases
  <2>3. exclusive' => exclusive
    BY DEF IInv, TypeOK
  <2>4. QED
    BY <2>1, <2>2, <2>3, BoundAssumption
    DEF IInv, ThreadInv, IsStored, store, TypeOK, Thread, OpenPhases, batchvars, EmptyTable
<1>5. PendingInv' /\ PromotingInv'
  <2>1. CASE pc[t] \in {"genesis", "genesis_stored"} /\ UNCHANGED batchvars
             /\ pc' = [pc EXCEPT ![t] = "closed"]
    BY <2>1 DEF IInv, PendingInv, PromotingInv, AcceptedSet, IsStored, IsKnown, Lookup,
         Acceptable, ChildRecord, store, batchvars, TypeOK, Thread
  <2>2. CASE pc' = [pc EXCEPT ![SyncThread] = "open"]
    BY <2>2 DEF IInv, PendingInv, PromotingInv, TypeOK, Thread
  <2>3. QED  BY <2>1, <2>2
<1>6. HeaviestInv'
  BY <1>0 DEF HeaviestInv
<1>7. QED  BY <1>1, <1>2, <1>3, <1>4, <1>5, <1>6 DEF IInv

\* Crash keeps the inductive invariant.
LEMMA CrashStep ==
  ASSUME IInv, Crash
  PROVE  IInv'
<1> USE DEF Crash
<1>0. faults \in Nat /\ faults' \in 1..MaxFaults
  BY BoundAssumption DEF IInv, TypeOK
<1>1. TypeOK'
  <2>1. pc' \in [Thread -> Phases]
    BY DEF Phases
  <2>2. /\ queue' \in Seq(Header) /\ accepted' \in Seq(Header)
        /\ DOMAIN pending' \subseteq Header /\ pending' \in [DOMAIN pending' -> StoredHeader]
    BY EmptySeq DEF EmptyTable
  <2>3. exclusive' \in BOOLEAN
    BY Zenon
  <2>6. faults' \in 0..MaxFaults
    BY <1>0
  <2>4. headers' = headers /\ canonical' = canonical /\ best' = best
    BY DEF store
  <2> HIDE DEF Crash
  <2>5. QED  BY <2>1, <2>2, <2>3, <2>4, <2>6 DEF IInv, TypeOK
<1>2. StoredHeadersLinked' /\ CanonicalIsBestChain'
  BY StoreKept DEF IInv, store
<1>3. GenesisPromotedOnce'
  BY DEF IInv, GenesisPromotedOnce, store, TypeOK, Thread
<1>4. ThreadInv'
  BY BoundAssumption DEF IInv, ThreadInv, IsStored, store, TypeOK, Thread, OpenPhases, batchvars, EmptyTable
<1>5. PendingInv'
  BY DEF IInv, PendingInv, PromotingInv, AcceptedSet, IsStored, IsKnown, Lookup,
         Acceptable, ChildRecord, store, batchvars, TypeOK, Thread, EmptyTable
<1>6. PromotingInv'
  BY DEF IInv, PromotingInv, AcceptedSet, IsStored, store, batchvars, TypeOK, Thread
<1>7. HeaviestInv'
  BY <1>0 DEF HeaviestInv
<1>8. QED  BY <1>1, <1>2, <1>3, <1>4, <1>5, <1>6, <1>7 DEF IInv

\* AcceptHeader keeps the inductive invariant.
LEMMA AcceptHeaderStep ==
  ASSUME IInv, AcceptHeader
  PROVE  IInv'
<1> USE DEF AcceptHeader
<1> DEFINE new == Head(queue)
<1>a. new \in Header /\ queue' \in Seq(Header)
  BY HeadTailProperties DEF IInv, TypeOK
<1>b. /\ new \notin DOMAIN pending /\ new \notin DOMAIN headers
      /\ DOMAIN pending' = DOMAIN pending \cup {new}
      /\ pending'[new] = ChildRecord(new)
      /\ \A h \in DOMAIN pending : pending'[h] = pending[h]
  BY DEF IsKnown, IsStored
<1>c. ChildRecord(new) \in StoredHeader /\ PrevBlock[new] \in DOMAIN pending \cup DOMAIN headers
  BY <1>a, ChildRecordType DEF IInv
<1>d. AcceptedSet' = AcceptedSet \cup {new}
  <2>1. accepted \in Seq(Header) /\ accepted' = Append(accepted, new)
    BY DEF IInv, TypeOK
  <2>2. /\ Len(accepted') = Len(accepted) + 1
        /\ Len(accepted) \in Nat
        /\ \A i \in 1..Len(accepted) : accepted'[i] = accepted[i]
        /\ accepted'[Len(accepted) + 1] = new
    BY <1>a, <2>1, AppendProperties, LenProperties
  <2>3. QED  BY <2>2 DEF AcceptedSet
<1>e. UNCHANGED <<headers, canonical, best, pc, exclusive, faults>>
  BY DEF store
<1>1. TypeOK'
  <2>1. accepted' \in Seq(Header)
    BY <1>a, AppendProperties DEF IInv, TypeOK
  <2>2. DOMAIN pending' \subseteq Header /\ pending' \in [DOMAIN pending' -> StoredHeader]
    BY <1>a, <1>b, <1>c DEF IInv, TypeOK
  <2> HIDE DEF AcceptHeader
  <2>3. QED  BY <1>a, <1>e, <2>1, <2>2 DEF IInv, TypeOK
<1>2. StoredHeadersLinked' /\ CanonicalIsBestChain'
  BY StoreKept DEF IInv, store
<1>3. GenesisPromotedOnce' /\ ThreadInv'
  BY <1>e DEF IInv, GenesisPromotedOnce, ThreadInv, IsStored
<1>4. PendingInv'
  <2>1. pc[SyncThread] = "validating" /\ DOMAIN pending = AcceptedSet
    BY DEF IInv, PendingInv
  <2>2. \A h \in DOMAIN pending \cup DOMAIN headers : Lookup(h)' = Lookup(h)
    BY <1>b, <1>e DEF Lookup
  <2>3. ASSUME NEW h \in DOMAIN pending'
        PROVE  ~IsStored(h)' /\ Acceptable(h)' /\ pending'[h] = ChildRecord(h)'
    <3>1. Acceptable(h) /\ ~IsStored(h) /\ pending'[h] = ChildRecord(h)
      BY <1>b, <2>1 DEF IInv, PendingInv, IsStored
    <3>2. PrevBlock[h] \in DOMAIN pending \cup DOMAIN headers
      BY <3>1 DEF Acceptable, IsKnown, IsStored
    <3>3. ChildRecord(h)' = ChildRecord(h)
      BY <2>2, <3>2 DEF ChildRecord
    <3>4. Acceptable(h)'
      BY <1>b, <1>e, <3>1, <3>2, <3>3 DEF Acceptable, IsKnown, IsStored
    <3>5. QED  BY <1>e, <3>1, <3>3, <3>4 DEF IsStored
  <2>4. QED  BY <1>b, <1>d, <1>e, <2>1, <2>3 DEF PendingInv
<1>5. PromotingInv'
  BY <1>e DEF PromotingInv
<1>6. HeaviestInv'
  BY <1>e DEF IInv, HeaviestInv
<1>7. QED  BY <1>1, <1>2, <1>3, <1>4, <1>5, <1>6 DEF IInv

\* PutGenesis keeps the inductive invariant.
LEMMA PutGenesisStep ==
  ASSUME IInv, NEW t \in Thread, PutGenesis(t)
  PROVE  IInv'
<1> USE DEF PutGenesis
<1>a. Genesis \notin DOMAIN headers /\ best = None
  BY BestImpliesGenesis DEF IInv, IsStored
<1>b. /\ DOMAIN headers' = {Genesis}
      /\ headers'[Genesis] = GenesisRecord
      /\ DOMAIN headers = {}
  BY <1>a DEF IInv, ThreadInv
<1>c. GenesisRecord \in StoredHeader
  BY HeaderAssumption DEF GenesisRecord, StoredHeader
<1>1. TypeOK'
  BY <1>b, <1>c, HeaderAssumption DEF IInv, TypeOK, batchvars, Phases
<1>2. StoredHeadersLinked'
  BY <1>b DEF StoredHeadersLinked, GenesisRecord
<1>3. CanonicalIsBestChain'
  BY <1>a DEF IInv, CanonicalIsBestChain
<1>4. GenesisPromotedOnce'
  BY <1>a DEF IInv, GenesisPromotedOnce, ThreadInv, IsStored, TypeOK
<1>5. ThreadInv'
  BY <1>a, <1>b, BoundAssumption DEF IInv, ThreadInv, IsStored, TypeOK, Thread, OpenPhases, batchvars, EmptyTable
<1>6. PendingInv' /\ PromotingInv'
  BY <1>a DEF IInv, ThreadInv, OpenPhases, PendingInv, PromotingInv, TypeOK, Thread
<1>7. HeaviestInv'
  BY <1>a DEF HeaviestInv
<1>8. QED  BY <1>1, <1>2, <1>3, <1>4, <1>5, <1>6, <1>7 DEF IInv

\* PromoteGenesis keeps the inductive invariant.
LEMMA PromoteGenesisStep ==
  ASSUME IInv, NEW t \in Thread, PromoteGenesis(t)
  PROVE  IInv'
<1> USE DEF PromoteGenesis, PromoteBestHash, AfterOpen
<1>a. best = None /\ DOMAIN headers = {Genesis} /\ best' = Genesis /\ Genesis # None
  <2>1. best = None /\ Genesis \in DOMAIN headers
    BY DEF IInv, GenesisPromotedOnce, ThreadInv, IsStored
  <2>2. QED  BY <2>1, HeaderAssumption DEF IInv, ThreadInv
<1>b. headers[Genesis].height \in Nat /\ headers[Genesis].chainwork \in Nat
  BY <1>a DEF IInv, TypeOK, StoredHeader
<1>c. canonical' \in [0..headers[Genesis].height -> DOMAIN headers]
  BY DEF ChainsTo
<1>1. TypeOK'
  BY <1>a, <1>b, <1>c, HeaderAssumption DEF IInv, TypeOK, batchvars, Phases
<1>2. StoredHeadersLinked'
  BY DEF IInv, StoredHeadersLinked
<1>3. CanonicalIsBestChain'
  BY <1>a DEF CanonicalIsBestChain, ChainsTo
<1>4. GenesisPromotedOnce'
  BY DEF IInv, GenesisPromotedOnce, TypeOK
<1>5. ThreadInv'
  BY <1>a, BoundAssumption DEF IInv, ThreadInv, IsStored, TypeOK, Thread, OpenPhases, batchvars, EmptyTable
<1>6. PendingInv' /\ PromotingInv'
  BY <1>a DEF IInv, ThreadInv, OpenPhases, PendingInv, PromotingInv, TypeOK, Thread
<1>7. HeaviestInv'
  BY <1>a, <1>b DEF HeaviestInv
<1>8. QED  BY <1>1, <1>2, <1>3, <1>4, <1>5, <1>6, <1>7 DEF IInv

\* ResetHeaders keeps the inductive invariant.
LEMMA ResetHeadersStep ==
  ASSUME IInv, ResetHeaders
  PROVE  IInv'
<1> USE DEF ResetHeaders
<1>1. TypeOK'
  BY DEF IInv, TypeOK, batchvars, Phases, EmptyTable, Thread
<1>2. StoredHeadersLinked' /\ CanonicalIsBestChain'
  BY DEF StoredHeadersLinked, CanonicalIsBestChain, EmptyTable
<1>3. GenesisPromotedOnce' /\ ThreadInv'
  BY BoundAssumption DEF IInv, GenesisPromotedOnce, ThreadInv, IsStored, TypeOK, Thread, OpenPhases, EmptyTable, batchvars
<1>4. PendingInv' /\ PromotingInv'
  BY DEF IInv, PendingInv, PromotingInv, TypeOK, Thread
<1>5. HeaviestInv'
  BY DEF HeaviestInv
<1>6. QED  BY <1>1, <1>2, <1>3, <1>4, <1>5 DEF IInv

\* PutHeaders keeps the inductive invariant.
LEMMA PutHeadersStep ==
  ASSUME IInv, PutHeaders
  PROVE  IInv'
<1> USE DEF PutHeaders
<1>a. /\ pc[SyncThread] = "putting" /\ best # None /\ SyncThread \in Thread
      /\ pc' = [pc EXCEPT ![SyncThread] = "promoting"] /\ pc'[SyncThread] = "promoting"
      /\ UNCHANGED <<canonical, best, queue, accepted, pending, exclusive, faults>>
  BY DEF IInv, ThreadInv, OpenPhases, TypeOK, Thread, batchvars
<1>b. Genesis \in DOMAIN headers
  BY <1>a, BestImpliesGenesis DEF IInv
<1>c. /\ accepted # <<>> /\ DOMAIN pending = AcceptedSet
      /\ \A h \in DOMAIN pending :
           /\ h \notin DOMAIN headers /\ h \in Header /\ h # Genesis
           /\ Acceptable(h) /\ pending[h] = ChildRecord(h)
  BY <1>a, <1>b DEF IInv, PendingInv, IsStored, TypeOK
<1>d. /\ DOMAIN headers' = DOMAIN headers \cup DOMAIN pending
      /\ \A h \in DOMAIN headers' : headers'[h] = Lookup(h)
      /\ \A h \in DOMAIN headers : headers'[h] = headers[h]
      /\ \A h \in DOMAIN pending : headers'[h] = pending[h]
  BY <1>c DEF Lookup
<1>1. TypeOK'
  <2>1. DOMAIN headers' \subseteq Header /\ headers' \in [DOMAIN headers' -> StoredHeader]
    BY <1>d DEF IInv, TypeOK
  <2> HIDE DEF PutHeaders
  <2>2. QED  BY <1>a, <2>1 DEF IInv, TypeOK, Phases
<1>2. StoredHeadersLinked'
  <2>1. ASSUME NEW h \in DOMAIN headers', h # Genesis
        PROVE  /\ PrevBlock[h] \in DOMAIN headers'
               /\ headers'[h].height = headers'[PrevBlock[h]].height + 1
               /\ headers'[h].chainwork = headers'[PrevBlock[h]].chainwork + Work[h]
               /\ h \in ValidBits \cap ValidPow
               /\ MeetsCheckpoint(headers'[h].height, h)
    <3>1. CASE h \in DOMAIN headers
      BY <1>d, <2>1, <3>1 DEF IInv, StoredHeadersLinked
    <3>2. CASE h \in DOMAIN pending
      <4>1. PrevBlock[h] \in DOMAIN headers'
        BY <1>c, <1>d, <3>2 DEF Acceptable, IsKnown, IsStored
      <4>2. headers'[h] = ChildRecord(h) /\ headers'[PrevBlock[h]] = Lookup(PrevBlock[h])
        BY <1>c, <1>d, <3>2, <4>1
      <4>3. QED  BY <1>c, <3>2, <4>1, <4>2 DEF ChildRecord, Acceptable
    <3>3. QED  BY <1>d, <3>1, <3>2
  <2>2. headers'[Genesis] = GenesisRecord
    BY <1>b, <1>d DEF IInv, StoredHeadersLinked
  <2>3. QED  BY <2>1, <2>2 DEF StoredHeadersLinked, GenesisRecord
<1>3. CanonicalIsBestChain'
  BY <1>a, <1>d, MoreHeadersKeepChain DEF IInv
<1>4. GenesisPromotedOnce'
  BY <1>a DEF IInv, GenesisPromotedOnce, TypeOK
<1>5. ThreadInv'
  BY <1>a, <1>d, BoundAssumption DEF IInv, ThreadInv, IsStored, TypeOK, Thread, OpenPhases
<1>6. PendingInv' /\ PromotingInv'
  BY <1>a, <1>c, <1>d DEF PendingInv, PromotingInv, AcceptedSet, IsStored
<1>7. HeaviestInv'
  <2>1. best \in DOMAIN headers
    BY <1>a DEF IInv, CanonicalIsBestChain
  <2>2. QED  BY <1>a, <1>d, <2>1 DEF IInv, HeaviestInv
<1>8. QED  BY <1>1, <1>2, <1>3, <1>4, <1>5, <1>6, <1>7 DEF IInv

\* InsertHeader keeps the inductive invariant.
LEMMA InsertHeaderStep ==
  ASSUME IInv, NEW new \in Header, InsertHeader(new)
  PROVE  IInv'
<1> USE DEF InsertHeader
<1>a. /\ pc[SyncThread] = "open" /\ best # None /\ SyncThread \in Thread
      /\ pc' = [pc EXCEPT ![SyncThread] = "promoting"] /\ pc'[SyncThread] = "promoting"
      /\ UNCHANGED <<canonical, best, queue, exclusive, faults>>
      /\ accepted' = <<new>>
      /\ DOMAIN pending = {} /\ DOMAIN pending' = {new} /\ pending'[new] = ChildRecord(new)
      /\ pending' = [g \in {new} |-> ChildRecord(new)]
  BY DEF IInv, ThreadInv, OpenPhases, TypeOK, Thread
<1>b. Genesis \in DOMAIN headers /\ new # Genesis
  BY <1>a, BestImpliesGenesis DEF IInv, IsStored
<1>c. ChildRecord(new) \in StoredHeader /\ PrevBlock[new] \in DOMAIN headers
  BY <1>a, ChildRecordType DEF IInv
<1>d. /\ DOMAIN headers' = DOMAIN headers \cup {new}
      /\ headers'[new] = ChildRecord(new)
      /\ \A h \in DOMAIN headers : headers'[h] = headers[h]
  BY DEF IsStored
<1>e. /\ Acceptable(new)
      /\ ChildRecord(new).height = headers[PrevBlock[new]].height + 1
      /\ ChildRecord(new).chainwork = headers[PrevBlock[new]].chainwork + Work[new]
  BY <1>a, <1>c DEF ChildRecord, Lookup
<1>1. TypeOK'
  <2>1. DOMAIN headers' \subseteq Header /\ headers' \in [DOMAIN headers' -> StoredHeader]
    BY <1>c, <1>d DEF IInv, TypeOK
  <2>2. accepted' \in Seq(Header)
    BY <1>a
  <2>3. DOMAIN pending' \subseteq Header /\ pending' \in [DOMAIN pending' -> StoredHeader]
    BY <1>a, <1>c
  <2> HIDE DEF InsertHeader
  <2>4. QED  BY <1>a, <2>1, <2>2, <2>3 DEF IInv, TypeOK, Phases
<1> HIDE DEF InsertHeader
<1>2. StoredHeadersLinked'
  <2>1. ASSUME NEW h \in DOMAIN headers', h # Genesis
        PROVE  /\ PrevBlock[h] \in DOMAIN headers'
               /\ headers'[h].height = headers'[PrevBlock[h]].height + 1
               /\ headers'[h].chainwork = headers'[PrevBlock[h]].chainwork + Work[h]
               /\ h \in ValidBits \cap ValidPow
               /\ MeetsCheckpoint(headers'[h].height, h)
    <3>1. CASE h \in DOMAIN headers
      BY <1>d, <2>1, <3>1 DEF IInv, StoredHeadersLinked
    <3>2. CASE h = new
      BY <1>c, <1>d, <1>e, <3>2 DEF Acceptable
    <3>3. QED  BY <1>d, <3>1, <3>2
  <2>2. headers'[Genesis] = GenesisRecord
    BY <1>b, <1>d DEF IInv, StoredHeadersLinked
  <2>3. QED  BY <2>1, <2>2 DEF StoredHeadersLinked, GenesisRecord
<1>3. CanonicalIsBestChain'
  BY <1>a, <1>d, MoreHeadersKeepChain DEF IInv
<1>4. GenesisPromotedOnce'
  BY <1>a DEF IInv, GenesisPromotedOnce, TypeOK
<1>5. ThreadInv'
  BY <1>a, <1>d, BoundAssumption DEF IInv, ThreadInv, IsStored, TypeOK, Thread, OpenPhases
<1>6. PendingInv' /\ PromotingInv'
  BY <1>a, <1>b, <1>d DEF PendingInv, PromotingInv, AcceptedSet, IsStored
<1>7. HeaviestInv'
  <2>1. best \in DOMAIN headers
    BY <1>a DEF IInv, CanonicalIsBestChain
  <2>2. QED  BY <1>a, <1>d, <2>1 DEF IInv, HeaviestInv
<1>8. QED  BY <1>1, <1>2, <1>3, <1>4, <1>5, <1>6, <1>7 DEF IInv

(***************************************************************************)
(* When the accepted headers up to BestIndex extend the best header, the   *)
(* k-th of them lies k above it: the windows(2) test of insert_headers is  *)
(* what makes the upserts of promote_canonical_tips contiguous.            *)
(***************************************************************************)
LEMMA ExtensionHeights ==
  ASSUME IInv, pc[SyncThread] = "promoting", ExtendsBest
  PROVE  /\ best \in DOMAIN headers /\ headers[best].height \in Nat
         /\ BestIndex \in 1..Len(accepted)
         /\ \A k \in 1..BestIndex :
              /\ accepted[k] \in DOMAIN headers
              /\ headers[accepted[k]].height = headers[best].height + k
<1>1. /\ best \in DOMAIN headers /\ headers[best].height \in Nat
      /\ BestIndex \in 1..Len(accepted) /\ Len(accepted) \in Nat
  BY BestIndexIsMaximal, LenProperties
  DEF IInv, ExtendsBest, CanonicalIsBestChain, TypeOK, StoredHeader
<1>2. ASSUME NEW k \in 1..BestIndex
      PROVE  /\ accepted[k] \in DOMAIN headers
             /\ PrevBlock[accepted[k]] \in DOMAIN headers
             /\ headers[accepted[k]].height = headers[PrevBlock[accepted[k]]].height + 1
  <2>1. k \in 1..Len(accepted)
    BY <1>1
  <2>2. accepted[k] \in DOMAIN pending
    BY <2>1 DEF IInv, PromotingInv, AcceptedSet
  <2>3. accepted[k] \in DOMAIN headers /\ accepted[k] # Genesis
    BY <2>2 DEF IInv, PromotingInv, IsStored
  <2>4. QED  BY <2>3 DEF IInv, StoredHeadersLinked
<1> DEFINE S == {k \in 1..BestIndex : headers[accepted[k]].height # headers[best].height + k}
<1>3. ASSUME S # {}  PROVE FALSE
  <2>1. S \in SUBSET Nat
    BY <1>1
  <2>2. PICK k \in S : \A j \in S : k <= j
    <3> HIDE DEF S
    <3>1. QED  BY <1>3, <2>1, NatLeast, Zenon
  <2>3. k \in 1..BestIndex /\ headers[accepted[k]].height # headers[best].height + k
    BY <2>2
  <2>4. CASE k = 1
    BY <1>1, <1>2, <2>3, <2>4 DEF ExtendsBest
  <2>5. CASE k # 1
    <3>1. k-1 \in 1..BestIndex /\ k \in 2..BestIndex /\ k \in Nat
      BY <1>1, <2>3, <2>5
    <3>2. k-1 \notin S
      BY <2>2, <3>1
    <3>3. headers[accepted[k-1]].height = headers[best].height + (k-1)
      BY <3>1, <3>2
    <3>4. PrevBlock[accepted[k]] = accepted[k-1]
      BY <3>1 DEF ExtendsBest
    <3>5. headers[accepted[k]].height = headers[accepted[k-1]].height + 1
      BY <1>2, <2>3, <3>4
    <3>6. \A m \in Nat : (m + (k-1)) + 1 = m + k
      BY <3>1
    <3>7. QED  BY <1>1, <2>3, <3>3, <3>5, <3>6
  <2>6. QED  BY <2>4, <2>5
<1>4. QED  BY <1>1, <1>2, <1>3

\* PromoteTips keeps the inductive invariant.
LEMMA PromoteTipsStep ==
  ASSUME IInv, PromoteTips
  PROVE  IInv' /\ headers'[best'].chainwork > headers[best].chainwork
<1> USE DEF PromoteTips, EndBatch
<1> DEFINE base == headers[best].height
<1> DEFINE path == SubSeq(accepted, 1, BestIndex)
<1>a. /\ pc[SyncThread] = "promoting" /\ SyncThread \in Thread /\ best # None
      /\ pc' = [pc EXCEPT ![SyncThread] = "open"] /\ pc'[SyncThread] = "open"
      /\ UNCHANGED <<headers, exclusive, faults>>
      /\ queue' = <<>> /\ accepted' = <<>> /\ pending' = EmptyTable
      /\ best' = BestCandidate /\ best' = accepted[BestIndex]
      /\ canonical' = Upsert(canonical, path)
  BY DEF IInv, TypeOK, Thread, BestCandidate, ThreadInv, OpenPhases
<1>x. /\ best \in DOMAIN headers /\ base \in Nat /\ BestIndex \in 1..Len(accepted)
      /\ \A k \in 1..BestIndex :
           accepted[k] \in DOMAIN headers /\ headers[accepted[k]].height = base + k
  BY <1>a, ExtensionHeights
<1>y. /\ accepted \in Seq(Header) /\ Len(accepted) \in Nat
      /\ canonical \in ChainsTo(best)
  BY <1>a, LenProperties DEF IInv, TypeOK, CanonicalIsBestChain
<1>b. base \in Nat /\ BestIndex \in Nat /\ BestIndex >= 1 /\ 1 \in 1..BestIndex
  BY <1>x, <1>y
<1>c. /\ BestCandidate \in DOMAIN pending /\ BestCandidate \in DOMAIN headers
      /\ BestCandidate \in Header /\ BestCandidate # None
      /\ headers[BestCandidate].chainwork > headers[best].chainwork
      /\ \A h \in DOMAIN pending : headers[h].chainwork <= headers[BestCandidate].chainwork
      /\ \A h \in DOMAIN headers : headers[h].chainwork \in Nat
  BY <1>a, BestIndexIsMaximal, HeaderAssumption
  DEF IInv, PromotingInv, IsStored, ShouldPromote, TypeOK, StoredHeader
<1>d. /\ PrevBlock[accepted[1]] = best
      /\ \A i \in 2..BestIndex : PrevBlock[accepted[i]] = accepted[i-1]
  BY DEF ExtendsBest
<1>e. DOMAIN path = 1..BestIndex /\ \A k \in 1..BestIndex : path[k] = accepted[k]
  BY <1>x, <1>y, <1>b, SubSeqProperties
<1> HIDE DEF PromoteTips, EndBatch, path, base
<1>f. /\ HeightsOf(path) = (base+1)..(base+BestIndex)
      /\ \A n \in HeightsOf(path) : n - base \in 1..BestIndex /\ AtHeight(path, n) = {n - base}
  <2>1. HeightsOf(path) = {base + k : k \in 1..BestIndex}
    BY <1>x, <1>e DEF HeightsOf
  <2>2. {base + k : k \in 1..BestIndex} = (base+1)..(base+BestIndex)
    <3>1. ASSUME NEW n \in (base+1)..(base+BestIndex)
          PROVE  n \in {base + k : k \in 1..BestIndex}
      <4>1. n - base \in 1..BestIndex /\ n = base + (n - base)
        BY <1>b
      <4>2. QED  BY <4>1
    <3>2. ASSUME NEW k \in 1..BestIndex  PROVE base + k \in (base+1)..(base+BestIndex)
      BY <1>b
    <3>3. QED  BY <3>1, <3>2
  <2>3. ASSUME NEW n \in (base+1)..(base+BestIndex)
        PROVE  n - base \in 1..BestIndex /\ AtHeight(path, n) = {n - base}
    <3>1. n - base \in 1..BestIndex /\ n = base + (n - base)
      BY <1>b
    <3>2. ASSUME NEW k \in 1..BestIndex  PROVE base + k = n <=> k = n - base
      BY <1>b
    <3>3. \A k \in 1..BestIndex : headers[path[k]].height = base + k
      BY <1>e, <1>x
    <3>4. AtHeight(path, n) = {k \in 1..BestIndex : base + k = n}
      BY <1>e, <3>3 DEF AtHeight
    <3>5. QED  BY <3>1, <3>2, <3>4
  <2>4. QED  BY <2>1, <2>2, <2>3
<1>g. DOMAIN canonical = 0..base /\ canonical[base] = best
  BY <1>y DEF ChainsTo, base
<1>h. DOMAIN canonical' = 0..(base + BestIndex)
  <2>1. DOMAIN canonical' = (0..base) \cup ((base+1)..(base+BestIndex))
    BY <1>a, <1>f, <1>g DEF Upsert
  <2>2. QED  BY <1>b, <2>1
<1>i. ASSUME NEW n \in 0..(base + BestIndex)
      PROVE  canonical'[n] = IF n <= base THEN canonical[n] ELSE accepted[n - base]
  <2>1. CASE n <= base
    <3>1. n \notin HeightsOf(path) /\ n \in DOMAIN canonical
      BY <1>b, <1>f, <1>g, <2>1
    <3>2. QED  BY <1>a, <2>1, <3>1 DEF Upsert
  <2>2. CASE n > base
    <3>1. n \in HeightsOf(path)
      BY <1>b, <1>f, <2>2
    <3>2. n - base \in 1..BestIndex /\ AtHeight(path, n) = {n - base}
      BY <1>f, <3>1
    <3>3. (CHOOSE k \in AtHeight(path, n) : \A j \in AtHeight(path, n) : j <= k) = n - base
      BY <1>b, <3>2
    <3>4. canonical'[n] = path[n - base]
      BY <1>a, <3>1, <3>3 DEF Upsert
    <3>5. ~(n <= base)  BY <1>b, <2>2
    <3>6. QED  BY <1>e, <3>2, <3>4, <3>5
  <2>3. QED  BY <1>b, <2>1, <2>2
<1>j. headers[BestCandidate].height = base + BestIndex
  <2>1. BestIndex \in 1..BestIndex  BY <1>b
  <2>2. QED  BY <1>a, <1>x, <2>1
<1>2. StoredHeadersLinked'
  BY <1>a DEF IInv, StoredHeadersLinked
<1>3. CanonicalIsBestChain'
  <2>1. \A n \in 0..base : canonical[n] \in DOMAIN headers /\ headers[canonical[n]].height = n
    BY <1>y DEF ChainsTo, base
  <2>2. ASSUME NEW n \in 0..(base + BestIndex)
        PROVE  canonical'[n] \in DOMAIN headers /\ headers[canonical'[n]].height = n
    <3>1. CASE n <= base
      <4>1. n \in 0..base  BY <1>b, <3>1
      <4>2. canonical'[n] = canonical[n]  BY <1>i, <3>1
      <4>3. QED  BY <2>1, <4>1, <4>2
    <3>2. CASE n > base
      <4>1. n - base \in 1..BestIndex /\ base + (n - base) = n  BY <1>b, <3>2
      <4>2. canonical'[n] = accepted[n - base]  BY <1>b, <1>i, <3>2
      <4>3. QED  BY <1>x, <4>1, <4>2
    <3>3. QED  BY <1>b, <3>1, <3>2
  <2>3. \A n \in 1..base : PrevBlock[canonical[n]] = canonical[n-1]
    BY <1>y DEF ChainsTo, base
  <2>4. ASSUME NEW n \in 1..(base + BestIndex)
        PROVE  PrevBlock[canonical'[n]] = canonical'[n-1]
    <3>0. n \in 0..(base + BestIndex) /\ n-1 \in 0..(base + BestIndex)
      BY <1>b
    <3>1. CASE n <= base
      <4>1. n \in 1..base /\ n-1 <= base  BY <1>b, <3>1
      <4>2. canonical'[n] = canonical[n] /\ canonical'[n-1] = canonical[n-1]
        BY <1>i, <3>0, <3>1, <4>1
      <4>3. QED  BY <2>3, <4>1, <4>2
    <3>2. CASE n = base + 1
      <4>1. n - 1 = base /\ n - base = 1 /\ ~(n <= base) /\ n-1 <= base  BY <1>b, <3>2
      <4>2. canonical'[n] = accepted[n - base] /\ canonical'[n-1] = canonical[n-1]
        BY <1>i, <3>0, <4>1
      <4>3. QED  BY <1>d, <1>g, <4>1, <4>2
    <3>3. CASE n > base + 1
      <4>1. /\ n - base \in 2..BestIndex /\ (n - base) - 1 = (n-1) - base
            /\ ~(n <= base) /\ ~(n-1 <= base)
        BY <1>b, <3>3
      <4>2. canonical'[n] = accepted[n - base] /\ canonical'[n-1] = accepted[(n-1) - base]
        BY <1>i, <3>0, <4>1
      <4>3. PrevBlock[accepted[n - base]] = accepted[(n - base) - 1]
        BY <1>d, <4>1
      <4>4. QED  BY <4>1, <4>2, <4>3
    <3>4. QED  BY <1>b, <3>1, <3>2, <3>3
  <2>5. canonical'[base + BestIndex] = BestCandidate
    <3>1. base + BestIndex \in 0..(base + BestIndex) /\ ~(base + BestIndex <= base)
          /\ (base + BestIndex) - base = BestIndex
      BY <1>b
    <3>2. canonical'[base + BestIndex] = accepted[(base + BestIndex) - base]
      BY <1>i, <3>1
    <3>3. QED  BY <1>a, <3>1, <3>2
  <2>6. canonical' \in [0..(base + BestIndex) -> DOMAIN headers]
    <3>1. canonical' = [n \in 0..(base + BestIndex) |-> canonical'[n]]
      BY <1>a, <1>h DEF Upsert
    <3>2. QED  BY <2>2, <3>1
  <2>7. canonical' \in ChainsTo(BestCandidate)
    BY <1>j, <2>2, <2>4, <2>5, <2>6 DEF ChainsTo
  <2>8. ChainsTo(best)' = ChainsTo(BestCandidate)
    BY <1>a DEF ChainsTo
  <2>9. QED  BY <1>a, <1>c, <2>7, <2>8 DEF CanonicalIsBestChain
<1>1. TypeOK'
  <2>1. DOMAIN canonical' \subseteq Nat /\ canonical' \in [DOMAIN canonical' -> Header]
    <3>1. canonical' \in [0..(base + BestIndex) -> DOMAIN headers]
      BY <1>a, <1>c, <1>j, <1>3 DEF CanonicalIsBestChain, ChainsTo
    <3>2. 0..(base + BestIndex) \subseteq Nat  BY <1>b
    <3>3. QED  BY <3>1, <3>2 DEF IInv, TypeOK
  <2>2. pending' \in [DOMAIN pending' -> StoredHeader] /\ DOMAIN pending' \subseteq Header
    BY <1>a DEF EmptyTable
  <2>3. QED  BY <1>a, <1>c, <2>1, <2>2, EmptySeq DEF IInv, TypeOK, Phases
<1>4. GenesisPromotedOnce'
  BY <1>a DEF IInv, GenesisPromotedOnce, TypeOK
<1>5. ThreadInv'
  BY <1>a, <1>c, BoundAssumption DEF IInv, ThreadInv, IsStored, TypeOK, Thread, OpenPhases, EmptyTable
<1>6. PendingInv' /\ PromotingInv'
  BY <1>a DEF PendingInv, PromotingInv
<1>7. HeaviestInv'
  BY <1>a, <1>x, <1>c DEF IInv, HeaviestInv
<1>8. QED  BY <1>a, <1>c, <1>1, <1>2, <1>3, <1>4, <1>5, <1>6, <1>7 DEF IInv

\* PromoteFork keeps the inductive invariant.
LEMMA PromoteForkStep ==
  ASSUME IInv, PromoteFork
  PROVE  IInv' /\ headers'[best'].chainwork > headers[best].chainwork
<1> USE DEF PromoteFork, PromoteBestHash, EndBatch
<1>a. /\ pc[SyncThread] = "promoting" /\ SyncThread \in Thread /\ best # None
      /\ pc' = [pc EXCEPT ![SyncThread] = "open"] /\ pc'[SyncThread] = "open"
      /\ UNCHANGED <<headers, exclusive, faults>>
      /\ queue' = <<>> /\ accepted' = <<>> /\ pending' = EmptyTable
      /\ best' = BestCandidate /\ canonical' \in ChainsTo(BestCandidate)
  BY DEF IInv, TypeOK, Thread, ThreadInv, OpenPhases
<1>b. best \in DOMAIN headers
  BY <1>a DEF IInv, CanonicalIsBestChain
<1>c. /\ BestCandidate \in DOMAIN pending /\ BestCandidate \in DOMAIN headers
      /\ BestCandidate \in Header /\ BestCandidate # None
      /\ headers[BestCandidate].chainwork > headers[best].chainwork
      /\ \A h \in DOMAIN pending : headers[h].chainwork <= headers[BestCandidate].chainwork
      /\ \A h \in DOMAIN headers : headers[h].chainwork \in Nat
  BY <1>a, <1>b, BestIndexIsMaximal, HeaderAssumption
  DEF IInv, PromotingInv, IsStored, ShouldPromote, TypeOK, StoredHeader
<1> HIDE DEF PromoteFork, PromoteBestHash, EndBatch
<1>1. TypeOK'
  <2>1. headers[BestCandidate].height \in Nat
    BY <1>c DEF IInv, TypeOK, StoredHeader
  <2>2. DOMAIN canonical' \subseteq Nat /\ canonical' \in [DOMAIN canonical' -> Header]
    BY <1>a, <2>1 DEF IInv, TypeOK, ChainsTo
  <2>3. pending' \in [DOMAIN pending' -> StoredHeader] /\ DOMAIN pending' \subseteq Header
    BY <1>a DEF EmptyTable
  <2>4. QED  BY <1>a, <1>c, <2>2, <2>3, EmptySeq DEF IInv, TypeOK, Phases
<1>2. StoredHeadersLinked'
  BY <1>a DEF IInv, StoredHeadersLinked
<1>3. CanonicalIsBestChain'
  BY <1>a, <1>c DEF CanonicalIsBestChain, ChainsTo
<1>4. GenesisPromotedOnce'
  BY <1>a DEF IInv, GenesisPromotedOnce, TypeOK
<1>5. ThreadInv'
  BY <1>a, <1>c, BoundAssumption DEF IInv, ThreadInv, IsStored, TypeOK, Thread, OpenPhases, EmptyTable
<1>6. PendingInv' /\ PromotingInv'
  BY <1>a DEF PendingInv, PromotingInv
<1>7. HeaviestInv'
  BY <1>a, <1>b, <1>c DEF IInv, HeaviestInv
<1>8. QED  BY <1>a, <1>c, <1>1, <1>2, <1>3, <1>4, <1>5, <1>6, <1>7 DEF IInv

(***************************************************************************)
(* Every step keeps the inductive invariant.                               *)
(***************************************************************************)
LEMMA NextStep ==
  IInv /\ [Next]_vars => IInv'
<1> SUFFICES ASSUME IInv, [Next]_vars  PROVE IInv'
  OBVIOUS
<1>1. ASSUME NEW t \in Thread, GenesisStep(t)  PROVE IInv'
  BY <1>1, OpenChainStep, PutGenesisStep, GenesisDuplicateStep, PromoteGenesisStep
  DEF GenesisStep
<1>2. ASSUME NEW batch \in Batches, InsertHeaders(batch)  PROVE IInv'
  <2>1. batch \in Seq(Header)
    BY BoundAssumption, SeqDef DEF Batches
  <2>2. QED  BY <1>2, <2>1, InsertHeadersStep
<1>3. ASSUME NEW h \in Header, InsertHeader(h)  PROVE IInv'
  BY <1>3, InsertHeaderStep
<1>4. CASE ValidationStep
  BY <1>4, SkipKnownStep, AcceptHeaderStep, RejectBatchStep, NothingNewStep, ValidatedBatchStep
  DEF ValidationStep
<1>5. CASE CommitStep
  BY <1>5, PutHeadersStep, KeepBestStep, PromoteTipsStep, PromoteForkStep DEF CommitStep
<1>6. CASE CloseChain  BY <1>6, CloseChainStep
<1>7. CASE BeginMaintenance  BY <1>7, BeginMaintenanceStep
<1>8. CASE ResetHeaders  BY <1>8, ResetHeadersStep
<1>9. ASSUME NEW t \in Thread, StorageError(t)  PROVE IInv'
  BY <1>9, StorageErrorStep
<1>10. CASE Crash  BY <1>10, CrashStep
<1>11. CASE UNCHANGED vars
  BY <1>11 DEF IInv, TypeOK, StoredHeadersLinked, CanonicalIsBestChain, ChainsTo,
     GenesisPromotedOnce, ThreadInv, PendingInv, PromotingInv, HeaviestInv, AcceptedSet,
     IsStored, IsKnown, Lookup, Acceptable, ChildRecord, vars
<1>12. QED
  BY <1>1, <1>2, <1>3, <1>4, <1>5, <1>6, <1>7, <1>8, <1>9, <1>10, <1>11 DEF Next

\* An empty store with no thread in it satisfies the inductive invariant.
LEMMA InitInv == Init => IInv
<1> SUFFICES ASSUME Init  PROVE IInv
  OBVIOUS
<1>1. TypeOK
  <2>1. pc \in [Thread -> Phases] /\ faults \in 0..MaxFaults
    BY BoundAssumption DEF Init, Phases
  <2>2. exclusive \in BOOLEAN
    BY Zenon DEF Init
  <2>3. queue \in Seq(Header) /\ accepted \in Seq(Header) /\ best \in Header \cup {None}
    BY EmptySeq DEF Init
  <2>4. /\ DOMAIN headers = {} /\ headers \in [DOMAIN headers -> StoredHeader]
        /\ DOMAIN canonical = {} /\ canonical \in [DOMAIN canonical -> Header]
        /\ DOMAIN pending = {} /\ pending \in [DOMAIN pending -> StoredHeader]
    BY DEF Init, EmptyTable
  <2>5. QED  BY <2>1, <2>2, <2>3, <2>4 DEF TypeOK
<1>2. StoredHeadersLinked /\ CanonicalIsBestChain
  BY DEF Init, StoredHeadersLinked, CanonicalIsBestChain, EmptyTable
<1>3. GenesisPromotedOnce /\ ThreadInv
  BY DEF Init, GenesisPromotedOnce, ThreadInv, OpenPhases, EmptyTable, Thread
<1>4. PendingInv /\ PromotingInv /\ HeaviestInv
  BY DEF Init, PendingInv, PromotingInv, HeaviestInv, Thread
<1>5. QED  BY <1>1, <1>2, <1>3, <1>4 DEF IInv

\* The inductive invariant holds in every state of every behaviour.
LEMMA InductiveInvariant == Spec => []IInv
<1>1. QED  BY InitInv, NextStep, PTL DEF Spec

(***************************************************************************)
(* The variables keep their types, on any block tree.                      *)
(***************************************************************************)
THEOREM TypeCorrect == Spec => []TypeOK
<1>1. IInv => TypeOK  BY DEF IInv
<1>2. QED  BY <1>1, InductiveInvariant, PTL

(***************************************************************************)
(* headers_by_hash never holds an orphan or an unchecked header, whatever  *)
(* the batches, the faults and the races of the opening threads.           *)
(***************************************************************************)
THEOREM StoreIsLinked == Spec => []StoredHeadersLinked
<1>1. IInv => StoredHeadersLinked  BY DEF IInv
<1>2. QED  BY <1>1, InductiveInvariant, PTL

(***************************************************************************)
(* The height index is the chain from genesis to best_hash in every        *)
(* committed state, also between transactions and after a crash.           *)
(***************************************************************************)
THEOREM IndexIsBestChain == Spec => []CanonicalIsBestChain
<1>1. IInv => CanonicalIsBestChain  BY DEF IInv
<1>2. QED  BY <1>1, InductiveInvariant, PTL

(***************************************************************************)
(* Racing opens promote genesis at most once and never over a synced tip.  *)
(***************************************************************************)
THEOREM GenesisRaceIsHarmless == Spec => []GenesisPromotedOnce
<1>1. IInv => GenesisPromotedOnce  BY DEF IInv
<1>2. QED  BY <1>1, InductiveInvariant, PTL

(***************************************************************************)
(* In a behaviour without faults the best header outweighs every stored    *)
(* header whenever no insertion is under way.                              *)
(***************************************************************************)
THEOREM BestOutweighsStore == Spec => []BestIsHeaviest
<1>1. IInv => BestIsHeaviest
  BY DEF IInv, BestIsHeaviest, HeaviestInv, ThreadInv, OpenPhases, CanonicalIsBestChain
<1>2. QED  BY <1>1, InductiveInvariant, PTL

(***************************************************************************)
(* Only a reset gives best_hash up; every other move of it gains work.     *)
(***************************************************************************)
THEOREM BestGainsWork == Spec => BestNeverLosesWork
<1> DEFINE Gain == best # None /\ best' # best =>
                     \/ best' = None /\ exclusive
                     \/ headers'[best'].chainwork > headers[best].chainwork
<1>1. IInv /\ [Next]_vars => [Gain]_vars
  <2> SUFFICES ASSUME IInv, Next  PROVE Gain
    OBVIOUS
  <2>1. ASSUME NEW t \in Thread, GenesisStep(t)  PROVE Gain
    BY <2>1 DEF GenesisStep, OpenChain, PutGenesis, GenesisDuplicate, PromoteGenesis,
       IInv, GenesisPromotedOnce, store
  <2>2. ASSUME NEW batch \in Batches, InsertHeaders(batch)  PROVE Gain
    BY <2>2 DEF InsertHeaders, store
  <2>3. ASSUME NEW h \in Header, InsertHeader(h)  PROVE Gain
    BY <2>3 DEF InsertHeader
  <2>4. CASE ValidationStep
    BY <2>4 DEF ValidationStep, SkipKnown, AcceptHeader, RejectBatch, NothingNew,
       ValidatedBatch, store
  <2>5. CASE CommitStep
    <3>1. CASE PromoteTips  BY <3>1, PromoteTipsStep
    <3>2. CASE PromoteFork  BY <3>2, PromoteForkStep
    <3>3. CASE PutHeaders \/ KeepBest  BY <3>3 DEF PutHeaders, KeepBest, store
    <3>4. QED  BY <2>5, <3>1, <3>2, <3>3 DEF CommitStep
  <2>6. CASE CloseChain \/ BeginMaintenance \/ Crash
    BY <2>6 DEF CloseChain, BeginMaintenance, Crash, store
  <2>7. CASE ResetHeaders  BY <2>7 DEF ResetHeaders
  <2>8. ASSUME NEW t \in Thread, StorageError(t)  PROVE Gain
    BY <2>8 DEF StorageError, store
  <2>9. QED
    BY <2>1, <2>2, <2>3, <2>4, <2>5, <2>6, <2>7, <2>8 DEF Next
<1>2. QED  BY <1>1, InductiveInvariant, PTL DEF Spec, BestNeverLosesWork

(***************************************************************************)
(* hns-chain implements the promise of TipStore: the invariant makes every *)
(* table a header tree, and no transaction but the reset shrinks it.       *)
(***************************************************************************)
LEMMA PromiseStep ==
  ASSUME IInv, IInv', Next
  PROVE  Promise!Next \/ UNCHANGED <<headers, best>>
<1> DEFINE Goal == Promise!Next \/ UNCHANGED <<headers, best>>
<1>t. Promise!IsHeaderTree(headers')
  <2>1. StoredHeadersLinked'  BY DEF IInv
  <2>2. QED
    BY <2>1 DEF StoredHeadersLinked, Promise!IsHeaderTree, Promise!MeetsCheckpoint,
       MeetsCheckpoint, Promise!GenesisRecord, GenesisRecord
<1>g. ASSUME best' = best, Promise!Grows(headers, headers')  PROVE Goal
  BY <1>t, <1>g DEF Promise!Next, Promise!StoreHeaders
<1>p. ASSUME headers' = headers, best' \in DOMAIN headers,
             best # None => headers[best'].chainwork > headers[best].chainwork
      PROVE  Goal
  BY <1>p DEF Promise!Next, Promise!Promote
<1>1. ASSUME NEW t \in Thread, GenesisStep(t)  PROVE Goal
  <2>1. CASE OpenChain(t) \/ GenesisDuplicate(t)
    BY <2>1 DEF OpenChain, GenesisDuplicate, store
  <2>2. CASE PutGenesis(t)
    BY <2>2, <1>g DEF PutGenesis, IsStored, Promise!Grows
  <2>3. CASE PromoteGenesis(t)
    <3>1. best = None /\ IsStored(Genesis)
      BY <2>3 DEF PromoteGenesis, IInv, GenesisPromotedOnce, ThreadInv
    <3>2. QED  BY <2>3, <3>1, <1>p DEF PromoteGenesis, PromoteBestHash, IsStored
  <2>4. QED  BY <1>1, <2>1, <2>2, <2>3 DEF GenesisStep
<1>2. ASSUME NEW batch \in Batches, InsertHeaders(batch)  PROVE Goal
  BY <1>2 DEF InsertHeaders, store
<1>3. ASSUME NEW h \in Header, InsertHeader(h)  PROVE Goal
  BY <1>3, <1>g DEF InsertHeader, IsStored, Promise!Grows
<1>4. CASE ValidationStep
  BY <1>4 DEF ValidationStep, SkipKnown, AcceptHeader, RejectBatch, NothingNew, ValidatedBatch,
     store
<1>5. CASE CommitStep
  <2>1. CASE PutHeaders
    <3>1. \A h \in DOMAIN pending : ~IsStored(h)
      BY <2>1 DEF PutHeaders, IInv, PendingInv
    <3>2. QED  BY <2>1, <3>1, <1>g DEF PutHeaders, Lookup, IsStored, Promise!Grows
  <2>2. CASE KeepBest  BY <2>2 DEF KeepBest, store
  <2>3. ASSUME pc[SyncThread] = "promoting", ShouldPromote, headers' = headers,
               best' = BestCandidate
        PROVE  Goal
    <3>1. /\ accepted # <<>>
          /\ DOMAIN pending = AcceptedSet
          /\ \A h \in DOMAIN pending : IsStored(h) /\ headers[h] = pending[h]
      BY <2>3 DEF IInv, PromotingInv
    <3>2. BestCandidate \in DOMAIN pending
      BY <2>3, BestIndexIsMaximal DEF IInv
    <3>3. headers[BestCandidate] = pending[BestCandidate] /\ BestCandidate \in DOMAIN headers
      BY <3>1, <3>2 DEF IsStored
    <3>4. QED  BY <2>3, <3>3, <1>p DEF ShouldPromote
  <2>4. CASE PromoteTips  BY <2>3, <2>4 DEF PromoteTips
  <2>5. CASE PromoteFork  BY <2>3, <2>5 DEF PromoteFork, PromoteBestHash
  <2>6. QED  BY <1>5, <2>1, <2>2, <2>4, <2>5 DEF CommitStep
<1>6. CASE CloseChain \/ BeginMaintenance  BY <1>6 DEF CloseChain, BeginMaintenance, store
<1>7. CASE ResetHeaders
  BY <1>7 DEF ResetHeaders, EmptyTable, Promise!Next, Promise!Reset
<1>8. ASSUME NEW t \in Thread, StorageError(t)  PROVE Goal
  BY <1>8 DEF StorageError, store
<1>9. CASE Crash  BY <1>9 DEF Crash, store
<1>10. QED
  BY <1>1, <1>2, <1>3, <1>4, <1>5, <1>6, <1>7, <1>8, <1>9 DEF Next

(***************************************************************************)
(* The detailed store refines the abstract one.                            *)
(***************************************************************************)
THEOREM HeaderChainImplementsTipStore == Spec => ImplementsTipStore
<1>1. Init => Promise!Init
  BY DEF Init, Promise!Init, EmptyTable
<1>2. IInv /\ IInv' /\ [Next]_vars => [Promise!Next]_<<headers, best>>
  <2>1. ASSUME IInv, IInv', Next  PROVE [Promise!Next]_<<headers, best>>
    BY <2>1, PromiseStep
  <2>2. ASSUME UNCHANGED vars  PROVE [Promise!Next]_<<headers, best>>
    BY <2>2 DEF vars
  <2>3. QED  BY <2>1, <2>2
<1>3. QED  BY <1>1, <1>2, InductiveInvariant, PTL DEF Spec, ImplementsTipStore, Promise!Spec
============================================================================
