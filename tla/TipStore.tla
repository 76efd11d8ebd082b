----------------------------- MODULE TipStore ------------------------------
(***************************************************************************)
(* What the header store promises to its readers (the resolver, the proof  *)
(* fetcher, the status screen), whatever transactions, threads and faults  *)
(* are behind it: the table of headers only grows and is always a tree of  *)
(* checked headers rooted in genesis, and the best header only moves to a  *)
(* stored header with more work.  Only a reset empties the store.          *)
(*                                                                         *)
(* HeaderChain (hns-chain on SQLite) and HeaderSync (the sync runner of    *)
(* hns-sync) are both shown to implement it.                               *)
(***************************************************************************)
EXTENDS Integers

CONSTANTS
  Header,      \* block headers, by hash
  Genesis,
  PrevBlock,   \* header -> parent, None when the parent is no known header
  Work,        \* header -> its own work
  ValidBits,   \* headers whose bits are the ones expected after their parent
  ValidPow,    \* headers whose hash meets the target of their bits
  Checkpoint,  \* mainnet_checkpoint_hash, a partial function of heights
  None

VARIABLES
  headers,  \* the stored headers: header -> [height, chainwork]
  best      \* the best header, None in an empty store

MeetsCheckpoint(height, h) ==
  height \in DOMAIN Checkpoint => h = Checkpoint[height]

GenesisRecord == [height |-> 0, chainwork |-> Work[Genesis]]

\* A table in which every header but genesis hangs on its parent and passed
\* the checks of insert_headers.
IsHeaderTree(table) ==
  \A h \in DOMAIN table :
    IF h = Genesis
    THEN table[h] = GenesisRecord
    ELSE /\ PrevBlock[h] \in DOMAIN table
         /\ table[h].height = table[PrevBlock[h]].height + 1
         /\ table[h].chainwork = table[PrevBlock[h]].chainwork + Work[h]
         /\ h \in ValidBits \cap ValidPow
         /\ MeetsCheckpoint(table[h].height, h)

Grows(old, new) ==
  /\ DOMAIN old \subseteq DOMAIN new
  /\ \A h \in DOMAIN old : new[h] = old[h]
----------------------------------------------------------------------------
Init ==
  /\ headers = [h \in {} |-> None]
  /\ best = None

StoreHeaders ==
  /\ Grows(headers, headers')
  /\ IsHeaderTree(headers')
  /\ best' = best

Promote ==
  /\ headers' = headers
  /\ best' \in DOMAIN headers
  /\ best # None => headers[best'].chainwork > headers[best].chainwork

Reset ==
  /\ headers' = [h \in {} |-> None]
  /\ best' = None

Next == StoreHeaders \/ Promote \/ Reset

Spec == Init /\ [][Next]_<<headers, best>>
============================================================================
