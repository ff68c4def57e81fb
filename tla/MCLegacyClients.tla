--------------------------- MODULE MCLegacyClients ---------------------------
(***************************************************************************)
(* Two clients on the legacy engine, on a target of 6-bit size_t and 3-bit *)
(* uint32_t (the counters wrap after 8 calls).  The init calls: a 3-block  *)
(* layout, a 1-block layout, and three that fail (a pool too small for a  *)
(* block, an alignment of 3, a NULL buffer).                               *)
(***************************************************************************)
EXTENDS LegacyClients, TLC

MCCall(null, poolSize, alignment) ==
  [nullPtr |-> null, poolAddr |-> 8, stateSize |-> StateSize,
   poolSize |-> poolSize, blockSize |-> 4, alignment |-> alignment]

MCCalls ==
  {MCCall(FALSE, 16, 4), MCCall(FALSE, 8, 4), MCCall(FALSE, 3, 4),
   MCCall(FALSE, 16, 3), MCCall(TRUE, 16, 4)}

MCSymmetry == Permutations(Clients)

TypeOK ==
  /\ pool.head \in Blocks \cup {NULL}
  /\ pool.total_blocks \in 0..MaxBlocks
  /\ next \in [Blocks -> Blocks \cup {NULL}]
  /\ bitmap \in [Blocks -> {0, 1}]
  /\ owned \in [Clients -> SUBSET Blocks]

-----------------------------------------------------------------------------
(* Over any sequence of calls, re-inits with other layouts and resets     *)
(* included, the free list threaded through the blocks is a proper list   *)
(* of exactly the blocks whose bit is clear, free_blocks of them.         *)
FreeListSound == pool.initialized => ChainSound

(* The statistics agree with the pool: used and free blocks with          *)
(* free_blocks, alloc_count - free_count with the blocks in use (modulo   *)
(* 2^32, as both counters wrap), and the peak is never below the use.     *)
StatsConsistent ==
  pool.initialized =>
    /\ pool.stats.total_blocks = pool.total_blocks
    /\ pool.stats.free_blocks = pool.free_blocks
    /\ pool.stats.used_blocks = pool.total_blocks - pool.free_blocks
    /\ (pool.stats.alloc_count - pool.stats.free_count) % U32Mod = pool.stats.used_blocks
    /\ pool.stats.peak_usage >= pool.stats.used_blocks

(* A block a client holds is marked allocated and held by no other        *)
(* client, until a reset or re-init takes it back.                        *)
OwnershipSound ==
  /\ \A c \in Clients : \A b \in owned[c] : b \in InPool /\ bitmap[b] = 1
  /\ \A c, d \in Clients : c # d => owned[c] \cap owned[d] = {}

(* The legacy engine implements AbstractPool: init lays out a fresh set   *)
(* of blocks, reset takes every block back and zeroes the counters, and   *)
(* each successful alloc (counted in alloc_count) sets the bit of a block *)
(* that was clear, each successful free (counted in free_count) clears a  *)
(* bit that was set.                                                       *)
Abstract == INSTANCE AbstractPool WITH
  Addresses <- Blocks,
  ready     <- pool.initialized,
  blocks    <- IF pool.initialized THEN InPool ELSE {},
  allocated <- {b \in InPool : pool.initialized /\ bitmap[b] = 1},
  CountMod  <- U32Mod,
  allocs    <- pool.stats.alloc_count,
  frees     <- pool.stats.free_count

RefinesAbstractPool == Abstract!Spec

=============================================================================
