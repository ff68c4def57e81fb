------------------------------ MODULE MCMempool -----------------------------
(***************************************************************************)
(* Model-checking harness for Mempool: the init calls the caller makes,    *)
(* and the invariants of the engine.                                       *)
(*                                                                         *)
(* Target: a scaled 64-bit build, size_t of 6 bits and uint32_t of 4 bits, *)
(* so that the uint32 statistics counters wrap within reach.               *)
(***************************************************************************)
EXTENDS Mempool, TLC

(* Three calls on one pool buffer at address 8:                           *)
(*  - 16 bytes of 4-byte blocks, 4-aligned: 3 blocks at 12, 16, 20;       *)
(*  - 16 bytes of 5-byte blocks: one 8-byte block at 12;                  *)
(*  - a 3-byte pool: no block fits, INVALID_SIZE after the memset.        *)
(*  - alignment 3: ALIGNMENT, before anything is written.                 *)
MCCall(poolSize, blockSize, alignment) ==
  [nullPtr |-> FALSE, poolAddr |-> 8, stateSize |-> StateSize,
   poolSize |-> poolSize, blockSize |-> blockSize, alignment |-> alignment]

MCInitCalls == {MCCall(16, 4, 4), MCCall(16, 5, 4), MCCall(3, 4, 4), MCCall(16, 4, 3)}

(* The runs with misusing callers keep one layout of two blocks (12 bytes *)
(* of 4-byte blocks at 12 and 16), re-initialised or wiped, to stay within *)
(* reach of TLC.                                                           *)
MCInitCallsOneLayout == {MCCall(12, 4, 4), MCCall(3, 4, 4)}

MCSymmetry == Permutations(Clients)

TypeOK ==
  /\ pool.initialized \in BOOLEAN
  /\ pool.free_list \in Seq(0..(SizeMod - 1))
  /\ pool.initialized => ToSet(pool.free_list) \subseteq Blocks
  /\ pool.free_blocks \in 0..U32Max
  /\ pool.stats \in [{"total_blocks", "used_blocks", "free_blocks", "peak_usage",
                      "alloc_count", "free_count", "block_size"} -> 0..U32Max]
  /\ bitmap \in [Idx -> {0, 1}]
  /\ handle \in BOOLEAN
  /\ pool.sync \in [lock : BOOLEAN, unlock : BOOLEAN] /\ pool.sync_enabled \in BOOLEAN
  /\ last.err \in Errors \cup {"TRUE", "FALSE"}
  /\ \A c \in Clients : owned[c] \cup released[c] \cup revoked[c] \cup stale[c] \subseteq 0..(SizeMod - 1)

-----------------------------------------------------------------------------
(* The free list and the bitmap, kept redundantly by alloc, free and      *)
(* reset, always agree (spec invariants 2 and 3): the list holds no block *)
(* twice, its length is free_blocks, and it holds exactly the blocks      *)
(* whose bit is clear -- also when callers free stale pointers.           *)
FreeListMatchesBitmap ==
  pool.initialized =>
    /\ IsInjective(pool.free_list)
    /\ Len(pool.free_list) = pool.free_blocks
    /\ ToSet(pool.free_list) = {Addr(i) : i \in {j \in 0..(pool.total_blocks - 1) : bitmap[j] = 0}}

(* The statistics agree with the pool (spec invariants 1, 4 and 5): used  *)
(* and free add up to the total, free is the pool's own count, the peak   *)
(* is never below the current use, and the alloc and free counters, both  *)
(* uint32 and allowed to wrap, differ by the blocks in use.               *)
StatsConsistent ==
  pool.initialized =>
    /\ pool.stats.used_blocks + pool.stats.free_blocks = pool.total_blocks
    /\ pool.stats.free_blocks = pool.free_blocks
    /\ pool.stats.peak_usage >= pool.stats.used_blocks
    /\ (pool.stats.alloc_count - pool.stats.free_count) % U32Mod = pool.stats.used_blocks

(* Callers who keep the contract never share a block: every block of the  *)
(* pool is either on the free list or owned by exactly one client, so     *)
(* alloc never hands out a block someone holds and no block leaks.        *)
OwnershipPartition ==
  pool.initialized =>
    \A b \in Blocks :
      Cardinality({c \in Clients : b \in owned[c]}) + (IF Contains(pool.free_list, b) THEN 1 ELSE 0) = 1

(* A second free of a block, with no alloc of it in between, never        *)
(* succeeds (spec 4.4, 8): it is reported as DOUBLE_FREE, or rejected     *)
(* because a reset or init has since changed the pool -- whoever else     *)
(* freed stale pointers meanwhile.                                        *)
DoubleFreeDetected ==
  (last.op = "free" /\ last.kind = "released") => last.err # "OK"

-----------------------------------------------------------------------------
(* The engine implements AbstractPool: the blocks of the current layout   *)
(* are the abstract blocks, those whose bitmap bit is set the allocated   *)
(* ones, and the statistics' alloc_count and free_count the counts of     *)
(* hand-outs and take-backs.  A successful alloc counts a hand-out, so it *)
(* must set the bit of a block that was clear; a successful free must     *)
(* clear a bit that was set; nothing but reset and init changes the bits  *)
(* otherwise.  Abstract blocks have no owners: a stale free that takes    *)
(* back a block another caller now holds is an abstract Free all the same *)
(* (see RevokedFreeRejected).                                              *)
Abstract == INSTANCE AbstractPool WITH
  Addresses <- 0..(SizeMod - 1),
  ready     <- pool.initialized,
  blocks    <- Blocks,
  allocated <- {Addr(i) : i \in {j \in 0..(pool.total_blocks - 1) : bitmap[j] = 1}},
  CountMod  <- U32Mod,
  allocs    <- pool.stats.alloc_count,
  frees     <- pool.stats.free_count

RefinesAbstractPool == Abstract!Spec

-----------------------------------------------------------------------------
(* Spec 4.5: after a reset, a pointer handed out before it is invalid; a  *)
(* later free of it, if still in range and aligned, meets a cleared bit   *)
(* and returns DOUBLE_FREE instead of giving the block back to the pool.  *)
(* Here: a free of a block revoked from the caller by a reset or init     *)
(* never succeeds.                                                        *)
RevokedFreeRejected ==
  (last.op = "free" /\ last.kind = "revoked") => last.err # "OK"

(* Spec 7: errors are detected before any mutation, so a call that        *)
(* returns an error leaves the control block and the bitmap as they were. *)
FailedCallsLeavePoolUnchanged ==
  [][last'.err \notin {"OK", "TRUE", "FALSE"} => UNCHANGED <<pool, bitmap>>]_vars

=============================================================================
