----------------------------- MODULE MCExamples -----------------------------
(***************************************************************************)
(* Runs the example programs and the gtest cases, each with its own       *)
(* buffer, block size and alignment, on a scaled target whose size_t and  *)
(* uint32_t have 16 bits, wide enough for the programs' buffers (at most  *)
(* 8192 bytes) and counters (at most 1000).  The buffers are placed at    *)
(* address 8, aligned to 8 as the programs' __attribute__((aligned(8)))   *)
(* asks; the gtest case that offsets an alignas(16) buffer uses 16.       *)
(***************************************************************************)
EXTENDS Examples, FiniteSetsExt, TLC

TypeOK ==
  /\ pc \in IF prog = "stress" THEN {"init", "alloc", "free", "stats", "done"}
                                ELSE 1..(Len(Code) + 1)
  /\ slot \in [SlotsOf[prog] -> Blocks \cup {NULL, Inside, Outside, Garbage}]
  /\ next \in [Blocks -> Blocks \cup {NULL}]
  /\ bitmap \in [Blocks -> {0, 1}]
  /\ i \in 0..100
  /\ cycle \in 0..Cycles
  /\ failed \in BOOLEAN

-----------------------------------------------------------------------------
(* Every call whose result the program discards ((void) casts), or only   *)
(* prints, succeeds; the only error the stress loop handles,               *)
(* OUT_OF_MEMORY, is the only one it meets.                                *)
CallsSucceed ==
  prog \notin GTests =>
    \/ ret.err = "OK"
    \/ prog = "stress" /\ ret.op = "alloc" /\ ret.err = "OUT_OF_MEMORY"

(* The free list threaded through the blocks stays a proper list of the   *)
(* free blocks over the whole run of the program.                         *)
FreeListSound == pool.initialized => ChainSound

(* What the programs print from mempool_get_stats: basic and embedded     *)
(* report 2 blocks in use (peak 2) and give both back; the stress program *)
(* reports 0 blocks in use and as many frees as allocs, Cycles times the  *)
(* blocks it could get.                                                    *)
ReportedStats ==
  Returned =>
    IF prog = "stress"
    THEN   LET n == Cycles * Min({100, pool.total_blocks}) % U32Mod
           IN  /\ snap["stats"].used_blocks = 0
               /\ snap["stats"].alloc_count = n /\ snap["stats"].free_count = n
    ELSE   prog \in {"basic", "embedded"} =>
           /\ snap["stats"].used_blocks = 2 /\ snap["stats"].peak_usage = 2
           /\ snap["stats"].total_blocks = pool.total_blocks
           /\ pool.stats.used_blocks = 0

(* The GoogleTest cases pass: every EXPECT and ASSERT of the seven        *)
(* single-threaded tests holds of what the legacy engine returns -- the    *)
(* error of each init, alloc, free, get_stats and reset, and the pool and  *)
(* statistics the test reads afterwards.                                   *)
TestsPass == ~failed

(* The legacy engine implements AbstractPool under the example programs:  *)
(* the blocks whose bit is set are the allocated ones and alloc_count and *)
(* free_count count the hand-outs and take-backs, so every successful     *)
(* alloc sets a clear bit and every successful free clears a set one.     *)
Abstract == INSTANCE AbstractPool WITH
  Addresses <- Blocks,
  ready     <- pool.initialized,
  blocks    <- IF pool.initialized THEN InPool ELSE {},
  allocated <- {b \in InPool : pool.initialized /\ bitmap[b] = 1},
  CountMod  <- U32Mod,
  allocs    <- pool.stats.alloc_count,
  frees     <- pool.stats.free_count

RefinesAbstractPool == Abstract!Spec

=============================================================================
