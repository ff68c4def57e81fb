--------------------------- MODULE MCLegacyThreads ---------------------------
(***************************************************************************)
(* Checks the legacy engine under the two concurrent tests of the         *)
(* GoogleTest suite.  The pool is scaled down so that the workers run out of blocks:  *)
(* 12 bytes of 4-byte blocks at address 8, two blocks, for three threads.  *)
(***************************************************************************)
EXTENDS LegacyThreads, TLC

MCCall == [nullPtr |-> FALSE, poolAddr |-> 8, stateSize |-> StateSize,
           poolSize |-> 12, blockSize |-> 4, alignment |-> 4]

PCs == {"alloc", "alloc_read", "alloc_write", "alloc_unlock", "contains",
        "free", "free_read", "free_write", "free_unlock", "done"}

TypeOK ==
  /\ test \in Tests
  /\ phase \in {"init", "set_sync", "run", "done"}
  /\ pc \in [Threads -> PCs]
  /\ node \in [Threads -> Blocks \cup {NULL}]
  /\ seen \in [Threads -> Blocks \cup {NULL}]
  /\ iter \in [Threads -> 0..Iters]
  /\ mutex \in Threads \cup {NoThread}
  /\ next \in [Blocks -> Blocks \cup {NULL}]
  /\ bitmap \in [Blocks -> {0, 1}]

-----------------------------------------------------------------------------
(* EXPECT_EQ(0, failures): however the workers' calls interleave under    *)
(* the hook, every alloc returns OK with a block or OUT_OF_MEMORY, and     *)
(* every free of a block just allocated returns OK.                        *)
NoFailures == failures = 0

(* Once initialised, the free list threaded through the blocks' first     *)
(* words stays a proper list of exactly the free blocks, also between the *)
(* steps of calls in flight in other threads.                              *)
FreeListSound == phase # "init" => ChainSound

(* After all workers are joined, the statistics show every block free     *)
(* (EXPECT_EQ(0U, used_blocks), EXPECT_EQ(total_blocks, free_blocks)) --  *)
(* after ContainsUnderConcurrency too, whose workers also free every      *)
(* block they got.                                                         *)
FinalStatsClean ==
  phase = "done" =>
    /\ pool.stats.used_blocks = 0
    /\ pool.stats.free_blocks = pool.stats.total_blocks
    /\ pool.stats.alloc_count = pool.stats.free_count

(* With the hook, no two workers ever hold the same block: between a     *)
(* successful alloc and its free, the block is the worker's alone.         *)
Holds(t) ==
  \/ pc[t] \in {"contains", "free", "free_read", "free_write"}
  \/ pc[t] = "alloc_unlock" /\ err[t] = "OK"

BlocksNeverShared ==
  \A t, u \in Threads : t # u /\ Holds(t) /\ Holds(u) => node[t] # node[u]

(* The test ends: no worker waits forever on the mutex or on the pool,    *)
(* given threads that keep being scheduled.                                *)
Termination == <>(phase = "done")

=============================================================================
