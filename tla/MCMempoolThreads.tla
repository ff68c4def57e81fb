-------------------------- MODULE MCMempoolThreads --------------------------
(***************************************************************************)
(* Checks the current engine under its thread-safety tests.  The pool is  *)
(* scaled down so that the workers run out of blocks: 12 bytes of 4-byte  *)
(* blocks at address 8, two blocks at 12 and 16, for three threads.       *)
(***************************************************************************)
EXTENDS MempoolThreads

MCCall == [nullPtr |-> FALSE, poolAddr |-> 8, stateSize |-> StateSize,
           poolSize |-> 12, blockSize |-> 4, alignment |-> 4]

MCInitCalls == {MCCall}

MCClients == Threads \cup {Main}

PCs == {"alloc", "alloc_body", "alloc_unlock", "contains",
        "free", "free_body", "free_unlock", "done"}

TypeOK ==
  /\ test \in Tests
  /\ phase \in {"init", "set_sync", "run", "done"}
  /\ pc \in [Threads -> PCs]
  /\ node \in [Threads -> Blocks \cup {NULL}]
  /\ res \in [Threads -> Errors]
  /\ iter \in [Threads -> 0..Iters]
  /\ mutex \in Threads \cup {NoThread}
  /\ bitmap \in [Idx -> {0, 1}]

-----------------------------------------------------------------------------
(* EXPECT_EQ(0, failures.load()): however the workers' calls interleave   *)
(* under the mutex hook, every alloc returns OK with a non-null block or  *)
(* OUT_OF_MEMORY, contains says yes of the block just allocated, and its  *)
(* free returns OK.                                                        *)
NoFailures == failures = 0

(* After the workers are joined, the statistics ConcurrentAllocFree reads *)
(* show every block free (used_blocks 0, free_blocks = total_blocks), and *)
(* the free list holds each block once -- in ContainsUnderConcurrency too, *)
(* whose workers also free every block they got.                           *)
FinalStatsClean ==
  phase = "done" =>
    /\ pool.stats.used_blocks = 0
    /\ pool.stats.free_blocks = pool.stats.total_blocks
    /\ Len(pool.free_list) = pool.total_blocks /\ IsInjective(pool.free_list)

(* The test ends: no worker waits forever on the mutex, given threads     *)
(* that keep being scheduled.                                              *)
Termination == <>(phase = "done")

=============================================================================
