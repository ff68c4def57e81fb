----------------------------- MODULE LegacyPool -----------------------------
(***************************************************************************)
(* The legacy v2.0 allocator engine (src/unnamed/part_008 lines 452-917,  *)
(* header src/unnamed/part_009), which the examples and the GoogleTest     *)
(* suite are written against: the caller owns the mempool_t struct and     *)
(* passes one buffer that holds the bitmap and the blocks.                 *)
(*                                                                         *)
(* Its layout search is the one of Layout (same code, without the state    *)
(* buffer and without the memset: an error leaves the struct untouched).  *)
(* Blocks are named by their index; the address arithmetic from an index  *)
(* to a pointer and back is the one checked in Mempool.  The free list is *)
(* kept as the code keeps it: a head pointer in the struct and a next     *)
(* link in the first word of every block (next[b]), so that a step that   *)
(* reads the head and a later step that writes it can be interleaved.     *)
(*                                                                         *)
(* This module defines the engine's state and the effect of each piece of *)
(* code between two shared-memory accesses that matter; the modules that  *)
(* compose it with callers (LegacyThreads, Examples) decide which pieces  *)
(* run as one step.                                                        *)
(***************************************************************************)
EXTENDS Layout, Sequences, FiniteSets

CONSTANT
  MaxBlocks   \* a bound on the block count of any pool laid out

Blocks  == 0..(MaxBlocks - 1)
NULL    == -1
\* pointers that are not a block start: inside the blocks region, and outside it
Inside  == -2
Outside == -3
U32Mod  == U32Max + 1

VARIABLES
  pool,     \* the caller's mempool_t: head of the free list, counters, hook
  next,     \* next[b]: the first word of block b, the free-list link
  bitmap    \* bitmap[b]: the allocation bit of block b

legacyVars == <<pool, next, bitmap>>

FreshStats(n, bsize) ==
  [total_blocks |-> n, used_blocks |-> 0, free_blocks |-> n,
   peak_usage |-> 0, alloc_count |-> 0, free_count |-> 0, block_size |-> bsize]

(* mempool_t before mempool_init: a local of the caller, never read before *)
(* a successful init writes every field.                                   *)
Uninitialised ==
  [initialized |-> FALSE, head |-> NULL, free_blocks |-> 0, total_blocks |-> 0,
   block_size |-> 0, sync_enabled |-> FALSE, stats |-> FreshStats(0, 0)]

(* The block indices of the pool laid out.                               *)
InPool == 0..(pool.total_blocks - 1)

(* The bitmap cleared and the free list threaded over the first n blocks, *)
(* each linked to the one before it, so that the last is the head.         *)
(* Mutant: the memset of the bitmap is left out.                         *)
KeptBits(n) == bitmap

(* memset(pool->bitmap, 0, bitmap_bytes), bitmap_bytes = (n + 7) / 8:     *)
(* every bit of the bytes the n blocks use, those past block n included.  *)
ClearedBits(n) == [b \in Blocks |-> IF b \div 8 < (n + 7) \div 8 THEN 0 ELSE bitmap[b]]

FreshLinks(n) == [b \in Blocks |-> IF b < n THEN b - 1 ELSE next[b]]

(* Mutant: each block is linked to the one after it, not before.         *)
LegacyInitForward(n, bsize) ==
  /\ pool' = [initialized |-> TRUE, head |-> n - 1, free_blocks |-> n, total_blocks |-> n,
              block_size |-> bsize, sync_enabled |-> FALSE, stats |-> FreshStats(n, bsize)]
  /\ next' = [b \in Blocks |-> IF b < n THEN b + 1 ELSE next[b]]
  /\ bitmap' = ClearedBits(n)

(* A successful mempool_init of n blocks of bsize bytes: every field is    *)
(* written, the hook is cleared, the bitmap zeroed and the list threaded  *)
(* from the last block down to the first.                                  *)
LegacyInit(n, bsize) ==
  /\ pool' = [initialized |-> TRUE, head |-> n - 1, free_blocks |-> n, total_blocks |-> n,
              block_size |-> bsize, sync_enabled |-> FALSE, stats |-> FreshStats(n, bsize)]
  /\ next' = FreshLinks(n)
  /\ bitmap' = ClearedBits(n)

-----------------------------------------------------------------------------
(* mempool_alloc after the lock, having read node = pool->free_list:       *)
(* unlink it, and either restore it when free_blocks is 0 or count it and *)
(* set its bit.                                                            *)
AllocErr(node) == IF pool.free_blocks = 0 THEN "OUT_OF_MEMORY" ELSE "OK"

AllocStats ==
  LET free == pool.free_blocks - 1
      used == (pool.total_blocks - free) % U32Mod
  IN  [pool.stats EXCEPT !.alloc_count = (@ + 1) % U32Mod,
                         !.used_blocks = used,
                         !.free_blocks = free,
                         !.peak_usage = IF used > @ THEN used ELSE @]

(* Mutant: the head is not advanced past the block.                      *)
AllocPoolNoPop(node) ==
  IF pool.free_blocks = 0
  THEN [pool EXCEPT !.head = node]
  ELSE [pool EXCEPT !.free_blocks = @ - 1, !.stats = AllocStats]

AllocPool(node) ==
  IF pool.free_blocks = 0
  THEN [pool EXCEPT !.head = node]
  ELSE [pool EXCEPT !.head = next[node], !.free_blocks = @ - 1, !.stats = AllocStats]

AllocBitmap(node) ==
  IF pool.free_blocks # 0 /\ node < pool.total_blocks
  THEN [bitmap EXCEPT ![node] = 1] ELSE bitmap

(* mempool_free's checks before the lock: NULL, not initialised, and the  *)
(* range, alignment and index checks, which a block pointer passes and    *)
(* any other pointer fails.                                                *)
FreeCheck(p) ==
  CASE p = NULL           -> "NULL_PTR"
    [] ~pool.initialized  -> "NOT_INITIALIZED"
    [] p \notin InPool    -> "INVALID_BLOCK"
    [] OTHER              -> "OK"

(* mempool_free after the lock, the block's bit found set and head read   *)
(* as seen: link the block in front of seen, make it the head, count it   *)
(* (free_blocks saturating at total_blocks) and clear its bit.            *)
(* Mutant: used_blocks computed from free_blocks before the increment.   *)
FreeStatsStale ==
  LET free == IF pool.free_blocks < pool.total_blocks
              THEN pool.free_blocks + 1 ELSE pool.free_blocks
  IN  [pool.stats EXCEPT !.free_count = (@ + 1) % U32Mod,
                         !.used_blocks = (pool.total_blocks - pool.free_blocks) % U32Mod,
                         !.free_blocks = free]

FreeStats ==
  LET free == IF pool.free_blocks < pool.total_blocks
              THEN pool.free_blocks + 1 ELSE pool.free_blocks
  IN  [pool.stats EXCEPT !.free_count = (@ + 1) % U32Mod,
                         !.used_blocks = (pool.total_blocks - free) % U32Mod,
                         !.free_blocks = free]

FreePool(b) ==
  [pool EXCEPT !.head = b,
               !.free_blocks = IF @ < pool.total_blocks THEN @ + 1 ELSE @,
               !.stats = FreeStats]

(* Mutant: the block is made the head without being linked.             *)
FreeNextUnlinked(b, seen) == next

FreeNext(b, seen) == [next EXCEPT ![b] = seen]

(* Mutant: the whole bitmap byte of the block is cleared, not its bit.   *)
FreeBitmapByte(b) == [x \in Blocks |-> IF x \div 8 = b \div 8 THEN 0 ELSE bitmap[x]]

(* Mutant: the block's bit is left set.                                   *)
FreeBitmapKept(b) == bitmap

FreeBitmap(b) == [bitmap EXCEPT ![b] = 0]

(* mempool_reset after the lock: the bitmap cleared, the list rebuilt over *)
(* the same blocks, every counter reset.                                   *)
(* Mutant: alloc_count is not reset.                                       *)
ResetStatsKeepAllocs ==
  [FreshStats(pool.total_blocks, pool.block_size) EXCEPT !.alloc_count = pool.stats.alloc_count]

ResetStats == FreshStats(pool.total_blocks, pool.block_size)

(* Mutant: free_list is not set to the rebuilt list.                       *)
ResetPoolKeepHead ==
  [pool EXCEPT !.free_blocks = pool.total_blocks, !.stats = ResetStats]

ResetPool ==
  [pool EXCEPT !.head = pool.total_blocks - 1, !.free_blocks = pool.total_blocks,
               !.stats = ResetStats]

(* mempool_contains: initialised, and p in [blocks_start, blocks_end).     *)
(* Mutant: blocks_end computed one block short.                            *)
ContainsShort(p) ==
  pool.initialized /\ (p \in 0..(pool.total_blocks - 2) \/ p = Inside)

ContainsResult(p) == pool.initialized /\ (p \in InPool \/ p = Inside)

(* mempool_set_sync on an initialised pool: the hook is enabled iff both  *)
(* callbacks are non-NULL.                                                 *)
SetSync(lockFn, unlockFn) ==
  pool' = [pool EXCEPT !.sync_enabled = lockFn /\ unlockFn]

-----------------------------------------------------------------------------
(* The free list as a walk: LinkOf is one step along the next links       *)
(* (NULL stays NULL), Jump(f, k) is f taken 2^k times, Reached(k) the     *)
(* nodes of the first 2^k steps from the head.  Levels steps of doubling  *)
(* cover a walk longer than any list of N blocks; doubling keeps the      *)
(* recursion log N deep.                                                   *)
LinkOf == [b \in Blocks \cup {NULL} |-> IF b = NULL THEN NULL ELSE next[b]]

RECURSIVE Jump(_, _)
Jump(f, k) ==
  IF k = 0 THEN f
  ELSE LET g == Jump(f, k - 1) IN [b \in DOMAIN g |-> g[g[b]]]

RECURSIVE Reached(_)
Reached(k) ==
  IF k = 0 THEN {pool.head}
  ELSE LET r == Reached(k - 1)
           g == Jump(LinkOf, k - 1)
       IN  r \cup {g[b] : b \in r}

Levels == CHOOSE k \in 0..SizeBits : 2^k > MaxBlocks

(* The free list is a proper list of the free blocks: the walk from the   *)
(* head ends in NULL (no cycle, so no block twice), it visits exactly the *)
(* blocks whose bit is clear, and there are free_blocks of them.          *)
ChainSound ==
  LET free == {b \in InPool : bitmap[b] = 0}
  IN  /\ Jump(LinkOf, Levels)[pool.head] = NULL
      /\ Reached(Levels) \ {NULL} = free
      /\ Cardinality(free) = pool.free_blocks

=============================================================================
