------------------------------- MODULE Mempool ------------------------------
(***************************************************************************)
(* The allocator engine of src/unnamed/part_008 (the opaque two-buffer     *)
(* implementation, lines 1-451): mempool_init on a state buffer and a pool *)
(* buffer, and alloc, free, reset, get_stats and contains on the handle it *)
(* returns, called by a set of clients.                                    *)
(*                                                                         *)
(* Each call is one atomic step: the code is either used by one thread or  *)
(* under the caller's lock hook, which serialises the calls.  set_sync     *)
(* installs the hook; what the hook does between threads is the legacy    *)
(* engine's same code, modelled in LegacyThreads.                          *)
(*                                                                         *)
(* Pointers are byte addresses (integers); a block is identified by the    *)
(* address of its first byte.  The free list is the chain of next links    *)
(* starting at pool.free_list, written as the sequence of the addresses    *)
(* on it, head first.                                                      *)
(*                                                                         *)
(* Besides the pool, the model keeps what each client knows: the blocks    *)
(* it owns (alloc returned them and it has not freed them), the ones it    *)
(* released by a successful free, the ones a reset or a new init took     *)
(* away from it, and every pointer it once had and no longer owns.  With   *)
(* Misuse, clients also pass those stale pointers to mempool_free, as a    *)
(* buggy caller would.                                                     *)
(***************************************************************************)
EXTENDS Layout, SequencesExt

CONSTANTS
  Clients,      \* the callers sharing the handle
  InitCalls,    \* argument tuples the caller may pass to mempool_init
  ExternalPtr,  \* an address outside the pool buffer
  Misuse        \* whether clients free pointers they no longer own

ASSUME \A a \in InitCalls : InitResult(a).err # "TRAP"

(* The outcome of each init call, computed once.                          *)
InitOutcome == [a \in InitCalls |-> InitResult(a)]
ASSUME Misuse \in BOOLEAN

NULL == 0

(* mempool_error_t; TRUE and FALSE are what mempool_contains returns.     *)
Errors == {"OK", "NULL_PTR", "INVALID_SIZE", "OUT_OF_MEMORY", "INVALID_BLOCK",
           "ALIGNMENT", "DOUBLE_FREE", "NOT_INITIALIZED"}
U32Mod == U32Max + 1

VARIABLES
  pool,       \* the control block in the state buffer (struct mempool)
  bitmap,     \* the allocation bitmap at the head of the pool buffer
  handle,     \* a successful mempool_init has handed the caller a handle
  owned,      \* owned[c]: blocks c got from alloc and has not given back
  released,   \* released[c]: blocks c freed, not allocated again since
  revoked,    \* revoked[c]: blocks c owned when a reset or init took them
  stale,      \* stale[c]: every pointer c got from alloc and no longer owns
  last        \* the latest call, what its caller knew of the pointer, its result

clientVars == <<owned, released, revoked, stale>>
vars == <<pool, bitmap, handle, clientVars, last>>

(* The largest block count any of the caller's init calls lays out.       *)
MaxBlocks == Max({InitOutcome[a].n : a \in InitCalls})
Idx == 0..(MaxBlocks - 1)

ZeroStats ==
  [total_blocks |-> 0, used_blocks |-> 0, free_blocks |-> 0, peak_usage |-> 0,
   alloc_count |-> 0, free_count |-> 0, block_size |-> 0]

(* mempool_sync_t with both callbacks NULL; a callback is modelled by     *)
(* whether it is non-NULL, the context pointer is left out.                *)
NoSync == [lock |-> FALSE, unlock |-> FALSE]

(* The control block as memset(pool, 0, ...) leaves it.                   *)
ZeroPool ==
  [initialized |-> FALSE, blocks_start |-> 0, block_size |-> 0,
   total_blocks |-> 0, bitmap_bytes |-> 0, free_list |-> <<>>,
   free_blocks |-> 0, stats |-> ZeroStats, sync |-> NoSync, sync_enabled |-> FALSE]

Addr(i) == pool.blocks_start + i * pool.block_size
(* Mutant: the end of the blocks is computed one block short.              *)
BlocksEndOneShort ==
  (pool.blocks_start + (((pool.total_blocks - 1) * pool.block_size) % SizeMod)) % SizeMod

BlocksEnd == (pool.blocks_start + ((pool.total_blocks * pool.block_size) % SizeMod)) % SizeMod
Blocks == {Addr(i) : i \in 0..(pool.total_blocks - 1)}

\* mempool_block_index
BlockIndex(p) == (((p - pool.blocks_start) % SizeMod) \div pool.block_size) % U32Mod

(* Mutant: the thread loop stops one block short.                         *)
FreshListShort(start, bsize, n) == [k \in 1..(n - 1) |-> start + (n - 1 - k) * bsize]

(* The free list built by init and reset: blocks pushed in ascending      *)
(* order, so the head is the last block.                                  *)
FreshList(start, bsize, n) == [k \in 1..n |-> start + (n - k) * bsize]

(* Mutant: the memset of the bitmap is left out.                          *)
KeptBitmap(nbytes) == bitmap

\* memset(pool->bitmap, 0, bitmap_bytes)
ClearedBitmap(nbytes) == [i \in Idx |-> IF i < 8 * nbytes THEN 0 ELSE bitmap[i]]

(* Mutant: the bound check on the byte index is off by one.               *)
MarkAllocatedOffByOne(index) ==
  IF index \div 8 < pool.bitmap_bytes - 1 THEN [bitmap EXCEPT ![index] = 1] ELSE bitmap

\* alloc sets the block's bit when its byte lies inside the bitmap
MarkAllocated(index) ==
  IF index \div 8 < pool.bitmap_bytes THEN [bitmap EXCEPT ![index] = 1] ELSE bitmap

\* the statistics init and reset start from
FreshStats(n, bsize) ==
  [ZeroStats EXCEPT !.total_blocks = n, !.free_blocks = n, !.block_size = bsize]

(* Mutant: the peak is not raised.                                        *)
AllocStatsNoPeak(free) ==
  [pool.stats EXCEPT !.alloc_count = (@ + 1) % U32Mod,
                     !.used_blocks = (pool.total_blocks - free) % U32Mod,
                     !.free_blocks = free]

(* The statistics after an alloc that leaves free blocks free.            *)
AllocStats(free) ==
  LET used == (pool.total_blocks - free) % U32Mod
  IN  [pool.stats EXCEPT !.alloc_count = (@ + 1) % U32Mod,
                         !.used_blocks = used,
                         !.free_blocks = free,
                         !.peak_usage = IF used > @ THEN used ELSE @]

(* Mutant: used_blocks is not recomputed.                                 *)
FreeStatsNoUsed(free) ==
  [pool.stats EXCEPT !.free_count = (@ + 1) % U32Mod, !.free_blocks = free]

(* The statistics after a free that leaves free blocks free.              *)
FreeStats(free) ==
  [pool.stats EXCEPT !.free_count = (@ + 1) % U32Mod,
                     !.used_blocks = (pool.total_blocks - free) % U32Mod,
                     !.free_blocks = free]

(* Mutant: no alignment check.                                            *)
FreeErrorNoAlign(p) ==
  CASE p = NULL                                        -> "NULL_PTR"
    [] ~pool.initialized                               -> "NOT_INITIALIZED"
    [] p < pool.blocks_start \/ p >= BlocksEnd         -> "INVALID_BLOCK"
    [] BlockIndex(p) \div 8 >= pool.bitmap_bytes       -> "INVALID_BLOCK"
    [] bitmap[BlockIndex(p)] = 0                       -> "DOUBLE_FREE"
    [] OTHER                                           -> "OK"

(* Mutant: the bitmap is not consulted.                                   *)
FreeErrorNoBitCheck(p) ==
  CASE p = NULL                                        -> "NULL_PTR"
    [] ~pool.initialized                               -> "NOT_INITIALIZED"
    [] p < pool.blocks_start \/ p >= BlocksEnd         -> "INVALID_BLOCK"
    [] (p - pool.blocks_start) % pool.block_size # 0   -> "INVALID_BLOCK"
    [] BlockIndex(p) \div 8 >= pool.bitmap_bytes       -> "INVALID_BLOCK"
    [] OTHER                                           -> "OK"

(* mempool_free's checks, in the code's order: NULL, not initialized,     *)
(* outside the blocks, not on a block boundary, beyond the bitmap, bit    *)
(* already clear.                                                         *)
FreeError(p) ==
  CASE p = NULL                                        -> "NULL_PTR"
    [] ~pool.initialized                               -> "NOT_INITIALIZED"
    [] p < pool.blocks_start \/ p >= BlocksEnd         -> "INVALID_BLOCK"
    [] (p - pool.blocks_start) % pool.block_size # 0   -> "INVALID_BLOCK"
    [] BlockIndex(p) \div 8 >= pool.bitmap_bytes       -> "INVALID_BLOCK"
    [] bitmap[BlockIndex(p)] = 0                       -> "DOUBLE_FREE"
    [] OTHER                                           -> "OK"

(* The latest call: its operation, what the caller knew of the pointer   *)
(* it passed, and the result.                                             *)
Record(op, kind, err) == last' = [op |-> op, kind |-> kind, err |-> err]

(* A caller that keeps the contract forgets a pointer once it has given   *)
(* it back or a reset took it; only a misusing one remembers it.          *)
Remember(S) == IF Misuse THEN S ELSE {}

(* What the caller knows of pointer p when it passes it.                  *)
KindOf(c, p) ==
  CASE p \in owned[c]    -> "owned"
    [] p \in released[c] -> "released"
    [] p \in revoked[c]  -> "revoked"
    [] p \in stale[c]    -> "stale"
    [] OTHER             -> "other"

(* Every block a client owns becomes revoked.                             *)
RevokeAll ==
  /\ revoked'  = [c \in Clients |-> Remember(revoked[c] \cup owned[c])]
  /\ stale'    = [c \in Clients |-> Remember(stale[c] \cup owned[c])]
  /\ owned'    = [c \in Clients |-> {}]
  /\ UNCHANGED released

-----------------------------------------------------------------------------
Init ==
  /\ pool = ZeroPool
  /\ bitmap = [i \in Idx |-> 0]
  /\ handle = FALSE
  /\ owned = [c \in Clients |-> {}]
  /\ released = [c \in Clients |-> {}]
  /\ revoked = [c \in Clients |-> {}]
  /\ stale = [c \in Clients |-> {}]
  /\ last = [op |-> "none", kind |-> "other", err |-> "OK"]

(* mempool_init on the same state and pool buffers.  An early error       *)
(* returns before the control block is touched; a later one leaves it     *)
(* zeroed (line 118); success writes it afresh, clears the bitmap and     *)
(* threads the free list, so every block handed out before is revoked.    *)
MempoolInit(a) ==
  LET r == InitOutcome[a]
      start == a.poolAddr + r.blocksOffset
  IN
  /\ IF r.err = "OK"
     THEN /\ pool' = [initialized |-> TRUE, blocks_start |-> start,
                      block_size |-> r.blockSize, total_blocks |-> r.n,
                      bitmap_bytes |-> r.bitmapBytes,
                      free_list |-> FreshList(start, r.blockSize, r.n),
                      free_blocks |-> r.n,
                      stats |-> FreshStats(r.n, r.blockSize),
                      sync |-> NoSync, sync_enabled |-> FALSE]
          /\ bitmap' = ClearedBitmap(r.bitmapBytes)
          /\ handle' = TRUE
          /\ RevokeAll
     ELSE /\ pool' = IF r.wiped THEN ZeroPool ELSE pool
          /\ UNCHANGED <<bitmap, handle, clientVars>>
  /\ Record("init", "other", r.err)

(* mempool_alloc: pop the head of the free list, count it and set its bit *)
(* (lines 205-256).                                                       *)
MempoolAlloc(c) ==
  /\ handle
  /\ IF ~pool.initialized
     THEN /\ Record("alloc", "other", "NOT_INITIALIZED")
          /\ UNCHANGED <<pool, bitmap, clientVars>>
     ELSE IF pool.free_list = <<>> \/ pool.free_blocks = 0
     THEN /\ Record("alloc", "other", "OUT_OF_MEMORY")
          /\ UNCHANGED <<pool, bitmap, clientVars>>
     ELSE LET node == Head(pool.free_list)
              free == pool.free_blocks - 1
          IN /\ pool' = [pool EXCEPT !.free_list = Tail(@),
                                     !.free_blocks = free,
                                     !.stats = AllocStats(free)]
             /\ bitmap' = MarkAllocated(BlockIndex(node))
             /\ owned' = [owned EXCEPT ![c] = @ \cup {node}]
             /\ released' = [d \in Clients |-> released[d] \ {node}]
             /\ revoked' = [revoked EXCEPT ![c] = @ \ {node}]
             /\ stale' = [stale EXCEPT ![c] = @ \ {node}]
             /\ Record("alloc", "other", "OK")
  /\ UNCHANGED handle

(* mempool_free: range and alignment checks, then the bitmap decides      *)
(* between a double free and pushing the block back (lines 258-317).      *)
MempoolFree(c, p) ==
  LET err == FreeError(p)
      free == IF pool.free_blocks < pool.total_blocks
              THEN pool.free_blocks + 1 ELSE pool.free_blocks
  IN
  /\ handle
  /\ IF err = "OK"
     THEN /\ pool' = [pool EXCEPT !.free_list = <<p>> \o @,
                                  !.free_blocks = free,
                                  !.stats = FreeStats(free)]
          /\ bitmap' = [bitmap EXCEPT ![BlockIndex(p)] = 0]
          /\ owned' = [owned EXCEPT ![c] = @ \ {p}]
          /\ released' = [released EXCEPT ![c] = Remember(@ \cup {p})]
          /\ stale' = [stale EXCEPT ![c] = Remember(@ \cup {p})]
          /\ UNCHANGED revoked
     ELSE UNCHANGED <<pool, bitmap, clientVars>>
  /\ Record("free", KindOf(c, p), err)
  /\ UNCHANGED handle

(* mempool_reset: clear the bitmap, rebuild the free list, zero the       *)
(* counters (lines 338-372).                                              *)
MempoolReset(c) ==
  /\ handle
  /\ IF ~pool.initialized
     THEN /\ Record("reset", "other", "NOT_INITIALIZED")
          /\ UNCHANGED <<pool, bitmap, clientVars>>
     ELSE /\ pool' = [pool EXCEPT
                        !.free_list = FreshList(pool.blocks_start, pool.block_size,
                                                pool.total_blocks),
                        !.free_blocks = pool.total_blocks,
                        !.stats = FreshStats(pool.total_blocks, pool.block_size)]
          /\ bitmap' = ClearedBitmap(pool.bitmap_bytes)
          /\ RevokeAll
          /\ Record("reset", "other", "OK")
  /\ UNCHANGED handle

(* mempool_get_stats and mempool_contains only read the control block     *)
(* (lines 319-334, 378-391).                                              *)
MempoolGetStats(c) ==
  /\ handle
  /\ Record("get_stats", "other",
            IF pool.initialized THEN "OK" ELSE "NOT_INITIALIZED")
  /\ UNCHANGED <<pool, bitmap, handle, clientVars>>

MempoolContains(c, p) ==
  /\ handle
  /\ Record("contains", "other",
            IF p # NULL /\ pool.initialized /\ pool.blocks_start <= p /\ p < BlocksEnd
            THEN "TRUE" ELSE "FALSE")
  /\ UNCHANGED <<pool, bitmap, handle, clientVars>>

(* mempool_set_sync with each callback NULL or not (lines 433-451): the   *)
(* hook is stored as given and enabled only if both are non-NULL.         *)
MempoolSetSync(c, lock, unlock) ==
  /\ handle
  /\ IF ~pool.initialized
     THEN /\ Record("set_sync", "other", "NOT_INITIALIZED")
          /\ UNCHANGED pool
     ELSE /\ pool' = [pool EXCEPT !.sync = [lock |-> lock, unlock |-> unlock],
                                  !.sync_enabled = lock /\ unlock]
          /\ Record("set_sync", "other", "OK")
  /\ UNCHANGED <<bitmap, handle, clientVars>>

-----------------------------------------------------------------------------
(* The pointers a client passes: the blocks it owns, NULL, an address in  *)
(* the bitmap, one inside a block, one past the end and one outside the   *)
(* pool; with Misuse also the blocks it no longer owns.                   *)
BadPtrs == {NULL, pool.blocks_start - 1, pool.blocks_start + 1, BlocksEnd, ExternalPtr}

Candidates(c) ==
  owned[c] \cup (BadPtrs \cap Nat)
           \cup (IF Misuse THEN stale[c] ELSE {})

(* Any client calls any function of the public API (mempool.h 60-80)    *)
(* with any of its inputs; the pool argument is the handle.              *)
Next ==
  \/ \E a \in InitCalls : MempoolInit(a)
  \/ \E c \in Clients :
       \/ MempoolAlloc(c)
       \/ \E p \in Candidates(c) : MempoolFree(c, p)
       \/ MempoolReset(c)
       \/ MempoolGetStats(c)
       \/ \E p \in Candidates(c) : MempoolContains(c, p)
       \/ \E l, u \in BOOLEAN : MempoolSetSync(c, l, u)

Spec == Init /\ [][Next]_vars

=============================================================================
