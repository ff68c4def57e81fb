# TLA+ models of the mempool library

This directory holds TLA+ models of the fixed-size block allocator in this repository, checked with TLC.

## The system

The library lives in `src/unnamed/part_008`. Its public header is `src/include/mempool.h`.

The file holds two implementations:

- **The current one, lines 1-451.** It is the opaque, two-buffer design of the header. The caller passes two buffers:
  - a *state buffer*, which holds `struct mempool`, the control block;
  - a *pool buffer*, which starts with an allocation bitmap of one bit per block, followed by the blocks.
- **A legacy v2.0 implementation, lines 452-917, with its header in `part_009`.** Here the caller allocates the struct.

The current implementation has these parts:

| part | code | what it does |
|---|---|---|
| validation and layout | `mempool_init`, `is_power_of_two`, `align_up` (33-203) | Checks the arguments, then zeroes the control block (line 118). Rounds the block size up to the alignment. Searches downwards for the largest block count N whose bitmap, padding and blocks fit. Rejects N or bitmap sizes that do not fit in `uint32_t`. |
| engine | `mempool_alloc`, `mempool_free`, `mempool_reset` (205-372) | Keeps the free blocks twice: as an intrusive singly linked free list (LIFO), and as a bitmap in which a set bit means allocated. Alloc pops the head and sets its bit. Free validates the pointer against the range, the block boundary and the bit, then pushes it. Reset clears the bitmap and rebuilds the list. All three update `uint32_t` statistics. |
| observers | `mempool_get_stats`, `mempool_contains` (319-391) | Read only. |
| synchronisation | `mempool_internal_lock/unlock`, `mempool_set_sync` (49-65, 433-451) | An optional lock/unlock hook from the caller, taken around the locked part of each operation. `sync_enabled` is re-read on every lock and unlock. |
| `mempool_strerror`, `mempool_state_size` | 76-79, 393-428 | Pure functions: a message per error code, and `sizeof(struct mempool)`. |

The repository's programs call this API: the current GoogleTest suite (`part_001`), the current example (`part_012`) and `src/tests/test_mempool.c`. The legacy API is called by the legacy examples, the legacy GoogleTest suite and a legacy C harness (`part_000`).

## Modules

| module | models |
|---|---|
| `Layout` | `mempool_init`'s validation and layout planning, as pure operators over size_t arithmetic of `SizeBits` bits. `uint32_t` fields are truncated to `U32Bits` bits. `InitResult(a)` is the outcome of one call: its error, whether the control block was already zeroed, and the layout. `TRAP` is the undefined division by zero. |
| `MCLayout` | A harness whose one variable is the argument tuple of one call. It checks `InitResult` against a reference layout rule (`RefN`, `RefBlockSize`, `RefOffset`) written in unbounded integer arithmetic. |
| `Mempool` | The engine, as a state machine with one action per API call, `set_sync` included. Each call is one atomic step, as it is when callers are serialised by the lock hook. |
| `AbstractPool` | What a block pool promises, whatever its data structures. While it is ready, it has a set of blocks, some of them allocated. Alloc hands out an unallocated block. Free takes back only an allocated one. Reset takes back all of them. Setup gives a fresh set of blocks; teardown leaves none. It counts hand-outs and take-backs, as the statistics do, so every successful alloc and free is a step of its own and never a stutter. |
| `MCMempool` | The harness for `Mempool`: the init calls the caller makes, the invariants, and the refinement of `AbstractPool`. |
| `LegacyPool` | The state of the legacy engine and the effect of each piece of its code between two shared-memory accesses that matter. The free list is kept as the code keeps it: a head in the struct and a `next` link in each block. It also defines `ChainSound`: the walk from the head ends, and visits exactly the blocks whose bit is clear, `free_blocks` of them. |
| `LegacyThreads` | The GoogleTest `ConcurrentAllocFree` (`gtest_mempool.cpp` 188-242) over `LegacyPool`. Main inits, installs the `std::mutex` hook and joins. Each worker loops alloc-then-free. `ContainsUnderConcurrency` (244-290) is the same loop, and `Init` chooses which test runs. That test adds a `mempool_contains` of the block between alloc and free (`Contains`), and free's result ignored (`FreeCounted`). |
| `LegacyClients` | The whole legacy API called by a set of clients, one call per step: init with any of a set of argument tuples (a failed one changes nothing), alloc, free of owned blocks and of non-block pointers, reset, get_stats, contains and set_sync. |
| `MCLegacyClients` | Its harness: two clients, five init calls (layouts of 3 and 1 blocks, and INVALID_SIZE, ALIGNMENT and NULL_PTR failures), the invariants and the refinement of `AbstractPool`. |
| `MCLegacyThreads` | Its harness: a 2-block pool, and three workers of two rounds each. |
| `Examples` | The programs written against the legacy API, over `LegacyPool`, one library call per step: `example_basic`, `example_embedded`, the stress program appended to `embedded_example.c` (lines 58-107), the seven single-threaded GoogleTest cases (`gtest_mempool.cpp` 15-168), and the legacy C harness `run_basic_tests` (`part_000` 15-61). Which program runs is chosen in `Init`. |
| `MCExamples` | Its harness and properties. |
| `CurrentPrograms` | The programs written against the current API, over `Mempool`, with one library call per step by the single client `main`. They are the fifteen single-threaded cases of the current GoogleTest suite (`part_001` 21-447), the current example (`part_012`) and `run_basic_tests` of `test_mempool.c`. It also holds `MempoolStrerror` and `MempoolStateSize`. |
| `CurrentTwoPools` | `CurrentPrograms` plus `IndependentPools` (383-420), and the specification of all the programs. The test's second state and pool buffers are a second instance of `Mempool` (`Second`) on variables of its own. |
| `MCCurrentTwoPools` | Their harness, on a 64-bit build (`sizeof(struct mempool)` = 112) at the programs' real sizes. |
| `MempoolThreads` | The current suite's `ConcurrentAllocFree` and `ContainsUnderConcurrency` (`part_001` 469-577) over `Mempool`. Main inits, installs the `std::mutex` hook with `mempool_set_sync` and joins. Each worker loops alloc, then contains (in the second test), then free. `Init` chooses which test runs. |
| `MCMempoolThreads` | Its harness: a 2-block pool and three workers of two rounds. |

The examples and the GoogleTest suite call the 5-argument `mempool_init(&pool, buffer, ...)` of the legacy header (`part_009`). They do not compile against `src/include/mempool.h`. That is why they are modelled over the legacy engine.

### How `LegacyPool`, `LegacyThreads` and `Examples` correspond to the code

- **`pool`** is `mempool_t` (`part_009` 56-73): `initialized`, `head` (the `free_list`), `free_blocks`, `total_blocks`, `sync_enabled`, `stats`.
  - **`next[b]`** is the `free_node_t` link in block `b`'s first word.
  - **`bitmap[b]`** is block `b`'s bit.
  - Blocks are indices `0..MaxBlocks-1`, and `NULL` is -1. Index-to-address arithmetic is the one checked in `Mempool`.
- **`LegacyInit(n, bsize)`** is the successful path of `mempool_init` (lines 589-635). Block `b` is linked to `b-1`, so the head is the last block. The layout each caller gets is a constant. An `ASSUME` checks it against `Layout`'s `InitResult` for that caller's arguments. The legacy search is the same code as the current one, minus the memset and the state buffer.
- **Alloc** is split into pieces:
  - `AllocPool` (655-677): pop, or push back when `free_blocks` is 0;
  - `AllocBitmap` (679-686);
  - `AllocErr`.
- **Free** is split into pieces:
  - `FreeCheck` (706-735), the checks before the lock;
  - `FreePool`, `FreeNext` and `FreeBitmap` (746-762): push the block, saturating increment, statistics, clear the bit.
- **In `LegacyThreads`** each call is four steps:
  1. the lock (`Lock`, 491-498, which re-reads `sync_enabled`);
  2. the read of the head (`AllocRead`), or of the bit and the head (`FreeRead`);
  3. the write-back (`AllocWrite`, `FreeWrite`);
  4. the unlock with the worker's test of the result (`AllocUnlock`, `FreeUnlock`).

  The mutex is a variable holding its owner. Free's range checks only read fields that nothing but init writes, so they are part of the lock step.
- **In `Examples`** each library call is one step (`CallInit`, `CallAlloc`, `CallFree`, `CallStats`), since the programs are single-threaded. Pointer variables are `slot[s]`. Uninitialised locals hold the model value `Garbage`. The gtest cases are sequences of calls and checks. A call carries the result its `EXPECT_EQ` or `ASSERT_EQ` wants, and a `check` step is one of the tests' other checks (`Holds`). As in gtest, a failed check sets `failed`, and a failed `ASSERT` also returns from the test (`Verdict`). The init calls with their outcomes are constants (`TestCalls`, `OutcomeOf`), checked against `InitResult` by an `ASSUME`.

### How `CurrentPrograms` and `MempoolThreads` correspond to the code

- **`CurrentPrograms`.** A program is a sequence of instructions (`CodeOf`), run by `Step`.
  - An instruction is either a library call or a `check` of what the program has read. A call carries the result its `EXPECT_EQ` or `ASSERT_EQ` wants.
  - A call is the engine's own action for client `main`: `MempoolInit`, `CallAlloc`, `MempoolFree`, `CallStats`, `MempoolReset` or `MempoolContains`. Its result is `last.err`.
  - `*block` and `*stats` are written only on success, as in the code.
  - `Verdict` gives gtest's meaning: a failed check sets `failed`, and a failed `ASSERT` also returns. The two C programs' `if (...) return 1;` is an `ASSERT`.
  - The two loops of `ExhaustiveAllocAndOutOfMemory` are actions of their own. `AllocLoop` allocates until OUT_OF_MEMORY, and `FreeLoop` frees the vector.
  - The init calls (`CallOf`) use real sizes: 4096 or 2048 bytes, 64-byte blocks, alignment 8, and each test's bad arguments. Their outcomes are constants (`MCInitOutcome`), checked against `Layout`'s `InitResult` by an `ASSUME`.
- **`CurrentTwoPools`.** The second pool is an `INSTANCE` of `Mempool` on `pool2`, `bitmap2`, .... The `init2`, `alloc2`, `free2` and `contains2` instructions run on it (`SecondStep`), and a call on one pool leaves the other unchanged.
- **`MempoolThreads`.** Each call is split where another thread can matter:
  - `AllocLock` (lines 213-217): the initialized check and the lock;
  - `FreeLock` (262-282): free's checks before the lock (`PreLockFreeError`) and the lock;
  - `AllocBody` and `FreeBody`: the locked section as one step, the engine's own `MempoolAlloc` and `MempoolFree`;
  - `AllocUnlock` and `FreeUnlock`: the unlock, with the worker's test of the result;
  - `ContainsStep`: `mempool_contains` as one unlocked step.

  `Lock` takes the mutex only when the hook is on (`sync_enabled`, lines 49-65). The mutex is a variable holding its owner. Only init writes the fields that the unlocked checks read, so reading them in the lock step is exact.

### How `Mempool` corresponds to the code

- **`pool`** is `struct mempool`:
  - `initialized`, `blocks_start`, `block_size`, `total_blocks`, `bitmap_bytes`, `free_blocks`, `stats`;
  - `free_list`, the chain of `next` links written as the sequence of block addresses, head first.
  - Pointers are integer byte addresses.
- **`bitmap`** is the bitmap in the pool buffer, one entry per bit.
- **`handle`** records that the caller holds a handle from a successful `mempool_init`.
- **Actions:**
  - `MempoolInit(a)` (lines 81-203). It takes the outcome of `InitResult`:
    - early errors change nothing;
    - later errors leave `ZeroPool`, which is the memset of line 118;
    - success writes the control block, clears the bitmap (`ClearedBitmap`, line 189) and threads the free list (`FreshList`, lines 191-199).
  - `MempoolAlloc(c)` (205-256). It returns NOT_INITIALIZED or OUT_OF_MEMORY, checking both the list and `free_blocks`. Otherwise it pops, then updates the statistics (`AllocStats`) and the peak, and sets the bit (`MarkAllocated`) only inside `bitmap_bytes`.
  - `MempoolFree(c, p)` (258-317). `FreeError` gives the checks in the code's order:
    1. NULL;
    2. not initialised;
    3. out of range;
    4. not on a block boundary;
    5. beyond the bitmap;
    6. bit clear, which is DOUBLE_FREE.

    On success the action pushes the block, increments `free_blocks` with saturation (line 302), updates the statistics (`FreeStats`) and clears the bit.
  - `MempoolReset(c)` (338-372).
  - `MempoolGetStats(c)` and `MempoolContains(c, p)` record their result and change nothing.
  - `MempoolSetSync(c, lock, unlock)` (433-451) stores the callbacks, modelled as non-NULL or not, and enables the hook only if both are non-NULL. Init clears the hook (`NoSync`, lines 182-185), and so does the memset of a failed late init.
- **Ghost state** (the clients' knowledge):
  - `owned[c]`, `released[c]` (blocks freed by `c`), `revoked[c]` (taken by a reset or init), `stale[c]` (every pointer `c` once had);
  - `last`, the latest call: its operation, what its caller knew of the pointer, and its result.
- **Inputs.** Clients pass the blocks they own and a fixed set of bad pointers: NULL, an address inside the bitmap, one inside a block, one past the end, and one outside the pool. With `Misuse = TRUE` they also pass the pointers they no longer own.

## Runs

| run | cfg | expect | what it shows |
|---|---|---|---|
| layout | `MCLayout.cfg` | pass | On a 32-bit target (size_t = uint32_t = 8 bits scaled), init succeeds exactly when one block fits. It then lays out the largest N the rule allows (`LayoutIsLargestFit`), in a well-formed layout (`LayoutWellFormed`), with the block size rounded up (`BlockSizeRoundedUp`). This holds for all pool sizes 0..130, block sizes 0..24 and the 8 largest values, alignments {0,1,2,3,4,8,16}, two pool addresses and two state sizes: 242,088 calls. |
| layout_trap | `MCLayoutTrap.cfg` | violation | `InitNeverTraps`: block size 248 with alignment 16 makes `align_up` wrap to 0, and line 121 divides by zero. |
| layout_64 | `MCLayout64.cfg` | violation | `BlockSizeRoundedUp`: with size_t wider than uint32_t (8 against 5 bits), a block size of 17 with alignment 16 is accepted. `align_up` gives 32, and the cast at line 170 stores it as 0 in the 5-bit `uint32_t`. The first alloc then divides by zero in `mempool_block_index` (line 72, called at 241), and every free is rejected as INVALID_BLOCK, because the blocks end where they start (line 270). |
| engine | `MCMempool.cfg` | pass | Two clients keep the contract over four init calls: two layouts (3 blocks of 4 bytes, 1 block of 8), a late failure that wipes the pool, and an early ALIGNMENT failure. They also reset, and the 4-bit counters wrap. It checks `TypeOK`, `FreeListMatchesBitmap`, `StatsConsistent`, `OwnershipPartition` and `RefinesAbstractPool`. The refinement maps the set bits to the allocated blocks and `alloc_count`/`free_count` to the abstract counts of hand-outs and take-backs. So a successful alloc of a block whose bit was already set, or a successful free of a clear one, is not a stutter but a step `AbstractPool` forbids. |
| engine_misuse | `MCMempoolMisuse.cfg` | pass | The clients also free stale and already-freed pointers, on a 2-block layout. The bookkeeping stays consistent, and a second free never succeeds (`DoubleFreeDetected`). The refinement still holds: every successful free clears a bit that was set. The abstract blocks have no owners, so the stale free of revoked_free is an abstract `Free` here. |
| revoked_free | `MCMempoolRevoked.cfg` | violation | `RevokedFreeRejected` (spec 4.5): c1 allocates a block and a re-init follows. c2 allocates the same block. c1 frees its old pointer and gets OK, so c2's block goes back on the free list. |
| failed_init | `MCMempoolInitFail.cfg` | violation | `FailedCallsLeavePoolUnchanged` (spec 7): after a good init, an init with a 3-byte pool returns INVALID_SIZE and leaves the pool uninitialised. |
| legacy_threads | `MCLegacyThreads.cfg` | pass | `ConcurrentAllocFree` and `ContainsUnderConcurrency` (the test is chosen in `Init`): three workers of two rounds on a 2-block pool behind the mutex hook, so they meet OUT_OF_MEMORY. Under every interleaving, `failures` stays 0 (`NoFailures`, the test's `EXPECT_EQ(0, failures)`), so the unlocked `mempool_contains` never denies a block a worker holds. No two workers hold the same block (`BlocksNeverShared`). The free list stays sound between the steps of calls in flight (`FreeListSound`). After the join the statistics are clean (`FinalStatsClean`). The test ends (`Termination`). 79,333 states. |
| examples | `MCExamples.cfg` | pass | The three example programs with their real sizes: N = 63, 15 and 127 blocks. Also the seven single-threaded GoogleTest cases, with N = 63 or 31: every `EXPECT` and `ASSERT` holds (`TestsPass`). Every call whose result they ignore succeeds (`CallsSucceed`). The statistics they print are right (`ReportedStats`): 2 in use with peak 2, and 1000 allocs and 1000 frees with 0 in use after the stress cycles. The free list stays sound. The legacy engine refines `AbstractPool` (`RefinesAbstractPool`): every successful alloc sets a clear bit and every successful free clears a set one. |
| legacy_clients | `MCLegacyClients.cfg` | pass | Two clients drive every legacy call, including reset, re-init, a failed re-init and set_sync. The free list stays a proper list of the free blocks (`FreeListSound`); the modular counters agree with `used_blocks` and the peak bounds it (`StatsConsistent`); a client holds only allocated blocks and no block is held twice (`OwnershipSound`); and the engine refines `AbstractPool`. |
| current_programs | `MCCurrentTwoPools.cfg` | pass | All fifteen single-threaded cases of the current suite, `IndependentPools` included, plus the current example and `test_mempool.c`, at their real sizes. Every `EXPECT` and `ASSERT` holds (`TestsPass`). This includes OUT_OF_MEMORY after exactly `total_blocks` allocs, the peak kept after frees, DOUBLE_FREE of pointers taken by a reset, and `contains` saying no of the other pool's block. No program leaves a block out of the free list or a bit set when it returns (`NoLeakAtExit`). Every program returns (`Termination`): the exhaustive alloc loop meets OUT_OF_MEMORY after the last of the 63 blocks, and the free loop ends. 263 states. |
| current_threads | `MCMempoolThreads.cfg` | pass | The same two tests on the current engine, with the same bounds. `failures` stays 0 (`NoFailures`): every alloc returns a block or OUT_OF_MEMORY, the unlocked `mempool_contains` says yes of every block its caller holds while others pop and push, and every free returns OK. After the join the statistics show every block free, with a free list of distinct blocks (`FinalStatsClean`), and the test ends (`Termination`). 25,318 states. |

Every property of a passing run has a mutant in `PROJECT.json`. A mutant is a plausible bug in the mapped code that TLC must catch:

- `PadNone`, `BitmapBytesFloor` and `AlignDown` in `Layout`;
- `BlocksEndOneShort` (the end of the blocks one block short), `FreeErrorNoAlign`, `FreeErrorNoBitCheck`, `MarkAllocatedOffByOne`, `FreeStatsNoUsed`, `AllocStatsNoPeak`, `FreshListShort` and `KeptBitmap` in `Mempool`;
- in `LegacyPool`:
  - `AllocPoolNoPop`: the head is not advanced;
  - `FreeNextUnlinked`: the pushed block is not linked;
  - `FreeStatsStale`: `used_blocks` is computed from the old `free_blocks`;
  - `FreeBitmapByte`: the whole bitmap byte is cleared;
  - `FreeBitmapKept`: free leaves the block's bit set;
  - `LegacyInitForward`: the blocks are linked forward;
  - `ResetPoolKeepHead`: reset does not rebuild the head;
  - `ResetStatsKeepAllocs`: reset keeps `alloc_count`;
  - `KeptBits`: init does not clear the bitmap;
  - `ContainsShort`: contains computes the end one block short;
- in `LegacyThreads`:
  - `LockIgnoringHook`: the lock callback is never called;
  - `UnlockKeepingMutex`: the unlock callback is never called;
  - `EndRoundOffByOne`: one round too many;
- `AllocLoopStuck` in `CurrentPrograms`: the exhaustive loop never leaves on OUT_OF_MEMORY;
- `UnlockKeepingMutex` and `EndRoundOffByOne` in `MempoolThreads`.

### Findings

1. **Division by zero in init** (`part_008:121`). There is no check that `align_up` did not wrap.
2. **Truncated block size** (`part_008:170`). Only N and `bitmap_bytes` are range-checked; the block size is not. A block size that truncates to 0 makes the first alloc divide by zero at line 72.
3. **Spec 4.5 is only true while the block is still free.** `mempool_free` cannot tell a stale pointer from the block's new owner.
4. **A failed re-init wipes a live pool** (`part_008:118`), contrary to spec 7.

### Bounds

- **Widths are scaled.** `SizeBits` = 8 (layout) or 6 (engine) keeps addresses small. `U32Bits` = 4 (engine) or 3 (misuse) lets `alloc_count` and `free_count` wrap in about 16 or 8 calls, which the runs reach.
- **Layouts are small but not trivial.** Three blocks give a free list whose order changes under frees. A 1-block layout of a different size makes re-init move blocks. The bitmap index bound at line 246 is exercised with N < 8 bits of one byte.
- **Two clients** are the fewest that can exhibit one client's stale pointer taking another's block. Clients are symmetric, and the symmetry is sound because no property names a client.
- **Threads: three workers, two rounds, two blocks.**
  - With more workers than blocks, OUT_OF_MEMORY and the pop-and-restore path happen.
  - Two rounds make a block go round the list twice.
  - Three threads let one thread's read of the head be overtaken by both an alloc and a free of others.
  - The real test uses 8 threads, 2000 rounds and 255 blocks. Its behaviours differ only in length.
- **Legacy clients: two clients, three blocks at most, 3-bit counters.** Two layouts of different sizes make a re-init move the head and shrink the pool under blocks still held; three failing calls reach each early return of init. With 3-bit `uint32_t` the counters wrap within the run, so `StatsConsistent` is checked modulo 8. Clients are symmetric.
- **Current programs run at their real sizes.** `size_t` and `uint32_t` are 16 bits, enough for 4096-byte buffers, the 63 blocks of the exhaustive test and the tests' counters. Each program is one path, so the state count is the sum of their lengths. The exhaustive loop alone contributes over a hundred states.
- **Current thread tests: three workers, two rounds, two blocks**, for the same reasons as the legacy ones. In the contains test, more workers than blocks also make contains run while others pop and push. The real tests use 8 threads and 256 blocks; shrinking the pool below the thread count is what makes OUT_OF_MEMORY and the contended paths happen.
- **Examples run at their real sizes.** Widths are 16 bits, enough for 8192-byte buffers and counts of 1000. The free-list check walks the list by pointer doubling, so its recursion is only log N deep.

### Fairness

- **`Mempool`:** none. Its properties are safety and refinement, and every call is one step.
- **`LegacyThreads`:** weak fairness for main's steps and for each worker's step.
  - `std::thread` keeps every runnable thread scheduled.
  - `std::mutex` promises nothing about which waiter gets a free mutex. So there is no fairness between waiters, and no strong fairness.
  - Weak fairness suffices for `Termination`, because every worker runs a bounded number of rounds.
- **`CurrentPrograms`:** weak fairness of `Next`. A single-threaded program keeps running. `CurrentTwoPools` states it for all programs.
- **`Examples`:** weak fairness of `Next`, for the same reason; no run checks a liveness property of it, since its loops are bounded counts.
- **`MempoolThreads`:** as `LegacyThreads`, weak fairness per worker and for main, none between waiters for the mutex.
- **`LegacyClients`:** none; its properties are safety and refinement.
- **Deadlock:** legacy_threads, examples, current_programs and current_threads use `CHECK_DEADLOCK FALSE`, because the programs end. `Termination` is checked instead, except in examples, whose loops are bounded counts. The other runs check deadlock.

## Not modelled

- **The documentation** is text. Its claims are the properties of the runs.
- **`set_sync` while another thread is inside the lock** (lines 51, 60, 449). The header requires `set_sync` after init and before the pool is shared, and every test and program keeps to that. `Mempool` models `set_sync` as an action of a client, and `MempoolThreads` calls it before the workers start.
- **The data race without a hook** in the current engine. It is undefined behaviour that no test or program of the repository performs on the current API.
- **Counter wrap as a spec gap.** Spec invariant 5 states `alloc_count - free_count = used_blocks` without the modulo. `StatsConsistent` checks it modulo 2^`U32Bits`, which is what the code guarantees.
- **Output.** Output (`printf` and gtest's messages) is left out. The statistics the programs print are checked by value.
