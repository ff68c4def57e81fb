---------------------------- MODULE LegacyThreads ----------------------------
(***************************************************************************)
(* The GoogleTest ConcurrentAllocFree (src/tests/gtest_mempool.cpp         *)
(* 188-242) against the legacy engine: the main thread initialises the    *)
(* pool, installs a std::mutex as the lock hook and starts the workers;    *)
(* each worker runs Iters rounds of alloc and, if that succeeded, free of  *)
(* the block, counting every unexpected result in failures; after joining *)
(* them main reads the statistics.                                         *)
(*                                                                         *)
(* ContainsUnderConcurrency (244-290) is the same loop with a             *)
(* mempool_contains of the block between the alloc and the free, a failure *)
(* counted when contains says no, and free's result ignored.  Which of the *)
(* Tests runs is chosen in Init.                                           *)
(*                                                                         *)
(* Each call is split where another thread can matter: the lock (which    *)
(* re-reads sync_enabled), the read of the free-list head, the write-back  *)
(* of the unlink or push with its counters and bit, and the unlock.        *)
(* Without the hook the read and the write of two threads interleave, the *)
(* data race the code leaves to its caller; with it, the mutex orders     *)
(* them.  The checks made before the lock only read fields that nothing   *)
(* but init writes, so they are part of the lock step.                     *)
(***************************************************************************)
EXTENDS LegacyPool, Naturals

CONSTANTS
  Tests,      \* of "ConcurrentAllocFree" and "ContainsUnderConcurrency"
  Call,       \* the arguments of main's mempool_init
  LegacyN,    \* the block count it lays out
  BlockSize,  \* the block size it keeps, rounded up to the alignment
  Threads,    \* the worker threads
  Iters,      \* ITERS_PER_THREAD
  Hooked,     \* whether main installs the lock and unlock callbacks
  NoThread    \* the mutex's owner when it is free

(* The test asserts that init succeeds; the layout it gets is given as    *)
(* constants, checked against the layout search once.                    *)
ASSUME Tests \subseteq {"ConcurrentAllocFree", "ContainsUnderConcurrency"}

ASSUME LET r == InitResult(Call)
       IN  r.err = "OK" /\ r.n = LegacyN /\ r.blockSize = BlockSize /\ LegacyN <= MaxBlocks

VARIABLES
  test,       \* the test case running
  phase,      \* main: "init", "set_sync", "run", "done"
  pc,         \* pc[t]: where worker t is in its loop
  node,       \* node[t]: the block worker t read as head and then holds
  seen,       \* seen[t]: the head worker t read before pushing its block
  err,        \* err[t]: the result of t's current call
  iter,       \* iter[t]: the rounds t has finished
  failures,   \* std::atomic<int> failures
  mutex       \* the std::mutex of the hook: its owner, or NoThread

threadVars == <<pc, node, seen, err, iter>>
vars == <<legacyVars, test, phase, threadVars, failures, mutex>>

(* Mutant: the lock callback is never called.                             *)
LockIgnoringHook(t) == UNCHANGED mutex

\* mempool_internal_lock: the callback is called only if the hook is enabled
Lock(t) ==
  IF pool.sync_enabled
  THEN mutex = NoThread /\ mutex' = t
  ELSE UNCHANGED mutex

(* Mutant: the unlock callback is never called.                           *)
UnlockKeepingMutex(t) == UNCHANGED mutex

\* mempool_internal_unlock
Unlock(t) == IF pool.sync_enabled THEN mutex' = NoThread ELSE UNCHANGED mutex

Goto(t, l) == pc' = [pc EXCEPT ![t] = l]

\* ContainsUnderConcurrency casts free's result to void
FreeCounted == test = "ConcurrentAllocFree"

(* Mutant: the loop runs one round too many.                             *)
EndRoundOffByOne(t, bad) ==
  /\ failures' = IF bad THEN failures + 1 ELSE failures
  /\ iter' = [iter EXCEPT ![t] = @ + 1]
  /\ Goto(t, IF iter[t] = Iters THEN "done" ELSE "alloc")

(* The end of a round: count an unexpected result, start the next round. *)
EndRound(t, bad) ==
  /\ failures' = IF bad THEN failures + 1 ELSE failures
  /\ iter' = [iter EXCEPT ![t] = @ + 1]
  /\ Goto(t, IF iter[t] + 1 = Iters THEN "done" ELSE "alloc")

-----------------------------------------------------------------------------
Init ==
  /\ pool = Uninitialised
  /\ next = [b \in Blocks |-> NULL]
  /\ bitmap = [b \in Blocks |-> 0]
  /\ test \in Tests
  /\ phase = "init"
  /\ pc = [t \in Threads |-> "alloc"]
  /\ node = [t \in Threads |-> NULL]
  /\ seen = [t \in Threads |-> NULL]
  /\ err = [t \in Threads |-> "OK"]
  /\ iter = [t \in Threads |-> 0]
  /\ failures = 0
  /\ mutex = NoThread

(* ASSERT_EQ(MEMPOOL_OK, mempool_init(...)): the arguments are valid.     *)
MainInit ==
  /\ phase = "init"
  /\ LegacyInit(LegacyN, BlockSize)
  /\ phase' = "set_sync"
  /\ UNCHANGED <<threadVars, failures, mutex>>

MainSetSync ==
  /\ phase = "set_sync"
  /\ SetSync(Hooked, Hooked)
  /\ phase' = "run"
  /\ UNCHANGED <<next, bitmap, threadVars, failures, mutex>>

(* th.join() for every worker, then mempool_get_stats.                    *)
MainJoin ==
  /\ phase = "run"
  /\ \A t \in Threads : pc[t] = "done"
  /\ phase' = "done"
  /\ UNCHANGED <<legacyVars, threadVars, failures, mutex>>

(* mempool_alloc: the checks before the lock, then the lock.              *)
AllocLock(t) ==
  /\ phase = "run" /\ pc[t] = "alloc"
  /\ Lock(t)
  /\ Goto(t, "alloc_read")
  /\ UNCHANGED <<legacyVars, phase, node, seen, err, iter, failures>>

(* node = pool->free_list, or OUT_OF_MEMORY on an empty list.             *)
AllocRead(t) ==
  /\ pc[t] = "alloc_read"
  /\ IF pool.head = NULL
     THEN /\ err' = [err EXCEPT ![t] = "OUT_OF_MEMORY"]
          /\ Goto(t, "alloc_unlock")
          /\ UNCHANGED node
     ELSE /\ node' = [node EXCEPT ![t] = pool.head]
          /\ Goto(t, "alloc_write")
          /\ UNCHANGED err
  /\ UNCHANGED <<legacyVars, phase, seen, iter, failures, mutex>>

AllocWrite(t) ==
  /\ pc[t] = "alloc_write"
  /\ pool' = AllocPool(node[t])
  /\ bitmap' = AllocBitmap(node[t])
  /\ err' = [err EXCEPT ![t] = AllocErr(node[t])]
  /\ Goto(t, "alloc_unlock")
  /\ UNCHANGED <<next, phase, node, seen, iter, failures, mutex>>

(* The unlock, then the worker's test of the result: free the block (or   *)
(* first ask contains about it), or end the round, OUT_OF_MEMORY being    *)
(* the only error it expects.                                              *)
AllocUnlock(t) ==
  /\ pc[t] = "alloc_unlock"
  /\ Unlock(t)
  /\ IF err[t] = "OK"
     THEN /\ Goto(t, IF FreeCounted THEN "free" ELSE "contains")
          /\ UNCHANGED <<iter, failures>>
     ELSE EndRound(t, err[t] # "OUT_OF_MEMORY")
  /\ UNCHANGED <<legacyVars, phase, node, seen, err>>

(* mempool_contains(&pool, block), which takes no lock and reads only     *)
(* fields that nothing but init writes: one step.                          *)
Contains(t) ==
  /\ pc[t] = "contains"
  /\ failures' = IF ContainsResult(node[t]) THEN failures ELSE failures + 1
  /\ Goto(t, "free")
  /\ UNCHANGED <<legacyVars, phase, node, seen, err, iter, mutex>>

(* mempool_free: the checks before the lock, then the lock.               *)
FreeLock(t) ==
  /\ pc[t] = "free"
  /\ IF FreeCheck(node[t]) = "OK"
     THEN Lock(t) /\ Goto(t, "free_read") /\ UNCHANGED <<err, iter, failures>>
     ELSE /\ err' = [err EXCEPT ![t] = FreeCheck(node[t])]
          /\ EndRound(t, FreeCounted)
          /\ UNCHANGED mutex
  /\ UNCHANGED <<legacyVars, phase, node, seen>>

(* The block's bit: clear means DOUBLE_FREE; set, read the head.          *)
FreeRead(t) ==
  /\ pc[t] = "free_read"
  /\ IF bitmap[node[t]] = 0
     THEN /\ err' = [err EXCEPT ![t] = "DOUBLE_FREE"]
          /\ Goto(t, "free_unlock")
          /\ UNCHANGED seen
     ELSE /\ seen' = [seen EXCEPT ![t] = pool.head]
          /\ err' = [err EXCEPT ![t] = "OK"]
          /\ Goto(t, "free_write")
  /\ UNCHANGED <<legacyVars, phase, node, iter, failures, mutex>>

FreeWrite(t) ==
  /\ pc[t] = "free_write"
  /\ pool' = FreePool(node[t])
  /\ next' = FreeNext(node[t], seen[t])
  /\ bitmap' = FreeBitmap(node[t])
  /\ Goto(t, "free_unlock")
  /\ UNCHANGED <<phase, node, seen, err, iter, failures, mutex>>

FreeUnlock(t) ==
  /\ pc[t] = "free_unlock"
  /\ Unlock(t)
  /\ EndRound(t, FreeCounted /\ err[t] # "OK")
  /\ UNCHANGED <<legacyVars, phase, node, seen, err>>

(* A step of main or of worker t; neither changes which test runs.        *)
MainStep == (MainInit \/ MainSetSync \/ MainJoin) /\ UNCHANGED test

Worker(t) ==
  /\ \/ AllocLock(t) \/ AllocRead(t) \/ AllocWrite(t) \/ AllocUnlock(t)
     \/ Contains(t)
     \/ FreeLock(t) \/ FreeRead(t) \/ FreeWrite(t) \/ FreeUnlock(t)
  /\ UNCHANGED test

Next == MainStep \/ \E t \in Threads : Worker(t)

(* std::thread gives every runnable thread steps; std::mutex promises     *)
(* that a free mutex is eventually taken by a waiter, nothing more, so    *)
(* weak fairness per thread and none on which waiter wins.                *)
Fairness ==
  /\ WF_vars(MainStep)
  /\ \A t \in Threads : WF_vars(Worker(t))

Spec == Init /\ [][Next]_vars /\ Fairness

=============================================================================
