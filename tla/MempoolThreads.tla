--------------------------- MODULE MempoolThreads ---------------------------
(***************************************************************************)
(* The GoogleTest thread-safety cases of the current API                  *)
(* (src/unnamed/part_001 453-577) against the current engine: the main    *)
(* thread initialises the pool, installs a std::mutex through              *)
(* mempool_set_sync and starts the workers; each runs Iters rounds of     *)
(* alloc and, if that succeeded, free of the block -- in                  *)
(* ContainsUnderConcurrency a mempool_contains of it in between --        *)
(* counting every unexpected result in failures; main joins them and, in  *)
(* ConcurrentAllocFree, reads the statistics.  Which test runs is chosen  *)
(* in Init from Tests.                                                     *)
(*                                                                         *)
(* A call is split where another thread can matter: the checks made       *)
(* before the lock (they read only fields that nothing but init writes)   *)
(* together with the lock, the section under the lock as one step (the    *)
(* mutex makes it exclusive, and every field it reads or writes is         *)
(* touched by other threads only under the same mutex), and the unlock.   *)
(* mempool_contains takes no lock and is one step.                         *)
(***************************************************************************)
EXTENDS Mempool

CONSTANTS
  Tests,      \* of "ConcurrentAllocFree" and "ContainsUnderConcurrency"
  Call,       \* the arguments of main's mempool_init
  Threads,    \* the worker threads
  Iters,      \* ITERS
  NoThread    \* the mutex's owner when it is free

ASSUME Tests \subseteq {"ConcurrentAllocFree", "ContainsUnderConcurrency"}
ASSUME Call \in InitCalls /\ InitOutcome[Call].err = "OK" /\ Iters \in Nat \ {0}

Main == "main"

VARIABLES
  test,       \* the test case running
  phase,      \* main: "init", "set_sync", "run", "done"
  pc,         \* pc[t]: where worker t is in its loop
  node,       \* node[t]: the block worker t got from alloc
  res,        \* res[t]: the result of t's current call
  iter,       \* iter[t]: the rounds t has finished
  failures,   \* std::atomic<int> failures
  mutex       \* the std::mutex of MutexContext: its owner, or NoThread

threadVars == <<pc, node, res, iter>>
allVars == <<vars, test, phase, threadVars, failures, mutex>>

\* mempool_internal_lock: lock_callback -> mc->m.lock(), if the hook is on
Lock(t) ==
  IF pool.sync_enabled /\ pool.sync.lock
  THEN mutex = NoThread /\ mutex' = t
  ELSE UNCHANGED mutex

(* Mutant: the unlock callback is never called.                           *)
UnlockKeepingMutex(t) == UNCHANGED mutex

\* mempool_internal_unlock: unlock_callback -> mc->m.unlock()
Unlock(t) ==
  IF pool.sync_enabled /\ pool.sync.unlock THEN mutex' = NoThread ELSE UNCHANGED mutex

Goto(t, l) == pc' = [pc EXCEPT ![t] = l]

(* Mutant: the loop runs one round too many.                             *)
EndRoundOffByOne(t, bad) ==
  /\ failures' = IF bad THEN failures + 1 ELSE failures
  /\ iter' = [iter EXCEPT ![t] = @ + 1]
  /\ Goto(t, IF iter[t] = Iters THEN "done" ELSE "alloc")

(* The end of a round: count an unexpected result, start the next one.   *)
EndRound(t, bad) ==
  /\ failures' = IF bad THEN failures + 1 ELSE failures
  /\ iter' = [iter EXCEPT ![t] = @ + 1]
  /\ Goto(t, IF iter[t] + 1 = Iters THEN "done" ELSE "alloc")

(* mempool_free's checks before the lock: NULL, not initialised, outside  *)
(* the blocks, not on a block boundary.                                    *)
PreLockFreeError(p) ==
  CASE p = NULL                                      -> "NULL_PTR"
    [] ~pool.initialized                             -> "NOT_INITIALIZED"
    [] p < pool.blocks_start \/ p >= BlocksEnd       -> "INVALID_BLOCK"
    [] (p - pool.blocks_start) % pool.block_size # 0 -> "INVALID_BLOCK"
    [] OTHER                                         -> "OK"

-----------------------------------------------------------------------------
ThreadsInit ==
  /\ Init
  /\ test \in Tests
  /\ phase = "init"
  /\ pc = [t \in Threads |-> "alloc"]
  /\ node = [t \in Threads |-> NULL]
  /\ res = [t \in Threads |-> "OK"]
  /\ iter = [t \in Threads |-> 0]
  /\ failures = 0
  /\ mutex = NoThread

(* ASSERT_EQ(MEMPOOL_OK, mempool_init(...)), ASSERT_EQ(MEMPOOL_OK,        *)
(* mempool_set_sync(pool, lock_callback, unlock_callback, &ctx)).          *)
MainInit ==
  /\ phase = "init"
  /\ MempoolInit(Call)
  /\ phase' = "set_sync"
  /\ UNCHANGED <<threadVars, failures, mutex>>

MainSetSync ==
  /\ phase = "set_sync"
  /\ MempoolSetSync(Main, TRUE, TRUE)
  /\ phase' = "run"
  /\ UNCHANGED <<threadVars, failures, mutex>>

(* t.join() for every worker; ConcurrentAllocFree then reads the stats,   *)
(* which FinalStatsClean states of the pool.                               *)
MainJoin ==
  /\ phase = "run"
  /\ \A t \in Threads : pc[t] = "done"
  /\ phase' = "done"
  /\ UNCHANGED <<vars, threadVars, failures, mutex>>

(* mempool_alloc: the initialized check, then the lock.                   *)
AllocLock(t) ==
  /\ phase = "run" /\ pc[t] = "alloc"
  /\ IF pool.initialized
     THEN Lock(t) /\ Goto(t, "alloc_body") /\ UNCHANGED <<res, iter, failures>>
     ELSE /\ res' = [res EXCEPT ![t] = "NOT_INITIALIZED"]
          /\ EndRound(t, TRUE)
          /\ UNCHANGED mutex
  /\ UNCHANGED <<vars, phase, node>>

(* Under the lock: pop the head or find the list empty.                   *)
AllocBody(t) ==
  /\ pc[t] = "alloc_body"
  /\ MempoolAlloc(t)
  /\ res' = [res EXCEPT ![t] = last'.err]
  /\ node' = IF last'.err = "OK" THEN [node EXCEPT ![t] = Head(pool.free_list)] ELSE node
  /\ Goto(t, "alloc_unlock")
  /\ UNCHANGED <<phase, iter, failures, mutex>>

(* The unlock, then the worker's test of the result: a block (never       *)
(* nullptr) goes on to contains or free; OUT_OF_MEMORY is the only error  *)
(* it accepts.                                                             *)
AllocUnlock(t) ==
  /\ pc[t] = "alloc_unlock"
  /\ Unlock(t)
  /\ CASE res[t] = "OK" /\ node[t] # NULL ->
            /\ Goto(t, IF test = "ContainsUnderConcurrency" THEN "contains" ELSE "free")
            /\ UNCHANGED <<iter, failures>>
       [] res[t] = "OK" -> EndRound(t, TRUE)
       [] OTHER -> EndRound(t, res[t] # "OUT_OF_MEMORY")
  /\ UNCHANGED <<vars, phase, node, res>>

(* bool inside = mempool_contains(pool, block); if (!inside) failures++.  *)
ContainsStep(t) ==
  /\ pc[t] = "contains"
  /\ MempoolContains(t, node[t])
  /\ failures' = IF last'.err = "TRUE" THEN failures ELSE failures + 1
  /\ Goto(t, "free")
  /\ UNCHANGED <<phase, node, res, iter, mutex>>

(* mempool_free: the checks before the lock, then the lock.               *)
FreeLock(t) ==
  /\ pc[t] = "free"
  /\ IF PreLockFreeError(node[t]) = "OK"
     THEN Lock(t) /\ Goto(t, "free_body") /\ UNCHANGED <<res, iter, failures>>
     ELSE /\ res' = [res EXCEPT ![t] = PreLockFreeError(node[t])]
          /\ EndRound(t, TRUE)
          /\ UNCHANGED mutex
  /\ UNCHANGED <<vars, phase, node>>

(* Under the lock: the bitmap decides between DOUBLE_FREE and the push.   *)
FreeBody(t) ==
  /\ pc[t] = "free_body"
  /\ MempoolFree(t, node[t])
  /\ res' = [res EXCEPT ![t] = last'.err]
  /\ Goto(t, "free_unlock")
  /\ UNCHANGED <<phase, node, iter, failures, mutex>>

FreeUnlock(t) ==
  /\ pc[t] = "free_unlock"
  /\ Unlock(t)
  /\ EndRound(t, res[t] # "OK")
  /\ UNCHANGED <<vars, phase, node, res>>

(* A step of main or of worker t; neither changes which test runs.        *)
MainStep == (MainInit \/ MainSetSync \/ MainJoin) /\ UNCHANGED test

Worker(t) ==
  /\ \/ AllocLock(t) \/ AllocBody(t) \/ AllocUnlock(t)
     \/ ContainsStep(t)
     \/ FreeLock(t) \/ FreeBody(t) \/ FreeUnlock(t)
  /\ UNCHANGED test

ThreadsNext == MainStep \/ \E t \in Threads : Worker(t)

(* std::thread keeps scheduling every runnable thread, and std::mutex     *)
(* lets a waiter take a free mutex eventually, no more: weak fairness per *)
(* thread, none on which waiter wins.                                      *)
Fairness ==
  /\ WF_allVars(MainStep)
  /\ \A t \in Threads : WF_allVars(Worker(t))

ThreadsSpec == ThreadsInit /\ [][ThreadsNext]_allVars /\ Fairness

=============================================================================
