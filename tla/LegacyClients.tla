---------------------------- MODULE LegacyClients ----------------------------
(***************************************************************************)
(* The legacy engine's whole API, called by a set of clients one call at  *)
(* a time (as with the lock hook installed): init and re-init with any of *)
(* a set of argument tuples, alloc, free, reset, get_stats, contains and  *)
(* set_sync.  Clients keep the contract: they free the blocks they hold,  *)
(* or pointers that are no block (NULL, inside the region but not at a    *)
(* block start, outside it).  A reset or a re-init takes every block back *)
(* from them.                                                              *)
(***************************************************************************)
EXTENDS LegacyPool

CONSTANTS
  Clients,    \* the callers
  Calls       \* the argument tuples of mempool_init they use

VARIABLES
  owned,      \* owned[c]: the blocks client c holds
  last        \* the latest call: its operation and its result

vars == <<legacyVars, owned, last>>

Pointers == {NULL, Inside, Outside}

Return(op, e) == last' = [op |-> op, err |-> e]

NoneOwned == [c \in Clients |-> {}]

-----------------------------------------------------------------------------
Init ==
  /\ pool = Uninitialised
  /\ next = [b \in Blocks |-> NULL]
  /\ bitmap = [b \in Blocks |-> 0]
  /\ owned = NoneOwned
  /\ last = [op |-> "none", err |-> "OK"]

(* mempool_init: every check comes before the first write, so an error    *)
(* leaves the pool as it was; success lays it out afresh.                 *)
MempoolInit(a) ==
  LET r == InitResult(a)
  IN  /\ IF r.err = "OK"
         THEN LegacyInit(r.n, r.blockSize) /\ owned' = NoneOwned
         ELSE UNCHANGED <<legacyVars, owned>>
      /\ Return("init", r.err)

(* mempool_alloc: NOT_INITIALIZED before the lock; OUT_OF_MEMORY on an    *)
(* empty list; else pop, count, set the bit, and hand the block out.      *)
MempoolAlloc(c) ==
  LET node == pool.head
  IN  IF ~pool.initialized
      THEN Return("alloc", "NOT_INITIALIZED") /\ UNCHANGED <<legacyVars, owned>>
      ELSE IF node = NULL
      THEN Return("alloc", "OUT_OF_MEMORY") /\ UNCHANGED <<legacyVars, owned>>
      ELSE /\ pool' = AllocPool(node)
           /\ bitmap' = AllocBitmap(node)
           /\ owned' = IF AllocErr(node) = "OK"
                       THEN [owned EXCEPT ![c] = @ \cup {node}] ELSE owned
           /\ Return("alloc", AllocErr(node))
           /\ UNCHANGED next

(* mempool_free: the checks before the lock, then DOUBLE_FREE on a clear  *)
(* bit, else push the block back.                                         *)
MempoolFree(c, p) ==
  IF FreeCheck(p) # "OK"
  THEN Return("free", FreeCheck(p)) /\ UNCHANGED <<legacyVars, owned>>
  ELSE IF bitmap[p] = 0
  THEN Return("free", "DOUBLE_FREE") /\ UNCHANGED <<legacyVars, owned>>
  ELSE /\ pool' = FreePool(p)
       /\ next' = FreeNext(p, pool.head)
       /\ bitmap' = FreeBitmap(p)
       /\ owned' = [owned EXCEPT ![c] = @ \ {p}]
       /\ Return("free", "OK")

MempoolReset ==
  IF ~pool.initialized
  THEN Return("reset", "NOT_INITIALIZED") /\ UNCHANGED <<legacyVars, owned>>
  ELSE /\ pool' = ResetPool
       /\ next' = FreshLinks(pool.total_blocks)
       /\ bitmap' = ClearedBits(pool.total_blocks)
       /\ owned' = NoneOwned
       /\ Return("reset", "OK")

MempoolGetStats ==
  /\ Return("get_stats", IF pool.initialized THEN "OK" ELSE "NOT_INITIALIZED")
  /\ UNCHANGED <<legacyVars, owned>>

MempoolContains(p) ==
  /\ Return("contains", ContainsResult(p))
  /\ UNCHANGED <<legacyVars, owned>>

(* mempool_set_sync with each callback NULL or not.                        *)
MempoolSetSync(lockFn, unlockFn) ==
  IF ~pool.initialized
  THEN Return("set_sync", "NOT_INITIALIZED") /\ UNCHANGED <<legacyVars, owned>>
  ELSE /\ SetSync(lockFn, unlockFn)
       /\ Return("set_sync", "OK")
       /\ UNCHANGED <<next, bitmap, owned>>

Next ==
  \/ \E a \in Calls : MempoolInit(a)
  \/ \E c \in Clients : MempoolAlloc(c)
  \/ \E c \in Clients, p \in Pointers : MempoolFree(c, p)
  \/ \E c \in Clients : \E p \in owned[c] : MempoolFree(c, p)
  \/ MempoolReset
  \/ MempoolGetStats
  \/ \E p \in Blocks \cup Pointers : MempoolContains(p)
  \/ \E l, u \in BOOLEAN : MempoolSetSync(l, u)

Spec == Init /\ [][Next]_vars

=============================================================================
