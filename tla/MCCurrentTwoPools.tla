------------------------- MODULE MCCurrentTwoPools -------------------------
(***************************************************************************)
(* Every current-API gtest case and C program, IndependentPools included, *)
(* on a 64-bit build (sizeof(struct mempool) = 112) whose size_t and      *)
(* uint32_t are scaled to 16 bits, wide enough for the 4096-byte buffers  *)
(* and the counters they reach.  Every pool_buf is at address 16, buf2 at *)
(* 4112, and the tests' external arrays at 8192, outside both.             *)
(***************************************************************************)
EXTENDS CurrentTwoPools

MCInitCalls == Range(CallOf)

(* The outcome of each init call as constants, checked against the layout *)
(* search once: 63 blocks of 64 bytes after an 8-byte bitmap in 4096      *)
(* bytes, 31 after a 4-byte one in 2048, and each failure with whether     *)
(* the control block was zeroed first (pool32 fails after line 118).      *)
Laid(n, bitmapBytes) ==
  [err |-> "OK", blockSize |-> 64, alignment |-> 8, n |-> n, blocksOffset |-> 8,
   bitmapBytes |-> bitmapBytes, wiped |-> TRUE]
Failed(err, wiped) ==
  [err |-> err, blockSize |-> 0, alignment |-> 0, n |-> 0, blocksOffset |-> 0,
   bitmapBytes |-> 0, wiped |-> wiped]

MCInitOutcome ==
  (CallOf.large :> Laid(63, 8)) @@ (CallOf.small :> Laid(31, 4)) @@
  (CallOf.small2 :> Laid(31, 4)) @@ (CallOf.null :> Failed("NULL_PTR", FALSE)) @@
  (CallOf.align7 :> Failed("ALIGNMENT", FALSE)) @@
  (CallOf.misaligned :> Failed("ALIGNMENT", FALSE)) @@
  (CallOf.tiny :> Failed("INVALID_SIZE", FALSE)) @@
  (CallOf.smallState :> Failed("INVALID_SIZE", FALSE)) @@
  (CallOf.pool32 :> Failed("INVALID_SIZE", TRUE))

ASSUME MCInitOutcome = [a \in MCInitCalls |-> InitResult(a)]

TypeOK ==
  /\ prog \in DOMAIN CodeOf
  /\ pc \in 1..(Len(Code) + 1)
  /\ slot \in [Slots -> 0..(SizeMod - 1)]
  /\ pool.initialized => ToSet(pool.free_list) \subseteq Blocks
  /\ pool2.initialized => ToSet(pool2.free_list) \subseteq Second!Blocks
  /\ bitmap \in [Idx -> {0, 1}] /\ bitmap2 \in [Second!Idx -> {0, 1}]
  /\ {last.err, last2.err} \subseteq Errors \cup {"TRUE", "FALSE"}
  /\ failed \in BOOLEAN

-----------------------------------------------------------------------------
(* Every test case passes: each EXPECT and ASSERT of the single-threaded  *)
(* gtest cases, and each check of the two C programs, holds of what the   *)
(* current engine returns -- the error of every init, alloc, free, reset  *)
(* and get_stats, contains' answer on either pool, and the statistics     *)
(* read afterwards, down to the DOUBLE_FREE of a pointer handed out       *)
(* before a reset.                                                         *)
TestsPass == ~failed

(* No program leaks: whatever it allocated it has given back (or a reset  *)
(* took) when it returns, so the free list of each pool it leaves behind   *)
(* holds every block once and no bit of its bitmap is set.                 *)
AllFree(p, bits) ==
  p.initialized =>
    /\ Len(p.free_list) = p.total_blocks
    /\ IsInjective(p.free_list)
    /\ \A i \in 0..(p.total_blocks - 1) : bits[i] = 0

NoLeakAtExit == Returned => AllFree(pool, bitmap) /\ AllFree(pool2, bitmap2)

(* Every program returns: the exhaustive loop meets OUT_OF_MEMORY after   *)
(* the last block and its range-for ends.                                  *)
Termination == <>Returned

=============================================================================
