------------------------------ MODULE MCLayout ------------------------------
(***************************************************************************)
(* Checks mempool_init's validation and layout search against the layout  *)
(* rule of the specification, for every argument tuple of a bounded set.  *)
(* The single variable holds the arguments of one call; it never changes, *)
(* so every reachable state is one call.                                  *)
(***************************************************************************)
EXTENDS Layout, FiniteSetsExt

CONSTANTS PoolAddrs, StateSizes, PoolSizes, BlockSizes, Alignments

VARIABLE args

(* Bounded argument sets: every pool size up to 130 bytes, block sizes    *)
(* around the pointer size and the 8 largest size_t values, whose         *)
(* rounding up wraps.                                                     *)
MCPoolSizes  == 0..130
MCBlockSizes == (0..24) \cup ((SizeMod - 8)..(SizeMod - 1))

R == InitResult(args)

Init == args \in Args(PoolAddrs, StateSizes, PoolSizes, BlockSizes, Alignments)

Next == UNCHANGED args

Spec == Init /\ [][Next]_args

TypeOK ==
  /\ R.err \in InitErrors
  /\ R.n \in 0..U32Max

-----------------------------------------------------------------------------
(* Reference layout rule (spec 4.1), in unbounded integer arithmetic:     *)
(* blocks are block_size rounded up to the alignment, they start at the   *)
(* first aligned offset after a bitmap of ceil(N/8) bytes, and N is the   *)
(* largest count whose blocks end within the pool region.                 *)
RefBlockSize(a) == ((a.blockSize + a.alignment - 1) \div a.alignment) * a.alignment

RefOffset(n, a) == (((n + 7) \div 8 + a.alignment - 1) \div a.alignment) * a.alignment

RefN(a) ==
  LET fits == {n \in 1..a.poolSize : RefOffset(n, a) + n * RefBlockSize(a) <= a.poolSize}
  IN  IF fits = {} THEN 0 ELSE Max(fits)

(* Arguments that pass every check made before the layout search.         *)
ReachesSearch(a) ==
  /\ ~a.nullPtr /\ a.stateSize >= StateSize
  /\ a.poolSize > 0 /\ a.blockSize >= PtrSize
  /\ IsPowerOfTwo(a.alignment) /\ a.poolAddr % a.alignment = 0

-----------------------------------------------------------------------------
(* mempool_init's descending search (lines 127-163) finds exactly the     *)
(* largest block count the layout rule allows: it succeeds iff one block *)
(* fits, never returns fewer blocks than fit, and never more.             *)
LayoutIsLargestFit ==
  (ReachesSearch(args) /\ R.err # "TRAP") =>
    /\ R.n = RefN(args)
    /\ (R.err = "OK") <=> (RefN(args) >= 1)

(* A successful layout is well formed (spec invariant 6): the bitmap has  *)
(* a bit for every block, the blocks start aligned after the bitmap and   *)
(* the last block ends inside the caller's pool buffer.                   *)
LayoutWellFormed ==
  R.err = "OK" =>
    /\ R.bitmapBytes * 8 >= R.n
    /\ R.blocksOffset >= R.bitmapBytes
    /\ (args.poolAddr + R.blocksOffset) % args.alignment = 0
    /\ R.blocksOffset + R.n * R.blockSize <= args.poolSize

(* The block size kept in the control block, and reported by get_stats,   *)
(* is the requested size rounded up to the alignment (spec invariant 7).  *)
BlockSizeRoundedUp ==
  R.err = "OK" =>
    /\ R.blockSize = RefBlockSize(args)
    /\ R.blockSize >= PtrSize

(* Every call returns one of the error codes (spec 4.1: sizes that cannot *)
(* be laid out are rejected with INVALID_SIZE); it never traps.           *)
InitNeverTraps == R.err # "TRAP"

=============================================================================
