------------------------------- MODULE Layout -------------------------------
(***************************************************************************)
(* Argument validation and layout planning of mempool_init                 *)
(* (src/unnamed/part_008, the opaque two-buffer implementation).           *)
(*                                                                         *)
(* All arithmetic is size_t arithmetic of SizeBits bits; the fields of the *)
(* control block that the code stores as uint32_t are truncated to         *)
(* U32Bits bits.  InitResult(a) is the outcome of one call of mempool_init *)
(* with arguments a: the error it returns, whether it has already zeroed   *)
(* the control block (memset at line 118) and, on success, the layout.     *)
(***************************************************************************)
EXTENDS Integers, Bitwise

CONSTANTS
  SizeBits,   \* width of size_t and uintptr_t
  U32Bits,    \* width of uint32_t
  PtrSize,    \* sizeof(free_node_t), the in-place free-list link
  StateSize   \* sizeof(struct mempool)

ASSUME SizeBits \in Nat \ {0} /\ U32Bits \in 1..SizeBits
ASSUME PtrSize \in Nat \ {0} /\ StateSize \in Nat \ {0}

SizeMod == 2^SizeBits
U32Max  == 2^U32Bits - 1

(* Result of mempool_init.  "TRAP" is the outcome of an integer division  *)
(* by zero, which the C standard leaves undefined and the usual targets   *)
(* turn into a hardware exception.                                       *)
InitErrors == {"OK", "NULL_PTR", "INVALID_SIZE", "ALIGNMENT", "TRAP"}

(* The arguments of one call: pool_buffer's address, the three size_t     *)
(* sizes and the alignment; nullPtr stands for any of the three pointer   *)
(* arguments being NULL.                                                  *)
Args(PoolAddrs, StateSizes, PoolSizes, BlockSizes, Alignments) ==
  [nullPtr : BOOLEAN, poolAddr : PoolAddrs, stateSize : StateSizes,
   poolSize : PoolSizes, blockSize : BlockSizes, alignment : Alignments]

\* is_power_of_two
IsPowerOfTwo(v) == v > 0 /\ (v & (v - 1)) = 0

(* Mutant: the mask is applied without adding it first (rounds down).     *)
AlignDown(value, alignment) ==
  LET mask == alignment - 1
  IN  value & (SizeMod - 1 - mask)

\* align_up: (value + mask) & ~mask, wrapping at SizeMod
AlignUp(value, alignment) ==
  LET mask == alignment - 1
  IN  ((value + mask) % SizeMod) & (SizeMod - 1 - mask)

(* One trial of the search loop for n blocks: bitmap bytes, padding to    *)
(* the alignment and the bytes required.                                  *)
(* Mutant: the bitmap size is rounded down.                               *)
BitmapBytesFloor(n) == (n % SizeMod) \div 8

BitmapBytes(n) == ((n + 7) % SizeMod) \div 8

(* Mutant: no padding between the bitmap and the blocks.                 *)
PadNone(bitmapEnd, alignment) == 0

Pad(bitmapEnd, alignment) ==
  IF alignment > 1 /\ (bitmapEnd & (alignment - 1)) # 0
  THEN alignment - (bitmapEnd & (alignment - 1))
  ELSE 0

BlocksOffset(n, alignment) ==
  (BitmapBytes(n) + Pad(BitmapBytes(n), alignment)) % SizeMod

Required(n, alignment, abs) ==
  (BlocksOffset(n, alignment) + ((n * abs) % SizeMod)) % SizeMod

(* The descending search: the largest n <= start whose layout fits, or 0. *)
RECURSIVE FitBlocks(_, _, _, _)
FitBlocks(n, poolSize, alignment, abs) ==
  IF n = 0 THEN 0
  ELSE IF Required(n, alignment, abs) <= poolSize THEN n
  ELSE FitBlocks(n - 1, poolSize, alignment, abs)

Fail(err, wiped) ==
  [err |-> err, wiped |-> wiped, n |-> 0, bitmapBytes |-> 0,
   blocksOffset |-> 0, blockSize |-> 0, alignment |-> 0]

(* mempool_init: the early checks return before the control block is     *)
(* touched; from line 118 on it has been zeroed, so every later error     *)
(* leaves a zeroed control block behind.                                  *)
InitResult(a) ==
  LET abs == AlignUp(a.blockSize, a.alignment)
      max == IF abs = 0 THEN 0 ELSE a.poolSize \div abs
      n   == FitBlocks(max, a.poolSize, a.alignment, abs)
  IN  CASE a.nullPtr                                -> Fail("NULL_PTR", FALSE)
        [] a.stateSize < StateSize                  -> Fail("INVALID_SIZE", FALSE)
        [] a.poolSize = 0 \/ a.blockSize = 0        -> Fail("INVALID_SIZE", FALSE)
        [] ~IsPowerOfTwo(a.alignment)               -> Fail("ALIGNMENT", FALSE)
        [] (a.poolAddr & (a.alignment - 1)) # 0     -> Fail("ALIGNMENT", FALSE)
        [] a.blockSize < PtrSize                    -> Fail("INVALID_SIZE", FALSE)
        [] abs = 0                                  -> Fail("TRAP", TRUE)
        [] max = 0 \/ n = 0                         -> Fail("INVALID_SIZE", TRUE)
        [] n > U32Max \/ BitmapBytes(n) > U32Max    -> Fail("INVALID_SIZE", TRUE)
        [] OTHER -> [err          |-> "OK",
                     wiped        |-> TRUE,
                     n            |-> n,
                     bitmapBytes  |-> BitmapBytes(n),
                     blocksOffset |-> BlocksOffset(n, a.alignment),
                     blockSize    |-> abs % (U32Max + 1),
                     alignment    |-> a.alignment % (U32Max + 1)]

=============================================================================
