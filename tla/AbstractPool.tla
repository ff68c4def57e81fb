---------------------------- MODULE AbstractPool ----------------------------
(***************************************************************************)
(* What a fixed-size block pool promises its callers, whatever its data    *)
(* structures: while it is ready it has a set of blocks, some of which     *)
(* are allocated; alloc hands out a block that is not allocated, free      *)
(* takes back only an allocated block, reset takes back all of them.       *)
(* Setting the pool up (again) gives it a fresh set of blocks with none    *)
(* allocated; tearing it down leaves it without blocks.  The pool counts   *)
(* its hand-outs and take-backs (modulo CountMod), as its statistics       *)
(* report them, so that every successful alloc and free is a step of its  *)
(* own and never a stutter: an alloc of a block already out, or a free of *)
(* one not out, is a step no action here allows.                           *)
(***************************************************************************)
EXTENDS Naturals

CONSTANTS
  Addresses,  \* every address a block may start at
  CountMod    \* the modulus of the counters (2^32 in the code)

VARIABLES
  ready,      \* the pool can serve calls
  blocks,     \* the blocks it manages
  allocated,  \* the blocks handed out and not taken back
  allocs,     \* hand-outs since setup or reset, modulo CountMod
  frees       \* take-backs since setup or reset, modulo CountMod

avars == <<ready, blocks, allocated, allocs, frees>>

TypeOK ==
  /\ ready \in BOOLEAN
  /\ blocks \subseteq Addresses
  /\ allocated \subseteq blocks
  /\ allocs \in 0..(CountMod - 1)
  /\ frees \in 0..(CountMod - 1)

Init ==
  /\ ready = FALSE
  /\ blocks = {}
  /\ allocated = {}
  /\ allocs = 0
  /\ frees = 0

Setup ==
  /\ ready' = TRUE
  /\ blocks' \in SUBSET Addresses \ {{}}
  /\ allocated' = {}
  /\ allocs' = 0
  /\ frees' = 0

Teardown ==
  /\ ready' = FALSE
  /\ blocks' = {}
  /\ allocated' = {}
  /\ allocs' = 0
  /\ frees' = 0

Alloc(b) ==
  /\ ready
  /\ b \in blocks \ allocated
  /\ allocated' = allocated \cup {b}
  /\ allocs' = (allocs + 1) % CountMod
  /\ UNCHANGED <<ready, blocks, frees>>

Free(b) ==
  /\ ready
  /\ b \in allocated
  /\ allocated' = allocated \ {b}
  /\ frees' = (frees + 1) % CountMod
  /\ UNCHANGED <<ready, blocks, allocs>>

Reset ==
  /\ ready
  /\ allocated' = {}
  /\ allocs' = 0
  /\ frees' = 0
  /\ UNCHANGED <<ready, blocks>>

Next ==
  \/ Setup
  \/ Teardown
  \/ \E b \in Addresses : Alloc(b) \/ Free(b)
  \/ Reset

Spec == Init /\ [][Next]_avars

=============================================================================
