------------------------------- MODULE Examples -------------------------------
(***************************************************************************)
(* The programs of the repository written against the legacy engine, run *)
(* one library call per step:                                             *)
(*   - "basic": example_basic in src/examples/basic_usage.c;              *)
(*   - "embedded": example_embedded in src/examples/embedded_example.c    *)
(*     (lines 15-57);                                                     *)
(*   - "stress": the stress program appended to the same file (lines      *)
(*     58-107);                                                            *)
(*   - "c_harness": the minimal C harness of src/unnamed/part_000;        *)
(*   - the seven single-threaded GoogleTest cases of                      *)
(*     src/tests/gtest_mempool.cpp (lines 15-168), with gtest's meaning   *)
(*     of EXPECT (a failed check marks the test failed) and ASSERT (it    *)
(*     also returns from the test).                                        *)
(* Each is a separate process with its own pool; which one runs is chosen *)
(* in Init.  Output (printf) is left out; what the programs print is      *)
(* stated as properties of the statistics they read.  Pointers are block  *)
(* indices, NULL, Inside, Outside, or Garbage, the indeterminate value of *)
(* an uninitialised local.                                                 *)
(***************************************************************************)
EXTENDS LegacyPool, TLC

CONSTANTS
  BufferAddr,     \* the address of each program's buffer, aligned(8)
  BasicN, BasicBlockSize,        \* the block count and block size
  EmbeddedN, EmbeddedBlockSize,  \* that each successful init lays out
  StressN, StressBlockSize,
  SmallN, SmallBlockSize,        \* the gtest cases' 2048-byte buffer
  Garbage         \* the value of a pointer variable never written

(* The mempool_init arguments of a program with an aligned buffer.        *)
ProgramCall(buffer, blockSize) ==
  [nullPtr |-> FALSE, poolAddr |-> BufferAddr, stateSize |-> StateSize,
   poolSize |-> buffer, blockSize |-> blockSize, alignment |-> 8]

\* basic: buffer[4096], 64-byte blocks
BasicCall == ProgramCall(4096, 64)

\* embedded: PACKET_SIZE * MAX_PACKETS bytes of sizeof(packet_t) = 256 + 4 + 4
EmbeddedCall == ProgramCall(256 * 16, 264)

\* stress: buffer[8192], 64-byte blocks
StressCall == ProgramCall(8192, 64)

(* The init calls of the gtest cases: BUFFER_SIZE 4096 or 2048, BLOCK_SIZE *)
(* 64, ALIGN 8; a NULL pool or buffer; alignment 7; &buffer[1] of a buffer *)
(* alignas(16); a block size of 4.                                         *)
TestCalls ==
  [large |-> ProgramCall(4096, 64), small |-> ProgramCall(2048, 64),
   null |-> [ProgramCall(4096, 64) EXCEPT !.nullPtr = TRUE],
   align7 |-> [ProgramCall(4096, 64) EXCEPT !.alignment = 7],
   misaligned |-> [ProgramCall(4096, 64) EXCEPT !.poolAddr = 16 + 1],
   tiny |-> ProgramCall(4096, 4)]

CallOf ==
  [k \in {"basic", "embedded", "stress"} \cup DOMAIN TestCalls |->
     CASE k = "basic" -> BasicCall [] k = "embedded" -> EmbeddedCall
       [] k = "stress" -> StressCall [] OTHER -> TestCalls[k]]

(* The outcome of each init call, given as constants and checked here     *)
(* against the layout search once.                                         *)
Outcome(err, n, bsize) == [err |-> err, n |-> n, blockSize |-> bsize]

OutcomeOf ==
  [k \in DOMAIN CallOf |->
     CASE k = "basic"    -> Outcome("OK", BasicN, BasicBlockSize)
       [] k = "large"    -> Outcome("OK", BasicN, BasicBlockSize)
       [] k = "embedded" -> Outcome("OK", EmbeddedN, EmbeddedBlockSize)
       [] k = "stress"   -> Outcome("OK", StressN, StressBlockSize)
       [] k = "small"    -> Outcome("OK", SmallN, SmallBlockSize)
       [] k = "null"     -> Outcome("NULL_PTR", 0, 0)
       [] k = "tiny"     -> Outcome("INVALID_SIZE", 0, 0)
       [] OTHER          -> Outcome("ALIGNMENT", 0, 0)]

ASSUME \A k \in DOMAIN CallOf :
         LET r == InitResult(CallOf[k])
             o == OutcomeOf[k]
         IN  /\ r.err = o.err
             /\ o.err = "OK" => r.n = o.n /\ r.blockSize = o.blockSize /\ r.n <= MaxBlocks

Cycles == 10

VARIABLES
  prog,       \* the program running
  pc,         \* its position: an instruction index, or a label
  slot,       \* slot[s]: the value of pointer variable s
  i,          \* stress: the loop index
  cycle,      \* stress: the cycle counter
  snap,       \* snap[v]: the mempool_stats_t variable v as last written
  ret,        \* the operation and result of the program's latest call
  failed      \* a gtest EXPECT or ASSERT has failed

progVars == <<prog, pc, slot, i, cycle, snap, ret, failed>>
vars == <<legacyVars, progVars>>

Result(op, e) == ret' = [op |-> op, err |-> e]

(* The straight-line programs as their sequence of calls and checks.  A   *)
(* call's result is compared with what the test expects, if it does.      *)
ExpectEq(e) == [expect |-> e, kind |-> "EXPECT"]
AssertEq(e) == [expect |-> e, kind |-> "ASSERT"]
Check(what, kind) == [op |-> "check", what |-> what, kind |-> kind]
Init_(call) == [op |-> "init", call |-> call]
Alloc_(s) == [op |-> "alloc", s |-> s]
Free_(s) == [op |-> "free", s |-> s]
Stats_(v) == [op |-> "stats", into |-> v]

BasicProgram ==
  <<Init_("basic"), Stats_("stats"), Alloc_("block1"), Alloc_("block2"),
    Stats_("stats"), Free_("block1"), Free_("block2")>>

EmbeddedProgram ==
  <<Init_("embedded"), Alloc_("tx"), Alloc_("rx"), Stats_("stats"),
    Free_("tx"), Free_("rx")>>

InitSuccess == <<Init_("large") @@ ExpectEq("OK"), Check("initialised", "EXPECT")>>

InitNullPointers == <<Init_("null") @@ ExpectEq("NULL_PTR"), Init_("null") @@ ExpectEq("NULL_PTR")>>

AlignmentAndSizeChecks ==
  <<Init_("align7") @@ ExpectEq("ALIGNMENT"), Init_("misaligned") @@ ExpectEq("ALIGNMENT"),
    Init_("tiny") @@ ExpectEq("INVALID_SIZE")>>

AllocFreeAndStats ==
  <<Init_("large") @@ AssertEq("OK"),
    Alloc_("b1") @@ ExpectEq("OK"), Check("b1", "EXPECT"),
    Alloc_("b2") @@ ExpectEq("OK"), Check("b2", "EXPECT"), Check("distinct", "EXPECT"),
    Stats_("stats") @@ AssertEq("OK"), Check("used2", "EXPECT"),
    Free_("b1") @@ ExpectEq("OK"), Free_("b2") @@ ExpectEq("OK"),
    Stats_("stats") @@ AssertEq("OK"), Check("allfree", "EXPECT")>>

ResetTest ==
  <<Init_("large") @@ AssertEq("OK"), Alloc_("b") @@ AssertEq("OK"),
    Stats_("stats_before") @@ AssertEq("OK"), Check("inuse", "EXPECT"),
    [op |-> "reset"] @@ AssertEq("OK"),
    Stats_("stats_after") @@ AssertEq("OK"), Check("resetdone", "EXPECT")>>

DoubleFreeDetection ==
  <<Init_("small") @@ AssertEq("OK"), Alloc_("b") @@ AssertEq("OK"), Check("b", "ASSERT"),
    Free_("b") @@ ExpectEq("OK"), Free_("b") @@ ExpectEq("DOUBLE_FREE")>>

InvalidPointerDetection ==
  <<Init_("small") @@ AssertEq("OK"),
    Free_("external") @@ ExpectEq("INVALID_BLOCK"), Free_("misaligned") @@ ExpectEq("INVALID_BLOCK")>>

(* run_basic_tests of the legacy C harness: "if (err != ...) return 1;"  *)
(* is an ASSERT, its (void) calls are unchecked.                          *)
LegacyCTests ==
  <<Init_("basic") @@ AssertEq("OK"), Alloc_("block1") @@ AssertEq("OK"),
    Alloc_("block2") @@ AssertEq("OK"), Stats_("stats"), Free_("block1"), Free_("block2"),
    Stats_("stats"), Free_("block1") @@ AssertEq("DOUBLE_FREE")>>

CodeOf ==
  [basic |-> BasicProgram, c_harness |-> LegacyCTests, embedded |-> EmbeddedProgram,
   InitSuccess |-> InitSuccess, InitNullPointers |-> InitNullPointers,
   AlignmentAndSizeChecks |-> AlignmentAndSizeChecks,
   AllocFreeAndStats |-> AllocFreeAndStats, Reset |-> ResetTest,
   DoubleFreeDetection |-> DoubleFreeDetection,
   InvalidPointerDetection |-> InvalidPointerDetection]

Programs == DOMAIN CodeOf \cup {"stress"}

GTests == Programs \ {"basic", "embedded", "stress"}

Code == CodeOf[prog]

(* Each program's pointer and statistics variables.  The gtest cases'     *)
(* external[64] and blocks_start + 1 are pointers that are no block, one  *)
(* outside the blocks and one inside them.                                 *)
SlotsOf ==
  [p \in Programs |->
     CASE p \in {"basic", "c_harness"} -> {"block1", "block2"}
       [] p = "embedded" -> {"tx", "rx"}
       [] p = "stress"   -> 0..99
       [] OTHER          -> {"b1", "b2", "b", "external", "misaligned"}]

StatsVarsOf ==
  [p \in Programs |-> IF p = "Reset" THEN {"stats_before", "stats_after"} ELSE {"stats"}]

(* The program has returned from main, or from the test.                  *)
Returned == pc = IF prog = "stress" THEN "done" ELSE Len(Code) + 1

-----------------------------------------------------------------------------
(* The library calls, each one step (no other thread).                    *)

\* mempool_init(&pool, buffer, size, block size, alignment): every error
\* returns before the first write
CallInit(k) ==
  LET o == OutcomeOf[k]
  IN  /\ IF o.err = "OK" THEN LegacyInit(o.n, o.blockSize) ELSE UNCHANGED legacyVars
      /\ Result("init", o.err)

(* mempool_alloc(&pool, &slot[s]): *block is written only on success.     *)
CallAlloc(s) ==
  LET node == pool.head
  IN  IF ~pool.initialized
      THEN Result("alloc", "NOT_INITIALIZED") /\ UNCHANGED <<legacyVars, slot>>
      ELSE IF node = NULL
      THEN Result("alloc", "OUT_OF_MEMORY") /\ UNCHANGED <<legacyVars, slot>>
      ELSE /\ pool' = AllocPool(node)
           /\ bitmap' = AllocBitmap(node)
           /\ slot' = IF AllocErr(node) = "OK" THEN [slot EXCEPT ![s] = node] ELSE slot
           /\ Result("alloc", AllocErr(node))
           /\ UNCHANGED next

(* mempool_free(&pool, p).                                                *)
CallFree(p) ==
  IF FreeCheck(p) # "OK"
  THEN Result("free", FreeCheck(p)) /\ UNCHANGED legacyVars
  ELSE IF bitmap[p] = 0
  THEN Result("free", "DOUBLE_FREE") /\ UNCHANGED legacyVars
  ELSE /\ pool' = FreePool(p)
       /\ next' = FreeNext(p, pool.head)
       /\ bitmap' = FreeBitmap(p)
       /\ Result("free", "OK")

(* mempool_get_stats(&pool, &v).                                          *)
CallStats(v) ==
  IF pool.initialized
  THEN snap' = [snap EXCEPT ![v] = pool.stats] /\ Result("stats", "OK")
  ELSE Result("stats", "NOT_INITIALIZED") /\ UNCHANGED snap

(* mempool_reset(&pool).                                                  *)
CallReset ==
  IF ~pool.initialized
  THEN Result("reset", "NOT_INITIALIZED") /\ UNCHANGED legacyVars
  ELSE /\ pool' = ResetPool
       /\ next' = FreshLinks(pool.total_blocks)
       /\ bitmap' = ClearedBits(pool.total_blocks)
       /\ Result("reset", "OK")

(* The gtest checks on the state the test reads.                          *)
Holds(what) ==
  CASE what = "initialised" ->
         pool.initialized /\ pool.total_blocks > 0 /\ pool.free_blocks = pool.total_blocks
    [] what \in {"b1", "b2", "b"} -> slot[what] # NULL
    [] what = "distinct" -> slot["b1"] # slot["b2"]
    [] what = "used2" -> snap["stats"].used_blocks = 2
    [] what = "allfree" ->
         snap["stats"].used_blocks = 0 /\ snap["stats"].total_blocks = snap["stats"].free_blocks
    [] what = "inuse" -> snap["stats_before"].used_blocks > 0
    [] what = "resetdone" ->
         /\ snap["stats_after"].used_blocks = 0
         /\ snap["stats_before"].total_blocks = snap["stats_after"].total_blocks

-----------------------------------------------------------------------------
(* A program starts with its locals: uninitialised in basic and stress,   *)
(* NULL in embedded, c_harness and the gtest cases.                      *)
Init ==
  /\ prog \in Programs
  /\ pool = Uninitialised
  /\ next = [b \in Blocks |-> NULL]
  /\ bitmap = [b \in Blocks |-> 0]
  /\ pc = IF prog = "stress" THEN "init" ELSE 1
  /\ slot = [s \in SlotsOf[prog] |->
               CASE prog \in {"basic", "stress"} -> Garbage
                 [] prog = "embedded"   -> NULL
                 [] s = "external"      -> Outside
                 [] s = "misaligned"    -> Inside
                 [] OTHER               -> NULL]
  /\ i = 0
  /\ cycle = 0
  /\ snap = [v \in StatsVarsOf[prog] |-> FreshStats(0, 0)]
  /\ ret = [op |-> "none", err |-> "OK"]
  /\ failed = FALSE

(* A gtest check that fails marks the test failed; an ASSERT also returns. *)
Verdict(ins, ok) ==
  /\ failed' = (failed \/ ~ok)
  /\ pc' = IF ~ok /\ ins.kind = "ASSERT" THEN Len(Code) + 1 ELSE pc + 1

(* One instruction of a straight-line program.                           *)
Step ==
  /\ prog \in DOMAIN CodeOf
  /\ pc \in 1..Len(Code)
  /\ LET ins == Code[pc]
         met == "expect" \notin DOMAIN ins \/ ret'.err = ins.expect
     IN  /\ CASE ins.op = "init"  -> CallInit(ins.call) /\ UNCHANGED <<slot, snap>>
               [] ins.op = "stats" -> CallStats(ins.into) /\ UNCHANGED <<legacyVars, slot>>
               [] ins.op = "alloc" -> CallAlloc(ins.s) /\ UNCHANGED snap
               [] ins.op = "free"  -> CallFree(slot[ins.s]) /\ UNCHANGED <<slot, snap>>
               [] ins.op = "reset" -> CallReset /\ UNCHANGED <<slot, snap>>
               [] ins.op = "check" -> UNCHANGED <<legacyVars, slot, snap, ret>>
         /\ IF ins.op = "check" THEN Verdict(ins, Holds(ins.what))
            ELSE IF "kind" \in DOMAIN ins THEN Verdict(ins, met)
            ELSE pc' = pc + 1 /\ UNCHANGED failed
  /\ UNCHANGED <<prog, i, cycle>>

(* Stress: init; then blocks[i] = NULL for every i.                        *)
StressInit ==
  /\ prog = "stress" /\ pc = "init"
  /\ CallInit("stress")
  /\ slot' = [s \in SlotsOf[prog] |-> NULL]
  /\ pc' = "alloc"
  /\ UNCHANGED <<prog, i, cycle, snap, failed>>

(* for (i = 0; i < 100; i++) if alloc(&blocks[i]) != OK: blocks[i] = NULL *)
(* (alloc writes blocks[i] only on success, so it stays NULL).            *)
StressAlloc ==
  /\ prog = "stress" /\ pc = "alloc"
  /\ IF i < 100
     THEN /\ CallAlloc(i)
          /\ i' = i + 1
          /\ UNCHANGED pc
     ELSE /\ pc' = "free" /\ i' = 0
          /\ UNCHANGED <<legacyVars, slot, ret>>
  /\ UNCHANGED <<prog, cycle, snap, failed>>

(* for (i = 0; i < 100; i++) if blocks[i] != NULL: free it, set it NULL;  *)
(* then the next cycle, or get_stats after the last.                      *)
StressFree ==
  /\ prog = "stress" /\ pc = "free"
  /\ IF i < 100
     THEN /\ IF slot[i] # NULL
             THEN /\ CallFree(slot[i])
                  /\ slot' = [slot EXCEPT ![i] = NULL]
             ELSE UNCHANGED <<legacyVars, slot, ret>>
          /\ i' = i + 1
          /\ UNCHANGED <<pc, cycle>>
     ELSE /\ cycle' = cycle + 1
          /\ i' = 0
          /\ pc' = IF cycle + 1 < Cycles THEN "alloc" ELSE "stats"
          /\ UNCHANGED <<legacyVars, slot, ret>>
  /\ UNCHANGED <<prog, snap, failed>>

StressStats ==
  /\ prog = "stress" /\ pc = "stats"
  /\ CallStats("stats")
  /\ pc' = "done"
  /\ UNCHANGED <<legacyVars, prog, slot, i, cycle, failed>>

Next == Step \/ StressInit \/ StressAlloc \/ StressFree \/ StressStats

(* A single-threaded program keeps running until it returns.              *)
Spec == Init /\ [][Next]_vars /\ WF_vars(Next)

=============================================================================
