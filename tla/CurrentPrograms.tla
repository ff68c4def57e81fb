--------------------------- MODULE CurrentPrograms ---------------------------
(***************************************************************************)
(* The programs of the repository written against the current engine      *)
(* (Mempool), run one library call per step by a single client "main":    *)
(*   - the single-threaded GoogleTest cases of src/unnamed/part_001       *)
(*     (lines 21-447), with gtest's meaning of EXPECT (a failed check     *)
(*     marks the test failed) and ASSERT (it also returns from the test); *)
(*   - "example": the example program of src/unnamed/part_012;            *)
(*   - "run_basic_tests": the function of src/tests/test_mempool.c.      *)
(* The two C programs' "if (...) return 1;" is an ASSERT: the program     *)
(* stops and reports failure.  Output (printf) is left out.               *)
(* Each program has its own state and pool buffers; which one runs is    *)
(* chosen in Init.  A call's result is the engine's own record of it,     *)
(* last.err; a pointer is a byte address as in Mempool.  The calls of     *)
(* IndependentPools on its second pool are actions of CurrentTwoPools,   *)
(* which adds that pool and the specification.                            *)
(***************************************************************************)
EXTENDS Mempool, TLC

CONSTANTS
  BufferAddr,   \* the address of every pool_buf, alignas(16)
  Buffer2Addr   \* IndependentPools: the address of buf2, apart from buf1

\* mempool.h: the state buffer every program declares, unless overridden
MEMPOOL_STATE_SIZE == 128

\* mempool_state_size: sizeof(struct mempool), Layout's StateSize
MempoolStateSize == StateSize

(* mempool_strerror: one message per error code, and a generic one for a  *)
(* value outside the enumeration.                                        *)
MempoolStrerror(e) ==
  CASE e = "OK"              -> "Success"
    [] e = "NULL_PTR"        -> "Null pointer"
    [] e = "INVALID_SIZE"    -> "Invalid size"
    [] e = "OUT_OF_MEMORY"   -> "Out of memory"
    [] e = "INVALID_BLOCK"   -> "Invalid block"
    [] e = "ALIGNMENT"       -> "Alignment error"
    [] e = "DOUBLE_FREE"     -> "Double free detected"
    [] e = "NOT_INITIALIZED" -> "Pool not initialized"
    [] OTHER                 -> "Unknown error"

(* The mempool_init calls of the programs: state_buf[MEMPOOL_STATE_SIZE], *)
(* 64-byte blocks, alignment TEST_ALIGN = 8, and a pool_buf of 4096 or     *)
(* 2048 bytes; a NULL pointer argument; alignment 7; &pool_buf[1] with one *)
(* byte less; a block size of 1; a state buffer of mempool_state_size()-1; *)
(* a pool_buf of 32 bytes.                                                 *)
TestCall(poolSize) ==
  [nullPtr |-> FALSE, poolAddr |-> BufferAddr, stateSize |-> MEMPOOL_STATE_SIZE,
   poolSize |-> poolSize, blockSize |-> 64, alignment |-> 8]

CallOf ==
  [large      |-> TestCall(4096),
   small      |-> TestCall(2048),
   null       |-> [TestCall(4096) EXCEPT !.nullPtr = TRUE],
   align7     |-> [TestCall(4096) EXCEPT !.alignment = 7],
   misaligned |-> [TestCall(4095) EXCEPT !.poolAddr = BufferAddr + 1],
   tiny       |-> [TestCall(4096) EXCEPT !.blockSize = 1],
   smallState |-> [TestCall(4096) EXCEPT !.stateSize = MempoolStateSize - 1],
   pool32     |-> TestCall(32),
   small2     |-> [TestCall(2048) EXCEPT !.poolAddr = Buffer2Addr]]

VARIABLES
  prog,    \* the program running
  pc,      \* its position: an instruction index
  slot,    \* slot[s]: the value of pointer variable s
  snap,    \* snap[v]: the mempool_stats_t variable v as last written
  blocks,  \* ExhaustiveAllocAndOutOfMemory: the std::vector of blocks
  k,       \* ... and the index of its range-for over them
  failed   \* an EXPECT or ASSERT has failed (a C program returned 1)

progVars == <<prog, pc, slot, snap, blocks, k, failed>>
allVars == <<vars, progVars>>

Main == "main"

(* The instructions: a call, optionally with the result the program       *)
(* expects, or a check of what the program has read.                      *)
ExpectEq(e) == [expect |-> e, kind |-> "EXPECT"]
AssertEq(e) == [expect |-> e, kind |-> "ASSERT"]
Check(what, kind) == [op |-> "check", what |-> what, kind |-> kind]
Init_(call) == [op |-> "init", call |-> call]
Alloc_(s) == [op |-> "alloc", s |-> s]
Free_(s) == [op |-> "free", s |-> s]
Stats_(v) == [op |-> "stats", into |-> v]
Contains_(s) == [op |-> "contains", s |-> s]
Reset_ == [op |-> "reset"]
\* the same calls on the second pool
Init2_(call) == [op |-> "init2", call |-> call]
Alloc2_(s) == [op |-> "alloc2", s |-> s]
Free2_(s) == [op |-> "free2", s |-> s]
Contains2_(s) == [op |-> "contains2", s |-> s]
OnSecond == {"init2", "alloc2", "free2", "contains2"}
\* the ASSERT_LE(mempool_state_size(), sizeof(state_buf)) opening each case
SizeOK == Check("statesize", "ASSERT")

-----------------------------------------------------------------------------
(* The library calls.  Each is the engine's action for client main; the   *)
(* program's own variables change only as the C code writes them.         *)

\* mempool_alloc(pool, &slot[s]): *block is written only on success
CallAlloc(s) ==
  /\ MempoolAlloc(Main)
  /\ slot' = IF last'.err = "OK" THEN [slot EXCEPT ![s] = Head(pool.free_list)] ELSE slot
  /\ UNCHANGED snap

\* mempool_get_stats(pool, &v): *stats is written only on success
CallStats(v) ==
  /\ MempoolGetStats(Main)
  /\ snap' = IF last'.err = "OK" THEN [snap EXCEPT ![v] = pool.stats] ELSE snap
  /\ UNCHANGED slot

(* The gtest checks and the C programs' if-conditions on what they read.  *)
Holds(what) ==
  CASE what = "statesize" -> MempoolStateSize <= MEMPOOL_STATE_SIZE
    [] what = "statesize_pos" -> MempoolStateSize > 0
    [] what = "handle" -> handle
    [] what \in {"b1", "b2", "b"} -> slot[what] # NULL
    [] what = "distinct" -> slot["b1"] # slot["b2"]
    [] what = "fresh" ->
         LET s == snap["stats"]
         IN  s.total_blocks > 0 /\ s.total_blocks = s.free_blocks /\ s.used_blocks = 0
    [] what = "used2" -> snap["stats"].used_blocks = 2
    [] what = "allfree" ->
         snap["stats"].used_blocks = 0 /\ snap["stats"].total_blocks = snap["stats"].free_blocks
    [] what = "peak2" -> snap["stats"].used_blocks = 2 /\ snap["stats"].peak_usage = 2
    [] what = "peak3" -> snap["stats"].used_blocks = 3 /\ snap["stats"].peak_usage = 3
    [] what = "peakkept" -> snap["stats"].used_blocks = 0 /\ snap["stats"].peak_usage = 3
    [] what = "allocated" -> Len(blocks) = snap["total"].total_blocks
    [] what = "exhausted" ->
         snap["stats"].used_blocks = snap["total"].total_blocks /\ snap["stats"].free_blocks = 0
    [] what = "inuse" ->
         snap["stats_before"].used_blocks = 2 /\ snap["stats_before"].alloc_count >= 2
    [] what = "resetdone" ->
         LET b == snap["stats_before"]
             a == snap["stats_after"]
         IN  /\ b.total_blocks = a.total_blocks
             /\ a.used_blocks = 0 /\ a.total_blocks = a.free_blocks
             /\ a.alloc_count = 0 /\ a.free_count = 0 /\ a.peak_usage = 0
    \* EXPECT_NE(nullptr, msg) holds of any string; EXPECT_STRNE("", msg):
    [] what = "strerror" -> \A e \in Errors : MempoolStrerror(e) # ""

-----------------------------------------------------------------------------
(* The programs as their sequence of instructions; "allocloop" and        *)
(* "freeloop" are the two loops of ExhaustiveAllocAndOutOfMemory.          *)
Large == Init_("large") @@ AssertEq("OK")
Small == Init_("small") @@ AssertEq("OK")

StateSizeWithinBound ==
  <<Check("statesize_pos", "EXPECT"), Check("statesize", "EXPECT")>>

InitSuccess ==
  <<SizeOK, Init_("large") @@ ExpectEq("OK"), Check("handle", "ASSERT"),
   Stats_("stats") @@ AssertEq("OK"), Check("fresh", "EXPECT")>>

InitNullPointers ==
  <<SizeOK, Init_("null") @@ ExpectEq("NULL_PTR"),
   Init_("null") @@ ExpectEq("NULL_PTR"), Init_("null") @@ ExpectEq("NULL_PTR")>>

AlignmentAndSizeChecks ==
  <<SizeOK, Init_("align7") @@ ExpectEq("ALIGNMENT"),
   Init_("misaligned") @@ ExpectEq("ALIGNMENT"), Init_("tiny") @@ ExpectEq("INVALID_SIZE")>>

InitStateBufferTooSmall ==
  <<Init_("smallState") @@ ExpectEq("INVALID_SIZE")>>

PoolTooSmallForSingleBlock ==
  <<SizeOK, Init_("pool32") @@ ExpectEq("INVALID_SIZE")>>

AllocFreeAndStats ==
  <<SizeOK, Large,
   Alloc_("b1") @@ ExpectEq("OK"), Check("b1", "EXPECT"),
   Alloc_("b2") @@ ExpectEq("OK"), Check("b2", "EXPECT"), Check("distinct", "EXPECT"),
   Stats_("stats") @@ AssertEq("OK"), Check("used2", "EXPECT"),
   Free_("b1") @@ ExpectEq("OK"), Free_("b2") @@ ExpectEq("OK"),
   Stats_("stats") @@ AssertEq("OK"), Check("allfree", "EXPECT")>>

ExhaustiveAllocAndOutOfMemory ==
  <<SizeOK, Large, Stats_("stats") @@ AssertEq("OK"), [op |-> "total"],
   [op |-> "allocloop"], Check("allocated", "EXPECT"),
   Stats_("stats") @@ AssertEq("OK"), Check("exhausted", "EXPECT"),
   [op |-> "freeloop"], Stats_("stats") @@ AssertEq("OK"), Check("allfree", "EXPECT")>>

PeakUsageTracking ==
  <<SizeOK, Large, Alloc_("b1") @@ AssertEq("OK"), Alloc_("b2") @@ AssertEq("OK"),
   Stats_("stats") @@ AssertEq("OK"), Check("peak2", "EXPECT"),
   Alloc_("b3") @@ AssertEq("OK"), Stats_("stats") @@ AssertEq("OK"),
   Check("peak3", "EXPECT"),
   Free_("b1") @@ ExpectEq("OK"), Free_("b2") @@ ExpectEq("OK"),
   Free_("b3") @@ ExpectEq("OK"),
   Stats_("stats") @@ AssertEq("OK"), Check("peakkept", "EXPECT")>>

ResetResetsStatsAndFreeList ==
  <<SizeOK, Large, Alloc_("b1") @@ AssertEq("OK"), Alloc_("b2") @@ AssertEq("OK"),
   Stats_("stats_before") @@ AssertEq("OK"), Check("inuse", "EXPECT"),
   Reset_ @@ AssertEq("OK"),
   Stats_("stats_after") @@ AssertEq("OK"), Check("resetdone", "EXPECT"),
   Free_("b1") @@ ExpectEq("DOUBLE_FREE"), Free_("b2") @@ ExpectEq("DOUBLE_FREE")>>

DoubleFreeDetection ==
  <<SizeOK, Small, Alloc_("b") @@ AssertEq("OK"), Check("b", "ASSERT"),
   Free_("b") @@ ExpectEq("OK"), Free_("b") @@ ExpectEq("DOUBLE_FREE")>>

InvalidPointerDetection ==
  <<SizeOK, Small, Free_("external") @@ ExpectEq("INVALID_BLOCK"),
   Alloc_("b") @@ AssertEq("OK"), Check("b", "ASSERT"), [op |-> "offset"],
   Free_("misaligned") @@ ExpectEq("INVALID_BLOCK"), Free_("b") @@ ExpectEq("OK")>>

ContainsChecks ==
  <<SizeOK, Large, Alloc_("b") @@ AssertEq("OK"), Check("b", "ASSERT"),
   Contains_("b") @@ ExpectEq("TRUE"), Contains_("external") @@ ExpectEq("FALSE"),
   Contains_("nullptr") @@ ExpectEq("FALSE"), Free_("b") @@ ExpectEq("OK")>>

IndependentPools ==
  <<SizeOK, SizeOK, Init_("small") @@ AssertEq("OK"), Init2_("small2") @@ AssertEq("OK"),
    Alloc_("a1") @@ AssertEq("OK"), Alloc2_("a2") @@ AssertEq("OK"),
    Contains_("a1") @@ ExpectEq("TRUE"), Contains2_("a2") @@ ExpectEq("TRUE"),
    Contains_("a2") @@ ExpectEq("FALSE"), Contains2_("a1") @@ ExpectEq("FALSE"),
    Free_("a1") @@ ExpectEq("OK"), Free2_("a2") @@ ExpectEq("OK")>>

ErrorStringsNonNullAndNonEmpty ==
  <<Check("strerror", "EXPECT")>>

ExampleMain ==
  <<SizeOK, Large, Stats_("stats"), Alloc_("block1"), Alloc_("block2"),
   Stats_("stats"), Free_("block1"), Free_("block2")>>

run_basic_tests ==
  <<SizeOK, Large, Stats_("stats") @@ AssertEq("OK"),
   Alloc_("b1") @@ AssertEq("OK"), Alloc_("b2") @@ AssertEq("OK"), Stats_("stats"),
   Free_("b1"), Free_("b2"), Stats_("stats"), Free_("b1") @@ AssertEq("DOUBLE_FREE")>>

CodeOf ==
  [StateSizeWithinBound |-> StateSizeWithinBound,
   InitSuccess |-> InitSuccess,
   InitNullPointers |-> InitNullPointers,
   AlignmentAndSizeChecks |-> AlignmentAndSizeChecks,
   InitStateBufferTooSmall |-> InitStateBufferTooSmall,
   PoolTooSmallForSingleBlock |-> PoolTooSmallForSingleBlock,
   AllocFreeAndStats |-> AllocFreeAndStats,
   ExhaustiveAllocAndOutOfMemory |-> ExhaustiveAllocAndOutOfMemory,
   PeakUsageTracking |-> PeakUsageTracking,
   ResetResetsStatsAndFreeList |-> ResetResetsStatsAndFreeList,
   DoubleFreeDetection |-> DoubleFreeDetection,
   InvalidPointerDetection |-> InvalidPointerDetection,
   ContainsChecks |-> ContainsChecks,
   IndependentPools |-> IndependentPools,
   ErrorStringsNonNullAndNonEmpty |-> ErrorStringsNonNullAndNonEmpty,
   example |-> ExampleMain,
   run_basic_tests |-> run_basic_tests]

Code == CodeOf[prog]

(* Every pointer local starts as nullptr or NULL; external is an array of *)
(* the test's own frame, outside the pool.                                 *)
Slots == {"b", "b1", "b2", "b3", "a1", "a2", "block1", "block2", "external",
          "misaligned", "nullptr"}

StatsVars == {"stats", "total", "stats_before", "stats_after"}

(* The program has returned from main, or from the test.                  *)
Returned == pc = Len(Code) + 1

-----------------------------------------------------------------------------
(* One of the programs P at its first instruction.                       *)
StartIn(P) ==
  /\ Init
  /\ prog \in P
  /\ pc = 1
  /\ slot = [s \in Slots |-> IF s = "external" THEN ExternalPtr ELSE NULL]
  /\ snap = [v \in StatsVars |-> ZeroStats]
  /\ blocks = <<>>
  /\ k = 1
  /\ failed = FALSE

(* A check that fails marks the program failed; an ASSERT also returns.   *)
Verdict(ins, ok) ==
  /\ failed' = (failed \/ ~ok)
  /\ pc' = IF ~ok /\ ins.kind = "ASSERT" THEN Len(Code) + 1 ELSE pc + 1

(* One instruction of a straight-line part of a program.                  *)
Step ==
  /\ pc \in DOMAIN Code
  /\ LET ins == Code[pc]
     IN  /\ ins.op \notin {"allocloop", "freeloop"} \cup OnSecond
         /\ CASE ins.op = "init"      -> MempoolInit(CallOf[ins.call]) /\ UNCHANGED <<slot, snap>>
              [] ins.op = "alloc"     -> CallAlloc(ins.s)
              [] ins.op = "free"      -> MempoolFree(Main, slot[ins.s]) /\ UNCHANGED <<slot, snap>>
              [] ins.op = "stats"     -> CallStats(ins.into)
              [] ins.op = "reset"     -> MempoolReset(Main) /\ UNCHANGED <<slot, snap>>
              [] ins.op = "contains"  -> MempoolContains(Main, slot[ins.s]) /\ UNCHANGED <<slot, snap>>
              \* const uint32_t total = stats.total_blocks
              [] ins.op = "total"     -> snap' = [snap EXCEPT !["total"] = snap["stats"]]
                                         /\ UNCHANGED <<vars, slot>>
              \* uint8_t *misaligned = static_cast<uint8_t *>(b) + 1
              [] ins.op = "offset"    -> slot' = [slot EXCEPT !["misaligned"] = slot["b"] + 1]
                                         /\ UNCHANGED <<vars, snap>>
              [] ins.op = "check"     -> UNCHANGED <<vars, slot, snap>>
         /\ IF ins.op = "check" THEN Verdict(ins, Holds(ins.what))
            ELSE IF "kind" \in DOMAIN ins
            THEN Verdict(ins, last'.err = ins.expect)
            ELSE pc' = pc + 1 /\ UNCHANGED failed
  /\ UNCHANGED <<prog, blocks, k>>

(* Mutant: the loop never leaves on OUT_OF_MEMORY.                         *)
AllocLoopStuck ==
  /\ pc \in DOMAIN Code /\ Code[pc].op = "allocloop"
  /\ MempoolAlloc(Main)
  /\ blocks' = IF last'.err = "OK" THEN Append(blocks, Head(pool.free_list)) ELSE blocks
  /\ UNCHANGED <<prog, pc, slot, snap, k, failed>>

(* for (;;): alloc into a fresh b; on success ASSERT_NE(nullptr, b) and   *)
(* push it; otherwise EXPECT OUT_OF_MEMORY and break.                      *)
AllocLoop ==
  /\ pc \in DOMAIN Code /\ Code[pc].op = "allocloop"
  /\ MempoolAlloc(Main)
  /\ IF last'.err = "OK"
     THEN LET b == Head(pool.free_list)
          IN  /\ blocks' = Append(blocks, b)
              /\ failed' = (failed \/ b = NULL)
              /\ pc' = IF b = NULL THEN Len(Code) + 1 ELSE pc
     ELSE /\ Verdict(ExpectEq("OUT_OF_MEMORY"), last'.err = "OUT_OF_MEMORY")
          /\ UNCHANGED blocks
  /\ UNCHANGED <<prog, slot, snap, k>>

(* for (void *b : blocks) EXPECT_EQ(MEMPOOL_OK, mempool_free(pool, b)).    *)
FreeLoop ==
  /\ pc \in DOMAIN Code /\ Code[pc].op = "freeloop"
  /\ IF k <= Len(blocks)
     THEN /\ MempoolFree(Main, blocks[k])
          /\ k' = k + 1
          /\ failed' = (failed \/ last'.err # "OK")
          /\ UNCHANGED pc
     ELSE /\ pc' = pc + 1
          /\ UNCHANGED <<vars, k, failed>>
  /\ UNCHANGED <<prog, slot, snap, blocks>>

ProgramsNext == Step \/ AllocLoop \/ FreeLoop

=============================================================================
