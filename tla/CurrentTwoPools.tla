-------------------------- MODULE CurrentTwoPools --------------------------
(***************************************************************************)
(* The programs of CurrentPrograms together with IndependentPools         *)
(* (src/unnamed/part_001 383-420), whose second state and pool buffers    *)
(* (state2, buf2) are a second control block and bitmap driven by the     *)
(* same engine code: an instance of Mempool on variables of its own, given *)
(* the one init call the test makes of it.  A call on either pool leaves  *)
(* the other pool's variables alone.                                       *)
(***************************************************************************)
EXTENDS CurrentPrograms

VARIABLES pool2, bitmap2, handle2, owned2, released2, revoked2, stale2, last2

Second == INSTANCE Mempool WITH
  InitCalls <- {CallOf["small2"]},
  pool <- pool2, bitmap <- bitmap2, handle <- handle2, owned <- owned2,
  released <- released2, revoked <- revoked2, stale <- stale2, last <- last2

vars2 == <<pool2, bitmap2, handle2, owned2, released2, revoked2, stale2, last2>>
twoVars == <<allVars, vars2>>

\* mempool_alloc(&pool2, &slot[s])
CallAlloc2(s) ==
  /\ Second!MempoolAlloc(Main)
  /\ slot' = IF last2'.err = "OK" THEN [slot EXCEPT ![s] = Head(pool2.free_list)] ELSE slot
  /\ UNCHANGED snap

(* One instruction on the second pool, checked against what the program  *)
(* expects of it.                                                          *)
SecondStep ==
  /\ pc \in DOMAIN Code
  /\ LET ins == Code[pc]
     IN  /\ ins.op \in OnSecond
         /\ CASE ins.op = "init2"     -> Second!MempoolInit(CallOf[ins.call]) /\ UNCHANGED <<slot, snap>>
              [] ins.op = "alloc2"    -> CallAlloc2(ins.s)
              [] ins.op = "free2"     -> Second!MempoolFree(Main, slot[ins.s]) /\ UNCHANGED <<slot, snap>>
              [] ins.op = "contains2" -> Second!MempoolContains(Main, slot[ins.s]) /\ UNCHANGED <<slot, snap>>
         /\ Verdict(ins, last2'.err = ins.expect)
  /\ UNCHANGED <<vars, prog, blocks, k>>

TwoPoolsInit == StartIn(DOMAIN CodeOf) /\ Second!Init

TwoPoolsNext == (ProgramsNext /\ UNCHANGED vars2) \/ SecondStep

(* A single-threaded program keeps running: weak fairness of its steps.  *)
TwoPoolsSpec == TwoPoolsInit /\ [][TwoPoolsNext]_twoVars /\ WF_twoVars(TwoPoolsNext)

=============================================================================
