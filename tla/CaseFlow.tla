----------------------------- MODULE CaseFlow -----------------------------
(***************************************************************************)
(* How one SUITE function runs one of its cases.  The macros of            *)
(* src/source/core/h2_core.hpp make the whole SUITE body one function that *)
(* is called once to collect the cases and once per case; Cleanup and the  *)
(* end of a failed case are reached by longjmp through cleanup_hole and    *)
(* fail_hole, and the two `cleaner` objects of the case are destroyed on   *)
(* every way out of it, an exception included.                             *)
(*                                                                         *)
(* The function is: before; Cleanup's setjmp; then for each case k its     *)
(* block and the shared code `after k`.  What each section of user code    *)
(* does (it succeeds, an assertion fails, it throws) is the suite's shape; *)
(* a section does the same thing every time it runs.                       *)
(*                                                                         *)
(* Cases and Casess make one case for each value or pair of values, and    *)
(* one block for all of them, with loops of its own around it: these are   *)
(* cases in a row with no code between them, and a CASE is the only case   *)
(* of a suite with nothing around it.                                      *)
(***************************************************************************)
EXTENDS Integers, Sequences, FiniteSets

CONSTANTS
  N,               \* cases in the suite, numbered in the order of the text
  Shape,           \* the suites considered: what each section does, whether there is a Cleanup, -c,
                   \* whether the compiler keeps the case pointer in a register across setjmp,
                   \* which cases were made by Cases or Casess
  MaxTest          \* bound: cases tested, one after the other

Section == ({"before", "cleanup"} \X {0}) \cup ({"body", "after"} \X (1..N))
Does == {"ok", "fail", "throw"}

ASSUME CaseFlowAssumption ==
  /\ N \in Nat \ {0} /\ MaxTest \in Nat
  /\ Shape \subseteq [does : [Section -> Does], cleanup : BOOLEAN, continue : BOOLEAN,
                      optimised : BOOLEAN, cases : SUBSET (1..N)]

VARIABLES
  shape,        \* the suite
  tests,        \* cases tested so far
  pc,           \* where the suite function is: <<place, case or 0>>
  run,          \* runner's current_case, 0 while the cases are collected
  ptr,          \* the case pointer, a parameter of the function the macros assign to
  fail_hole,    \* per case: never set, set in the running call, set in a call that returned
  cleanup_hole, \* likewise
  failed,       \* h2_case::failed of the case under test
  wrong,        \* history: some section of this test failed an assertion or threw
  times         \* history: how often each section ran in this test, up to 2

flowVars == <<shape, tests, pc, run, ptr, fail_hole, cleanup_hole, failed, wrong, times>>

Hole == {"unset", "live", "stale"}
Place ==
  Section \cup ({"point", "return", "caught", "idle", "killed"} \X {0})
    \cup ({"case", "loop"} \X (1..N))

CaseFlowTypeOK ==
  /\ shape \in Shape
  /\ tests \in 0..MaxTest
  /\ pc \in Place
  /\ run \in 0..N /\ ptr \in 0..N
  /\ fail_hole \in [1..N -> Hole] /\ cleanup_hole \in Hole
  /\ failed \in BOOLEAN /\ wrong \in BOOLEAN
  /\ times \in [Section -> 0..2]

Before == <<"before", 0>>
Idle == <<"idle", 0>>
Return == <<"return", 0>>
Caught == <<"caught", 0>>
Lost == <<"killed", 0>>
Cleanup == <<"cleanup", 0>>
After(k) == <<"after", k>>
Loop(k) == <<"loop", k>>
Body(k) == <<"body", k>>

(* Mutant of Block: one case more than there are. *)
BlockOneMore(k) == IF k <= N + 1 THEN <<"case", k>> ELSE Return

(* What the text has after the Cleanup and after the code behind case k.   *)
Block(k) == IF k <= N THEN <<"case", k>> ELSE Return

CaseFlowInit ==
  /\ shape \in Shape
  /\ tests = 0
  /\ pc = Before      \* enumerate
  /\ run = 0 /\ ptr = 0
  /\ fail_hole = [k \in 1..N |-> "unset"] /\ cleanup_hole = "unset"
  /\ failed = FALSE /\ wrong = FALSE
  /\ times = [s \in Section |-> 0]

---------------------------------------------------------------------------
(* h2_suite::test(c); prev_setup clears what the last round left. *)
Test(c) ==
  /\ pc = Idle /\ tests < MaxTest
  /\ tests' = tests + 1
  /\ run' = c /\ ptr' = c
  /\ failed' = FALSE /\ wrong' = FALSE
  /\ times' = [s \in Section |-> 0]
  /\ pc' = Before
  /\ UNCHANGED <<shape, fail_hole, cleanup_hole>>

(* Mutant of NextOf: the function returns after the first shared code. *)
NextOfReturns(s) ==
  CASE s[1] = "before"  -> <<"point", 0>>
    [] s[1] = "cleanup" -> Block(1)
    [] s[1] = "body"    -> Loop(s[2])
    [] s[1] = "after"   -> Return

(* Where a section that succeeds leads. *)
NextOf(s) ==
  CASE s[1] = "before"  -> <<"point", 0>>
    [] s[1] = "cleanup" -> Block(1)
    [] s[1] = "body"    -> Loop(s[2])
    [] s[1] = "after"   -> Block(s[2] + 1)

Ran(s) == times' = [times EXCEPT ![s] = IF @ = 2 THEN 2 ELSE @ + 1]

Succeed ==
  /\ pc \in Section /\ shape.does[pc] = "ok"
  /\ Ran(pc)
  /\ pc' = NextOf(pc)
  /\ UNCHANGED <<shape, tests, run, ptr, fail_hole, cleanup_hole, failed, wrong>>

(* Mutant of AssertFails: the hole leads back to the start of the case. *)
AssertFailsRetries ==
  /\ pc \in Section /\ shape.does[pc] = "fail"
  /\ Ran(pc)
  /\ failed' = (run # 0) /\ wrong' = (run # 0)
  /\ pc' = IF run = 0 \/ shape.continue THEN NextOf(pc) ELSE Block(run)
  /\ UNCHANGED <<shape, tests, run, ptr, fail_hole, cleanup_hole>>

(* h2_runner::failing: while the cases are collected there is no current   *)
(* case and the failure is dropped; otherwise the case is failed and,      *)
(* unless -c, control leaves for the case's hole.  Jumping to a hole that  *)
(* was never set, or set by a call that returned, is undefined: the        *)
(* process dies, or goes on in the loop of the case with some pointer.     *)
AssertFails ==
  /\ pc \in Section /\ shape.does[pc] = "fail"
  /\ Ran(pc)
  /\ failed' = (run # 0) /\ wrong' = (run # 0)
  /\ IF run = 0 \/ shape.continue
     THEN pc' = NextOf(pc) /\ UNCHANGED ptr
     ELSE \/ fail_hole[run] = "live" /\ pc' = Loop(run) /\ UNCHANGED ptr
          \/ fail_hole[run] # "live" /\ pc' = Lost /\ UNCHANGED ptr
          \/ fail_hole[run] = "stale" /\ pc' = Loop(run) /\ ptr' \in {0, run}
  /\ UNCHANGED <<shape, tests, run, fail_hole, cleanup_hole>>

(* ~cleaner of the suite: to Cleanup, if its hole was ever set.  A case    *)
(* pointer kept in a register has, after the longjmp, the value it had at  *)
(* the setjmp.                                                             *)
ToCleanup ==
  \/ /\ cleanup_hole = "live"
     /\ pc' = Cleanup
  \/ cleanup_hole = "stale" /\ pc' = Lost

(* An exception: out of a case block it destroys the cleaners on its way,  *)
(* so it ends at a Cleanup if there is one; else test catches it, and      *)
(* nothing does while the cases are collected.                             *)
Throw ==
  /\ pc \in Section /\ shape.does[pc] = "throw"
  /\ Ran(pc)
  /\ wrong' = TRUE
  /\ IF pc[1] = "body" /\ cleanup_hole # "unset" THEN ToCleanup
     ELSE pc' = IF run = 0 THEN Lost ELSE Caught
  /\ UNCHANGED <<shape, tests, run, ptr, fail_hole, cleanup_hole, failed>>

(* Cleanup() is `if (setjmp(cleanup_hole))`. *)
SetPoint ==
  /\ pc = <<"point", 0>>
  /\ cleanup_hole' = IF shape.cleanup THEN "live" ELSE cleanup_hole
  /\ pc' = Block(1)
  /\ UNCHANGED <<shape, tests, run, ptr, fail_hole, failed, wrong, times>>

(* Case(): the block is entered when the pointer names it. *)
Enter(k) ==
  /\ pc = <<"case", k>>
  /\ IF ptr = k THEN /\ fail_hole' = [fail_hole EXCEPT ![k] = "live"]
                     /\ pc' = Body(k)
                ELSE /\ pc' = After(k)
                     /\ UNCHANGED fail_hole
  /\ UNCHANGED <<shape, tests, run, ptr, cleanup_hole, failed, wrong, times>>

(* Mutant of Leave: the pointer is not cleared. *)
LeaveKeeps(k) ==
  /\ pc = Loop(k) /\ k \notin shape.cases
  /\ IF cleanup_hole = "unset" THEN pc' = After(k) ELSE ToCleanup
  /\ UNCHANGED <<shape, tests, run, ptr, fail_hole, cleanup_hole, failed, wrong, times>>

(* Mutant of Leave: the cleaner's destructor does nothing. *)
LeaveUncleaned(k) ==
  /\ pc = Loop(k) /\ k \notin shape.cases
  /\ pc' = After(k) /\ ptr' = 0
  /\ UNCHANGED <<shape, tests, run, fail_hole, cleanup_hole, failed, wrong, times>>

(* The two loops of a Case end: the pointer is cleared, then the suite's   *)
(* cleaner is destroyed.                                                   *)
Leave(k) ==
  /\ pc = Loop(k) /\ k \notin shape.cases
  /\ IF cleanup_hole = "unset" THEN pc' = After(k) /\ ptr' = 0
     ELSE ToCleanup /\ ptr' \in (IF shape.optimised THEN {0, run} ELSE {0})
  /\ UNCHANGED <<shape, tests, run, fail_hole, cleanup_hole, failed, wrong, times>>

(* Those of Cases and Casess: the suite's cleaner is inside the loop that  *)
(* clears the pointer, and destroyed first.                                *)
LeaveCases(k) ==
  /\ pc = Loop(k) /\ k \in shape.cases
  /\ IF cleanup_hole = "unset" THEN pc' = After(k) /\ ptr' = 0
     ELSE ToCleanup /\ UNCHANGED ptr
  /\ UNCHANGED <<shape, tests, run, fail_hole, cleanup_hole, failed, wrong, times>>

(* Mutant of Finish: what test caught is not made a failure. *)
FinishSilently ==
  /\ pc \in {Return, Caught}
  /\ fail_hole' = [k \in 1..N |-> IF fail_hole[k] = "live" THEN "stale" ELSE fail_hole[k]]
  /\ cleanup_hole' = IF cleanup_hole = "live" THEN "stale" ELSE cleanup_hole
  /\ pc' = Idle
  /\ UNCHANGED <<shape, tests, run, ptr, failed, wrong, times>>

(* The call is over, normally or by an exception that test caught and made *)
(* a failure of the case: the holes it set point into a dead frame.        *)
Finish ==
  /\ pc \in {Return, Caught}
  /\ failed' = (failed \/ pc = Caught)
  /\ fail_hole' = [k \in 1..N |-> IF fail_hole[k] = "live" THEN "stale" ELSE fail_hole[k]]
  /\ cleanup_hole' = IF cleanup_hole = "live" THEN "stale" ELSE cleanup_hole
  /\ pc' = Idle
  /\ UNCHANGED <<shape, tests, run, ptr, wrong, times>>

FlowStep ==
  \/ Succeed \/ AssertFails \/ Throw \/ SetPoint \/ Finish
  \/ \E k \in 1..N : Enter(k) \/ Leave(k) \/ LeaveCases(k)

CaseFlowNext == (\E c \in 1..N : Test(c)) \/ FlowStep

CaseFlowSpec == CaseFlowInit /\ [][CaseFlowNext]_flowVars /\ WF_flowVars(FlowStep)

---------------------------------------------------------------------------
(* The suites of which it is promised how often each section runs: with -c *)
(* assertions may fail anywhere, otherwise in the cases; exceptions leave  *)
(* a case of a suite without Cleanup, or the Cleanup itself; there is no   *)
(* Cleanup beside Cases.                                                   *)
Promised ==
  {sh \in Shape :
     /\ \A s \in Section :
          sh.does[s] = "fail" => s[1] = "body" \/ sh.continue
     /\ \A s \in Section :
          sh.does[s] = "throw" => s[1] = "cleanup" \/ (s[1] = "body" /\ ~sh.cleanup)
     /\ ~sh.optimised
     /\ sh.cleanup => sh.cases = {}}

(* "Each case is executed separately": the test of a case runs its block   *)
(* once and no other case's, whichever jumps lead through the function.    *)
BodyOnce ==
  shape \in Promised =>
    \A k \in 1..N : times[Body(k)] <= (IF k = run THEN 1 ELSE 0)

(* "Cleanup() is executed after every test case whatever success or fail": *)
(* once per test, never while the cases are collected.                     *)
CleanupOnce ==
  shape \in Promised =>
    /\ times[Cleanup] <= (IF shape.cleanup /\ run # 0 THEN 1 ELSE 0)
    /\ pc = Idle /\ run # 0 /\ shape.cleanup => times[Cleanup] = 1

(* "Code defined after case was executed while case finish": it has run    *)
(* once when the test returns without an exception.                        *)
AfterOnce ==
  shape \in Promised =>
    /\ \A k \in 1..N : k >= run => times[After(k)] <= 1
    /\ pc = Return => \A k \in 1..N : k >= run => times[After(k)] = 1

(* Each section of a suite runs as often as the documents promise,         *)
(* whichever jumps lead from one to another.                               *)
SectionsOnce == BodyOnce /\ CleanupOnce /\ AfterOnce

(* A test in which an assertion failed or an exception escaped is failed   *)
(* when it ends, though it may have left by a jump, a throw or neither.    *)
WrongIsFailed == pc = Idle /\ wrong => failed

(* A test ends, and the process survives it.                               *)
TestEnds == (pc # Idle /\ shape \in Promised) ~> (pc = Idle)

(* "Cleanup() is executed after every test case": when it has run, the     *)
(* test ends.                                                              *)
CleanupIsLast == (pc = Cleanup) ~> (pc = Idle)

(* "Uncaught Exception: It will be detected and reported as failure."      *)
UncaughtReported ==
  \A k \in 1..N :
    (run = k /\ pc = Body(k) /\ shape.does[pc] = "throw") ~> (pc = Idle /\ failed)
===========================================================================
