--------------------------- MODULE CaseFlowProofs ---------------------------
(***************************************************************************)
(* What holds of every suite, however many cases it has and however often  *)
(* they are tested: the way of a call through the suite function.          *)
(***************************************************************************)
EXTENDS CaseFlow, TLAPS

Point == <<"point", 0>>
Case(k) == <<"case", k>>

(* The way of a call.  The pointer names the case under test until its     *)
(* block is left, and no block behind that one is entered before.          *)
WayInv ==
  /\ ptr \in {0, run}
  /\ pc \in {Before, Point} => ptr = run
  /\ pc = Cleanup => run # 0
  /\ \A k \in 1..N :
       /\ pc = Body(k) => k = run /\ k = ptr
       /\ pc = Loop(k) => k = run
       /\ pc = Case(k) => ptr = 0 \/ k <= ptr
       /\ pc = After(k) => ptr = 0 \/ k < ptr

(* A section that went wrong has failed its case, or its exception is on   *)
(* the way to do so; or it has gone round to the case that threw it.       *)
Thrown ==
  \/ pc \in {Caught, Lost}
  \/ /\ ptr = run /\ run # 0
     /\ shape.does[Body(run)] = "throw"
     /\ pc = Cleanup \/ \E k \in 1..N : pc \in {Case(k), After(k), Body(k)}
WrongInv == wrong => failed \/ Thrown

---------------------------------------------------------------------------
(* The holes in a suite that does what it may: they are live where a jump  *)
(* may lead to them, and there is a Cleanup only in a suite that has one.  *)
Behind == pc = Cleanup \/ \E k \in 1..N : pc \in {Case(k), After(k), Body(k), Loop(k)}
HolesInv ==
  /\ pc # Lost
  /\ shape.cleanup /\ Behind => cleanup_hole = "live"
  /\ ~shape.cleanup => cleanup_hole = "unset"
  /\ \A k \in 1..N : pc = Body(k) => fail_hole[k] = "live"
  /\ \A k \in 1..N : pc = Loop(k) => ptr = run
  /\ pc = Cleanup => ptr = 0 /\ shape.cleanup
  /\ pc = Return => ptr = 0

(* How often the block of the case under test has run: not before the      *)
(* pointer lets it.                                                        *)
BodyInv ==
  /\ \A k \in 1..N : k # run => times[Body(k)] = 0
  /\ run # 0 =>
       /\ times[Body(run)] <= 1
       /\ pc \in {Before, Point} \/ (ptr = run /\ \E k \in 1..N : pc \in {Case(k), After(k), Body(k)})
            => times[Body(run)] = 0

(* How often the Cleanup has run: when the block has been left.            *)
Ahead == pc \in {Before, Point, Cleanup} \/ (ptr # 0 /\ Behind)
CleanupInv ==
  times[Cleanup] = IF shape.cleanup /\ run # 0 /\ ~Ahead THEN 1 ELSE 0

(* How often the code behind a case has run, from the case under test on:  *)
(* when control has come by on the way on which the function returns.      *)
Reached(k) ==
  pc = Return \/ \E j \in 1..N : j > k /\ pc \in {Case(j), After(j)}
AfterInv ==
  \A k \in 1..N : k >= run =>
    /\ times[After(k)] <= 1
    /\ pc \notin {Idle, Caught} => times[After(k)] = (IF Reached(k) THEN 1 ELSE 0)

PromisedInv == shape \in Promised => HolesInv /\ BodyInv /\ CleanupInv /\ AfterInv

FlowInv == CaseFlowTypeOK /\ WayInv /\ WrongInv /\ PromisedInv
---------------------------------------------------------------------------
(* The places of the function are told apart by their names and numbers.   *)
LEMMA PlaceFacts ==
  /\ Before \in Section /\ Cleanup \in Section
  /\ \A k \in 1..N : Body(k) \in Section /\ After(k) \in Section
  /\ \A s \in Section : s = Before \/ s = Cleanup \/ \E k \in 1..N : s = Body(k) \/ s = After(k)
BY DEF Before, Cleanup, Body, After, Section

LEMMA PlacesAreInPlace ==
  /\ Section \subseteq Place
  /\ {Before, Point, Cleanup, Return, Caught, Idle, Lost} \subseteq Place
  /\ \A k \in 1..N : {Case(k), Loop(k), Body(k), After(k)} \subseteq Place
BY DEF Before, Point, Cleanup, Return, Caught, Idle, Lost, Case, Loop, Body, After, Section, Place

LEMMA NextOfSections ==
  /\ NextOf(Before) = Point
  /\ NextOf(Cleanup) = Block(1)
  /\ \A k \in 1..N : NextOf(Body(k)) = Loop(k) /\ NextOf(After(k)) = Block(k + 1)
BY DEF NextOf, Before, Point, Cleanup, Body, After, Loop

LEMMA BlockIsCaseOrReturn ==
  ASSUME NEW k \in 1..(N + 1)
  PROVE  \/ k \in 1..N /\ Block(k) = Case(k)
         \/ k = N + 1 /\ Block(k) = Return
BY CaseFlowAssumption DEF Block, Case

LEMMA NextOfInPlace == \A s \in Section : NextOf(s) \in Place
<1>1. TAKE s \in Section
<1>2. N \in Nat \ {0}
  BY CaseFlowAssumption
<1>3. CASE s = Before
  BY <1>3, NextOfSections, PlacesAreInPlace
<1>4. CASE s = Cleanup
  BY <1>2, <1>4, NextOfSections, PlacesAreInPlace, BlockIsCaseOrReturn, 1 \in 1..(N + 1)
<1>5. ASSUME NEW k \in 1..N, s = Body(k) PROVE NextOf(s) \in Place
  BY <1>5, NextOfSections, PlacesAreInPlace
<1>6. ASSUME NEW k \in 1..N, s = After(k) PROVE NextOf(s) \in Place
  BY <1>2, <1>6, NextOfSections, PlacesAreInPlace, BlockIsCaseOrReturn, k + 1 \in 1..(N + 1)
<1>7. QED
  BY <1>3, <1>4, <1>5, <1>6, PlaceFacts

---------------------------------------------------------------------------
LEMMA InitType == CaseFlowInit => CaseFlowTypeOK
<1>1. SUFFICES ASSUME CaseFlowInit PROVE CaseFlowTypeOK
  OBVIOUS
<1>2. 0 \in 0..MaxTest /\ 0 \in 0..N
  BY CaseFlowAssumption
<1>3. fail_hole \in [1..N -> Hole] /\ times \in [Section -> 0..2]
  BY <1>1 DEF CaseFlowInit, Hole
<1>4. QED
  BY <1>1, <1>2, <1>3, PlacesAreInPlace DEF CaseFlowInit, CaseFlowTypeOK, Hole

LEMMA RanType ==
  ASSUME CaseFlowTypeOK, NEW s \in Section, Ran(s)
  PROVE  times' \in [Section -> 0..2]
BY DEF CaseFlowTypeOK, Ran

LEMMA StepType == CaseFlowTypeOK /\ [CaseFlowNext]_flowVars => CaseFlowTypeOK'
<1> SUFFICES ASSUME CaseFlowTypeOK, [CaseFlowNext]_flowVars PROVE CaseFlowTypeOK'
  OBVIOUS
<1> N \in Nat \ {0} /\ MaxTest \in Nat
  BY CaseFlowAssumption
<1> USE DEF CaseFlowTypeOK, Hole
<1>1. ASSUME NEW c \in 1..N, Test(c) PROVE CaseFlowTypeOK'
  <2>1. tests' \in 0..MaxTest
    BY <1>1 DEF Test
  <2>2. times' \in [Section -> 0..2]
    BY <1>1 DEF Test
  <2>3. run' \in 0..N /\ ptr' \in 0..N /\ pc' \in Place
    BY <1>1, PlacesAreInPlace DEF Test
  <2>4. QED
    BY <1>1, <2>1, <2>2, <2>3 DEF Test
<1>2. CASE Succeed
  BY <1>2, RanType, NextOfInPlace DEF Succeed
<1>3. CASE AssertFails
  <2>1. times' \in [Section -> 0..2]
    BY <1>3, RanType DEF AssertFails
  <2>2. pc' \in Place /\ ptr' \in 0..N
    BY <1>3, NextOfInPlace, PlacesAreInPlace DEF AssertFails
  <2>3. QED
    BY <1>3, <2>1, <2>2 DEF AssertFails
<1>4. CASE Throw
  <2>1. times' \in [Section -> 0..2]
    BY <1>4, RanType DEF Throw
  <2>2. pc' \in Place
    BY <1>4, PlacesAreInPlace DEF Throw, ToCleanup
  <2>3. QED
    BY <1>4, <2>1, <2>2 DEF Throw
<1>5. CASE SetPoint
  <2>1. pc' \in Place
    BY <1>5, PlacesAreInPlace, BlockIsCaseOrReturn, 1 \in 1..(N + 1) DEF SetPoint
  <2>2. QED
    BY <1>5, <2>1 DEF SetPoint
<1>6. CASE Finish
  BY <1>6, PlacesAreInPlace DEF Finish
<1>7. ASSUME NEW k \in 1..N, Enter(k) PROVE CaseFlowTypeOK'
  BY <1>7, PlacesAreInPlace DEF Enter
<1>8. ASSUME NEW k \in 1..N, Leave(k) \/ LeaveCases(k) PROVE CaseFlowTypeOK'
  BY <1>8, PlacesAreInPlace DEF Leave, LeaveCases, ToCleanup
<1>9. CASE UNCHANGED flowVars
  BY <1>9 DEF flowVars
<1>10. QED
  BY <1>1, <1>2, <1>3, <1>4, <1>5, <1>6, <1>7, <1>8, <1>9 DEF CaseFlowNext, FlowStep

(* The state of a suite function keeps its types. *)
THEOREM FlowTypeCorrect == CaseFlowSpec => []CaseFlowTypeOK
BY InitType, StepType, PTL DEF CaseFlowSpec

---------------------------------------------------------------------------
LEMMA Apart ==
  /\ \A p, q \in {Before, Point, Cleanup, Return, Caught, Idle, Lost} : \A k \in 1..N :
       p # Case(k) /\ p # Body(k) /\ p # Loop(k) /\ p # After(k)
  /\ \A k, j \in 1..N :
       /\ Case(k) = Case(j) => k = j
       /\ Body(k) = Body(j) => k = j
       /\ Loop(k) = Loop(j) => k = j
       /\ After(k) = After(j) => k = j
       /\ Case(k) \notin {Body(j), Loop(j), After(j)}
       /\ Body(k) \notin {Case(j), Loop(j), After(j)}
       /\ Loop(k) \notin {Case(j), Body(j), After(j)}
       /\ After(k) \notin {Case(j), Body(j), Loop(j)}
BY DEF Before, Point, Cleanup, Return, Caught, Idle, Lost, Case, Body, Loop, After

LEMMA PlacesDiffer ==
  /\ Before \notin {Point, Cleanup, Return, Caught, Idle, Lost}
  /\ Point \notin {Cleanup, Return, Caught, Idle, Lost}
  /\ Cleanup \notin {Return, Caught, Idle, Lost}
  /\ Return \notin {Caught, Idle, Lost}
  /\ Caught \notin {Idle, Lost}
  /\ Idle # Lost
BY DEF Before, Point, Cleanup, Return, Caught, Idle, Lost

LEMMA InitWay == CaseFlowInit => WayInv /\ WrongInv
BY Apart, PlacesDiffer, CaseFlowAssumption DEF CaseFlowInit, WayInv, WrongInv

(* Control goes on behind a section. *)
LEMMA GoOnWay ==
  ASSUME CaseFlowTypeOK, WayInv, pc \in Section, pc' = NextOf(pc), UNCHANGED <<run, ptr>>
  PROVE  WayInv'
<1> N \in Nat \ {0} /\ ptr \in 0..N /\ run \in 0..N
  BY CaseFlowAssumption DEF CaseFlowTypeOK
<1>1. CASE pc = Before
  BY <1>1, Apart, PlacesDiffer, NextOfSections DEF WayInv
<1>2. CASE pc = Cleanup
  <2>1. pc' = Case(1)
    BY <1>2, NextOfSections, BlockIsCaseOrReturn, 1 \in 1..(N + 1)
  <2>2. QED
    BY <1>2, <2>1, Apart, PlacesDiffer DEF WayInv
<1>3. ASSUME NEW k \in 1..N, pc = Body(k) PROVE WayInv'
  BY <1>3, Apart, PlacesDiffer, NextOfSections DEF WayInv
<1>4. ASSUME NEW k \in 1..N, pc = After(k) PROVE WayInv'
  <2>1. \/ k + 1 \in 1..N /\ pc' = Case(k + 1)
        \/ pc' = Return
    BY <1>4, NextOfSections, BlockIsCaseOrReturn, k + 1 \in 1..(N + 1)
  <2>2. QED
    BY <1>4, <2>1, Apart, PlacesDiffer DEF WayInv
<1>5. QED
  BY <1>1, <1>2, <1>3, <1>4, PlaceFacts

(* Behind the Cleanup's setjmp, and behind Cleanup, the cases begin.       *)
LEMMA FirstBlock ==
  Block(1) = Case(1) /\ 1 \in 1..N
BY CaseFlowAssumption, BlockIsCaseOrReturn, 1 \in 1..(N + 1)

(* A section that runs goes on, leaves for the end of its case's loops, or *)
(* for the Cleanup, or leaves the function.                                *)
LEMMA FailWay ==
  ASSUME CaseFlowTypeOK, WayInv, AssertFails
  PROVE  WayInv'
<1>1. CASE pc' = NextOf(pc) /\ UNCHANGED ptr
  BY <1>1, GoOnWay DEF AssertFails
<1>2. CASE run # 0 /\ pc' = Loop(run) /\ ptr' \in {0, run, ptr}
  <2>1. run \in 1..N /\ run' = run /\ ptr' \in {0, run}
    BY <1>2, CaseFlowAssumption DEF CaseFlowTypeOK, AssertFails, WayInv
  <2>2. QED
    BY <1>2, <2>1, Apart, PlacesDiffer DEF WayInv
<1>3. CASE pc' = Lost /\ UNCHANGED ptr
  BY <1>3, Apart, PlacesDiffer DEF WayInv, AssertFails
<1>4. QED
  BY <1>1, <1>2, <1>3 DEF AssertFails

LEMMA ThrowWay ==
  ASSUME CaseFlowTypeOK, WayInv, Throw
  PROVE  WayInv'
<1>1. CASE pc' = Cleanup /\ pc[1] = "body"
  <2>1. PICK k \in 1..N : pc = Body(k)
    BY <1>1, PlaceFacts DEF Throw, Before, Cleanup, After
  <2>2. run # 0
    BY <2>1 DEF WayInv
  <2>3. QED
    BY <1>1, <2>2, Apart, PlacesDiffer DEF WayInv, Throw
<1>2. CASE pc' \in {Lost, Caught}
  BY <1>2, Apart, PlacesDiffer DEF WayInv, Throw
<1>3. QED
  BY <1>1, <1>2 DEF Throw, ToCleanup

LEMMA StepWay == CaseFlowTypeOK /\ WayInv /\ [CaseFlowNext]_flowVars => WayInv'
<1> SUFFICES ASSUME CaseFlowTypeOK, WayInv, [CaseFlowNext]_flowVars PROVE WayInv'
  OBVIOUS
<1> N \in Nat \ {0} /\ ptr \in 0..N /\ run \in 0..N
  BY CaseFlowAssumption DEF CaseFlowTypeOK
<1>1. ASSUME NEW c \in 1..N, Test(c) PROVE WayInv'
  BY <1>1, Apart, PlacesDiffer DEF WayInv, Test
<1>2. CASE Succeed
  BY <1>2, GoOnWay DEF Succeed
<1>3. CASE AssertFails
  BY <1>3, FailWay
<1>4. CASE Throw
  BY <1>4, ThrowWay
<1>5. CASE SetPoint
  <2>1. pc' = Case(1) /\ ptr' = run' /\ run' = run
    BY <1>5, FirstBlock DEF SetPoint, WayInv, Point
  <2>2. QED
    BY <2>1, FirstBlock, Apart, PlacesDiffer DEF WayInv
<1>6. CASE Finish
  BY <1>6, Apart, PlacesDiffer DEF WayInv, Finish
<1>7. ASSUME NEW k \in 1..N, Enter(k) PROVE WayInv'
  <2>1. CASE ptr = k
    BY <1>7, <2>1, Apart, PlacesDiffer DEF WayInv, Enter
  <2>2. CASE ptr # k
    BY <1>7, <2>2, Apart, PlacesDiffer DEF WayInv, Enter, Case
  <2>3. QED
    BY <2>1, <2>2
<1>8. ASSUME NEW k \in 1..N, Leave(k) \/ LeaveCases(k) PROVE WayInv'
  BY <1>8, Apart, PlacesDiffer DEF WayInv, Leave, LeaveCases, ToCleanup
<1>9. CASE UNCHANGED flowVars
  BY <1>9 DEF flowVars, WayInv
<1>10. QED
  BY <1>1, <1>2, <1>3, <1>4, <1>5, <1>6, <1>7, <1>8, <1>9 DEF CaseFlowNext, FlowStep

---------------------------------------------------------------------------
(* The case pointer leads on from what is before the case under test.      *)
LEMMA SucceedWrong ==
  ASSUME CaseFlowTypeOK, WayInv, WrongInv, Succeed
  PROVE  WrongInv'
<1> SUFFICES ASSUME wrong, ~failed PROVE Thrown'
  BY DEF WrongInv, Succeed
<1> N \in Nat \ {0} /\ ptr \in 0..N /\ run \in 0..N
  BY CaseFlowAssumption DEF CaseFlowTypeOK
<1>1. /\ ptr = run /\ run # 0 /\ shape.does[Body(run)] = "throw"
      /\ pc = Cleanup \/ \E k \in 1..N : pc \in {Case(k), After(k), Body(k)}
  BY PlaceFacts, Apart, PlacesDiffer DEF WrongInv, Thrown, Succeed
<1>2. CASE pc = Cleanup
  BY <1>1, <1>2, FirstBlock, NextOfSections DEF Succeed, Thrown
<1>3. ASSUME NEW k \in 1..N, pc = After(k) PROVE Thrown'
  <2>1. k + 1 \in 1..N
    BY <1>1, <1>3 DEF WayInv
  <2>2. pc' = Case(k + 1)
    BY <1>3, <2>1, NextOfSections, BlockIsCaseOrReturn DEF Succeed
  <2>3. QED
    BY <1>1, <2>1, <2>2 DEF Succeed, Thrown
<1>4. ASSUME NEW k \in 1..N, pc = Body(k) PROVE FALSE
  BY <1>1, <1>4 DEF WayInv, Succeed
<1>5. ASSUME NEW k \in 1..N, pc = Case(k) PROVE FALSE
  BY <1>5, PlaceFacts, Apart, PlacesDiffer DEF Succeed
<1>6. QED
  BY <1>1, <1>2, <1>3, <1>4, <1>5

(* What is thrown is caught, or was thrown by the case under test and led  *)
(* to the Cleanup.                                                         *)
LEMMA ThrowWrong ==
  ASSUME CaseFlowTypeOK, WayInv, Throw
  PROVE  Thrown'
<1>1. CASE pc' = Cleanup /\ pc[1] = "body"
  <2>1. PICK k \in 1..N : pc = Body(k)
    BY <1>1, PlaceFacts DEF Throw, Before, Cleanup, After
  <2>2. k = run /\ ptr = run /\ run # 0
    BY <2>1 DEF WayInv
  <2>3. QED
    BY <1>1, <2>1, <2>2 DEF Throw, Thrown
<1>2. CASE pc' \in {Lost, Caught}
  BY <1>2 DEF Thrown
<1>3. QED
  BY <1>1, <1>2 DEF Throw, ToCleanup

LEMMA StepWrong == CaseFlowTypeOK /\ WayInv /\ WrongInv /\ [CaseFlowNext]_flowVars => WrongInv'
<1> SUFFICES ASSUME CaseFlowTypeOK, WayInv, WrongInv, [CaseFlowNext]_flowVars PROVE WrongInv'
  OBVIOUS
<1>1. ASSUME NEW c \in 1..N, Test(c) PROVE WrongInv'
  BY <1>1 DEF WrongInv, Test
<1>2. CASE Succeed
  BY <1>2, SucceedWrong
<1>3. CASE AssertFails
  BY <1>3 DEF AssertFails, WrongInv
<1>4. CASE Throw
  BY <1>4, ThrowWrong DEF WrongInv
<1>5. CASE SetPoint
  <2>1. pc = Point
    BY <1>5 DEF SetPoint, Point
  <2>2. ~Thrown
    BY <2>1, Apart, PlacesDiffer DEF Thrown
  <2>3. QED
    BY <1>5, <2>2 DEF WrongInv, SetPoint
<1>6. CASE Finish
  <2>1. pc = Caught \/ ~Thrown
    BY <1>6, Apart, PlacesDiffer DEF Thrown, Finish
  <2>2. QED
    BY <1>6, <2>1 DEF WrongInv, Finish
<1>7. ASSUME NEW k \in 1..N, Enter(k) PROVE WrongInv'
  <2>1. pc = Case(k) /\ pc' \in {Body(k), After(k)}
    BY <1>7 DEF Enter, Case
  <2>2. Thrown => Thrown'
    BY <1>7, <2>1, Apart, PlacesDiffer DEF Thrown, Enter
  <2>3. QED
    BY <1>7, <2>2 DEF WrongInv, Enter
<1>8. ASSUME NEW k \in 1..N, Leave(k) \/ LeaveCases(k) PROVE WrongInv'
  <2>1. ~Thrown
    BY <1>8, Apart, PlacesDiffer DEF Thrown, Leave, LeaveCases
  <2>2. QED
    BY <1>8, <2>1 DEF WrongInv, Leave, LeaveCases
<1>9. CASE UNCHANGED flowVars
  BY <1>9 DEF flowVars, WrongInv, Thrown
<1>10. QED
  BY <1>1, <1>2, <1>3, <1>4, <1>5, <1>6, <1>7, <1>8, <1>9 DEF CaseFlowNext, FlowStep

(* A test in which an assertion failed or an exception escaped is failed   *)
(* when it ends, whatever the sections do and wherever control goes.       *)
THEOREM WrongIsAlwaysFailed == CaseFlowSpec => []WrongIsFailed
<1>1. CaseFlowInit => CaseFlowTypeOK /\ WayInv /\ WrongInv
  BY InitType, InitWay
<1>2. (CaseFlowTypeOK /\ WayInv /\ WrongInv) /\ [CaseFlowNext]_flowVars
        => (CaseFlowTypeOK /\ WayInv /\ WrongInv)'
  BY StepType, StepWay, StepWrong
<1>3. CaseFlowTypeOK /\ WayInv /\ WrongInv => WrongIsFailed
  BY Apart, PlacesDiffer DEF WrongInv, WrongIsFailed, Thrown
<1>4. QED
  BY <1>1, <1>2, <1>3, PTL DEF CaseFlowSpec

---------------------------------------------------------------------------
LEMMA InitPromised == CaseFlowInit => PromisedInv
<1> SUFFICES ASSUME CaseFlowInit PROVE HolesInv /\ BodyInv /\ CleanupInv /\ AfterInv
  BY DEF PromisedInv
<1> USE CaseFlowAssumption, PlaceFacts, Apart, PlacesDiffer DEF CaseFlowInit
<1>1. HolesInv
  BY DEF HolesInv, Behind
<1>2. BodyInv
  BY DEF BodyInv
<1>3. CleanupInv
  BY DEF CleanupInv, Ahead
<1>4. AfterInv
  BY DEF AfterInv, Reached
<1>5. QED
  BY <1>1, <1>2, <1>3, <1>4

(* What a suite of which something is promised may do. *)
LEMMA PromisedFacts ==
  ASSUME shape \in Promised
  PROVE  /\ ~shape.optimised /\ (shape.cleanup => shape.cases = {})
         /\ \A s \in Section :
              /\ shape.does[s] = "fail" => shape.continue \/ \E k \in 1..N : s = Body(k)
              /\ shape.does[s] = "throw" =>
                   s = Cleanup \/ (~shape.cleanup /\ \E k \in 1..N : s = Body(k))
BY PlaceFacts DEF Promised, Before, Cleanup, Body, After

LEMMA RanTimes ==
  ASSUME CaseFlowTypeOK, NEW p \in Section, Ran(p)
  PROVE  /\ times[p] = 0 => times'[p] = 1
         /\ \A s \in Section : s # p => times'[s] = times[s]
BY DEF CaseFlowTypeOK, Ran

(* What a section that control leaves for the next place does to the       *)
(* parts of the invariant.                                                 *)
GoesOn ==
  /\ CaseFlowTypeOK /\ WayInv
  /\ HolesInv /\ BodyInv /\ CleanupInv /\ AfterInv
  /\ pc \in Section /\ Ran(pc) /\ pc' = NextOf(pc)
  /\ UNCHANGED <<shape, run, ptr, fail_hole, cleanup_hole>>

LEMMA GoesOnTo ==
  ASSUME GoesOn
  PROVE  \/ pc = Before /\ pc' = Point
         \/ pc = Cleanup /\ pc' = Case(1) /\ 1 \in 1..N /\ ptr = 0 /\ run # 0 /\ shape.cleanup
         \/ \E k \in 1..N : pc = Body(k) /\ pc' = Loop(k) /\ k = run /\ k = ptr
         \/ \E k \in 1..N : /\ pc = After(k) /\ (ptr = 0 \/ k < ptr)
                            /\ \/ k + 1 \in 1..N /\ pc' = Case(k + 1)
                               \/ k = N /\ pc' = Return /\ ptr = 0
<1> N \in Nat \ {0} /\ ptr \in 0..N
  BY CaseFlowAssumption DEF GoesOn, CaseFlowTypeOK
<1>1. CASE pc = Before
  BY <1>1, NextOfSections DEF GoesOn
<1>2. CASE pc = Cleanup
  BY <1>2, NextOfSections, FirstBlock DEF GoesOn, HolesInv, WayInv
<1>3. ASSUME NEW k \in 1..N, pc = Body(k) PROVE pc' = Loop(k) /\ k = run /\ k = ptr
  BY <1>3, NextOfSections DEF GoesOn, WayInv
<1>4. ASSUME NEW k \in 1..N, pc = After(k)
      PROVE  /\ ptr = 0 \/ k < ptr
             /\ \/ k + 1 \in 1..N /\ pc' = Case(k + 1)
                \/ k = N /\ pc' = Return /\ ptr = 0
  <2>1. ptr = 0 \/ k < ptr
    BY <1>4 DEF GoesOn, WayInv
  <2>2. pc' = Block(k + 1)
    BY <1>4, NextOfSections DEF GoesOn
  <2>3. QED
    BY <2>1, <2>2, BlockIsCaseOrReturn, k + 1 \in 1..(N + 1)
<1>5. QED
  BY <1>1, <1>2, <1>3, <1>4, PlaceFacts DEF GoesOn

LEMMA GoesOnHoles == ASSUME GoesOn PROVE HolesInv'
BY GoesOnTo, Apart, PlacesDiffer DEF GoesOn, HolesInv, Behind

LEMMA GoesOnBody == ASSUME GoesOn PROVE BodyInv'
<1> run \in 0..N /\ N \in Nat
  BY CaseFlowAssumption DEF GoesOn, CaseFlowTypeOK
<1>1. \A s \in Section : s # pc => times'[s] = times[s]
  BY RanTimes DEF GoesOn
<1>2. CASE pc = Before /\ pc' = Point
  BY <1>1, <1>2, PlaceFacts, Apart, PlacesDiffer DEF GoesOn, BodyInv
<1>3. CASE pc = Cleanup /\ pc' = Case(1) /\ 1 \in 1..N /\ ptr = 0 /\ run # 0
  BY <1>1, <1>3, PlaceFacts, Apart, PlacesDiffer DEF GoesOn, BodyInv
<1>4. ASSUME NEW k \in 1..N, pc = Body(k), pc' = Loop(k), k = run, k = ptr PROVE BodyInv'
  <2>1. times[Body(k)] = 0
    BY <1>4 DEF GoesOn, BodyInv
  <2>2. times'[Body(k)] = 1
    BY <1>4, <2>1, RanTimes DEF GoesOn
  <2>3. QED
    BY <1>1, <1>4, <2>2, PlaceFacts, Apart, PlacesDiffer DEF GoesOn, BodyInv
<1>5. ASSUME NEW k \in 1..N, pc = After(k), pc' = Return \/ (k + 1 \in 1..N /\ pc' = Case(k + 1))
      PROVE  BodyInv'
  BY <1>1, <1>5, PlaceFacts, Apart, PlacesDiffer DEF GoesOn, BodyInv
<1>6. QED
  BY <1>2, <1>3, <1>4, <1>5, GoesOnTo

LEMMA GoesOnCleanup == ASSUME GoesOn PROVE CleanupInv'
<1>1. \A s \in Section : s # pc => times'[s] = times[s]
  BY RanTimes DEF GoesOn
<1>2. CASE pc = Cleanup
  <2>1. pc' = Case(1) /\ 1 \in 1..N /\ ptr = 0 /\ run # 0 /\ shape.cleanup
    BY <1>2, GoesOnTo, Apart, PlacesDiffer
  <2>2. times'[Cleanup] = 1
    BY <1>2, <2>1, RanTimes DEF GoesOn, CleanupInv, Ahead
  <2>3. ~Ahead'
    BY <2>1, Apart, PlacesDiffer DEF GoesOn, Ahead
  <2>4. QED
    BY <2>1, <2>2, <2>3 DEF GoesOn, CleanupInv
<1>3. CASE pc # Cleanup
  <2>1. times'[Cleanup] = times[Cleanup]
    BY <1>1, <1>3, PlaceFacts
  <2>2. \/ pc' = Point /\ pc = Before
        \/ pc' = Return /\ ptr = 0 /\ Behind
        \/ Behind' /\ Behind
    BY <1>3, GoesOnTo DEF Behind
  <2>3. Ahead <=> Ahead'
    BY <1>3, <2>2, GoesOnTo, Apart, PlacesDiffer DEF GoesOn, Ahead
  <2>4. QED
    BY <2>1, <2>3 DEF GoesOn, CleanupInv
<1>4. QED
  BY <1>2, <1>3

LEMMA GoesOnAfter == ASSUME GoesOn PROVE AfterInv'
<1> run \in 0..N /\ N \in Nat
  BY CaseFlowAssumption DEF GoesOn, CaseFlowTypeOK
<1> SUFFICES ASSUME NEW k \in 1..N, k >= run
             PROVE  times'[After(k)] = (IF Reached(k)' THEN 1 ELSE 0)
  BY DEF AfterInv, GoesOn
<1>1. \A s \in Section : s # pc => times'[s] = times[s]
  BY RanTimes DEF GoesOn
<1>2. times[After(k)] = (IF Reached(k) THEN 1 ELSE 0)
  BY PlaceFacts, Apart, PlacesDiffer DEF GoesOn, AfterInv
<1>3. CASE pc = After(k)
  <2>1. ~Reached(k)
    BY <1>3, Apart, PlacesDiffer DEF Reached
  <2>2. times'[After(k)] = 1
    BY <1>2, <1>3, <2>1, RanTimes DEF GoesOn
  <2>3. Reached(k)'
    BY <1>3, GoesOnTo, Apart, PlacesDiffer DEF Reached
  <2>4. QED
    BY <2>2, <2>3
<1>4. CASE pc # After(k)
  <2>1. times'[After(k)] = times[After(k)]
    BY <1>1, <1>4, PlaceFacts
  <2>2. Reached(k) <=> Reached(k)'
    BY <1>4, GoesOnTo, Apart, PlacesDiffer DEF Reached
  <2>3. QED
    BY <1>2, <2>1, <2>2
<1>5. QED
  BY <1>3, <1>4

(* In such a suite an assertion that fails leads where success would.      *)
LEMMA FailGoesOn ==
  ASSUME CaseFlowTypeOK, WayInv, shape \in Promised, HolesInv, AssertFails
  PROVE  pc' = NextOf(pc) /\ UNCHANGED ptr
<1>1. CASE run = 0 \/ shape.continue
  BY <1>1 DEF AssertFails
<1>2. CASE ~(run = 0 \/ shape.continue)
  <2>1. PICK k \in 1..N : pc = Body(k)
    BY <1>2, PromisedFacts DEF AssertFails
  <2>2. k = run /\ fail_hole[run] = "live" /\ NextOf(pc) = Loop(run)
    BY <2>1, NextOfSections DEF WayInv, HolesInv
  <2>3. QED
    BY <1>2, <2>2 DEF AssertFails
<1>3. QED
  BY <1>1, <1>2

(* And an exception reaches the catch of h2_suite::test.                   *)
LEMMA ThrowIsCaught ==
  ASSUME CaseFlowTypeOK, WayInv, shape \in Promised, HolesInv, Throw
  PROVE  /\ pc' = Caught /\ run # 0
         /\ pc = Cleanup \/ (~shape.cleanup /\ pc = Body(run))
<1>1. pc = Cleanup \/ (~shape.cleanup /\ \E k \in 1..N : pc = Body(k))
  BY PromisedFacts DEF Throw
<1>2. run # 0 /\ (pc = Cleanup \/ (~shape.cleanup /\ pc = Body(run)))
  BY <1>1 DEF WayInv
<1>3. pc[1] = "body" => cleanup_hole = "unset"
  BY <1>2 DEF HolesInv, Cleanup
<1>4. pc' = Caught
  BY <1>2, <1>3 DEF Throw
<1>5. QED
  BY <1>2, <1>4

Ways == HolesInv /\ BodyInv /\ CleanupInv /\ AfterInv

LEMMA ThrowWays ==
  ASSUME CaseFlowTypeOK, WayInv, shape \in Promised, Ways, Throw
  PROVE  Ways'
<1> run \in 0..N /\ N \in Nat
  BY CaseFlowAssumption DEF CaseFlowTypeOK
<1>1. /\ pc' = Caught /\ run # 0
      /\ pc = Cleanup \/ (~shape.cleanup /\ pc = Body(run))
  BY ThrowIsCaught DEF Ways
<1>2. \A s \in Section : s # pc => times'[s] = times[s]
  BY RanTimes DEF Throw
<1>3. times[pc] = 0 => times'[pc] = 1
  BY RanTimes DEF Throw
<1>4. HolesInv'
  BY <1>1, Apart, PlacesDiffer DEF Ways, HolesInv, Behind, Throw
<1>5. BodyInv'
  <2>1. \A k \in 1..N : k # run => times'[Body(k)] = 0
    BY <1>1, <1>2, PlaceFacts, Apart DEF Ways, BodyInv
  <2>2. times'[Body(run)] <= 1
    <3>1. CASE pc = Cleanup
      BY <1>1, <1>2, <3>1, PlaceFacts, Apart DEF Ways, BodyInv
    <3>2. CASE pc = Body(run)
      BY <1>1, <1>3, <3>2 DEF Ways, BodyInv, WayInv
    <3>3. QED
      BY <1>1, <3>1, <3>2
  <2>3. QED
    BY <1>1, <2>1, <2>2, Apart, PlacesDiffer DEF BodyInv, Throw
<1>6. CleanupInv'
  <2>1. ~Ahead'
    BY <1>1, Apart, PlacesDiffer DEF Ahead, Behind
  <2>2. CASE pc = Cleanup
    BY <1>1, <1>3, <2>1, <2>2 DEF Ways, HolesInv, CleanupInv, Ahead, Throw
  <2>3. CASE ~shape.cleanup /\ pc = Body(run)
    BY <1>1, <1>2, <2>3, PlaceFacts, Apart DEF Ways, CleanupInv, Throw
  <2>4. QED
    BY <1>1, <2>2, <2>3
<1>7. AfterInv'
  <2>1. \A k \in 1..N : times'[After(k)] = times[After(k)]
    BY <1>1, <1>2, PlaceFacts, Apart
  <2>2. QED
    BY <1>1, <2>1 DEF Ways, AfterInv, Throw
<1>8. QED
  BY <1>4, <1>5, <1>6, <1>7 DEF Ways

LEMMA SetPointWays ==
  ASSUME CaseFlowTypeOK, WayInv, Ways, SetPoint
  PROVE  Ways'
<1> run \in 0..N /\ N \in Nat
  BY CaseFlowAssumption DEF CaseFlowTypeOK
<1>1. pc = Point /\ pc' = Case(1) /\ 1 \in 1..N /\ ptr = run
  BY FirstBlock DEF SetPoint, Point, WayInv
<1>2. HolesInv'
  BY <1>1, Apart, PlacesDiffer DEF Ways, HolesInv, SetPoint
<1>3. BodyInv'
  BY <1>1, Apart, PlacesDiffer DEF Ways, BodyInv, SetPoint
<1>4. Ahead /\ (run # 0 => Ahead')
  BY <1>1 DEF Ahead, Behind, SetPoint
<1>5. CleanupInv'
  BY <1>4 DEF Ways, CleanupInv, SetPoint
<1>6. \A k \in 1..N : ~Reached(k) /\ ~Reached(k)'
  BY <1>1, Apart, PlacesDiffer DEF Reached
<1>7. AfterInv'
  BY <1>1, <1>6, Apart, PlacesDiffer DEF Ways, AfterInv, SetPoint
<1>8. QED
  BY <1>2, <1>3, <1>5, <1>7 DEF Ways

LEMMA FinishWays ==
  ASSUME CaseFlowTypeOK, WayInv, Ways, Finish
  PROVE  Ways'
<1> run \in 0..N /\ N \in Nat
  BY CaseFlowAssumption DEF CaseFlowTypeOK
<1>1. pc \in {Return, Caught} /\ pc' = Idle
  BY DEF Finish
<1>2. HolesInv'
  BY <1>1, Apart, PlacesDiffer DEF Ways, HolesInv, Behind, Finish
<1>3. BodyInv'
  BY <1>1, Apart, PlacesDiffer DEF Ways, BodyInv, Finish
<1>4. ~Ahead /\ ~Ahead'
  BY <1>1, Apart, PlacesDiffer DEF Ahead, Behind, Finish
<1>5. CleanupInv'
  BY <1>4 DEF Ways, CleanupInv, Finish
<1>6. AfterInv'
  BY <1>1 DEF Ways, AfterInv, Finish
<1>7. QED
  BY <1>2, <1>3, <1>5, <1>6 DEF Ways

LEMMA EnterWays ==
  ASSUME CaseFlowTypeOK, WayInv, Ways, NEW k \in 1..N, Enter(k)
  PROVE  Ways'
<1> run \in 0..N /\ ptr \in 0..N /\ N \in Nat
  BY CaseFlowAssumption DEF CaseFlowTypeOK
<1>1. pc = Case(k) /\ ((pc' = Body(k) /\ ptr = k /\ k = run) \/ (pc' = After(k) /\ ptr # k))
  BY DEF Enter, Case, WayInv
<1>2. HolesInv'
  BY <1>1, Apart, PlacesDiffer DEF Ways, HolesInv, Behind, Enter, CaseFlowTypeOK
<1>3. BodyInv'
  BY <1>1, Apart, PlacesDiffer DEF Ways, BodyInv, Enter
<1>4. Ahead <=> Ahead'
  BY <1>1, Apart, PlacesDiffer DEF Ahead, Behind, Enter
<1>5. CleanupInv'
  BY <1>4 DEF Ways, CleanupInv, Enter
<1>6. \A j \in 1..N : j >= run => (Reached(j) <=> Reached(j)')
  BY <1>1, Apart, PlacesDiffer DEF Reached
<1>7. AfterInv'
  BY <1>1, <1>6, Apart, PlacesDiffer DEF Ways, AfterInv, Enter
<1>8. QED
  BY <1>2, <1>3, <1>5, <1>7 DEF Ways

LEMMA LeaveWays ==
  ASSUME CaseFlowTypeOK, WayInv, shape \in Promised, Ways, NEW k \in 1..N, Leave(k) \/ LeaveCases(k)
  PROVE  Ways'
<1> run \in 0..N /\ ptr \in 0..N /\ N \in Nat
  BY CaseFlowAssumption DEF CaseFlowTypeOK
<1>1. pc = Loop(k) /\ k = run /\ ptr = run /\ Behind
  BY DEF Leave, LeaveCases, WayInv, Ways, HolesInv, Behind
<1>2. /\ ptr' = 0
      /\ ((pc' = After(k) /\ ~shape.cleanup) \/ (pc' = Cleanup /\ shape.cleanup))
  BY <1>1, PromisedFacts DEF Leave, LeaveCases, ToCleanup, Ways, HolesInv
<1>3. HolesInv'
  BY <1>1, <1>2, Apart, PlacesDiffer DEF Ways, HolesInv, Behind, Leave, LeaveCases
<1>4. BodyInv'
  BY <1>1, <1>2, Apart, PlacesDiffer DEF Ways, BodyInv, Leave, LeaveCases
<1>5. Ahead /\ (shape.cleanup => Ahead')
  BY <1>1, <1>2 DEF Ahead
<1>6. CleanupInv'
  BY <1>5 DEF Ways, CleanupInv, Leave, LeaveCases
<1>7. \A j \in 1..N : j >= run => ~Reached(j) /\ ~Reached(j)'
  BY <1>1, <1>2, Apart, PlacesDiffer DEF Reached
<1>8. AfterInv'
  BY <1>1, <1>2, <1>7, Apart, PlacesDiffer DEF Ways, AfterInv, Leave, LeaveCases
<1>9. QED
  BY <1>3, <1>4, <1>6, <1>8 DEF Ways

LEMMA StepPromised == CaseFlowTypeOK /\ WayInv /\ PromisedInv /\ [CaseFlowNext]_flowVars => PromisedInv'
<1> SUFFICES ASSUME CaseFlowTypeOK, WayInv, PromisedInv, [CaseFlowNext]_flowVars, shape' \in Promised
             PROVE  Ways'
  BY DEF PromisedInv, Ways
<1>0. shape \in Promised /\ Ways
  BY DEF CaseFlowNext, FlowStep, flowVars, Test, Succeed, AssertFails, Throw, SetPoint, Finish,
         Enter, Leave, LeaveCases, PromisedInv, Ways
<1>1. ASSUME NEW c \in 1..N, Test(c) PROVE Ways'
  <2> USE <1>1, PlaceFacts, Apart, PlacesDiffer DEF Test
  <2>1. HolesInv'
    BY <1>0 DEF Ways, HolesInv, Behind
  <2>2. BodyInv'
    BY DEF BodyInv
  <2>3. CleanupInv'
    BY DEF CleanupInv, Ahead
  <2>4. AfterInv'
    BY DEF AfterInv, Reached
  <2>5. QED
    BY <2>1, <2>2, <2>3, <2>4 DEF Ways
<1>2. CASE Succeed \/ AssertFails
  <2>1. GoesOn
    BY <1>0, <1>2, FailGoesOn DEF GoesOn, Ways, Succeed, AssertFails
  <2>2. QED
    BY <2>1, GoesOnHoles, GoesOnBody, GoesOnCleanup, GoesOnAfter DEF Ways
<1>3. CASE Throw
  BY <1>0, <1>3, ThrowWays
<1>4. CASE SetPoint
  BY <1>0, <1>4, SetPointWays
<1>5. CASE Finish
  BY <1>0, <1>5, FinishWays
<1>6. ASSUME NEW k \in 1..N, Enter(k) PROVE Ways'
  BY <1>0, <1>6, EnterWays
<1>7. ASSUME NEW k \in 1..N, Leave(k) \/ LeaveCases(k) PROVE Ways'
  BY <1>0, <1>7, LeaveWays
<1>8. CASE UNCHANGED flowVars
  <2> USE <1>0, <1>8 DEF flowVars, Ways
  <2>1. HolesInv'
    BY DEF HolesInv, Behind
  <2>2. BodyInv'
    BY DEF BodyInv
  <2>3. CleanupInv'
    BY DEF CleanupInv, Ahead, Behind
  <2>4. AfterInv'
    BY DEF AfterInv, Reached
  <2>5. QED
    BY <2>1, <2>2, <2>3, <2>4
<1>9. QED
  BY <1>1, <1>2, <1>3, <1>4, <1>5, <1>6, <1>7, <1>8 DEF CaseFlowNext, FlowStep

(* In every suite that does what it may, each section runs as often as is  *)
(* promised: the block of the case once and no other case's, the Cleanup   *)
(* once, the code behind the case once.                                    *)
THEOREM SectionsAlwaysOnce == CaseFlowSpec => []SectionsOnce
<1>1. CaseFlowInit => FlowInv
  BY InitType, InitWay, InitPromised DEF FlowInv
<1>2. FlowInv /\ [CaseFlowNext]_flowVars => FlowInv'
  BY StepType, StepWay, StepWrong, StepPromised DEF FlowInv
<1>3. FlowInv => SectionsOnce
  <2> SUFFICES ASSUME FlowInv, shape \in Promised PROVE SectionsOnce
    BY DEF SectionsOnce, BodyOnce, CleanupOnce, AfterOnce
  <2> run \in 0..N /\ N \in Nat
    BY CaseFlowAssumption DEF FlowInv, CaseFlowTypeOK
  <2>1. HolesInv /\ BodyInv /\ CleanupInv /\ AfterInv
    BY DEF FlowInv, PromisedInv
  <2>2. BodyOnce
    BY <2>1 DEF BodyOnce, BodyInv
  <2>3. CleanupOnce
    <3>1. pc = Idle => ~Ahead
      BY Apart, PlacesDiffer DEF Ahead, Behind
    <3>2. QED
      BY <2>1, <3>1 DEF CleanupOnce, CleanupInv
  <2>4. AfterOnce
    BY <2>1, Apart, PlacesDiffer DEF AfterOnce, AfterInv, Reached
  <2>5. QED
    BY <2>2, <2>3, <2>4 DEF SectionsOnce
<1>4. QED
  BY <1>1, <1>2, <1>3, PTL DEF CaseFlowSpec
---------------------------------------------------------------------------
(* How far a call has come in the text, and how many steps it has left at  *)
(* most: the way to Cleanup leads back over the text, but only with the    *)
(* pointer cleared, which happens once.                                    *)
Rank(p) ==
  CASE p[1] = "before"             -> 0
    [] p[1] = "point"              -> 1
    [] p[1] = "cleanup"            -> 2
    [] p[1] = "case"               -> 4 * p[2]
    [] p[1] = "body"               -> 4 * p[2] + 1
    [] p[1] = "loop"               -> 4 * p[2] + 2
    [] p[1] = "after"              -> 4 * p[2] + 3
    [] p[1] \in {"return", "caught"} -> 4 * N + 4
    [] OTHER                       -> 4 * N + 5
StepsLeft == (IF ptr = 0 THEN 0 ELSE 4 * N + 6) + (4 * N + 5) - Rank(pc)

StepsBounded == shape \in Promised => StepsLeft \in 0..(8 * N + 11)
StepsRunOut == shape \in Promised /\ FlowStep => StepsLeft' < StepsLeft

LEMMA Ranks ==
  /\ Rank(Before) = 0 /\ Rank(Point) = 1 /\ Rank(Cleanup) = 2
  /\ Rank(Return) = 4 * N + 4 /\ Rank(Caught) = 4 * N + 4
  /\ Rank(Idle) = 4 * N + 5 /\ Rank(Lost) = 4 * N + 5
  /\ \A k \in 1..N : /\ Rank(Case(k)) = 4 * k /\ Rank(Body(k)) = 4 * k + 1
                     /\ Rank(Loop(k)) = 4 * k + 2 /\ Rank(After(k)) = 4 * k + 3
BY DEF Rank, Before, Point, Cleanup, Return, Caught, Idle, Lost, Case, Body, Loop, After

LEMMA RankInRange == \A p \in Place : Rank(p) \in 0..(4 * N + 5)
<1> N \in Nat
  BY CaseFlowAssumption
<1>1. \A k \in 1..N : \A p \in {Case(k), Body(k), Loop(k), After(k)} : Rank(p) \in 0..(4 * N + 5)
  BY Ranks
<1>2. \A p \in {Before, Point, Cleanup, Return, Caught, Idle, Lost} : Rank(p) \in 0..(4 * N + 5)
  BY Ranks
<1>3. \A p \in Place : \/ p \in {Before, Point, Cleanup, Return, Caught, Idle, Lost}
                       \/ \E k \in 1..N : p \in {Case(k), Body(k), Loop(k), After(k)}
  BY DEF Place, Section, Before, Point, Cleanup, Return, Caught, Idle, Lost, Case, Body, Loop, After
<1>4. QED
  BY <1>1, <1>2, <1>3

(* A step that leads on in the text and leaves the pointer alone.          *)
LEMMA OnInTheText ==
  ASSUME CaseFlowTypeOK, CaseFlowTypeOK', ptr' = ptr, Rank(pc) < Rank(pc')
  PROVE  StepsLeft' < StepsLeft
<1> N \in Nat
  BY CaseFlowAssumption
<1>1. Rank(pc) \in Int /\ Rank(pc') \in Int
  BY RankInRange DEF CaseFlowTypeOK
<1>2. QED
  BY <1>1 DEF StepsLeft

LEMMA FlowStepsDown ==
  ASSUME FlowInv, CaseFlowTypeOK', FlowStep, shape \in Promised
  PROVE  StepsLeft' < StepsLeft
<1> N \in Nat \ {0} /\ run \in 0..N /\ ptr \in 0..N
  BY CaseFlowAssumption DEF FlowInv, CaseFlowTypeOK
<1>0. CaseFlowTypeOK /\ WayInv /\ Ways
  BY DEF FlowInv, PromisedInv, Ways
<1>1. CASE Succeed \/ AssertFails
  <2>1. GoesOn /\ ptr' = ptr
    BY <1>0, <1>1, FailGoesOn DEF GoesOn, Ways, Succeed, AssertFails
  <2>2. Rank(pc) < Rank(pc')
    BY <2>1, GoesOnTo, Ranks
  <2>3. QED
    BY <1>0, <2>1, <2>2, OnInTheText
<1>2. CASE Throw
  <2>1. pc' = Caught /\ ptr' = ptr /\ (pc = Cleanup \/ (run \in 1..N /\ pc = Body(run)))
    BY <1>0, <1>2, ThrowIsCaught DEF Ways, Throw
  <2>2. QED
    BY <1>0, <2>1, Ranks, OnInTheText
<1>3. CASE SetPoint
  <2>1. pc = Point /\ pc' = Case(1) /\ 1 \in 1..N /\ ptr' = ptr
    BY <1>3, FirstBlock DEF SetPoint, Point
  <2>2. QED
    BY <1>0, <2>1, Ranks, OnInTheText
<1>4. CASE Finish
  <2>1. pc \in {Return, Caught} /\ pc' = Idle /\ ptr' = ptr
    BY <1>4 DEF Finish
  <2>2. QED
    BY <1>0, <2>1, Ranks, OnInTheText
<1>5. ASSUME NEW k \in 1..N, Enter(k) PROVE StepsLeft' < StepsLeft
  <2>1. pc = Case(k) /\ pc' \in {Body(k), After(k)} /\ ptr' = ptr
    BY <1>5 DEF Enter, Case
  <2>2. QED
    BY <1>0, <2>1, Ranks, OnInTheText
<1>6. ASSUME NEW k \in 1..N, Leave(k) \/ LeaveCases(k) PROVE StepsLeft' < StepsLeft
  <2>1. pc = Loop(k) /\ k = ptr /\ Behind
    BY <1>0, <1>6 DEF Leave, LeaveCases, WayInv, Ways, HolesInv, Behind
  <2>2. ptr' = 0 /\ (pc' = After(k) \/ pc' = Cleanup)
    BY <1>0, <1>6, <2>1, PromisedFacts DEF Leave, LeaveCases, ToCleanup, Ways, HolesInv
  <2>3. Rank(pc) = 4 * k + 2 /\ (Rank(pc') = 4 * k + 3 \/ Rank(pc') = 2)
    BY <2>1, <2>2, Ranks
  <2>4. QED
    BY <2>1, <2>2, <2>3 DEF StepsLeft
<1>7. QED
  BY <1>1, <1>2, <1>3, <1>4, <1>5, <1>6 DEF FlowStep

(* A call of a suite that does what it may takes at most 8N + 11 steps,    *)
(* whatever fails or throws in it, and never ends in a hole that is not    *)
(* live: its jumps make no loop.                                           *)
THEOREM CallsRunOut ==
  CaseFlowSpec => /\ [](StepsBounded /\ (shape \in Promised => pc # Lost))
                  /\ [][StepsRunOut]_flowVars
<1>1. CaseFlowInit => FlowInv
  BY InitType, InitWay, InitPromised DEF FlowInv
<1>2. FlowInv /\ [CaseFlowNext]_flowVars => FlowInv'
  BY StepType, StepWay, StepWrong, StepPromised DEF FlowInv
<1>3. FlowInv => StepsBounded /\ (shape \in Promised => pc # Lost)
  <2> SUFFICES ASSUME FlowInv, shape \in Promised
               PROVE  StepsLeft \in 0..(8 * N + 11) /\ pc # Lost
    BY DEF StepsBounded
  <2>1. N \in Nat /\ Rank(pc) \in 0..(4 * N + 5)
    BY CaseFlowAssumption, RankInRange DEF FlowInv, CaseFlowTypeOK
  <2>2. pc # Lost
    BY DEF FlowInv, PromisedInv, HolesInv
  <2>3. QED
    BY <2>1, <2>2 DEF StepsLeft
<1>4. FlowInv /\ FlowInv' => StepsRunOut
  BY FlowStepsDown DEF FlowInv, StepsRunOut
<1>5. FlowInv /\ FlowInv' /\ [CaseFlowNext]_flowVars => [StepsRunOut]_flowVars
  BY <1>4
<1>6. QED
  BY <1>1, <1>2, <1>3, <1>5, PTL DEF CaseFlowSpec
=============================================================================
