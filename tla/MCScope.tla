------------------------------ MODULE MCScope ------------------------------
(* Two suites, one of two cases and one of a single case, run twice; and   *)
(* one suite of two cases.                                                 *)
EXTENDS Scope, TLC

CONSTANTS A, B, a1, a2, b1

MCSuite == {A, B}
MCCase == {a1, a2, b1}
MCSuiteOf == [c \in MCCase |-> IF c = b1 THEN B ELSE A]
MCSuiteOrder == <<A, B>>
MCCaseOrder == [s \in MCSuite |-> IF s = A THEN <<a1, a2>> ELSE <<b1>>]
MCList == {Runner} \cup MCSuite \cup MCCase

OneSuite == {A}
OneSuiteCase == {a1, a2}
OneSuiteOf == [c \in OneSuiteCase |-> A]
OneSuiteOrder == <<A>>
OneCaseOrder == [s \in OneSuite |-> <<a1, a2>>]
OneList == {Runner} \cup OneSuite \cup OneSuiteCase

MCFollow == [a \in {"f"} |-> a]

None == [s \in Site |-> "none"]

(* Case-level sites do anything; the global setup stubs or does nothing.   *)
Scoped ==
  {t \in [Site -> Operation] :
     /\ t[Global("GlobalSetup")] \in {"none", "stub"}
     /\ t[Global("GlobalSuiteSetup")] \in {"none", "stub"}
     /\ \A g \in {"GlobalCaseCleanup", "GlobalSuiteCleanup", "GlobalCleanup"} :
          t[Global(g)] = "none"
     /\ t[<<"shared", B>>] = "none"
     /\ t[<<"body", a2>>] = "none"}

SuiteMock == {[None EXCEPT ![Global("GlobalSuiteSetup")] = "mock"]}
SharedStub == {[None EXCEPT ![<<"shared", A>>] = "stub"]}
UnstubInCase == {[None EXCEPT ![<<"shared", A>>] = "stub", ![<<"body", a1>>] = "unstub"]}
RunnerMock == {[None EXCEPT ![Global("GlobalSetup")] = "mock"]}
===========================================================================
