---------------------------- MODULE MCCaseFlow ----------------------------
(* A suite of two cases, each tested twice and in any order, after the     *)
(* collecting call.                                                        *)
EXTENDS CaseFlow, TLC

All(d) == [s \in Section |-> d]
Plain == [does |-> All("ok"), cleanup |-> FALSE, continue |-> FALSE, optimised |-> FALSE,
          cases |-> {}]

(* A suite without a Cleanup has no section to go wrong in it. *)
Shapes == {sh \in [does : [Section -> Does], cleanup : BOOLEAN, continue : BOOLEAN,
                   optimised : BOOLEAN, cases : {{}, {2}, {1, 2}}] : ~sh.cleanup => sh.does[Cleanup] = "ok"}

WithCleanup == [Plain EXCEPT !.cleanup = TRUE]
ThrowingCase == {[WithCleanup EXCEPT !.does[Body(1)] = "throw"]}
CasesWithCleanup == {[WithCleanup EXCEPT !.cases = {1, 2}]}
FailingCleanup == {[WithCleanup EXCEPT !.does[Cleanup] = "fail"]}
FailingAfter == {[Plain EXCEPT !.does[After(2)] = "fail"]}
Passing == {[WithCleanup EXCEPT !.optimised = TRUE]}
===========================================================================
