------------------------------- MODULE Scope -------------------------------
(***************************************************************************)
(* Whose stub is it?  The runner, every suite and every case own a list of *)
(* stubs and a list of mocks (src/source/core); STUB, UNSTUB and MOCK use  *)
(* the lists of the scope the runner believes it is in (current_case, else *)
(* current_suite, else its own), and each list is cleared when its owner   *)
(* ends.  The two pointers are set when a suite or a case begins and never *)
(* reset, and the code of a SUITE also runs while the cases are collected. *)
(*                                                                         *)
(* This module drives the stub engine (Stub) the way h2_runner::main does. *)
(* At each site where user code runs, a script says what that code does to *)
(* one function, Target; a site's own fake is named after the site.        *)
(***************************************************************************)
EXTENDS Stub

CONSTANTS
  Runner, Suite, Case, \* the owners of lists
  Nobody,
  SuiteOf,
  SuiteOrder,   \* the suites in the order they run
  CaseOrder,    \* per suite its cases in the order of the text
  Target,       \* the address all scripts name
  Script,       \* the scripts considered
  Failing,      \* the sites whose mock has a routine in which an assertion can fail
  Skippable,    \* the cases a filter, an option or their kind may pass over
  Shuffled,     \* -s random
  Rounds        \* -r

GlobalSite == {<<"GlobalSetup", Runner>>, <<"GlobalSuiteSetup", Runner>>,
               <<"GlobalCaseSetup", Runner>>, <<"GlobalCaseCleanup", Runner>>,
               <<"GlobalSuiteCleanup", Runner>>, <<"GlobalCleanup", Runner>>}
Site == GlobalSite \cup ({"shared"} \X Suite) \cup ({"body"} \X Case)
Operation == {"none", "stub", "unstub", "mock"}

ASSUME ScopeAssumption ==
  /\ List = {Runner} \cup Suite \cup Case
  /\ Fake = Site
  /\ Nobody \notin List
  /\ Runner \notin Suite \cup Case
  /\ SuiteOf \in [Case -> Suite]
  /\ SuiteOrder \in Seq(Suite)
  /\ CaseOrder \in [Suite -> Seq(Case)]
  /\ Target \in Address
  /\ Script \subseteq [Site -> Operation]
  /\ Failing \subseteq Site /\ Skippable \subseteq Case
  /\ Shuffled \in BOOLEAN /\ Rounds \in Nat

VARIABLES
  script,
  phase,          \* where h2_runner::main is
  suite_at,       \* the suite of the iteration, an index of SuiteOrder
  left,           \* the cases of that suite not yet reached, in their order
  round,
  current_suite, current_case, \* Nobody for a null pointer
  mocker,         \* per site that mocks: the list its mocker is on; Nobody once it is reset
  before          \* history: the bytes of the target when the case began

runnerVars == <<suite_at, left, round, current_suite, current_case>>
scopeVars == <<stubVars, script, phase, runnerVars, mocker, before>>

Phase ==
  {"GlobalSetup", "collect", "collect shared", "collect end", "round", "suite", "GlobalSuiteSetup",
   "cases", "GlobalCaseSetup", "shared", "body", "calls", "post_cleanup", "GlobalCaseCleanup",
   "GlobalSuiteCleanup", "finish", "done"}

ScopeTypeOK ==
  /\ StubTypeOK
  /\ script \in Script
  /\ phase \in Phase
  /\ suite_at \in 0..(Len(SuiteOrder) + 1) /\ left \in Seq(Case) /\ round \in 0..Rounds
  /\ current_suite \in Suite \cup {Nobody} /\ current_case \in Case \cup {Nobody}
  /\ mocker \in [Site -> List \cup {Nobody}]
  /\ before \in Opcode

ScopeInit ==
  /\ StubInit
  /\ script \in Script
  /\ phase = "GlobalSetup"
  /\ suite_at = 0 /\ left = <<>> /\ round = 0
  /\ current_suite = Nobody /\ current_case = Nobody
  /\ mocker = [s \in Site |-> Nobody]
  /\ before = Origin

Global(name) == <<name, Runner>>
CurrentSuite == SuiteOrder[suite_at]
target == opcode[Follow[Target]]

---------------------------------------------------------------------------
(* Mutant of Scope: a suite goes before its cases. *)
ScopeSuiteFirst ==
  CASE current_suite # Nobody -> current_suite
    [] current_suite = Nobody /\ current_case # Nobody -> current_case
    [] OTHER -> Runner

(* h2_runner::stub, unstub and mock: the scope is the current case, else   *)
(* the current suite, else the runner.                                     *)
Scope ==
  CASE current_case # Nobody -> current_case
    [] current_case = Nobody /\ current_suite # Nobody -> current_suite
    [] OTHER -> Runner

(* The user code at a site.  A mock also puts its mocker, which can be on  *)
(* one list only, on the scope's list of mocks, with new expectations.     *)
Do(s) ==
  \/ script[s] = "none" /\ UNCHANGED <<stubVars, mocker>>
  \/ script[s] = "stub" /\ Add(Scope, Target, s) /\ UNCHANGED mocker
  \/ /\ script[s] = "unstub"
     /\ Clear(Scope, Target) \/ (~Held(Scope, Target) /\ UNCHANGED stubVars)
     /\ UNCHANGED mocker
  \/ script[s] = "mock" /\ Add(Scope, Target, s) /\ mocker' = [mocker EXCEPT ![s] = Scope]

(* h2_stubs::clear and h2_mocks::clear of a list's owner that ends: the    *)
(* mockers forget their expectations and leave the list.                   *)
Teardown(l) ==
  /\ ClearAll(l)
  /\ mocker' = [s \in Site |-> IF mocker[s] = l THEN Nobody ELSE mocker[s]]

Goto(p) == phase' = p

At(p, q, s) ==
  /\ phase = p /\ Do(s) /\ Goto(q)
  /\ UNCHANGED <<script, runnerVars, before>>

---------------------------------------------------------------------------
(* Before the rounds: GlobalSetup, then for each suite the global suite    *)
(* setup, the suite's function without a case, its cleanup, the global     *)
(* suite cleanup.  No suite and no case is current.                        *)
GlobalSetup ==
  /\ phase = "GlobalSetup" /\ Do(Global("GlobalSetup")) /\ Goto("collect")
  /\ suite_at' = 1
  /\ UNCHANGED <<script, left, round, current_suite, current_case, before>>

CollectSuite ==
  /\ suite_at <= Len(SuiteOrder)
  /\ At("collect", "collect shared", Global("GlobalSuiteSetup"))

CollectShared ==
  /\ phase = "collect shared"
  /\ At("collect shared", "collect end", <<"shared", CurrentSuite>>)

CollectEnd ==
  /\ phase = "collect end"
  /\ Do(Global("GlobalSuiteCleanup")) /\ Goto("collect")
  /\ suite_at' = suite_at + 1
  /\ UNCHANGED <<script, left, round, current_suite, current_case, before>>

Collected ==
  /\ phase = "collect" /\ suite_at > Len(SuiteOrder)
  /\ Goto("round")
  /\ UNCHANGED <<stubVars, script, runnerVars, mocker, before>>

---------------------------------------------------------------------------
(* Mutant of BeginRound: one round more. *)
BeginRoundOneMore ==
  /\ phase = "round" /\ round <= Rounds
  /\ round' = round + 1 /\ suite_at' = 1
  /\ Goto("suite")
  /\ UNCHANGED <<stubVars, script, left, current_suite, current_case, mocker, before>>

BeginRound ==
  /\ phase = "round" /\ round < Rounds
  /\ round' = round + 1 /\ suite_at' = 1
  /\ Goto("suite")
  /\ UNCHANGED <<stubVars, script, left, current_suite, current_case, mocker, before>>

(* current_suite is set before the global suite setup runs; current_case   *)
(* still is the last case of the suite before.                             *)
BeginSuite ==
  /\ phase = "suite" /\ suite_at <= Len(SuiteOrder)
  /\ current_suite' = CurrentSuite
  /\ left' = CaseOrder[CurrentSuite]
  /\ Goto("GlobalSuiteSetup")
  /\ UNCHANGED <<stubVars, script, suite_at, round, current_case, mocker, before>>

SuiteSetup == At("GlobalSuiteSetup", "cases", Global("GlobalSuiteSetup"))

Without(seq, i) == [j \in 1..(Len(seq) - 1) |-> IF j < i THEN seq[j] ELSE seq[j + 1]]

(* The next case: tested, or passed over (ignored, filtered), which makes  *)
(* it current all the same.                                                *)
NextCase(tested) ==
  /\ phase = "cases"
  /\ \E i \in DOMAIN left :
       /\ i = 1 \/ Shuffled
       /\ tested \/ left[i] \in Skippable
       /\ current_case' = left[i]
       /\ left' = Without(left, i)
  /\ Goto(IF tested THEN "GlobalCaseSetup" ELSE "cases")
  /\ before' = target
  /\ UNCHANGED <<stubVars, script, suite_at, round, current_suite, mocker>>

CaseSetup == At("GlobalCaseSetup", "shared", Global("GlobalCaseSetup"))

Shared ==
  /\ phase = "shared"
  /\ At("shared", "body", <<"shared", CurrentSuite>>)

Body ==
  /\ phase = "body"
  /\ At("body", "calls", <<"body", current_case>>)

(* The case calls the target.  If a mock with its expectations answers and *)
(* an assertion in its routine fails, control leaves over the temporary    *)
(* that had put the original bytes back.                                   *)
Called ==
  /\ phase = "calls"
  /\ \/ UNCHANGED opcode
     \/ /\ target \in Failing /\ mocker[target] # Nobody
        /\ opcode' = Write(Follow[Target], origin_opcode[Follow[Target]])
  /\ Goto("post_cleanup")
  /\ UNCHANGED <<count, origin_opcode, stubs, temporaries, script, runnerVars, mocker, before>>

(* Mutant of PostCleanup: the case's stubs stay until its suite ends. *)
PostCleanupLate ==
  /\ phase = "post_cleanup"
  /\ Goto("GlobalCaseCleanup")
  /\ UNCHANGED <<stubVars, mocker, script, runnerVars, before>>

PostCleanup ==
  /\ phase = "post_cleanup"
  /\ Teardown(current_case)
  /\ Goto("GlobalCaseCleanup")
  /\ UNCHANGED <<script, runnerVars, before>>

CaseCleanup == At("GlobalCaseCleanup", "cases", Global("GlobalCaseCleanup"))

EndSuite ==
  /\ phase = "cases" /\ left = <<>>
  /\ Teardown(current_suite)
  /\ Goto("GlobalSuiteCleanup")
  /\ UNCHANGED <<script, runnerVars, before>>

SuiteCleanup ==
  /\ phase = "GlobalSuiteCleanup"
  /\ Do(Global("GlobalSuiteCleanup")) /\ Goto("suite")
  /\ suite_at' = suite_at + 1
  /\ UNCHANGED <<script, left, round, current_suite, current_case, before>>

EndRound ==
  /\ phase = "suite" /\ suite_at > Len(SuiteOrder)
  /\ Goto("round")
  /\ UNCHANGED <<stubVars, script, runnerVars, mocker, before>>

GlobalCleanup ==
  /\ round = Rounds
  /\ At("round", "finish", Global("GlobalCleanup"))

(* Mutant of Finish: the runner keeps its own stubs. *)
FinishKeeps ==
  /\ phase = "finish"
  /\ Goto("done")
  /\ UNCHANGED <<stubVars, mocker, script, runnerVars, before>>

Finish ==
  /\ phase = "finish"
  /\ Teardown(Runner)
  /\ Goto("done")
  /\ UNCHANGED <<script, runnerVars, before>>

ScopeNext ==
  \/ GlobalSetup \/ CollectSuite \/ CollectShared \/ CollectEnd \/ Collected
  \/ BeginRound \/ BeginSuite \/ SuiteSetup \/ NextCase(TRUE) \/ NextCase(FALSE)
  \/ CaseSetup \/ Shared \/ Body \/ Called \/ PostCleanup \/ CaseCleanup
  \/ EndSuite \/ SuiteCleanup \/ EndRound \/ GlobalCleanup \/ Finish

ScopeSpec == ScopeInit /\ [][ScopeNext]_scopeVars

---------------------------------------------------------------------------
(* What a case did to a function is undone when the case ends: it has the  *)
(* bytes it had before, though setups, shared code and body may have       *)
(* stubbed, mocked and unstubbed it in any combination and a mock of       *)
(* theirs may have been left by a failing assertion.                       *)
CaseLeavesNoTrace == phase = "GlobalCaseCleanup" => target = before

(* The same where no mock of an outer scope was in place before the case.  *)
CaseWorkUndone ==
  phase = "GlobalCaseCleanup" /\ (before \in Site => script[before] # "mock") =>
    target = before

(* When the process ends every function has its original bytes.            *)
AllRestored == phase = "done" => target = Origin

(* What a case or a whole run did to the function is undone at its end.    *)
OwnWorkUndone == CaseWorkUndone /\ AllRestored

(* In the body of a case the function does what the nearest operation of   *)
(* the case's own sites asked for, and a mock of theirs has its            *)
(* expectations: no teardown or scope in between has taken them away.      *)
Nearest ==
  LET own == <<Global("GlobalCaseSetup"), <<"shared", CurrentSuite>>, <<"body", current_case>>>>
      asked == {i \in DOMAIN own : script[own[i]] # "none"}
  IN  IF asked = {} THEN Nobody ELSE own[CHOOSE i \in asked : \A j \in asked : j <= i]
NearestWins ==
  phase = "calls" /\ Nearest # Nobody =>
    /\ script[Nearest] \in {"stub", "mock"} => target = Nearest
    /\ script[Nearest] = "mock" => mocker[Nearest] = current_case

(* A mock of the GlobalSuiteSetup, which runs before every suite, answers  *)
(* with its expectations in each case of the suite that does not stub the  *)
(* function itself, as test/test_mock_scope.cpp:42 asserts.  About mocks   *)
(* whose routines let no assertion fail (Failing = {}): a failing one      *)
(* takes the mock away by itself, see Called.                              *)
SuiteMockLasts ==
  phase = "calls" /\ Nearest = Nobody /\ script[Global("GlobalSuiteSetup")] = "mock" =>
    /\ target = Global("GlobalSuiteSetup")
    /\ mocker[target] # Nobody

(* The shared code of a SUITE is not seen by the cases of another.         *)
SharedStaysInSuite ==
  phase = "calls" => \A s \in Suite \ {CurrentSuite} : target # <<"shared", s>>

(* "UNSTUB reset STUB, recover original function".                         *)
UnstubRecovers ==
  phase = "calls" /\ Nearest # Nobody => (script[Nearest] = "unstub" => target = Origin)
===========================================================================
