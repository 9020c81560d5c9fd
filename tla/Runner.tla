------------------------------ MODULE Runner ------------------------------
(***************************************************************************)
(* The runner (src/source/core/h2_runner.cpp): one process of the test     *)
(* executable collects its cases, orders them, runs them for a number of   *)
(* rounds and remembers a failing round in the file .last_order, which the *)
(* next process reads to run in that order and to honour -f.  Processes    *)
(* follow one another, with other options, from other builds, and a case   *)
(* may kill its process.                                                   *)
(*                                                                         *)
(* A case is one action: what happens inside is the subject of CaseFlow.   *)
(***************************************************************************)
EXTENDS Integers, Sequences, FiniteSetsExt, Functions

CONSTANTS
  Suite, Case,
  SuiteOf,       \* the suite of each case
  SuiteOrder,    \* the suites in the order of their registration
  CaseOrder,     \* the cases in the order of their registration (enumerate)
  Todo,          \* the cases written with TODO
  Build,         \* the sets of cases an executable may be built with
  Option,        \* per process started, the command lines it may get (see OptionType)
  Ending,        \* what a case may end with, "killed" for the end of its process
  MaxProcess,    \* bound: processes started
  ExitModulus    \* the status of a process keeps exit code % ExitModulus (256 on POSIX)

OptionType ==
  [rounds : Nat,            \* -r
   breakAfter : Nat,        \* -b, 0 when not given
   onlyLastFailed : BOOLEAN, \* -f
   lists : BOOLEAN,         \* -l
   exit : BOOLEAN,          \* -x
   shuffle : {"code", "random", "reverse"}, \* -s
   filtered : SUBSET Case]  \* the cases -i and -e leave out

(* The orders a list of these elements may have. *)
Orders(S) == Bijection(1..Cardinality(S), S)

(* Every suite and every case registers once. *)
ASSUME RunnerAssumption ==
  /\ IsFiniteSet(Suite) /\ IsFiniteSet(Case)
  /\ SuiteOf \in [Case -> Suite]
  /\ SuiteOrder \in Orders(Suite)
  /\ CaseOrder \in Orders(Case)
  /\ Todo \subseteq Case
  /\ Build \subseteq SUBSET Case /\ Build # {}
  /\ Option \in [1..MaxProcess -> SUBSET OptionType] /\ Option[1] # {}
  /\ Ending \subseteq {"passed", "warning", "failed", "killed"}
  /\ MaxProcess \in Nat \ {0} /\ ExitModulus \in Nat \ {0}

VARIABLES
  last_order,  \* .last_order: its entries in order, <<>> when there is no file
  processes,   \* processes started so far
  pc,          \* where h2_runner::main is
  O,           \* the options of the process
  built,       \* the cases of its executable
  suites,      \* the runner's list of suites
  cases,       \* per suite its list of cases
  lasts,       \* h2_runner::lasts, the entries read from .last_order
  numbered,    \* the entries h2_test::seq was last numbered from in this process
  last_failed, \* cases with h2_case::last_failed
  ignored,     \* cases with h2_case::ignored
  failed,      \* cases with h2_case::failed
  rounds,      \* rounds completed
  suite_at, case_at, \* the positions of the two list iterations
  stats,       \* h2_runner::stats
  suite_stats, \* the stats of the suite being run
  status,      \* exit status of the last process that ended, Killed after a crash
  marked,      \* history: the cases marked failed in the file when the process started
  tested       \* history: per case whether it failed when it was last tested, in any process

Verdict == Ending \ {"killed"}

process == <<O, built>>
order == <<suites, cases>>
marks == <<lasts, numbered, last_failed, ignored>>
place == <<suite_at, case_at>>
runnerVars == <<last_order, processes, pc, process, order, marks, failed, rounds, place,
                stats, suite_stats, status, marked, tested>>

Counter == {"passed", "warning", "failed", "ignored", "filtered", "todo"}
NoStats == [k \in Counter |-> 0]
Killed == -1
Position == {"idle", "round", "suite", "case"}

Marked(f) == {f[i].case : i \in {j \in DOMAIN f : f[j].failed}}

RunnerTypeOK ==
  /\ last_order \in Seq([case : Case, failed : BOOLEAN])
  /\ processes \in 0..MaxProcess
  /\ pc \in Position
  /\ O \in UNION {Option[p] : p \in 1..MaxProcess} /\ built \in Build
  /\ suites \in Seq(Suite) /\ cases \in [Suite -> Seq(Case)]
  /\ lasts \in Nat /\ numbered \in Seq([case : Case, failed : BOOLEAN])
  /\ last_failed \subseteq Case /\ ignored \subseteq Case /\ failed \subseteq Case
  /\ rounds \in Nat /\ suite_at \in Nat /\ case_at \in Nat
  /\ stats \in [Counter -> Nat] /\ suite_stats \in [Counter -> Nat]
  /\ status \in Nat \cup {Killed}
  /\ marked \subseteq Case
  /\ tested \in [Case -> {"never", "failed", "held"}]

RunnerInit ==
  /\ last_order = <<>> /\ processes = 0 /\ pc = "idle"
  /\ O = (CHOOSE o \in Option[1] : TRUE) /\ built = (CHOOSE b \in Build : TRUE)
  /\ suites = <<>> /\ cases = [s \in Suite |-> <<>>]
  /\ lasts = 0 /\ numbered = <<>> /\ last_failed = {} /\ ignored = {} /\ failed = {}
  /\ rounds = 0 /\ suite_at = 0 /\ case_at = 0
  /\ stats = NoStats /\ suite_stats = NoStats
  /\ status = 0
  /\ marked = {}
  /\ tested = [c \in Case |-> "never"]

---------------------------------------------------------------------------
PlaceIn(list, x) == CHOOSE i \in DOMAIN list : list[i] = x
CasesOf(s, b) == {c \in b : SuiteOf[c] = s}

(* The lists of cases that the suites of build b may have. *)
CaseLists(b) ==
  {p \in [Suite -> UNION {Orders(CasesOf(s, b)) : s \in Suite}] :
     \A s \in Suite : p[s] \in Orders(CasesOf(s, b))}

(* h2_list::sort: by key, and elements of one key as they stood before.    *)
Ascending(p, key, stood) ==
  \A i, j \in DOMAIN p :
    i < j => \/ key[p[i]] < key[p[j]]
             \/ key[p[i]] = key[p[j]] /\ stood[p[i]] < stood[p[j]]
Sorted(S, key, stood) == {p \in Orders(S) : Ascending(p, key, stood)}
SortedCases(b, key, stood) == {p \in CaseLists(b) : \A s \in Suite : Ascending(p[s], key, stood)}

(* A new process: the suites register before main, enumerate collects the  *)
(* cases of each, filter marks those the options leave out.                *)
Start(o, b) ==
  /\ pc = "idle" /\ processes < MaxProcess
  /\ processes' = processes + 1
  /\ o \in Option[processes']
  /\ O' = o /\ built' = b
  /\ suites' = SuiteOrder
  /\ LET registered == [c \in b |-> PlaceIn(CaseOrder, c)]
     IN  cases' \in SortedCases(b, registered, registered)
  /\ lasts' = 0 /\ numbered' = <<>> /\ last_failed' = {} /\ ignored' = {} /\ failed' = {}
  /\ rounds' = 0 /\ suite_at' = 0 /\ case_at' = 0
  /\ stats' = NoStats /\ suite_stats' = NoStats
  /\ pc' = "round"
  /\ marked' = Marked(last_order)
  /\ UNCHANGED <<last_order, status, tested>>

(* seq of a test: its registration number, unless sequence_last_order finds *)
(* it in the file and numbers it from there.  A suite has the number of the *)
(* case that was last given one.                                           *)
Registered(f, c) == Len(f) + PlaceIn(CaseOrder, c)
Found(f, c) == {i \in DOMAIN f : f[i].case = c}
CaseSeq(f) == [c \in built |-> IF Found(f, c) = {} THEN Registered(f, c) ELSE Max(Found(f, c))]
SuiteSeq(f) ==
  [s \in Suite |->
     LET mine == CasesOf(s, built)
         found == UNION {Found(f, c) : c \in mine}
     IN  CASE found # {} -> Max(found)
           [] found = {} /\ mine # {} -> Max({Registered(f, c) : c \in mine})
           [] OTHER -> 0]

SuitePlace == [s \in Suite |-> PlaceIn(suites, s)]
CasePlace == [c \in built |-> PlaceIn(cases[SuiteOf[c]], c)]
Negated(key) == [x \in DOMAIN key |-> -key[x]]

(* Mutant of InLastOrder: cases the file does not name are left out. *)
InLastOrderFoundOnly ==
  /\ last_order # <<>>
  /\ numbered' = last_order
  /\ last_failed' = last_failed \cup (Marked(last_order) \cap built)
  /\ suites' \in Sorted(Suite, SuiteSeq(last_order), SuitePlace)
  /\ cases' \in SortedCases({c \in built : Found(last_order, c) # {}}, CaseSeq(last_order), CasePlace)

(* Mutant of InLastOrder: the suites are not sorted, only their cases. *)
InLastOrderCasesOnly ==
  /\ last_order # <<>>
  /\ numbered' = last_order
  /\ last_failed' = last_failed \cup (Marked(last_order) \cap built)
  /\ cases' \in SortedCases(built, CaseSeq(last_order), CasePlace)
  /\ UNCHANGED suites

(* run in last order if last failed *)
InLastOrder ==
  /\ last_order # <<>>
  /\ numbered' = last_order
  /\ last_failed' = last_failed \cup (Marked(last_order) \cap built)
  /\ suites' \in Sorted(Suite, SuiteSeq(last_order), SuitePlace)
  /\ cases' \in SortedCases(built, CaseSeq(last_order), CasePlace)

(* Random numbers are never sorted by again: a failing round writes a file *)
(* that names every case, and without it they are drawn anew.              *)
InOwnOrder ==
  /\ last_order = <<>>
  /\ \/ O.shuffle = "code" /\ UNCHANGED order
     \/ O.shuffle = "random" /\ suites' \in Orders(Suite) /\ cases' \in CaseLists(built)
     \/ /\ O.shuffle = "reverse"
        /\ suites' \in Sorted(Suite, Negated(SuiteSeq(numbered)), SuitePlace)
        /\ cases' \in SortedCases(built, Negated(CaseSeq(numbered)), CasePlace)
  /\ UNCHANGED <<numbered, last_failed>>

Shuffle ==
  /\ pc = "round" /\ rounds < O.rounds
  /\ InLastOrder \/ InOwnOrder
  /\ lasts' = Len(last_order)
  /\ suite_at' = 1 /\ case_at' = 0
  /\ pc' = "suite"
  /\ UNCHANGED <<last_order, processes, process, ignored, failed, rounds, stats,
                 suite_stats, status, marked, tested>>

(* Mutant of BeginSuite: the last suite is not entered. *)
BeginSuiteButLast ==
  /\ pc = "suite" /\ suite_at < Len(suites)
  /\ case_at' = 1
  /\ pc' = "case"
  /\ UNCHANGED <<last_order, processes, process, order, marks, failed, rounds, suite_at,
                 stats, suite_stats, status, marked, tested>>

BeginSuite ==
  /\ pc = "suite" /\ suite_at <= Len(suites)
  /\ case_at' = 1
  /\ pc' = "case"
  /\ UNCHANGED <<last_order, processes, process, order, marks, failed, rounds, suite_at,
                 stats, suite_stats, status, marked, tested>>

---------------------------------------------------------------------------
Cases == cases[suites[suite_at]]
Current == Cases[case_at]

(* Mutant of Ignored: one failure more than -b allows. *)
IgnoredLate(c) ==
  \/ c \in ignored
  \/ 0 < O.breakAfter /\ O.breakAfter < stats["failed"]
  \/ O.onlyLastFailed /\ c \notin last_failed

(* Mutant of Ignored: without a record -f tests everything. *)
IgnoredIfRecorded(c) ==
  \/ c \in ignored
  \/ 0 < O.breakAfter /\ O.breakAfter <= stats["failed"]
  \/ O.onlyLastFailed /\ lasts > 0 /\ c \notin last_failed

(* A case is ignored, for good, once enough cases failed, or if -f asks    *)
(* only for cases that failed last time.                                   *)
Ignored(c) ==
  \/ c \in ignored
  \/ 0 < O.breakAfter /\ O.breakAfter <= stats["failed"]
  \/ O.onlyLastFailed /\ c \notin last_failed

(* The counter of a case that does not run, if it has one.                 *)
Skipped(c) ==
  CASE Ignored(c) -> {"ignored"}
    [] ~Ignored(c) /\ c \in O.filtered -> {"filtered"}
    [] ~Ignored(c) /\ c \notin O.filtered /\ c \in Todo -> {"todo"}
    [] OTHER -> {}

(* Mutant of Count: the runner's counter is decremented. *)
CountDown(k) == /\ stats' = [stats EXCEPT ![k] = @ - 1]
                /\ suite_stats' = [suite_stats EXCEPT ![k] = @ + 1]

Count(k) == /\ stats' = [stats EXCEPT ![k] = @ + 1]
            /\ suite_stats' = [suite_stats EXCEPT ![k] = @ + 1]

SkipCase ==
  /\ pc = "case" /\ case_at <= Len(Cases)
  /\ \/ \E k \in Skipped(Current) : Count(k)
     \/ Skipped(Current) = {} /\ O.lists /\ UNCHANGED <<stats, suite_stats>>
  /\ ignored' = IF Ignored(Current) THEN ignored \cup {Current} ELSE ignored
  /\ case_at' = case_at + 1
  /\ UNCHANGED <<last_order, processes, pc, process, order, lasts, numbered, last_failed, failed,
                 rounds, suite_at, status, marked, tested>>

TestCase(v) ==
  /\ pc = "case" /\ case_at <= Len(Cases)
  /\ Skipped(Current) = {} /\ ~O.lists
  /\ failed' = IF v = "failed" THEN failed \cup {Current} ELSE failed \ {Current}
  /\ Count(v)
  /\ case_at' = case_at + 1
  /\ tested' = [tested EXCEPT ![Current] = IF v = "failed" THEN v ELSE "held"]
  /\ UNCHANGED <<last_order, processes, pc, process, order, marks, rounds, suite_at,
                 status, marked>>

(* The case being run ends the process: a signal, exit, a kill. *)
Crash ==
  /\ pc = "case" /\ case_at <= Len(Cases)
  /\ Skipped(Current) = {} /\ ~O.lists
  /\ "killed" \in Ending
  /\ pc' = "idle"
  /\ status' = Killed
  /\ UNCHANGED <<last_order, processes, process, order, marks, failed, rounds, place,
                 stats, suite_stats, marked, tested>>

(* Mutant of EndSuite: the counters of the suite are not cleared. *)
EndSuiteKeeps ==
  /\ pc = "case" /\ case_at > Len(Cases)
  /\ suite_at' = suite_at + 1 /\ case_at' = 0
  /\ pc' = "suite"
  /\ UNCHANGED <<last_order, processes, process, order, marks, failed, rounds, stats,
                 suite_stats, status, marked, tested>>

EndSuite ==
  /\ pc = "case" /\ case_at > Len(Cases)
  /\ suite_stats' = NoStats
  /\ suite_at' = suite_at + 1 /\ case_at' = 0
  /\ pc' = "suite"
  /\ UNCHANGED <<last_order, processes, process, order, marks, failed, rounds, stats,
                 status, marked, tested>>

---------------------------------------------------------------------------
(* save_last_order: what it may write, the cases in the order of the lists. *)
Records ==
  {[i \in DOMAIN p |-> [case |-> p[i], failed |-> p[i] \in failed]] :
     p \in Sorted(built, [c \in built |-> SuitePlace[SuiteOf[c]]], CasePlace)}

(* Mutant of EndRound: the file is dropped after a round without failures, *)
(* whatever failed in the rounds before.                                   *)
EndRoundForgets ==
  /\ pc = "suite" /\ suite_at > Len(suites)
  /\ last_order' \in IF failed = {} THEN {<<>>}
                     ELSE IF lasts = 0 THEN Records ELSE {last_order}
  /\ rounds' = rounds + 1
  /\ pc' = "round"
  /\ UNCHANGED <<processes, process, order, marks, failed, place, stats, suite_stats,
                 status, marked, tested>>

EndRound ==
  /\ pc = "suite" /\ suite_at > Len(suites)
  /\ last_order' \in IF stats["failed"] = 0 THEN {<<>>}
                     ELSE IF lasts = 0 THEN Records ELSE {last_order}
  /\ rounds' = rounds + 1
  /\ pc' = "round"
  /\ UNCHANGED <<processes, process, order, marks, failed, place, stats, suite_stats,
                 status, marked, tested>>

Exit ==
  /\ pc = "round" /\ rounds >= O.rounds
  /\ pc' = "idle"
  /\ status' = IF O.exit THEN stats["failed"] % ExitModulus ELSE 0
  /\ UNCHANGED <<last_order, processes, process, order, marks, failed, rounds, place,
                 stats, suite_stats, marked, tested>>

RunnerStep ==
  \/ Shuffle \/ BeginSuite \/ SkipCase \/ EndSuite \/ EndRound \/ Exit
  \/ \E v \in Verdict : TestCase(v)

RunnerNext ==
  \/ \E o \in UNION {Option[p] : p \in 1..MaxProcess}, b \in Build : Start(o, b)
  \/ RunnerStep
  \/ Crash

RunnerSpec == RunnerInit /\ [][RunnerNext]_runnerVars /\ WF_runnerVars(RunnerStep)

---------------------------------------------------------------------------
Total(counters) ==
  counters["passed"] + counters["warning"] + counters["failed"]
    + counters["ignored"] + counters["filtered"] + counters["todo"]

(* Cases the iterations have left behind: those of the rounds completed,   *)
(* of the suites completed and of the current suite.                       *)
Completed == {c \in built : SuitePlace[SuiteOf[c]] < suite_at}
Passed ==
  rounds * Cardinality(built) + Cardinality(Completed) + (IF pc = "case" THEN case_at - 1 ELSE 0)

(* Every case is counted exactly once per round, under exactly one heading, *)
(* whatever the options, the order and the outcomes; while a suite runs its *)
(* own counters agree with the part of it that is done.                    *)
CasesAccounted ==
  ~O.lists =>
    /\ pc \in {"suite", "case"} => Total(stats) = Passed
    /\ pc = "round" => Total(stats) = rounds * Cardinality(built)
    /\ pc = "case" => Total(suite_stats) = case_at - 1
    /\ pc \in {"round", "suite"} => Total(suite_stats) = 0

(* Sorting by last order, shuffling and reversing lose and repeat no case. *)
NoCaseLost == pc # "idle" => suites \in Orders(Suite) /\ cases \in CaseLists(built)

(* -b n: no more than n cases fail in a process, over all its rounds.      *)
BreakAfterFails == 0 < O.breakAfter => stats["failed"] <= O.breakAfter

(* While the file of a failing run exists, the cases it lists run in its   *)
(* order, even in an executable that has gained or lost cases since.       *)
At(c) == <<SuitePlace[SuiteOf[c]], CasePlace[c]>>
Before(p, q) == p[1] < q[1] \/ (p[1] = q[1] /\ p[2] < q[2])
ReplayedInOrder ==
  pc \in {"suite", "case"} /\ lasts > 0 =>
    \A i, j \in DOMAIN last_order :
      i < j /\ {last_order[i].case, last_order[j].case} \subseteq built
        => Before(At(last_order[i].case), At(last_order[j].case))

(* A process that ran to its end leaves a record exactly when some case    *)
(* failed in it, so a failure is never forgotten before a run without one. *)
RecordKeptWhileFailing ==
  pc = "idle" /\ processes > 0 /\ status # Killed /\ O.rounds > 0 =>
    (last_order # <<>> <=> stats["failed"] > 0)

(* A failing run leaves a record, and its order is replayed with every     *)
(* case in it.                                                             *)
LastOrderReplayed == NoCaseLost /\ ReplayedInOrder /\ RecordKeptWhileFailing

(* -f tests no case but those marked failed in the file the process found, *)
(* whatever later rounds of the process write to it or remove.             *)
OnlyMarkedTested ==
  [][\A v \in Verdict : TestCase(v) /\ O.onlyLastFailed => Current \in marked]_runnerVars

(* Provided each case returns, a process ends: with the rounds it was asked *)
(* for, or killed.                                                         *)
ProcessEnds == (pc # "idle") ~> (pc = "idle")

(* "Only test last failed cases": a case -f tests failed when it was last  *)
(* tested.                                                                 *)
OnlyLastFailed ==
  [][\A v \in Verdict :
       TestCase(v) /\ O.onlyLastFailed => tested[Current] = "failed"]_runnerVars

(* "exit code as failed cases count": with -x the status of a process that *)
(* ran to its end is 0 only if no case failed.                             *)
ExitCodeTells ==
  pc = "idle" /\ processes > 0 /\ status = 0 /\ O.exit => stats["failed"] = 0
===========================================================================
