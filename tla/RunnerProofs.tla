--------------------------- MODULE RunnerProofs ---------------------------
(***************************************************************************)
(* What holds of the runner over any number of processes, for all suites,  *)
(* cases, builds and options: cases are counted once per round, -b and -f  *)
(* keep what they promise, and the order of a failing run is replayed.     *)
(***************************************************************************)
EXTENDS Runner, FiniteSetTheorems, SequenceTheorems, WellFoundedInduction, TLAPS

(* The file names a case once, and the cases of a suite one after another. *)
Blocks(f) ==
  /\ \A i, j \in DOMAIN f : f[i].case = f[j].case => i = j
  /\ \A i, j, k \in DOMAIN f :
       i < j /\ j < k /\ SuiteOf[f[i].case] = SuiteOf[f[k].case]
         => SuiteOf[f[j].case] = SuiteOf[f[i].case]
FileInv == Blocks(last_order)

(* Between the ends of the two iterations. *)
WalkInv ==
  /\ pc \in {"suite", "case"} => suite_at \in 1..(Len(suites) + 1)
  /\ pc = "case" => suite_at <= Len(suites) /\ case_at \in 1..(Len(Cases) + 1)

(* The file stays as it was read until the round ends. *)
ReadInv == pc \in {"suite", "case"} => lasts = Len(last_order)

(* A round that was not without failures leaves a file. *)
KeepInv ==
  /\ pc = "round" /\ rounds > 0 => (last_order # <<>> <=> stats["failed"] > 0)
  /\ stats["failed"] > 0 => built # {}

(* With -f only cases marked in the file found can be marked or fail. *)
MarkInv ==
  pc # "idle" /\ O.onlyLastFailed =>
    /\ failed \subseteq marked
    /\ last_failed \subseteq marked
    /\ Marked(last_order) \subseteq marked

RunnerInv ==
  /\ RunnerTypeOK
  /\ NoCaseLost /\ FileInv /\ WalkInv /\ ReadInv
  /\ CasesAccounted /\ BreakAfterFails
  /\ ReplayedInOrder /\ RecordKeptWhileFailing /\ KeepInv
  /\ MarkInv

---------------------------------------------------------------------------
Entry == [case : Case, failed : BOOLEAN]

(* A list of all elements of a set, each once. *)
LEMMA OrderFacts ==
  ASSUME NEW S, IsFiniteSet(S), NEW p \in Orders(S)
  PROVE  /\ p \in Seq(S) /\ Len(p) = Cardinality(S) /\ Len(p) \in Nat
         /\ DOMAIN p = 1..Len(p)
         /\ \A i \in 1..Len(p) : p[i] \in S /\ PlaceIn(p, p[i]) = i
         /\ \A x \in S : PlaceIn(p, x) \in 1..Len(p) /\ p[PlaceIn(p, x)] = x
<1> DEFINE n == Cardinality(S)
<1>1. n \in Nat
  BY FS_CardinalityType
<1>2. /\ p \in [1..n -> S]
      /\ \A a, b \in 1..n : p[a] = p[b] => a = b
      /\ \A x \in S : \E i \in 1..n : p[i] = x
  BY DEF Orders, Bijection, Injection, Surjection, IsInjective
<1>3. p \in Seq(S) /\ Len(p) = n /\ DOMAIN p = 1..n
  BY <1>1, <1>2, SeqDef, LenProperties
<1>4. \A x \in S : PlaceIn(p, x) \in 1..n /\ p[PlaceIn(p, x)] = x
  BY <1>2, <1>3 DEF PlaceIn
<1>5. \A i \in 1..n : p[i] \in S
  BY <1>2
<1>6. \A i \in 1..n : PlaceIn(p, p[i]) = i
  BY <1>2, <1>4, <1>5
<1>7. QED
  BY <1>1, <1>3, <1>4, <1>5, <1>6

LEMMA OrderIsOne ==
  ASSUME NEW S, NEW p \in [1..Cardinality(S) -> S],
         \A a, b \in 1..Cardinality(S) : p[a] = p[b] => a = b,
         \A x \in S : \E i \in 1..Cardinality(S) : p[i] = x
  PROVE  p \in Orders(S)
BY DEF Orders, Bijection, Injection, Surjection, IsInjective

LEMMA CasesOfFacts ==
  ASSUME NEW b \in SUBSET Case, NEW s
  PROVE  CasesOf(s, b) \subseteq b /\ IsFiniteSet(CasesOf(s, b)) /\ IsFiniteSet(b)
<1>1. IsFiniteSet(Case)
  BY RunnerAssumption
<1>2. CasesOf(s, b) \in SUBSET Case /\ CasesOf(s, b) \subseteq b
  BY DEF CasesOf
<1>3. QED
  BY <1>1, <1>2, FS_Subset

LEMMA CaseListFacts ==
  ASSUME NEW b \in SUBSET Case, NEW p \in CaseLists(b)
  PROVE  /\ p \in [Suite -> Seq(Case)]
         /\ \A s \in Suite : p[s] \in Orders(CasesOf(s, b))
<1>1. \A s \in Suite : p[s] \in Orders(CasesOf(s, b))
  BY DEF CaseLists
<1>2. DOMAIN p = Suite /\ p = [s \in Suite |-> p[s]]
  BY DEF CaseLists
<1>3. ASSUME NEW s \in Suite
      PROVE  p[s] \in Seq(Case)
  <2>1. p[s] \in Seq(CasesOf(s, b))
    BY <1>1, CasesOfFacts, OrderFacts
  <2>2. CasesOf(s, b) \subseteq Case
    BY CasesOfFacts
  <2>3. QED
    BY <2>1, <2>2, SeqDef
<1>4. QED
  BY <1>1, <1>2, <1>3

(* The lists of a process. *)
LEMMA SuiteFacts ==
  ASSUME RunnerTypeOK, NoCaseLost, pc # "idle"
  PROVE  /\ Len(suites) = Cardinality(Suite) /\ Len(suites) \in Nat
         /\ \A i \in 1..Len(suites) : suites[i] \in Suite /\ SuitePlace[suites[i]] = i
         /\ \A s \in Suite : SuitePlace[s] \in 1..Len(suites) /\ suites[SuitePlace[s]] = s
<1>1. suites \in Orders(Suite) /\ IsFiniteSet(Suite)
  BY RunnerAssumption DEF NoCaseLost
<1>2. \A s \in Suite : SuitePlace[s] = PlaceIn(suites, s)
  BY DEF SuitePlace
<1>3. QED
  BY <1>1, <1>2, OrderFacts

LEMMA CaseFacts ==
  ASSUME RunnerTypeOK, NoCaseLost, pc # "idle", NEW s \in Suite
  PROVE  /\ Len(cases[s]) = Cardinality(CasesOf(s, built)) /\ Len(cases[s]) \in Nat
         /\ DOMAIN cases[s] = 1..Len(cases[s])
         /\ \A i \in 1..Len(cases[s]) :
              cases[s][i] \in CasesOf(s, built) /\ CasePlace[cases[s][i]] = i
         /\ \A c \in CasesOf(s, built) :
              CasePlace[c] \in 1..Len(cases[s]) /\ cases[s][CasePlace[c]] = c
<1>1. built \in SUBSET Case
  BY RunnerAssumption DEF RunnerTypeOK
<1>2. cases[s] \in Orders(CasesOf(s, built)) /\ IsFiniteSet(CasesOf(s, built))
  BY <1>1, CaseListFacts, CasesOfFacts DEF NoCaseLost
<1>3. \A c \in CasesOf(s, built) : CasePlace[c] = PlaceIn(cases[s], c)
  BY DEF CasesOf, CasePlace
<1>4. \A i \in 1..Len(cases[s]) : cases[s][i] \in CasesOf(s, built)
  BY <1>2, OrderFacts
<1>5. QED
  BY <1>2, <1>3, <1>4, OrderFacts

(* The greatest of some places in a list. *)
LEMMA Greatest ==
  ASSUME NEW n \in Nat, NEW T \in SUBSET (1..n), T # {}
  PROVE  Max(T) \in T /\ \A y \in T : y <= Max(T)
<1> DEFINE Rest == {n - x : x \in T}
<1>1. Rest \subseteq Nat /\ Rest # {}
  <2>1. \A x \in T : n - x \in Nat
    OBVIOUS
  <2>2. QED
    BY <2>1
<1>2. IsWellFoundedOn(OpToRel(<, Nat), Nat)
  BY NatLessThanWellFounded
<1>3. PICK m \in Rest : \A y \in Rest : ~ (<<y, m>> \in OpToRel(<, Nat))
  BY <1>1, <1>2, WFMin
<1>4. PICK x \in T : m = n - x
  OBVIOUS
<1>5. ASSUME NEW y \in T PROVE y <= x
  <2>1. n - y \in Rest /\ n - y \in Nat /\ m \in Nat
    BY <1>1
  <2>2. ~ (n - y < m)
    BY <1>3, <2>1 DEF OpToRel
  <2>3. QED
    BY <1>4, <2>2
<1>6. \A y \in T : x >= y
  BY <1>5
<1>7. QED
  BY <1>6 DEF Max

---------------------------------------------------------------------------
LEMMA OptionFacts ==
  ASSUME RunnerTypeOK
  PROVE  O \in OptionType /\ built \in SUBSET Case
BY RunnerAssumption DEF RunnerTypeOK

LEMMA FileFacts ==
  ASSUME NEW f \in Seq(Entry)
  PROVE  /\ Len(f) \in Nat /\ DOMAIN f = 1..Len(f)
         /\ \A i \in DOMAIN f : f[i].case \in Case /\ f[i].failed \in BOOLEAN
         /\ Marked(f) \subseteq Case
         /\ f # <<>> <=> Len(f) > 0
<1>1. Len(f) \in Nat /\ DOMAIN f = 1..Len(f) /\ \A i \in 1..Len(f) : f[i] \in Entry
  BY LenProperties
<1>2. \A i \in DOMAIN f : f[i].case \in Case /\ f[i].failed \in BOOLEAN
  BY <1>1 DEF Entry
<1>3. Marked(f) \subseteq Case
  BY <1>2 DEF Marked
<1>4. f # <<>> <=> Len(f) > 0
  BY <1>1, EmptySeq, LenProperties
<1>5. QED
  BY <1>1, <1>2, <1>3, <1>4

LEMMA StatsFacts ==
  ASSUME NEW st \in [Counter -> Nat], NEW k \in Counter
  PROVE  /\ [st EXCEPT ![k] = @ + 1] \in [Counter -> Nat]
         /\ Total(st) \in Nat
         /\ Total([st EXCEPT ![k] = @ + 1]) = Total(st) + 1
         /\ k # "failed" => [st EXCEPT ![k] = @ + 1]["failed"] = st["failed"]
         /\ k = "failed" => [st EXCEPT ![k] = @ + 1]["failed"] = st["failed"] + 1
<1> DEFINE t == [st EXCEPT ![k] = @ + 1]
<1>1. t \in [Counter -> Nat] /\ \A j \in Counter : t[j] = IF j = k THEN st[j] + 1 ELSE st[j]
  OBVIOUS
<1>2. /\ "passed" \in Counter /\ "warning" \in Counter /\ "failed" \in Counter
      /\ "ignored" \in Counter /\ "filtered" \in Counter /\ "todo" \in Counter
  BY DEF Counter
<1>3. \A j \in Counter : st[j] \in Nat /\ t[j] \in Nat
  BY <1>1
<1>4. k \in {"passed", "warning", "failed", "ignored", "filtered", "todo"}
  BY DEF Counter
<1>5. Total(st) \in Nat
  BY <1>2, <1>3 DEF Total
<1>6. Total(t) = Total(st) + 1
  BY <1>1, <1>2, <1>3, <1>4 DEF Total
<1>7. QED
  BY <1>1, <1>2, <1>5, <1>6

LEMMA NoStatsFacts ==
  NoStats \in [Counter -> Nat] /\ Total(NoStats) = 0 /\ NoStats["failed"] = 0
BY DEF NoStats, Total, Counter

LEMMA InitHolds == RunnerInit => RunnerInv
<1> SUFFICES ASSUME RunnerInit PROVE RunnerInv
  OBVIOUS
<1> USE DEF RunnerInit
<1>1. RunnerTypeOK
  <2>1. 1 \in 1..MaxProcess /\ O \in Option[1] /\ built \in Build
    BY RunnerAssumption
  <2>2. O \in UNION {Option[p] : p \in 1..MaxProcess}
    BY <2>1
  <2>3. cases \in [Suite -> Seq(Case)]
    BY EmptySeq
  <2>4. last_order \in Seq(Entry) /\ suites \in Seq(Suite) /\ numbered \in Seq(Entry)
    BY EmptySeq
  <2>5. tested \in [Case -> {"never", "failed", "held"}]
    OBVIOUS
  <2>6. QED
    BY RunnerAssumption, NoStatsFacts, <2>1, <2>2, <2>3, <2>4, <2>5 DEF RunnerTypeOK, Position, Entry
<1>2. BreakAfterFails
  BY <1>1, OptionFacts, NoStatsFacts DEF BreakAfterFails, OptionType
<1>3. FileInv
  BY DEF FileInv, Blocks
<1>4. KeepInv
  BY NoStatsFacts DEF KeepInv
<1>5. QED
  BY <1>1, <1>2, <1>3, <1>4
     DEF RunnerInv, NoCaseLost, WalkInv, ReadInv, CasesAccounted, ReplayedInOrder,
         RecordKeptWhileFailing, MarkInv

LEMMA StartKeeps ==
  ASSUME RunnerInv, NEW o, NEW b \in Build, Start(o, b)
  PROVE  RunnerInv'
<1> USE DEF Start
<1>1. processes' \in 1..MaxProcess /\ o \in Option[processes'] /\ b \in SUBSET Case
  BY RunnerAssumption DEF RunnerInv, RunnerTypeOK
<1>2. cases' \in CaseLists(b)
  BY DEF SortedCases
<1>3. suites' \in Orders(Suite) /\ IsFiniteSet(Suite)
  BY RunnerAssumption
<1>4. last_order \in Seq(Entry) /\ Marked(last_order) \subseteq Case
  BY FileFacts DEF RunnerInv, RunnerTypeOK, Entry
<1>5. RunnerTypeOK'
  <2>1. O' \in UNION {Option[p] : p \in 1..MaxProcess}
    BY <1>1
  <2>2. suites' \in Seq(Suite) /\ cases' \in [Suite -> Seq(Case)]
    BY <1>1, <1>2, <1>3, OrderFacts, CaseListFacts
  <2>3. numbered' \in Seq(Entry)
    BY EmptySeq
  <2>4. QED
    BY <1>1, <1>4, <2>1, <2>2, <2>3, NoStatsFacts DEF RunnerInv, RunnerTypeOK, Position, Entry
<1>6. NoCaseLost'
  BY <1>2, <1>3 DEF NoCaseLost
<1>7. BreakAfterFails' /\ KeepInv' /\ CasesAccounted'
  <2>1. O' \in OptionType /\ Cardinality(b) \in Nat
    BY <1>1, <1>5, OptionFacts, CasesOfFacts, FS_CardinalityType, RunnerAssumption
  <2>2. 0 * Cardinality(b) = 0
    BY <2>1
  <2>3. QED
    BY <2>1, <2>2, NoStatsFacts DEF BreakAfterFails, KeepInv, CasesAccounted, OptionType
<1>8. MarkInv'
  BY DEF MarkInv, Marked
<1>9. QED
  BY <1>5, <1>6, <1>7, <1>8
     DEF RunnerInv, FileInv, WalkInv, ReadInv, ReplayedInOrder, RecordKeptWhileFailing

---------------------------------------------------------------------------
(* The suite and the case the iterations are at. *)
LEMMA AtSuite ==
  ASSUME RunnerInv, pc \in {"suite", "case"}, suite_at <= Len(suites)
  PROVE  /\ suite_at \in 1..Len(suites) /\ suites[suite_at] \in Suite
         /\ Len(Cases) \in Nat /\ Len(Cases) = Cardinality(CasesOf(suites[suite_at], built))
<1>1. suite_at \in 1..Len(suites) /\ suites[suite_at] \in Suite
  BY SuiteFacts DEF RunnerInv, WalkInv
<1>2. QED
  BY <1>1, CaseFacts DEF RunnerInv, Cases

LEMMA AtCase ==
  ASSUME RunnerInv, pc = "case", case_at <= Len(Cases)
  PROVE  Current \in built /\ Current \in Case /\ case_at \in 1..Len(Cases)
<1>1. suites[suite_at] \in Suite /\ Len(Cases) \in Nat
  BY AtSuite DEF RunnerInv, WalkInv
<1>2. case_at \in 1..Len(Cases)
  BY <1>1 DEF RunnerInv, WalkInv
<1>3. Current \in CasesOf(suites[suite_at], built)
  BY <1>1, <1>2, CaseFacts DEF RunnerInv, Cases, Current
<1>4. built \in SUBSET Case
  BY OptionFacts DEF RunnerInv
<1>5. QED
  BY <1>2, <1>3, <1>4 DEF CasesOf

LEMMA PassedFacts ==
  ASSUME RunnerInv, NEW k \in Nat
  PROVE  /\ Cardinality(built) \in Nat /\ k * Cardinality(built) \in Nat
         /\ Cardinality(Completed) \in Nat /\ IsFiniteSet(Completed)
<1>1. built \in SUBSET Case /\ IsFiniteSet(Case)
  BY OptionFacts, RunnerAssumption DEF RunnerInv
<1>2. IsFiniteSet(built) /\ Completed \in SUBSET built
  BY <1>1, FS_Subset DEF Completed
<1>3. IsFiniteSet(Completed)
  BY <1>2, FS_Subset
<1>4. Cardinality(built) \in Nat /\ Cardinality(Completed) \in Nat
  BY <1>2, <1>3, FS_CardinalityType
<1>5. QED
  BY <1>3, <1>4

LEMMA BeginSuiteKeeps ==
  ASSUME RunnerInv, BeginSuite
  PROVE  RunnerInv'
<1> USE DEF BeginSuite, order, process, marks
<1>1. RunnerTypeOK'
  BY DEF RunnerInv, RunnerTypeOK, Position
<1>2. NoCaseLost'
  BY DEF RunnerInv, NoCaseLost
<1>3. WalkInv'
  BY AtSuite DEF RunnerInv, WalkInv, Cases
<1>4. CasesAccounted'
  <2>1. Completed' = Completed
    BY DEF Completed, SuitePlace
  <2>2. Passed' = Passed
    BY <2>1, PassedFacts DEF Passed, RunnerInv, RunnerTypeOK
  <2>3. QED
    BY <2>2 DEF RunnerInv, CasesAccounted, Total
<1>5. ReplayedInOrder'
  BY DEF RunnerInv, ReplayedInOrder, At, SuitePlace, CasePlace
<1>6. QED
  BY <1>1, <1>2, <1>3, <1>4, <1>5
     DEF RunnerInv, FileInv, ReadInv, BreakAfterFails, RecordKeptWhileFailing, KeepInv, MarkInv

LEMMA SkipCaseKeeps ==
  ASSUME RunnerInv, SkipCase
  PROVE  RunnerInv'
<1> USE DEF SkipCase, order, process
<1>1. Current \in built /\ Current \in Case /\ case_at \in 1..Len(Cases)
  BY AtCase
<1>2. suites[suite_at] \in Suite /\ Len(Cases) \in Nat
  BY AtSuite DEF RunnerInv, WalkInv
<1>3. /\ stats' \in [Counter -> Nat] /\ suite_stats' \in [Counter -> Nat]
      /\ stats'["failed"] = stats["failed"]
      /\ ~O.lists => /\ Total(stats') = Total(stats) + 1
                     /\ Total(suite_stats') = Total(suite_stats) + 1
  <2>1. stats \in [Counter -> Nat] /\ suite_stats \in [Counter -> Nat]
    BY DEF RunnerInv, RunnerTypeOK
  <2>2. CASE \E k \in Skipped(Current) : Count(k)
    <3>1. PICK k \in Skipped(Current) : Count(k)
      BY <2>2
    <3>2. k \in Counter /\ k # "failed"
      BY DEF Skipped, Counter
    <3>3. QED
      BY <2>1, <3>1, <3>2, StatsFacts DEF Count
  <2>3. CASE O.lists /\ UNCHANGED <<stats, suite_stats>>
    BY <2>1, <2>3
  <2>4. QED
    BY <2>2, <2>3
<1>4. RunnerTypeOK'
  <2>1. ignored' \subseteq Case /\ case_at' \in Nat
    BY <1>1 DEF RunnerInv, RunnerTypeOK
  <2>2. QED
    BY <1>3, <2>1 DEF RunnerInv, RunnerTypeOK
<1>5. NoCaseLost'
  BY DEF RunnerInv, NoCaseLost
<1>6. WalkInv'
  BY <1>1, <1>2 DEF RunnerInv, WalkInv, Cases
<1>7. CasesAccounted'
  <2>1. Completed' = Completed
    BY DEF Completed, SuitePlace
  <2>2. Passed' = Passed + 1
    <3>1. rounds * Cardinality(built) \in Nat /\ Cardinality(Completed) \in Nat
      BY PassedFacts DEF RunnerInv, RunnerTypeOK
    <3>2. case_at \in Nat
      BY DEF RunnerInv, RunnerTypeOK
    <3>3. QED
      BY <2>1, <3>1, <3>2 DEF Passed
  <2>3. ~O.lists => Total(stats)' = Passed' /\ Total(suite_stats)' = case_at' - 1
    BY <1>1, <1>3, <2>2 DEF RunnerInv, CasesAccounted, Total
  <2>4. QED
    BY <2>3 DEF CasesAccounted
<1>8. ReplayedInOrder'
  BY DEF RunnerInv, ReplayedInOrder, At, SuitePlace, CasePlace
<1>9. BreakAfterFails' /\ KeepInv' /\ RecordKeptWhileFailing'
  BY <1>3 DEF RunnerInv, BreakAfterFails, KeepInv, RecordKeptWhileFailing
<1>10. QED
  BY <1>4, <1>5, <1>6, <1>7, <1>8, <1>9 DEF RunnerInv, FileInv, ReadInv, MarkInv

LEMMA TestCaseKeeps ==
  ASSUME RunnerInv, NEW v \in Verdict, TestCase(v)
  PROVE  RunnerInv'
<1> USE DEF TestCase, order, process, marks
<1>1. Current \in built /\ Current \in Case /\ case_at \in 1..Len(Cases)
  BY AtCase
<1>2. suites[suite_at] \in Suite /\ Len(Cases) \in Nat
  BY AtSuite DEF RunnerInv, WalkInv
<1>3. v \in Counter /\ v \in {"passed", "warning", "failed"}
  BY RunnerAssumption DEF Verdict, Counter
<1>4. /\ stats' \in [Counter -> Nat] /\ suite_stats' \in [Counter -> Nat]
      /\ stats'["failed"] = IF v = "failed" THEN stats["failed"] + 1 ELSE stats["failed"]
      /\ Total(stats') = Total(stats) + 1
      /\ Total(suite_stats') = Total(suite_stats) + 1
  <2>1. stats \in [Counter -> Nat] /\ suite_stats \in [Counter -> Nat]
    BY DEF RunnerInv, RunnerTypeOK
  <2>2. QED
    BY <1>3, <2>1, StatsFacts DEF Count
<1>5. RunnerTypeOK'
  <2>1. failed' \subseteq Case /\ case_at' \in Nat
    BY <1>1 DEF RunnerInv, RunnerTypeOK
  <2>2. tested' \in [Case -> {"never", "failed", "held"}]
    BY DEF RunnerInv, RunnerTypeOK
  <2>3. QED
    BY <1>4, <2>1, <2>2 DEF RunnerInv, RunnerTypeOK
<1>6. NoCaseLost'
  BY DEF RunnerInv, NoCaseLost
<1>7. WalkInv'
  BY <1>1, <1>2 DEF RunnerInv, WalkInv, Cases
<1>8. CasesAccounted'
  <2>1. Completed' = Completed
    BY DEF Completed, SuitePlace
  <2>2. Passed' = Passed + 1
    <3>1. rounds * Cardinality(built) \in Nat /\ Cardinality(Completed) \in Nat
      BY PassedFacts DEF RunnerInv, RunnerTypeOK
    <3>2. case_at \in Nat
      BY DEF RunnerInv, RunnerTypeOK
    <3>3. QED
      BY <2>1, <3>1, <3>2 DEF Passed
  <2>3. Total(stats)' = Passed' /\ Total(suite_stats)' = case_at' - 1
    BY <1>1, <1>4, <2>2 DEF RunnerInv, CasesAccounted, Total
  <2>4. QED
    BY <2>3 DEF CasesAccounted
<1>9. ReplayedInOrder'
  BY DEF RunnerInv, ReplayedInOrder, At, SuitePlace, CasePlace
<1>10. BreakAfterFails'
  <2>1. O.breakAfter \in Nat /\ stats["failed"] \in Nat
    BY OptionFacts DEF RunnerInv, RunnerTypeOK, OptionType, Counter
  <2>2. 0 < O.breakAfter => ~(O.breakAfter <= stats["failed"])
    BY DEF Skipped, Ignored
  <2>3. QED
    BY <1>4, <2>1, <2>2 DEF RunnerInv, BreakAfterFails
<1>11. KeepInv' /\ RecordKeptWhileFailing'
  BY <1>1 DEF RunnerInv, KeepInv, RecordKeptWhileFailing
<1>12. MarkInv'
  <2>1. O.onlyLastFailed => Current \in last_failed
    BY DEF Skipped, Ignored
  <2>2. QED
    BY <2>1 DEF RunnerInv, MarkInv
<1>13. QED
  BY <1>5, <1>6, <1>7, <1>8, <1>9, <1>10, <1>11, <1>12 DEF RunnerInv, FileInv, ReadInv

LEMMA CrashKeeps ==
  ASSUME RunnerInv, Crash
  PROVE  RunnerInv'
<1> USE DEF Crash, order, process, marks, place
<1>1. RunnerTypeOK'
  BY DEF RunnerInv, RunnerTypeOK, Position
<1>2. QED
  BY <1>1 DEF RunnerInv, NoCaseLost, FileInv, WalkInv, ReadInv, CasesAccounted, BreakAfterFails,
              ReplayedInOrder, RecordKeptWhileFailing, KeepInv, MarkInv

(* The cases of the suite that runs are not among those completed, and are *)
(* when it has ended.                                                      *)
LEMMA SuiteCompletes ==
  ASSUME RunnerInv, pc = "case"
  PROVE  /\ Cardinality({c \in built : SuitePlace[SuiteOf[c]] < suite_at + 1})
              = Cardinality(Completed) + Len(Cases)
         /\ Cardinality(Completed) + Len(Cases) <= Cardinality(built)
<1> DEFINE mine == CasesOf(suites[suite_at], built)
           after == {c \in built : SuitePlace[SuiteOf[c]] < suite_at + 1}
<1>1. /\ suite_at \in 1..Len(suites) /\ suites[suite_at] \in Suite
      /\ Len(Cases) = Cardinality(mine)
  BY AtSuite DEF RunnerInv, WalkInv
<1>2. after = Completed \cup mine /\ Completed \cap mine = {}
  <2>1. \A c \in built : SuiteOf[c] \in Suite
    BY OptionFacts, RunnerAssumption DEF RunnerInv
  <2>2. /\ \A s \in Suite : SuitePlace[s] \in 1..Len(suites) /\ suites[SuitePlace[s]] = s
        /\ SuitePlace[suites[suite_at]] = suite_at /\ Len(suites) \in Nat
    BY <1>1, SuiteFacts DEF RunnerInv
  <2>3. \A c \in built : SuitePlace[SuiteOf[c]] < suite_at + 1
                           <=> \/ SuitePlace[SuiteOf[c]] < suite_at
                               \/ SuiteOf[c] = suites[suite_at]
    BY <1>1, <2>1, <2>2
  <2>4. QED
    BY <1>1, <2>2, <2>3 DEF Completed, CasesOf
<1>3. IsFiniteSet(mine) /\ IsFiniteSet(Completed) /\ IsFiniteSet(built)
  BY CasesOfFacts, OptionFacts, PassedFacts DEF RunnerInv
<1>4. Cardinality(Completed \cup mine)
        = Cardinality(Completed) + Cardinality(mine) - Cardinality(Completed \cap mine)
  BY <1>3, FS_Union
<1>5. Cardinality(Completed) \in Nat /\ Cardinality(mine) \in Nat
  BY <1>3, FS_CardinalityType
<1>6. Cardinality(after) = Cardinality(Completed) + Cardinality(mine)
  BY <1>2, <1>4, <1>5, FS_EmptySet
<1>7. Cardinality(after) <= Cardinality(built)
  BY <1>3, FS_Subset
<1>8. QED
  BY <1>1, <1>6, <1>7

LEMMA EndSuiteCompletes ==
  ASSUME RunnerInv, EndSuite
  PROVE  Cardinality(Completed') = Cardinality(Completed) + Len(Cases)
<1>1. SuitePlace' = SuitePlace
  BY DEF EndSuite, order, SuitePlace
<1>2. Completed' = {c \in built : SuitePlace[SuiteOf[c]] < suite_at + 1}
  BY <1>1 DEF EndSuite, process, Completed
<1>3. QED
  BY <1>2, SuiteCompletes DEF EndSuite

LEMMA EndSuiteCounts ==
  ASSUME RunnerInv, EndSuite
  PROVE  RunnerInv'
<1> USE DEF EndSuite, order, process, marks
<1>1. suite_at \in 1..Len(suites) /\ Len(Cases) \in Nat
  BY AtSuite DEF RunnerInv, WalkInv
<1>2. RunnerTypeOK'
  <2>1. suite_at' \in Nat
    BY DEF RunnerInv, RunnerTypeOK
  <2>2. QED
    BY <2>1, NoStatsFacts DEF RunnerInv, RunnerTypeOK, Position
<1>3. NoCaseLost'
  BY DEF RunnerInv, NoCaseLost
<1>4. WalkInv'
  BY <1>1 DEF RunnerInv, WalkInv
<1>5. CasesAccounted'
  <2>1. Cardinality(Completed') = Cardinality(Completed) + Len(Cases)
    BY EndSuiteCompletes
  <2>2. Passed' = Passed
    <3>1. rounds * Cardinality(built) \in Nat /\ Cardinality(Completed) \in Nat
      BY PassedFacts DEF RunnerInv, RunnerTypeOK
    <3>2. case_at = Len(Cases) + 1
      BY <1>1 DEF RunnerInv, WalkInv
    <3>3. QED
      BY <1>1, <2>1, <3>1, <3>2 DEF Passed
  <2>3. QED
    BY <2>2, NoStatsFacts DEF RunnerInv, CasesAccounted, Total
<1>6. ReplayedInOrder'
  BY DEF RunnerInv, ReplayedInOrder, At, SuitePlace, CasePlace
<1>7. QED
  BY <1>2, <1>3, <1>4, <1>5, <1>6
     DEF RunnerInv, FileInv, ReadInv, BreakAfterFails, RecordKeptWhileFailing, KeepInv, MarkInv

LEMMA ExitKeeps ==
  ASSUME RunnerInv, Exit
  PROVE  RunnerInv'
<1> USE DEF Exit, order, process, marks, place
<1>1. stats["failed"] \in Nat /\ O.rounds \in Nat /\ rounds \in Nat
  BY OptionFacts DEF RunnerInv, RunnerTypeOK, OptionType, Counter
<1>2. status' \in Nat
  BY <1>1, RunnerAssumption
<1>3. RunnerTypeOK'
  BY <1>2 DEF RunnerInv, RunnerTypeOK, Position
<1>4. RecordKeptWhileFailing'
  BY <1>1 DEF RunnerInv, KeepInv, RecordKeptWhileFailing
<1>5. QED
  BY <1>3, <1>4 DEF RunnerInv, NoCaseLost, FileInv, WalkInv, ReadInv, CasesAccounted,
                    BreakAfterFails, ReplayedInOrder, KeepInv, MarkInv

---------------------------------------------------------------------------
(* What save_last_order writes names every case once, suite after suite. *)
LEMMA RecordFacts ==
  ASSUME RunnerInv, pc # "idle", NEW f \in Records
  PROVE  /\ f \in Seq(Entry) /\ Blocks(f) /\ Marked(f) \subseteq failed
         /\ built # {} => f # <<>>
<1> DEFINE key == [c \in built |-> SuitePlace[SuiteOf[c]]]
<1>1. PICK p \in Sorted(built, key, CasePlace) :
        f = [i \in DOMAIN p |-> [case |-> p[i], failed |-> p[i] \in failed]]
  BY DEF Records
<1>2. built \in SUBSET Case /\ IsFiniteSet(built) /\ p \in Orders(built)
  BY <1>1, OptionFacts, CasesOfFacts DEF Sorted, RunnerInv
<1>3. /\ Len(p) \in Nat /\ DOMAIN p = 1..Len(p) /\ Len(p) = Cardinality(built)
      /\ \A i \in 1..Len(p) : p[i] \in built /\ PlaceIn(p, p[i]) = i
  BY <1>2, OrderFacts
<1>4. /\ DOMAIN f = 1..Len(p)
      /\ \A i \in 1..Len(p) : f[i] = [case |-> p[i], failed |-> p[i] \in failed]
  BY <1>1, <1>3
<1>5. f \in Seq(Entry)
  <2>1. \A i \in 1..Len(p) : [case |-> p[i], failed |-> p[i] \in failed] \in Entry
    BY <1>2, <1>3 DEF Entry
  <2>2. f \in [1..Len(p) -> Entry]
    BY <1>1, <1>3, <2>1
  <2>3. QED
    BY <1>3, <2>2, SeqDef
<1>6. \A i, j \in 1..Len(p) : f[i].case = f[j].case => i = j
  BY <1>3, <1>4
<1>7. ASSUME NEW i \in 1..Len(p), NEW j \in 1..Len(p), NEW k \in 1..Len(p), i < j, j < k,
             SuiteOf[p[i]] = SuiteOf[p[k]]
      PROVE  SuiteOf[p[j]] = SuiteOf[p[i]]
  <2>1. /\ SuiteOf[p[i]] \in Suite /\ SuiteOf[p[j]] \in Suite
        /\ p[i] \in built /\ p[j] \in built /\ p[k] \in built
    BY <1>2, <1>3, RunnerAssumption
  <2>2. /\ \A s \in Suite : SuitePlace[s] \in Nat /\ suites[SuitePlace[s]] = s
    BY SuiteFacts DEF RunnerInv
  <2>3. key[p[i]] <= key[p[j]] /\ key[p[j]] <= key[p[k]]
    <3>1. /\ key[p[i]] < key[p[j]] \/ key[p[i]] = key[p[j]]
          /\ key[p[j]] < key[p[k]] \/ key[p[j]] = key[p[k]]
      BY <1>1, <1>3, <1>7 DEF Sorted, Ascending
    <3>2. key[p[i]] \in Nat /\ key[p[j]] \in Nat /\ key[p[k]] \in Nat
      BY <1>7, <2>1, <2>2
    <3>3. QED
      BY <3>1, <3>2
  <2>4. SuitePlace[SuiteOf[p[j]]] = SuitePlace[SuiteOf[p[i]]]
    BY <1>7, <2>1, <2>2, <2>3
  <2>5. QED
    BY <2>1, <2>2, <2>4
<1>8. Blocks(f)
  BY <1>4, <1>6, <1>7 DEF Blocks
<1>9. Marked(f) \subseteq failed
  <2>1. ASSUME NEW i \in DOMAIN f, f[i].failed
        PROVE  f[i].case \in failed
    <3>1. f[i] = [case |-> p[i], failed |-> p[i] \in failed]
      BY <1>4, <2>1
    <3>2. f[i].case = p[i] /\ f[i].failed = (p[i] \in failed)
      BY <3>1
    <3>3. QED
      BY <2>1, <3>2
  <2>2. QED
    BY <2>1 DEF Marked
<1>10. built # {} => f # <<>>
  <2>1. built # {} => Len(p) # 0
    BY <1>2, <1>3, FS_EmptySet
  <2>2. QED
    BY <1>3, <1>4, <2>1
<1>11. QED
  BY <1>5, <1>8, <1>9, <1>10

LEMMA AllCompleted ==
  ASSUME RunnerInv, EndRound
  PROVE  Completed = built /\ suite_at = Len(suites) + 1
<1>1. suite_at = Len(suites) + 1 /\ Len(suites) \in Nat
  BY SuiteFacts DEF RunnerInv, WalkInv, EndRound
<1>2. \A c \in built : SuitePlace[SuiteOf[c]] \in 1..Len(suites)
  BY SuiteFacts, OptionFacts, RunnerAssumption DEF RunnerInv, EndRound
<1>3. QED
  BY <1>1, <1>2 DEF Completed

LEMMA EndRoundKeeps ==
  ASSUME RunnerInv, EndRound
  PROVE  RunnerInv'
<1> USE DEF EndRound, order, process, marks, place
<1>1. stats["failed"] \in Nat /\ rounds \in Nat /\ last_order \in Seq(Entry)
  BY DEF RunnerInv, RunnerTypeOK, Counter, Entry
<1>2. /\ last_order' \in Seq(Entry) /\ Blocks(last_order')
      /\ Marked(last_order') \subseteq failed \cup Marked(last_order)
      /\ last_order' # <<>> <=> stats["failed"] > 0
  <2>1. CASE stats["failed"] = 0
    <3>1. last_order' = <<>>
      BY <2>1
    <3>2. QED
      BY <2>1, <3>1, EmptySeq DEF Blocks, Marked
  <2>2. CASE stats["failed"] # 0 /\ lasts = 0
    BY <1>1, <2>2, RecordFacts DEF RunnerInv, KeepInv
  <2>3. CASE stats["failed"] # 0 /\ lasts # 0
    <3>1. last_order' = last_order /\ lasts = Len(last_order)
      BY <2>3 DEF RunnerInv, ReadInv
    <3>2. last_order # <<>>
      BY <1>1, <2>3, <3>1, FileFacts
    <3>3. QED
      BY <1>1, <2>3, <3>1, <3>2 DEF RunnerInv, FileInv
  <2>4. QED
    BY <2>1, <2>2, <2>3
<1>3. RunnerTypeOK'
  <2>1. rounds' \in Nat /\ pc' \in Position
    BY <1>1 DEF Position
  <2>2. last_order' \in Seq([case : Case, failed : BOOLEAN])
    BY <1>2 DEF Entry
  <2>3. UNCHANGED <<processes, O, built, suites, cases, lasts, numbered, last_failed, ignored,
                    failed, suite_at, case_at, stats, suite_stats, status, marked, tested>>
    OBVIOUS
  <2>4. QED
    BY <2>1, <2>2, <2>3 DEF RunnerInv, RunnerTypeOK
<1>4. CasesAccounted'
  <2>1. Completed = built
    BY AllCompleted
  <2>2. Cardinality(built) \in Nat /\ rounds * Cardinality(built) \in Nat
    BY <1>1, PassedFacts
  <2>3. (rounds + 1) * Cardinality(built) = rounds * Cardinality(built) + Cardinality(built)
    BY <1>1, <2>2
  <2>4. Passed = rounds' * Cardinality(built)
    BY <2>1, <2>2, <2>3 DEF Passed
  <2>5. QED
    BY <2>4 DEF RunnerInv, CasesAccounted, Total
<1>5. FileInv' /\ KeepInv'
  BY <1>2 DEF RunnerInv, FileInv, KeepInv
<1>6. MarkInv'
  BY <1>2 DEF RunnerInv, MarkInv
<1>7. QED
  BY <1>3, <1>4, <1>5, <1>6
     DEF RunnerInv, NoCaseLost, WalkInv, ReadInv, BreakAfterFails, ReplayedInOrder,
         RecordKeptWhileFailing

---------------------------------------------------------------------------
(* Which of two tests stands first in a list sorted by their keys. *)
LEMMA SortedFacts ==
  ASSUME NEW S, IsFiniteSet(S), NEW key \in [S -> Int], NEW stood, NEW p \in Orders(S),
         Ascending(p, key, stood), NEW x \in S, NEW y \in S, key[x] < key[y]
  PROVE  PlaceIn(p, x) < PlaceIn(p, y)
<1> DEFINE i == PlaceIn(p, x)
           j == PlaceIn(p, y)
<1>1. i \in 1..Len(p) /\ p[i] = x /\ j \in 1..Len(p) /\ p[j] = y /\ DOMAIN p = 1..Len(p)
      /\ Len(p) \in Nat
  BY OrderFacts
<1>2. key[x] \in Int /\ key[y] \in Int
  OBVIOUS
<1>3. i # j
  BY <1>1, <1>2
<1>4. ~(j < i)
  <2> SUFFICES ASSUME j < i PROVE FALSE
    OBVIOUS
  <2>1. key[p[j]] < key[p[i]] \/ key[p[j]] = key[p[i]]
    BY <1>1 DEF Ascending
  <2>2. QED
    BY <1>1, <1>2, <2>1
<1>5. QED
  BY <1>1, <1>3, <1>4

(* The numbers the entries of the file give to their cases and suites. *)
LEMMA CaseNumbers ==
  ASSUME RunnerInv
  PROVE  /\ CaseSeq(last_order) \in [built -> Int]
         /\ \A i \in DOMAIN last_order :
              last_order[i].case \in built => CaseSeq(last_order)[last_order[i].case] = i
<1> DEFINE f == last_order
<1>1. f \in Seq(Entry) /\ Len(f) \in Nat /\ DOMAIN f = 1..Len(f)
  BY FileFacts DEF RunnerInv, RunnerTypeOK, Entry
<1>2. ASSUME NEW c, Found(f, c) # {}
      PROVE  Max(Found(f, c)) \in DOMAIN f /\ f[Max(Found(f, c))].case = c
  <2>1. Found(f, c) \in SUBSET (1..Len(f))
    BY <1>1 DEF Found
  <2>2. Max(Found(f, c)) \in Found(f, c)
    BY <1>1, <1>2, <2>1, Greatest
  <2>3. QED
    BY <2>2 DEF Found
<1>3. ASSUME NEW c \in built
      PROVE  Registered(f, c) \in Int
  <2>1. built \in SUBSET Case
    BY OptionFacts DEF RunnerInv
  <2>2. PlaceIn(CaseOrder, c) \in Int
    BY <2>1, RunnerAssumption, OrderFacts
  <2>3. QED
    BY <1>1, <2>2 DEF Registered
<1>4. CaseSeq(f) \in [built -> Int]
  <2>1. \A c \in built : (IF Found(f, c) = {} THEN Registered(f, c) ELSE Max(Found(f, c))) \in Int
    BY <1>1, <1>2, <1>3
  <2>2. QED
    BY <2>1 DEF CaseSeq
<1>5. ASSUME NEW i \in DOMAIN f, f[i].case \in built
      PROVE  CaseSeq(f)[f[i].case] = i
  <2>1. i \in Found(f, f[i].case)
    BY DEF Found
  <2>2. CaseSeq(f)[f[i].case] = Max(Found(f, f[i].case))
    BY <1>5, <2>1 DEF CaseSeq
  <2>3. QED
    BY <1>2, <2>1, <2>2 DEF RunnerInv, FileInv, Blocks
<1>6. QED
  BY <1>4, <1>5

LEMMA SuiteNumbers ==
  ASSUME RunnerInv
  PROVE  /\ SuiteSeq(last_order) \in [Suite -> Int]
         /\ \A i \in DOMAIN last_order :
              last_order[i].case \in built =>
                \E m \in DOMAIN last_order :
                  /\ SuiteSeq(last_order)[SuiteOf[last_order[i].case]] = m
                  /\ i <= m /\ SuiteOf[last_order[m].case] = SuiteOf[last_order[i].case]
<1> DEFINE f == last_order
           found(s) == UNION {Found(f, c) : c \in CasesOf(s, built)}
           late(s) == {Registered(f, c) : c \in CasesOf(s, built)}
<1>1. f \in Seq(Entry) /\ Len(f) \in Nat /\ DOMAIN f = 1..Len(f)
  BY FileFacts DEF RunnerInv, RunnerTypeOK, Entry
<1>2. ASSUME NEW s
      PROVE  found(s) = {i \in DOMAIN f : f[i].case \in CasesOf(s, built)}
  BY DEF Found
<1>3. ASSUME NEW s, found(s) # {}
      PROVE  Max(found(s)) \in found(s) /\ \A y \in found(s) : y <= Max(found(s))
  <2>1. found(s) \in SUBSET (1..Len(f))
    BY <1>1, <1>2
  <2>2. QED
    BY <1>1, <1>3, <2>1, Greatest
<1>4. ASSUME NEW s \in Suite, CasesOf(s, built) # {}
      PROVE  Max(late(s)) \in Int
  <2>1. built \in SUBSET Case /\ CasesOf(s, built) \subseteq Case
    BY OptionFacts DEF RunnerInv, CasesOf
  <2>2. \A c \in Case : PlaceIn(CaseOrder, c) \in 1..Len(CaseOrder) /\ Len(CaseOrder) \in Nat
    BY RunnerAssumption, OrderFacts
  <2>3. PICK c0 \in CasesOf(s, built) : TRUE
    BY <1>4
  <2>4. Len(CaseOrder) \in Nat
    BY <2>1, <2>2, <2>3
  <2>5. late(s) \in SUBSET (1..(Len(f) + Len(CaseOrder))) /\ late(s) # {}
    BY <1>1, <2>1, <2>2, <2>3, <2>4 DEF Registered
  <2>6. Max(late(s)) \in late(s)
    <3> DEFINE n == Len(f) + Len(CaseOrder)
    <3>1. n \in Nat /\ late(s) \in SUBSET (1..n)
      BY <1>1, <2>4, <2>5
    <3> HIDE DEF n, late
    <3>2. QED
      BY <2>5, <3>1, Greatest
  <2>7. QED
    BY <1>1, <2>4, <2>5, <2>6
<1>5. ASSUME NEW s \in Suite
      PROVE  SuiteSeq(f)[s] = CASE found(s) # {} -> Max(found(s))
                                [] found(s) = {} /\ CasesOf(s, built) # {} -> Max(late(s))
                                [] OTHER -> 0
  BY DEF SuiteSeq
<1>6. ASSUME NEW s \in Suite
      PROVE  SuiteSeq(f)[s] \in Int
  <2> HIDE DEF f, found, late
  <2>1. CASE found(s) # {}
    <3>1. Max(found(s)) \in DOMAIN f
      BY <1>2, <1>3, <2>1
    <3>2. QED
      BY <1>1, <1>5, <2>1, <3>1
  <2>2. CASE found(s) = {} /\ CasesOf(s, built) # {}
    BY <1>4, <1>5, <2>2
  <2>3. CASE found(s) = {} /\ CasesOf(s, built) = {}
    BY <1>5, <2>3
  <2>4. QED
    BY <2>1, <2>2, <2>3
<1>7. SuiteSeq(f) \in [Suite -> Int]
  BY <1>6 DEF SuiteSeq
<1>8. ASSUME NEW i \in DOMAIN f, f[i].case \in built
      PROVE  \E m \in DOMAIN f :
               /\ SuiteSeq(f)[SuiteOf[f[i].case]] = m
               /\ i <= m /\ SuiteOf[f[m].case] = SuiteOf[f[i].case]
  <2> DEFINE s == SuiteOf[f[i].case]
  <2>1. s \in Suite
    BY <1>8, OptionFacts, RunnerAssumption DEF RunnerInv
  <2>2. i \in found(s)
    BY <1>2, <1>8 DEF CasesOf
  <2>3. SuiteSeq(f)[s] = Max(found(s))
    BY <1>5, <2>1, <2>2
  <2>4. Max(found(s)) \in DOMAIN f /\ f[Max(found(s))].case \in CasesOf(s, built)
    BY <1>2, <1>3, <2>2
  <2>5. i <= Max(found(s))
    BY <1>3, <2>2
  <2>6. QED
    BY <2>3, <2>4, <2>5 DEF CasesOf
<1>9. QED
  BY <1>7, <1>8

---------------------------------------------------------------------------
LEMMA ShuffleLists ==
  ASSUME RunnerInv, Shuffle
  PROVE  suites' \in Orders(Suite) /\ cases' \in CaseLists(built)
<1>1. suites \in Orders(Suite) /\ cases \in CaseLists(built)
  BY DEF Shuffle, RunnerInv, NoCaseLost
<1>2. CASE InLastOrder
  BY <1>2 DEF InLastOrder, Sorted, SortedCases
<1>3. CASE InOwnOrder
  BY <1>1, <1>3 DEF InOwnOrder, Sorted, SortedCases, order
<1>4. QED
  BY <1>2, <1>3 DEF Shuffle

(* The entries of the file run one after the other: those of one suite as  *)
(* they are numbered, those of two suites because the file has the entries *)
(* of a suite together.                                                    *)
LEMMA ShuffleReplays ==
  ASSUME RunnerInv, Shuffle
  PROVE  ReplayedInOrder'
<1> USE DEF Shuffle, process
<1> DEFINE f == last_order
<1>1. f \in Seq(Entry) /\ Len(f) \in Nat /\ DOMAIN f = 1..Len(f)
      /\ \A i \in DOMAIN f : f[i].case \in Case
  BY FileFacts DEF RunnerInv, RunnerTypeOK, Entry
<1>2. CASE InOwnOrder
  <2>1. lasts' = 0
    BY <1>2 DEF InOwnOrder
  <2>2. QED
    BY <2>1 DEF ReplayedInOrder
<1>3. CASE InLastOrder
  <2>1. ASSUME NEW i \in DOMAIN f, NEW j \in DOMAIN f, i < j,
               f[i].case \in built, f[j].case \in built
        PROVE  LET s == SuiteOf[f[i].case]
                   t == SuiteOf[f[j].case]
               IN  \/ PlaceIn(suites', s) < PlaceIn(suites', t)
                   \/ s = t /\ PlaceIn(cases'[s], f[i].case) < PlaceIn(cases'[t], f[j].case)
    <3> DEFINE s == SuiteOf[f[i].case]
               t == SuiteOf[f[j].case]
    <3>1. s \in Suite /\ t \in Suite
      BY <1>1, <2>1, RunnerAssumption
    <3>2. CASE s = t
      <4>1. /\ CaseSeq(f) \in [built -> Int]
            /\ CaseSeq(f)[f[i].case] < CaseSeq(f)[f[j].case]
        BY <1>1, <2>1, CaseNumbers
      <4>2. cases'[s] \in Orders(CasesOf(s, built)) /\ Ascending(cases'[s], CaseSeq(f), CasePlace)
        BY <1>3, <3>1 DEF InLastOrder, SortedCases, CaseLists
      <4>3. f[i].case \in CasesOf(s, built) /\ f[j].case \in CasesOf(s, built)
        BY <2>1, <3>2 DEF CasesOf
      <4>4. IsFiniteSet(CasesOf(s, built)) /\ CasesOf(s, built) \subseteq built
        BY CasesOfFacts, OptionFacts DEF RunnerInv
      <4> DEFINE key == [c \in CasesOf(s, built) |-> CaseSeq(f)[c]]
      <4>5. key \in [CasesOf(s, built) -> Int] /\ key[f[i].case] < key[f[j].case]
        BY <4>1, <4>3, <4>4
      <4>6. \A k \in DOMAIN cases'[s] : cases'[s][k] \in CasesOf(s, built)
        BY <4>2, <4>4, OrderFacts
      <4>7. Ascending(cases'[s], key, CasePlace)
        BY <4>2, <4>6 DEF Ascending
      <4> HIDE DEF key
      <4>8. PlaceIn(cases'[s], f[i].case) < PlaceIn(cases'[s], f[j].case)
        BY <4>2, <4>3, <4>4, <4>5, <4>7, SortedFacts
      <4>9. QED
        BY <3>2, <4>8
    <3>3. CASE s # t
      <4>1. PICK m \in DOMAIN f :
              SuiteSeq(f)[s] = m /\ i <= m /\ SuiteOf[f[m].case] = s
        BY <2>1, SuiteNumbers
      <4>2. PICK n \in DOMAIN f :
              SuiteSeq(f)[t] = n /\ j <= n /\ SuiteOf[f[n].case] = t
        BY <2>1, SuiteNumbers
      <4>3. ~(j < m)
        BY <2>1, <3>3, <4>1 DEF RunnerInv, FileInv, Blocks
      <4>4. m # j
        BY <3>3, <4>1
      <4>5. SuiteSeq(f)[s] < SuiteSeq(f)[t]
        BY <1>1, <4>1, <4>2, <4>3, <4>4
      <4>6. suites' \in Orders(Suite) /\ Ascending(suites', SuiteSeq(f), SuitePlace)
        BY <1>3 DEF InLastOrder, Sorted
      <4>7. SuiteSeq(f) \in [Suite -> Int] /\ IsFiniteSet(Suite)
        BY SuiteNumbers, RunnerAssumption
      <4>8. PlaceIn(suites', s) < PlaceIn(suites', t)
        BY <3>1, <4>5, <4>6, <4>7, SortedFacts
      <4>9. QED
        BY <4>8
    <3>4. QED
      BY <3>2, <3>3
  <2>2. /\ \A x \in Suite : SuitePlace'[x] = PlaceIn(suites', x)
        /\ \A c \in built : CasePlace'[c] = PlaceIn(cases'[SuiteOf[c]], c)
    BY DEF SuitePlace, CasePlace
  <2>3. \A i \in DOMAIN f : SuiteOf[f[i].case] \in Suite
    BY <1>1, RunnerAssumption
  <2>4. ASSUME NEW i \in DOMAIN f, NEW j \in DOMAIN f, i < j,
               f[i].case \in built, f[j].case \in built
        PROVE  Before(<<SuitePlace'[SuiteOf[f[i].case]], CasePlace'[f[i].case]>>,
                      <<SuitePlace'[SuiteOf[f[j].case]], CasePlace'[f[j].case]>>)
    BY <2>1, <2>2, <2>3, <2>4 DEF Before
  <2>5. QED
    BY <2>4 DEF ReplayedInOrder, At
<1>4. QED
  BY <1>2, <1>3

LEMMA NoneCompleted ==
  ASSUME RunnerInv, Shuffle
  PROVE  Completed' = {} /\ Len(suites') = Cardinality(Suite)
<1>1. suites' \in Orders(Suite) /\ IsFiniteSet(Suite)
  BY ShuffleLists, RunnerAssumption
<1>2. \A s \in Suite : PlaceIn(suites', s) \in 1..Len(suites')
  BY <1>1, OrderFacts
<1>3. built' = built /\ \A c \in built : SuiteOf[c] \in Suite
  BY OptionFacts, RunnerAssumption DEF RunnerInv, Shuffle, process
<1>4. \A s \in Suite : SuitePlace'[s] = PlaceIn(suites', s)
  BY DEF SuitePlace
<1>5. suite_at' = 1 /\ \A c \in built : ~(SuitePlace'[SuiteOf[c]] < 1)
  BY <1>1, <1>2, <1>3, <1>4, OrderFacts DEF Shuffle
<1>6. Len(suites') = Cardinality(Suite)
  BY <1>1, OrderFacts
<1>7. QED
  BY <1>3, <1>5, <1>6 DEF Completed

LEMMA ShuffleKeeps ==
  ASSUME RunnerInv, Shuffle
  PROVE  RunnerInv'
<1> USE DEF Shuffle, process
<1>1. suites' \in Orders(Suite) /\ cases' \in CaseLists(built)
  BY ShuffleLists
<1>2. last_order \in Seq(Entry) /\ Len(last_order) \in Nat /\ Marked(last_order) \subseteq Case
  BY FileFacts DEF RunnerInv, RunnerTypeOK, Entry
<1>3. /\ suites' \in Seq(Suite) /\ Len(suites') \in Nat /\ Len(suites') = Cardinality(Suite)
      /\ \A s \in Suite : PlaceIn(suites', s) \in 1..Len(suites')
      /\ cases' \in [Suite -> Seq(Case)]
  BY <1>1, OrderFacts, CaseListFacts, OptionFacts, RunnerAssumption DEF RunnerInv
<1>4. RunnerTypeOK'
  <2>1. numbered' \in Seq(Entry) /\ last_failed' \subseteq Case
    BY <1>2 DEF InLastOrder, InOwnOrder, RunnerInv, RunnerTypeOK, Entry
  <2>2. QED
    BY <1>2, <1>3, <2>1 DEF RunnerInv, RunnerTypeOK, Position, Entry
<1>5. NoCaseLost'
  BY <1>1 DEF NoCaseLost
<1>6. WalkInv' /\ ReadInv'
  BY <1>3 DEF WalkInv, ReadInv
<1>7. CasesAccounted'
  <2>1. Completed' = {}
    BY NoneCompleted
  <2>2. rounds * Cardinality(built) \in Nat
    BY PassedFacts DEF RunnerInv, RunnerTypeOK
  <2>3. Passed' = rounds * Cardinality(built)
    BY <2>1, <2>2, FS_EmptySet DEF Passed
  <2>4. QED
    BY <2>3 DEF RunnerInv, CasesAccounted, Total
<1>8. MarkInv'
  BY DEF RunnerInv, MarkInv, InLastOrder, InOwnOrder
<1>9. ReplayedInOrder'
  BY ShuffleReplays
<1>10. QED
  BY <1>4, <1>5, <1>6, <1>7, <1>8, <1>9
     DEF RunnerInv, FileInv, BreakAfterFails, RecordKeptWhileFailing, KeepInv

---------------------------------------------------------------------------
LEMMA RunnerStutter ==
  ASSUME RunnerInv, UNCHANGED runnerVars
  PROVE  RunnerInv'
<1> USE DEF runnerVars, process, order, marks, place
<1>1. RunnerTypeOK'
  BY DEF RunnerInv, RunnerTypeOK
<1>2. NoCaseLost' /\ FileInv' /\ WalkInv' /\ ReadInv'
  BY DEF RunnerInv, NoCaseLost, FileInv, WalkInv, Cases, ReadInv
<1>3. CasesAccounted'
  BY DEF RunnerInv, CasesAccounted, Total, Passed, Completed, SuitePlace
<1>4. ReplayedInOrder'
  BY DEF RunnerInv, ReplayedInOrder, At, SuitePlace, CasePlace
<1>5. BreakAfterFails' /\ RecordKeptWhileFailing' /\ KeepInv' /\ MarkInv'
  BY DEF RunnerInv, BreakAfterFails, RecordKeptWhileFailing, KeepInv, MarkInv
<1>6. QED
  BY <1>1, <1>2, <1>3, <1>4, <1>5 DEF RunnerInv

LEMMA RunnerInductive ==
  ASSUME RunnerInv, [RunnerNext]_runnerVars
  PROVE  RunnerInv'
<1>1. CASE \E o \in UNION {Option[p] : p \in 1..MaxProcess}, b \in Build : Start(o, b)
  BY <1>1, StartKeeps
<1>2. CASE RunnerStep
  BY <1>2, ShuffleKeeps, BeginSuiteKeeps, SkipCaseKeeps, TestCaseKeeps, EndSuiteCounts,
     EndRoundKeeps, ExitKeeps DEF RunnerStep
<1>3. CASE Crash
  BY <1>3, CrashKeeps
<1>4. CASE UNCHANGED runnerVars
  BY <1>4, RunnerStutter
<1>5. QED
  BY <1>1, <1>2, <1>3, <1>4 DEF RunnerNext

(* The invariant holds over every behaviour of the runner: the theorems    *)
(* below are parts of it.                                                  *)
THEOREM RunnerCorrect == RunnerSpec => []RunnerInv
BY InitHolds, RunnerInductive, PTL DEF RunnerSpec

(* The state of the runner keeps its type, whatever the builds and options *)
(* of the processes and however they end.                                  *)
THEOREM RunnerTypeCorrect == RunnerSpec => []RunnerTypeOK
<1>1. RunnerInv => RunnerTypeOK
  BY DEF RunnerInv
<1>2. QED
  BY <1>1, RunnerCorrect, PTL

(* Every case is counted once per round under one heading, in every order, *)
(* with every option but -l (h2_runner::main).                             *)
THEOREM EveryCaseAccounted == RunnerSpec => []CasesAccounted
<1>1. RunnerInv => CasesAccounted
  BY DEF RunnerInv
<1>2. QED
  BY <1>1, RunnerCorrect, PTL

(* -b n: no process has more than n failures. *)
THEOREM BreaksAfterFails == RunnerSpec => []BreakAfterFails
<1>1. RunnerInv => BreakAfterFails
  BY DEF RunnerInv
<1>2. QED
  BY <1>1, RunnerCorrect, PTL

(* A failing process leaves .last_order, and later ones run its entries in *)
(* its order, with no case lost (sequence_last_order, save_last_order).    *)
THEOREM OrderReplayed == RunnerSpec => []LastOrderReplayed
<1>1. RunnerInv => LastOrderReplayed
  BY DEF RunnerInv, LastOrderReplayed
<1>2. QED
  BY <1>1, RunnerCorrect, PTL

(* -f never tests a case that the file it found does not mark as failed.   *)
THEOREM LastFailedOnly == RunnerSpec => OnlyMarkedTested
<1>1. RunnerInv /\ [RunnerNext]_runnerVars =>
        [\A v \in Verdict : TestCase(v) /\ O.onlyLastFailed => Current \in marked]_runnerVars
  <2> SUFFICES ASSUME RunnerInv, NEW v \in Verdict, TestCase(v), O.onlyLastFailed
               PROVE  Current \in marked
    OBVIOUS
  <2>1. Current \in last_failed
    BY DEF TestCase, Skipped, Ignored
  <2>2. QED
    BY <2>1 DEF RunnerInv, MarkInv, TestCase
<1>2. QED
  BY <1>1, RunnerCorrect, PTL DEF RunnerSpec, OnlyMarkedTested
---------------------------------------------------------------------------
(* How many steps the process has left: a round orders the lists, enters   *)
(* and leaves every suite, passes every case and ends; then main returns.  *)
RoundSteps == 2 + 2 * Cardinality(Suite) + Cardinality(built)
RoundsLeft == O.rounds - rounds - (IF pc = "round" THEN 0 ELSE 1)
SuitesLeft == Len(suites) + 1 - suite_at
CasesLeft ==
  Cardinality(built) - Cardinality(Completed) - (IF pc = "case" THEN case_at - 1 ELSE 0)
LeftInRound ==
  CASE pc = "suite" -> 2 * SuitesLeft + CasesLeft + 1
    [] pc = "case"  -> 2 * SuitesLeft + CasesLeft
    [] OTHER        -> 0
StepsLeft == IF pc = "idle" THEN 0 ELSE RoundsLeft * RoundSteps + LeftInRound + 1

(* No round is begun that was not asked for. *)
RoundsInv == pc # "idle" => RoundsLeft >= 0

StepsBounded == StepsLeft \in Nat /\ (pc # "idle" => StepsLeft > 0)
StepsRunOut ==
  /\ RunnerStep => StepsLeft' = StepsLeft - 1
  /\ pc = "idle" /\ pc' = "round" => StepsLeft' = O'.rounds * RoundSteps' + 1

LEMMA Sizes ==
  ASSUME RunnerInv
  PROVE  /\ O.rounds \in Nat /\ rounds \in Nat /\ RoundsLeft \in Int
         /\ Cardinality(Suite) \in Nat /\ RoundSteps \in Nat
         /\ Cardinality(Completed) \in Nat /\ Cardinality(built) \in Nat
         /\ Cardinality(Completed) <= Cardinality(built)
<1>1. O.rounds \in Nat /\ rounds \in Nat
  BY OptionFacts DEF RunnerInv, RunnerTypeOK, OptionType
<1>2. Cardinality(Suite) \in Nat
  BY RunnerAssumption, FS_CardinalityType
<1>3. Cardinality(Completed) \in Nat /\ Cardinality(built) \in Nat
  BY PassedFacts, 0 \in Nat
<1>4. IsFiniteSet(built) /\ Completed \in SUBSET built
  BY CasesOfFacts, OptionFacts DEF RunnerInv, Completed
<1>5. Cardinality(Completed) <= Cardinality(built)
  BY <1>4, FS_Subset
<1>6. QED
  BY <1>1, <1>2, <1>3, <1>5 DEF RoundsLeft, RoundSteps

LEMMA LeftOver ==
  ASSUME RunnerInv, pc \in {"suite", "case"}
  PROVE  /\ SuitesLeft \in Nat /\ (pc = "case" => SuitesLeft > 0)
         /\ CasesLeft \in Nat
<1>1. SuitesLeft \in Nat /\ (pc = "case" => SuitesLeft > 0)
  <2>1. suite_at \in 1..(Len(suites) + 1) /\ Len(suites) \in Nat
    BY SuiteFacts DEF RunnerInv, WalkInv
  <2>2. pc = "case" => suite_at <= Len(suites)
    BY DEF RunnerInv, WalkInv
  <2>3. QED
    BY <2>1, <2>2 DEF SuitesLeft
<1>2. CASE pc = "suite"
  <2>1. CasesLeft = Cardinality(built) - Cardinality(Completed) - 0
    BY <1>2 DEF CasesLeft
  <2>2. QED
    BY <1>1, <2>1, Sizes
<1>3. CASE pc = "case"
  <2>1. case_at \in 1..(Len(Cases) + 1) /\ Len(Cases) \in Nat
    BY <1>3, AtSuite DEF RunnerInv, WalkInv
  <2>2. case_at - 1 \in Nat /\ case_at - 1 <= Len(Cases)
    BY <2>1
  <2>3. CasesLeft = Cardinality(built) - Cardinality(Completed) - (case_at - 1)
    BY <1>3 DEF CasesLeft
  <2>4. Cardinality(Completed) + Len(Cases) <= Cardinality(built)
    BY <1>3, SuiteCompletes
  <2>5. Cardinality(Completed) \in Nat /\ Cardinality(built) \in Nat
    BY Sizes
  <2>6. CasesLeft \in Nat
    BY <2>1, <2>2, <2>3, <2>4, <2>5
  <2>7. QED
    BY <1>1, <2>6
<1>4. QED
  BY <1>1, <1>2, <1>3

LEMMA RoundHasSteps ==
  ASSUME RunnerInv
  PROVE  LeftInRound \in Nat
BY LeftOver DEF LeftInRound

LEMMA BoundedHolds ==
  ASSUME RunnerInv, RoundsInv
  PROVE  StepsBounded
<1>1. CASE pc = "idle"
  BY <1>1 DEF StepsBounded, StepsLeft
<1>2. CASE pc # "idle"
  <2>1. RoundsLeft \in Nat /\ RoundSteps \in Nat
    BY <1>2, Sizes DEF RoundsInv
  <2>2. RoundsLeft * RoundSteps \in Nat
    BY <2>1
  <2>3. QED
    BY <1>2, <2>2, RoundHasSteps DEF StepsBounded, StepsLeft
<1>3. QED
  BY <1>1, <1>2

(* A step inside a round is one less for the round to take. *)
LEMMA WithinRound ==
  ASSUME RunnerInv, pc \in {"suite", "case"}, pc' \in {"suite", "case"},
         O' = O, built' = built, rounds' = rounds,
         LeftInRound' = LeftInRound - 1
  PROVE  StepsLeft' = StepsLeft - 1
<1>1. RoundsLeft' = RoundsLeft /\ RoundSteps' = RoundSteps
  BY DEF RoundsLeft, RoundSteps
<1>2. RoundsLeft * RoundSteps \in Int
  BY Sizes
<1>3. QED
  BY <1>1, <1>2, RoundHasSteps DEF StepsLeft

LEMMA BeginSuiteRuns ==
  ASSUME RunnerInv, BeginSuite
  PROVE  StepsLeft' = StepsLeft - 1
<1>1. /\ pc = "suite" /\ pc' = "case" /\ case_at' = 1
      /\ UNCHANGED <<O, built, rounds, suites, suite_at>>
  BY DEF BeginSuite, order, process
<1>2. Completed' = Completed
  BY <1>1 DEF Completed, SuitePlace
<1>3. SuitesLeft' = SuitesLeft /\ CasesLeft' = CasesLeft
  BY <1>1, <1>2 DEF SuitesLeft, CasesLeft
<1>4. SuitesLeft \in Nat /\ CasesLeft \in Nat
  BY <1>1, LeftOver
<1>5. LeftInRound' = LeftInRound - 1
  BY <1>1, <1>3, <1>4 DEF LeftInRound
<1>6. QED
  BY <1>1, <1>5, WithinRound

LEMMA CaseRuns ==
  ASSUME RunnerInv, SkipCase \/ \E v \in Verdict : TestCase(v)
  PROVE  StepsLeft' = StepsLeft - 1
<1>1. /\ pc = "case" /\ pc' = "case" /\ case_at' = case_at + 1
      /\ UNCHANGED <<O, built, rounds, suites, suite_at>>
  BY DEF SkipCase, TestCase, order, process
<1>2. Completed' = Completed
  BY <1>1 DEF Completed, SuitePlace
<1>3. case_at \in Nat /\ Cardinality(Completed) \in Nat /\ Cardinality(built) \in Nat
  BY Sizes DEF RunnerInv, RunnerTypeOK
<1>4. SuitesLeft' = SuitesLeft
  BY <1>1 DEF SuitesLeft
<1>5. CasesLeft' = CasesLeft - 1
  BY <1>1, <1>2, <1>3 DEF CasesLeft
<1>6. SuitesLeft \in Nat /\ CasesLeft \in Nat
  BY <1>1, LeftOver
<1>7. LeftInRound' = LeftInRound - 1
  BY <1>1, <1>4, <1>5, <1>6 DEF LeftInRound
<1>8. QED
  BY <1>1, <1>7, WithinRound

LEMMA EndSuiteRuns ==
  ASSUME RunnerInv, EndSuite
  PROVE  StepsLeft' = StepsLeft - 1
<1>1. /\ pc = "case" /\ pc' = "suite" /\ suite_at' = suite_at + 1
      /\ UNCHANGED <<O, built, rounds, suites>>
  BY DEF EndSuite, order, process
<1>2. suite_at \in Nat /\ Len(suites) \in Nat /\ Len(Cases) \in Nat /\ case_at = Len(Cases) + 1
  BY <1>1, SuiteFacts, AtSuite DEF RunnerInv, WalkInv, EndSuite
<1>3. Cardinality(Completed') = Cardinality(Completed) + Len(Cases)
  BY EndSuiteCompletes
<1>4. SuitesLeft' = SuitesLeft - 1
  BY <1>1, <1>2 DEF SuitesLeft
<1>5. CasesLeft' = CasesLeft
  <2>1. CasesLeft = Cardinality(built) - Cardinality(Completed) - Len(Cases)
    BY <1>1, <1>2 DEF CasesLeft
  <2>2. CasesLeft' = Cardinality(built) - Cardinality(Completed')
    BY <1>1, Sizes, <1>2, <1>3 DEF CasesLeft
  <2>3. Cardinality(Completed) \in Nat /\ Cardinality(built) \in Nat
    BY Sizes
  <2>4. QED
    BY <1>2, <1>3, <2>1, <2>2, <2>3
<1>6. SuitesLeft \in Nat /\ CasesLeft \in Nat
  BY <1>1, LeftOver
<1>7. LeftInRound' = LeftInRound - 1
  BY <1>1, <1>4, <1>5, <1>6 DEF LeftInRound
<1>8. QED
  BY <1>1, <1>7, WithinRound

LEMMA ShuffleRuns ==
  ASSUME RunnerInv, Shuffle
  PROVE  StepsLeft' = StepsLeft - 1 /\ RoundsInv'
<1> USE DEF Shuffle, process
<1>1. RoundsLeft' = RoundsLeft - 1 /\ RoundsLeft > 0 /\ RoundSteps' = RoundSteps
  BY Sizes DEF RoundsLeft, RoundSteps
<1>2. LeftInRound' = RoundSteps - 1 /\ LeftInRound = 0
  <2>1. Len(suites') = Cardinality(Suite) /\ Cardinality(Completed') = 0
    BY NoneCompleted, FS_EmptySet
  <2>2. SuitesLeft' = Cardinality(Suite)
    BY <2>1, Sizes DEF SuitesLeft
  <2>3. CasesLeft' = Cardinality(built)
    BY <2>1, Sizes DEF CasesLeft
  <2>4. LeftInRound' = 2 * Cardinality(Suite) + Cardinality(built) + 1
    BY <2>2, <2>3 DEF LeftInRound
  <2>5. LeftInRound = 0
    BY DEF LeftInRound
  <2>6. Cardinality(Suite) \in Nat /\ Cardinality(built) \in Nat
    BY Sizes
  <2>7. QED
    BY <2>4, <2>5, <2>6 DEF RoundSteps
<1>3. RoundsLeft \in Int /\ RoundSteps \in Int
  BY Sizes
<1>4. (RoundsLeft - 1) * RoundSteps = RoundsLeft * RoundSteps - RoundSteps
  BY <1>3
<1>5. RoundsLeft * RoundSteps \in Int
  BY <1>3
<1>6. StepsLeft = RoundsLeft * RoundSteps + 0 + 1
  BY <1>2 DEF StepsLeft
<1>7. StepsLeft' = RoundsLeft * RoundSteps - RoundSteps + (RoundSteps - 1) + 1
  BY <1>1, <1>2, <1>4 DEF StepsLeft
<1>8. StepsLeft' = StepsLeft - 1
  BY <1>3, <1>5, <1>6, <1>7
<1>9. RoundsInv'
  BY <1>1, <1>3 DEF RoundsInv
<1>10. QED
  BY <1>8, <1>9

LEMMA EndRoundRuns ==
  ASSUME RunnerInv, EndRound
  PROVE  StepsLeft' = StepsLeft - 1
<1> pc = "suite" /\ pc' = "round" /\ rounds' = rounds + 1 /\ O' = O /\ built' = built
  BY DEF EndRound, process
<1>1. RoundsLeft' = RoundsLeft /\ RoundSteps' = RoundSteps
  BY Sizes DEF RoundsLeft, RoundSteps
<1>2. LeftInRound' = 0 /\ LeftInRound = 1
  <2>1. SuitesLeft = 0 /\ CasesLeft = 0
    BY AllCompleted, SuiteFacts, Sizes DEF SuitesLeft, CasesLeft, RunnerInv
  <2>2. QED
    BY <2>1 DEF LeftInRound
<1>3. RoundsLeft * RoundSteps \in Int
  BY Sizes
<1>4. QED
  BY <1>1, <1>2, <1>3 DEF StepsLeft

LEMMA ExitRuns ==
  ASSUME RunnerInv, RoundsInv, Exit
  PROVE  StepsLeft' = StepsLeft - 1
<1>1. RoundsLeft = 0 /\ pc = "round" /\ pc' = "idle"
  BY Sizes DEF Exit, RoundsInv, RoundsLeft
<1>2. RoundsLeft * RoundSteps = 0
  BY <1>1, Sizes
<1>3. QED
  BY <1>1, <1>2 DEF StepsLeft, LeftInRound

LEMMA StepsRun ==
  ASSUME RunnerInv, RoundsInv, [RunnerNext]_runnerVars
  PROVE  RoundsInv' /\ [StepsRunOut]_runnerVars
<1>1. CASE RunnerStep
  <2>1. StepsLeft' = StepsLeft - 1
    BY <1>1, ShuffleRuns, BeginSuiteRuns, CaseRuns, EndSuiteRuns, EndRoundRuns, ExitRuns
       DEF RunnerStep
  <2>2. pc # "idle"
    BY <1>1 DEF RunnerStep, Shuffle, BeginSuite, SkipCase, TestCase, EndSuite, EndRound, Exit
  <2>3. RoundsInv'
    <3>1. CASE Shuffle
      BY <3>1, ShuffleRuns
    <3>2. CASE Exit
      BY <3>2 DEF Exit, RoundsInv
    <3>3. CASE BeginSuite \/ SkipCase \/ EndSuite \/ \E v \in Verdict : TestCase(v)
      BY <2>2, <3>3
         DEF BeginSuite, SkipCase, EndSuite, TestCase, process, RoundsInv, RoundsLeft
    <3>4. CASE EndRound
      BY <2>2, <3>4, Sizes DEF EndRound, process, RoundsInv, RoundsLeft
    <3>5. QED
      BY <1>1, <3>1, <3>2, <3>3, <3>4 DEF RunnerStep
  <2>4. QED
    BY <2>1, <2>2, <2>3 DEF StepsRunOut
<1>2. ASSUME NEW o \in UNION {Option[p] : p \in 1..MaxProcess}, NEW b \in Build, Start(o, b)
      PROVE  RoundsInv' /\ [StepsRunOut]_runnerVars
  <2>1. Cardinality(Suite) \in Nat /\ Cardinality(built') \in Nat
    <3>1. IsFiniteSet(Suite) /\ IsFiniteSet(Case) /\ built' \in SUBSET Case
      BY <1>2, RunnerAssumption DEF Start
    <3>2. QED
      BY <3>1, FS_Subset, FS_CardinalityType
  <2>2. O'.rounds \in Nat /\ O'.rounds * RoundSteps' \in Nat
    <3>1. O' \in OptionType
      BY <1>2, RunnerAssumption DEF Start
    <3>2. O'.rounds \in Nat /\ RoundSteps' \in Nat
      BY <2>1, <3>1 DEF OptionType, RoundSteps
    <3>3. QED
      BY <3>2
  <2>3. pc = "idle" /\ pc' = "round" /\ rounds' = 0
    BY <1>2 DEF Start
  <2>4. RoundsLeft' = O'.rounds /\ LeftInRound' = 0
    BY <2>2, <2>3 DEF RoundsLeft, LeftInRound
  <2>5. RoundsInv' /\ StepsLeft' = O'.rounds * RoundSteps' + 1
    BY <2>2, <2>3, <2>4 DEF RoundsInv, StepsLeft
  <2>6. ~RunnerStep
    BY <2>3 DEF RunnerStep, Shuffle, BeginSuite, SkipCase, TestCase, EndSuite, EndRound, Exit
  <2>7. QED
    BY <2>3, <2>5, <2>6 DEF StepsRunOut
<1>3. CASE Crash
  <2>1. pc = "case" /\ pc' = "idle" /\ UNCHANGED <<case_at, suites, cases, suite_at>>
    BY <1>3 DEF Crash, place, order
  <2>2. ~RunnerStep
    BY <2>1 DEF RunnerStep, Shuffle, BeginSuite, SkipCase, TestCase, EndSuite, EndRound, Exit
  <2>3. QED
    BY <2>1, <2>2 DEF StepsRunOut, RoundsInv
<1>4. CASE UNCHANGED runnerVars
  BY <1>4 DEF runnerVars, process, RoundsInv, RoundsLeft
<1>5. QED
  BY <1>1, <1>2, <1>3, <1>4 DEF RunnerNext

(* A process that no case kills takes exactly as many steps as its rounds, *)
(* suites and cases ask for, whatever -b, -f and the order make of them:   *)
(* each step of h2_runner::main leaves one less, and at none it has ended. *)
THEOREM ProcessesRunOut ==
  RunnerSpec => []StepsBounded /\ [][StepsRunOut]_runnerVars
<1>1. RunnerInit => RunnerInv /\ RoundsInv
  BY InitHolds DEF RunnerInit, RoundsInv
<1>2. RunnerInv /\ RoundsInv /\ [RunnerNext]_runnerVars => (RunnerInv /\ RoundsInv)'
  BY RunnerInductive, StepsRun
<1>3. RunnerInv /\ RoundsInv /\ [RunnerNext]_runnerVars => [StepsRunOut]_runnerVars
  BY StepsRun
<1>4. RunnerInv /\ RoundsInv => StepsBounded
  BY BoundedHolds
<1>5. QED
  BY <1>1, <1>2, <1>3, <1>4, PTL DEF RunnerSpec
===========================================================================
