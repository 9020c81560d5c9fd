----------------------------- MODULE Reports ------------------------------
(***************************************************************************)
(* What a run shows: the failures of a case in the order in which they are *)
(* written (src/source/report/h2_failure.cpp), an assertion's expression   *)
(* cut in two (assert/h2_assert.cpp), the listing of suites and cases      *)
(* (report/h2_report_list.cpp), and the bars of the console between what   *)
(* the tests write (h2_report_console.cpp, stdio/h2_stdio.cpp).            *)
(***************************************************************************)
EXTENDS Integers, SequencesExt, FiniteSetsExt

(* Every failure has a next sibling and a first child, 0 for none. *)
Alone(n) == [f \in 1..n |-> [sibling |-> 0, child |-> 0]]

RECURSIVE AppendTo(_, _, _, _), Foreach(_, _, _, _)

(* Mutant of AppendTo: what was there is replaced. *)
AppendToOnly(links, kind, f, fail) == [links EXCEPT ![f][kind] = fail]

(* H2_FAIL_APPEND: behind the last of the chain that starts at f. *)
AppendTo(links, kind, f, fail) ==
  IF links[f][kind] = 0 THEN [links EXCEPT ![f][kind] = fail] ELSE AppendTo(links, kind, links[f][kind], fail)

(* h2_fail::foreach: itself, its children, then its siblings. *)
Foreach(links, f, si, ci) ==
  IF f = 0 THEN <<>> ELSE <<[fail |-> f, si |-> si, ci |-> ci]>> \o Foreach(links, links[f].child, 0, ci + 1) \o Foreach(links, links[f].sibling, si + 1, ci)

(* Mutant of Scanned: brackets are not counted. *)
ScannedFlat(scan, ch, op) ==
  LET quote == scan.quote # (ch = "'") IN
  IF scan.found THEN scan
  ELSE [quote |-> quote, stacks |-> 0, at |-> scan.at + 1, found |-> ~quote /\ ch = op]

(* One character of an expression: a bracket in quotes is none, and one    *)
(* that closes a bracket met before is not the operator.                   *)
Scanned(scan, ch, op) ==
  LET quote == scan.quote # (ch = "'")
      opens == ~quote /\ <<ch, op>> \in {<<"<", ">">>, <<">", "<">>}
      meets == ~quote /\ ch = op
  IN IF scan.found THEN scan
     ELSE [quote |-> quote, at |-> scan.at + 1, found |-> meets /\ scan.stacks = 0,
           stacks |-> IF opens THEN scan.stacks + 1 ELSE IF meets THEN scan.stacks - 1 ELSE scan.stacks]

(* __find_compare: < is looked for from the right, the others from the     *)
(* left.  0 when there is none.                                            *)
FindCompare(s, op) ==
  LET start == [quote |-> FALSE, stacks |-> 0, at |-> 0, found |-> FALSE]
      scan == FoldLeft(LAMBDA sc, ch : Scanned(sc, ch, op), start, IF op = "<" THEN Reverse(s) ELSE s)
  IN IF ~scan.found THEN 0 ELSE IF op = "<" THEN Len(s) + 1 - scan.at ELSE scan.at

---------------------------------------------------------------------------
(* h2_report_list: counts of all and of those listed, and the lines.       *)
Listed0 == [all |-> [t \in {"suite", "case", "todo"} |-> 0], shown |-> [t \in {"suite", "case", "todo"} |-> 0],
            inSuite |-> 0, lines |-> <<>>]
Counted(list, type) == [list EXCEPT !.all[type] = @ + 1]
Shown(list, type, nth, number) ==
  [list EXCEPT !.shown[type] = @ + 1, !.lines = Append(@, [type |-> type, nth |-> nth, number |-> number])]

(* Mutant of OnSuite: a standalone case does not count anew. *)
OnSuiteLate(list, lists, s) ==
  LET fresh == [list EXCEPT !.inSuite = 0] IN
  IF s.absent THEN list ELSE IF s.filtered \/ "suite" \notin lists THEN Counted(fresh, "suite") ELSE Shown(Counted(fresh, "suite"), "suite", 0, list.shown["suite"] + 1)

OnSuite(list, lists, s) ==
  LET fresh == [list EXCEPT !.inSuite = 0] IN
  IF s.absent THEN fresh ELSE IF s.filtered \/ "suite" \notin lists THEN Counted(fresh, "suite") ELSE Shown(Counted(fresh, "suite"), "suite", 0, list.shown["suite"] + 1)

OnCase(list, lists, c) ==
  IF c.filtered \/ c.type \notin lists THEN Counted(list, c.type)
  ELSE [Shown(Counted(list, c.type), c.type, list.inSuite + 1, list.shown["case"] + list.shown["todo"] + 1) EXCEPT !.inSuite = @ + 1]

(* on_runner_endup: what was listed, and what was counted beside it.       *)
Totals(list, lists) == [t \in lists |-> [listed |-> list.shown[t], filtered |-> list.all[t] - list.shown[t]]]

---------------------------------------------------------------------------
(* The screen: what stands on the line of the cursor, what has been        *)
(* erased, whether a test wrote since the last bar, and whether a bar      *)
(* stands there that the next one may overwrite.                           *)
Screen == [line |-> {}, erased |-> {}, captured |-> FALSE, backable |-> FALSE]
CompactFailed == 1
CompactWarning == 2
CompactPassed == 3
Normal == 4
Detail == 5

NewLine(scr) == [scr EXCEPT !.line = {}]
ClearLine(scr) == [scr EXCEPT !.line = {}, !.erased = @ \cup scr.line]

(* Mutant of PrintBar: it always clears the line. *)
PrintBarClears(scr, o, what, backable) ==
  LET now == [ClearLine(scr) EXCEPT !.captured = FALSE, !.backable = o.progressing /\ backable]
  IN IF ~o.progressing /\ backable THEN now ELSE [now EXCEPT !.line = what]

PrintBar(scr, o, what, backable) ==
  LET fresh == IF scr.captured THEN NewLine(scr) ELSE ClearLine(scr)
      now == [fresh EXCEPT !.captured = FALSE, !.backable = o.progressing /\ backable]
  IN IF ~o.progressing /\ backable THEN now ELSE [now EXCEPT !.line = what]

(* h2_stdio::write, of a text that ends its line or does not. *)
Write(scr, o, ends) ==
  IF o.verbose < Normal THEN scr
  ELSE LET own == IF scr.backable THEN [NewLine(scr) EXCEPT !.backable = FALSE] ELSE scr
       IN [own EXCEPT !.line = IF ends THEN {} ELSE @ \cup {"output"}, !.captured = TRUE]

(* h2_stdio stands in for these calls: the stream of each, and what it     *)
(* writes, one write after the other.                                      *)
StreamOf(call) ==
  CASE call.fn \in {"printf", "vprintf", "putchar", "puts", "cout"} -> "stdout"
    [] call.fn \in {"cerr", "clog"} -> "stderr"
    [] call.fn \in {"syslog", "vsyslog"} -> "syslog"
    [] OTHER -> call.stream
WritesOf(call) ==
  CASE call.fn = "puts" -> <<call.text, <<"newline">>>>
    [] call.fn \in {"putchar", "fputc", "putc", "cout", "cerr", "clog"} -> [i \in DOMAIN call.text |-> <<call.text[i]>>]
    [] OTHER -> <<call.text>>

(* h2_stdio::write: what is not to be seen is captured all the same.       *)
Captured(out, stream, text) == IF stream \in out.capturable THEN [out EXCEPT !.buffer = @ \o text] ELSE out
Displayed(out, stream, text) ==
  IF stream = "file" THEN [out EXCEPT !.file = @ \o text]
  ELSE [out EXCEPT !.screen = @ \o (IF out.backable THEN <<"newline">> ELSE <<>>) \o text, !.backable = FALSE, !.length = @ + Len(text)]

(* Mutant of WriteTo: what is not to be seen is lost. *)
WriteToSeen(out, o, stream, text) ==
  IF o.verbose >= Normal \/ stream = "file" THEN Captured(Displayed(out, stream, text), stream, text) ELSE out

WriteTo(out, o, stream, text) ==
  Captured(IF o.verbose >= Normal \/ stream = "file" THEN Displayed(out, stream, text) ELSE out, stream, text)

(* The stand-ins, vsyslog that nothing but a capture sees, start_capture.  *)
OnStdio(out, o, call) ==
  CASE call.fn = "start_capture" -> [out EXCEPT !.capturable = call.streams, !.buffer = <<>>]
    [] call.fn = "stop_capture" -> [out EXCEPT !.capturable = {}]
    [] StreamOf(call) = "syslog" -> Captured(out, "syslog", call.text)
    [] OTHER -> FoldLeft(LAMBDA now, text : WriteTo(now, o, StreamOf(call), text), out, WritesOf(call))

CaseStart(scr, o, verdict) ==
  IF verdict \in {"ignored", "todo"} THEN scr ELSE PrintBar(scr, o, {"testing"}, TRUE)
Shows(o, verdict) ==
  CASE verdict = "todo" -> o.verbose >= Detail
    [] verdict = "failed" -> o.verbose >= CompactFailed
    [] verdict = "warning" -> o.verbose >= CompactWarning
    [] verdict = "passed" -> o.verbose >= Detail \/ o.verbose = CompactPassed
    [] OTHER -> FALSE
CaseEndup(scr, o, verdict) ==
  IF ~Shows(o, verdict) THEN scr
  ELSE LET shown == PrintBar(scr, o, {verdict}, FALSE) IN IF verdict = "todo" THEN shown ELSE NewLine(shown)
RunnerEndup(scr, o) == NewLine(PrintBar(scr, o, {}, FALSE))

---------------------------------------------------------------------------
(***************************************************************************)
(* What the reports make of a run (src/source/report/h2_report_console.cpp,*)
(* h2_report_junit.cpp, the tags of h2_report_list.cpp): bars, the lines   *)
(* of suites and of the run, the file with one element for each case.      *)
(* A run is its suites, each the cases it has; a case has its flags, how   *)
(* it ended last and how it will end in each round.                        *)
(***************************************************************************)
CONSTANTS MaxTags      \* the length of h2_report_list::tags

Verdicts == <<"passed", "failed", "warning", "todo", "filtered", "ignored">>
NoStats == [v \in Range(Verdicts) |-> 0]
Verdict(c) == IF c.ignored THEN "ignored" ELSE IF c.filtered THEN "filtered" ELSE IF c.todo THEN "todo" ELSE c.ended
IsTested(c) == ~c.ignored /\ ~c.filtered /\ ~c.todo

(* The file: marks of elements, and what an opening one says.              *)
Open(element, said) == [mark |-> "open", element |-> element, said |-> said]
Close(element) == [mark |-> "close", element |-> element, said |-> ""]
Status(c) == IF c.todo THEN "todo" ELSE IF c.filtered THEN "filtered" ELSE IF c.ignored THEN "ignored" ELSE c.ended

(* Mutant of TestCase: the element is closed where there is no failure. *)
TestCaseOpen(c) ==
  <<Open("testcase", [name |-> c.name, status |-> Status(c)])>>
    \o (IF c.ended = "failed" THEN <<Open("failure", ""), Close("failure")>> ELSE <<Close("testcase")>>)

(* A failure is said of a case that has failed when it was tested last.    *)
TestCase(c) ==
  <<Open("testcase", [name |-> c.name, status |-> Status(c)])>>
    \o (IF c.ended = "failed" THEN <<Open("failure", ""), Close("failure")>> ELSE <<>>)
    \o <<Open("system-out", ""), Close("system-out"), Open("system-err", ""), Close("system-err"), Close("testcase")>>
Header(s) == Open("testsuite", [name |-> s.name, failures |-> s.stats["failed"],
                                skipped |-> s.stats["todo"] + s.stats["filtered"], tests |-> Len(s.cases)])

(* xml_escape                                                              *)
Entities == [x \in {"&", "<", ">", "\"", "'"} |->
               CASE x = "&" -> <<"&", "amp", ";">> [] x = "<" -> <<"&", "lt", ";">> [] x = ">" -> <<"&", "gt", ";">>
                 [] x = "\"" -> <<"&", "quot", ";">> [] x = "'" -> <<"&", "apos", ";">>]

(* Mutant of XmlEscape: the mark of an entity itself is not escaped. *)
XmlEscapeBare(s) ==
  FlattenSeq([i \in DOMAIN s |-> IF s[i] # "&" /\ s[i] \in DOMAIN Entities THEN Entities[s[i]] ELSE <<s[i]>>])

XmlEscape(s) == FlattenSeq([i \in DOMAIN s |-> IF s[i] \in DOMAIN Entities THEN Entities[s[i]] ELSE <<s[i]>>])

---------------------------------------------------------------------------
(* The parts of a line, those of zero left out; in the line of a run the   *)
(* cases that passed are always said.                                      *)
Parts(stats, always) ==
  LET said == SelectSeq(Verdicts, LAMBDA v : stats[v] # 0 \/ v \in always)
  IN [i \in DOMAIN said |-> [count |-> stats[said[i]], what |-> said[i]]]
RunLine(r) ==
  LET parts == Parts(r.stats, {"passed"}) others == Len(parts) - 1 IN
  [head |-> IF r.stats["failed"] > 0 THEN "Failure" ELSE "Success", parts |-> parts, total |-> IF others > 0 THEN r.cases ELSE -1,
   rounds |-> IF r.round > 1 THEN r.round ELSE -1]
SuiteLine(s) == LET parts == Parts(s.stats, {}) IN
  [name |-> s.name, parts |-> parts, bracketed |-> Len(parts) > 1, total |-> IF Len(s.cases) > 0 THEN Len(s.cases) ELSE -1]

(* format_percentage                                                       *)
Percentage(r) == IF r.cases = 0 THEN 100 ELSE (r.index * 100) \div r.cases

(* Mutant of SuiteEnded: the counts of the suite go on. *)
SuiteEndedLate(r, i) ==
  [r EXCEPT !.lines = Append(@, SuiteLine(r.suites[i])), !.file = Append(@, Close("testsuite"))]

(* on_suite_endup, then h2_suite::clear                                    *)
SuiteEnded(r, i) ==
  [r EXCEPT !.lines = Append(@, SuiteLine(r.suites[i])), !.file = Append(@, Close("testsuite")), !.suites[i].stats = NoStats]

(* One case: counted by its flags, its bar, its test, its element.         *)
CaseRun(r, i, j) ==
  LET c == [r.suites[i].cases[j] EXCEPT !.ignored = @ \/ (r.breakAfter > 0 /\ r.breakAfter <= r.stats["failed"])]
      done == IF IsTested(c) THEN [c EXCEPT !.ended = c.ends[r.round + 1]] ELSE c
      shown == [r EXCEPT !.index = @ + 1]
  IN [shown EXCEPT !.stats[Verdict(done)] = @ + 1, !.suites[i].stats[Verdict(done)] = @ + 1, !.suites[i].cases[j] = done,
                   !.bars = IF IsTested(c) THEN Append(@, Percentage(shown)) ELSE @, !.file = @ \o TestCase(done)]
SuiteRun(r, i) ==
  SuiteEnded(FoldLeft(LAMBDA now, j : CaseRun(now, i, j), [r EXCEPT !.file = Append(@, Header(r.suites[i]))],
                      [j \in DOMAIN r.suites[i].cases |-> j]), i)
Round(r) == [FoldLeft(SuiteRun, r, [i \in DOMAIN r.suites |-> i]) EXCEPT !.round = @ + 1]
Started(suites, breakAfter) ==
  [suites |-> suites, breakAfter |-> breakAfter, stats |-> NoStats, round |-> 0, index |-> 0, bars |-> <<>>, lines |-> <<>>,
   cases |-> FoldLeft(LAMBDA n, s : n + Len(s.cases), 0, suites), file |-> <<Open("testsuites", "")>>]
Reported(suites, breakAfter, rounds) ==
  LET r == FoldLeft(LAMBDA now, k : Round(now), Started(suites, breakAfter), [k \in 1..rounds |-> k])
  IN [r EXCEPT !.file = Append(@, Close("testsuites"))]

---------------------------------------------------------------------------
(* The table of tags: a tag is counted once for each time it is written,   *)
(* and dropped when the table is full.                                     *)
TagAt(table, name) == {k \in DOMAIN table : table[k].name = name}

(* Mutant of AddTag: a tag of a full table takes the last entry. *)
AddTagLast(table, name, what) ==
  IF TagAt(table, name) # {} THEN [table EXCEPT ![Min(TagAt(table, name))][what] = @ + 1]
  ELSE IF Len(table) >= MaxTags THEN [table EXCEPT ![MaxTags][what] = @ + 1]
  ELSE Append(table, [[name |-> name, suites |-> 0, cases |-> 0] EXCEPT ![what] = 1])

AddTag(table, name, what) ==
  IF TagAt(table, name) # {} THEN [table EXCEPT ![Min(TagAt(table, name))][what] = @ + 1]
  ELSE IF Len(table) >= MaxTags THEN table
  ELSE Append(table, [[name |-> name, suites |-> 0, cases |-> 0] EXCEPT ![what] = 1])
AddTags(table, tags, what) == FoldLeft(LAMBDA t, name : AddTag(t, name, what), table, tags)
Tagged(tables, event) ==   \* an absent suite is not counted
  IF event.type = "suites" /\ event.absent THEN tables
  ELSE [all |-> AddTags(tables.all, event.tags, event.type),
        unfiltered |-> IF event.filtered THEN tables.unfiltered ELSE AddTags(tables.unfiltered, event.tags, event.type)]

---------------------------------------------------------------------------
(* A bar: the share, what goes on, the names of the case and the suite - a *)
(* word of its own where there is none - and the place of one that stays.  *)
(* Names are their widths.                                                 *)
NameWidth(name, word) == 1 + (IF name = 0 THEN word ELSE name)
TitleWide(s, c, place) == 2 + NameWidth(c, 4) + (IF s < 0 THEN 0 ELSE 2 + NameWidth(s, 5)) + (IF place = 0 THEN 0 ELSE 2 + NameWidth(place, 0))

(* Mutant of BarWidth: a bar as wide as the console is not cut. *)
BarWidthOver(s, c, place, percentage, status, backable, width) ==
  LET whole == (IF percentage THEN 7 ELSE 0) + status + TitleWide(s, c, IF backable THEN 0 ELSE place)
  IN IF backable /\ width < whole - 8 THEN width ELSE whole

BarWidth(s, c, place, percentage, status, backable, width) ==
  LET whole == (IF percentage THEN 7 ELSE 0) + status + TitleWide(s, c, IF backable THEN 0 ELSE place)
  IN IF backable /\ width <= whole THEN width ELSE whole

---------------------------------------------------------------------------
(* format_duration: the amount in the largest unit that it reaches, a     *)
(* number of ticks of the last digit; seconds begin at a tenth.            *)
TimeSaid(ms, unit, tick) == [shown |-> (2 * ms + tick) \div (2 * tick), unit |-> unit, tick |-> tick, plural |-> ms # unit]

Duration(ms) ==
  IF ms < 100 THEN [TimeSaid(ms, 1, 1) EXCEPT !.plural = TRUE] ELSE IF ms < 60000 THEN TimeSaid(ms, 1000, 100)
  ELSE IF ms < 3600000 THEN TimeSaid(ms, 60000, 600) ELSE TimeSaid(ms, 3600000, 3600)
===========================================================================
