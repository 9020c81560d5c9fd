---------------------------- MODULE MCFailures ----------------------------
(***************************************************************************)
(* Questions about what is written of a failure.                           *)
(***************************************************************************)
EXTENDS MCTexts, Failures, Assertions

Glyphs(row) == SelectSeq(row, LAMBDA ch : ch \notin Style \cup {Blank})
LinesOf(rows, ends(_), text(_)) ==
  FoldLeft(LAMBDA s, row : IF ends(row) THEN [done |-> Append(s.done, s.text \o text(row)), text |-> <<>>]
                           ELSE [s EXCEPT !.text = @ \o text(row)], [done |-> <<>>, text |-> <<>>], rows).done

(* Two texts beside each other: every row fits the screen and is as wide   *)
(* as the others, the marks tell which rows are one line, both columns     *)
(* read so are the lines, and the label of a line is its place             *)
(* (h2_layout.cpp).                                                        *)
TableShowsBoth ==
  Asked("table") =>
    LET q == question
        n == Larger(Len(q.left), Len(q.right))
        Line(lines, i) == IF i <= Len(lines) THEN Glyphs(lines[i]) ELSE <<>>
    IN \A t \in {Split(q.left, q.right, q.step, q.base, q.width)} :
       LET Read(text(_)) == LinesOf(t.rows, LAMBDA r : ~r.leftOn /\ ~r.rightOn, LAMBDA r : Glyphs(text(r)))
       IN /\ Cardinality({RowWidth(t.rows[k], q.step, t.seq) : k \in DOMAIN t.rows}) <= 1
          /\ t.rows # <<>> => RowWidth(t.rows[1], q.step, t.seq) <= q.width
          /\ Read(LAMBDA r : r.left) = [i \in 1..n |-> Line(q.left, i)]
          /\ Read(LAMBDA r : r.right) = [i \in 1..n |-> Line(q.right, i)]
          /\ \A labels \in {SelectSeq([k \in DOMAIN t.rows |-> t.rows[k].label], LAMBDA l : l >= 0)} :
               /\ labels = (IF q.step > 0 THEN [i \in 1..n |-> q.step * (i - 1)] ELSE <<>>)
               /\ \A k \in DOMAIN labels : labels[k] < q.base ^ t.seq

(* Two lines over each other, or one after the other: each is read by its  *)
(* own rows, and they take turns for as long as both go on.                *)
PairShowsBoth ==
  Asked("pair") =>
    \A q \in {question} :
    \A rows \in {Unified(q.up, q.down, q.width)}, after \in {Seperate(q.up, q.down, q.width)} :
    \A second \in {Least({k \in DOMAIN after : after[k].title = "actual"})} :
      LET Of(title) == SelectSeq(rows, LAMBDA r : r.title = title)
          Reads(s, line) == Glyphs(FlattenSeq([k \in DOMAIN s |-> s[k].text])) = Glyphs(line)
      IN /\ Reads(Of("expect"), q.up) /\ Reads(Of("actual"), q.down)
         /\ Reads(SubSeq(after, 1, second - 1), q.up) /\ Reads(SubSeq(after, second, Len(after)), q.down)
         /\ \A k \in DOMAIN rows : WidthOf(rows[k].text) + TitleWidth = q.width
         /\ \A k \in 1..Len(rows) - 1 : \/ rows[k].title # rows[k + 1].title
                                        \/ {rows[j].title : j \in k..Len(rows)} = {rows[k].title}

(* Expressions taken for the value they have do mean it; so a sentence     *)
(* always tells the value, or an expression that means it, and what is     *)
(* said is separated where it must be (h2_failure.cpp).                    *)
Meaning(e) ==
  CASE e \in {<<w>> : w \in Null \cup FalseWords} -> <<"0">>
    [] e \in {<<w>> : w \in TrueWords} -> <<"1">>
    [] e \in NotNull -> <<"not", "0">>
    [] Len(e) > 3 /\ e[1] \in {"Eq", "ListOf"} -> SubSeq(e, 3, Len(e) - 1)
    [] OTHER -> Unbracketed(e)
Told(s, expression, value) ==
  \E i \in DOMAIN s : IF value = <<>> THEN s[i].words = expression
                      ELSE s[i].words = value \/ (s[i].words = expression /\ Meaning(expression) = Meaning(value))
SentenceTells ==
  Asked("sentence") =>
    LET f == question.failure
        s == Sentence(f)
        Explains(i) == s[i].words \in {f.explain, f.userExplain} \ {<<>>}
    IN /\ f.type = "OK2" => Told(s, f.eExpression, f.expection)
       /\ f.type \in {"OK1", "OK2"} => Told(s, f.aExpression, f.represent)
       /\ f.type = "JE" => [i \in 1..2 |-> s[i].words] = [i \in 1..2 |-> SelectSeq(IF i = 1 THEN f.eExpression ELSE f.aExpression, LAMBDA w : w # "\"")]
       /\ f.type = "In" => \A v \in {f.expection, f.represent} \ {<<>>} : \E i \in DOMAIN s : s[i].words = v
       /\ \A i \in DOMAIN s : /\ i > 1 => s[i].separator # ""
                              /\ Explains(i) => s[i].separator = (IF i > 1 /\ (f.type = "In" \/ Explains(i - 1)) THEN ", " ELSE " ")
       /\ \A v \in {f.explain, f.userExplain} \ {<<>>} : \E i \in DOMAIN s : s[i].words = v

(* What is not marked of two texts is the same in both, blanks aside, and  *)
(* equal texts have no marks (h2_failure.cpp).                             *)
Lowered(s, caseless) == [i \in DOMAIN s |-> IF caseless /\ s[i] = "A" THEN "a" ELSE s[i]]
UnmarkedIsCommon ==
  Asked("strings") =>
    LET q == question
        lines == Strcmp(q.e, q.a, q.caseless, [A |-> "a"], q.colorful)
        Unmarked(line) == LET s == SelectSeq(line, LAMBDA c : ~c.marked) IN
          SelectSeq(Lowered([i \in DOMAIN s |-> s[i].ch], q.caseless), LAMBDA ch : ~q.colorful \/ ch # Blank)
    IN /\ Unmarked(lines.expect) = Unmarked(lines.actual)
       /\ [i \in DOMAIN q.e |-> lines.expect[i].ch] = q.e /\ [i \in DOMAIN q.a |-> lines.actual[i].ch] = q.a
       /\ (\A c \in Range(lines.expect) \cup Range(lines.actual) : ~c.marked) /\ ~q.colorful
            <=> Lowered(q.e, q.caseless) = Lowered(q.a, q.caseless) /\ ~q.colorful

(* Memories side by side: the rows hold all of both, item by item, those   *)
(* that differ marked, rows and labels leading to the item, and items of a *)
(* column under each other (h2_failure.cpp).                               *)
Sum2(row, k) == FoldLeft(LAMBDA n, c : n + c.gap + (IF question.width = 1 THEN 1 ELSE question.width \div 4), 0, SubSeq(row, 1, k - 1)) + row[k].gap
MemoriesShown ==
  Asked("memories") =>
    LET q == question
        shown == Memcmp(q.e, q.a, q.length, q.width, q.screen)
        cells == FlattenSeq(shown.rows)
        NumberOf2(x) == IF q.width = 1 THEN x ELSE FoldLeft(LAMBDA n, b : 100 * n + b, 0, x)
        Stored(bytes, k) == IF q.width = 1 THEN Bit(bytes, k - 1)
                            ELSE LET size == q.width \div 8 IN FoldLeft(LAMBDA n, j : 100 * n + bytes[(k - 1) * size + size + 1 - j], 0, [j \in 1..size |-> j])
    IN /\ Len(cells) = q.length
       /\ \A k \in 1..q.length : /\ NumberOf2(cells[k].e) = Stored(q.e, k) /\ NumberOf2(cells[k].a) = Stored(q.a, k)
                                 /\ cells[k].marked = (cells[k].e # cells[k].a)
       /\ \A i \in DOMAIN shown.rows : Len(FlattenSeq(SubSeq(shown.rows, 1, i - 1))) = shown.step * (i - 1)
       /\ \A i \in DOMAIN shown.rows : \A k \in DOMAIN shown.rows[i] : Sum2(shown.rows[i], k) = Sum2(shown.rows[1], k)

(* Of a leak all sizes are told or how many more there are, with a list    *)
(* when there was more than one piece (h2_failure.cpp).                    *)
LeakTold ==
  Asked("leak") => LET shown == LeakShown(question.sizes, question.verbose) pieces == FoldLeft(LAMBDA n, p : n + p.count, 0, question.sizes) IN
    /\ Len(shown.sizes) + shown.hidden = Len(question.sizes) /\ IsPrefix(shown.sizes, question.sizes)
    /\ shown.list = (pieces > 1)
    /\ shown.hidden > 0 => Len(shown.sizes) >= 3 /\ question.verbose <= CompactPassed

(* A value that a sentence shortens is drawn whole below it, a document    *)
(* unless the other one is short (h2_failure.cpp).                         *)
ShortenedIsDrawn ==
  Asked("drawn") =>
    LET q == question
        lost == Shortens(q.type, q.e, q.verbose) \/ Shortens(q.type, q.a, q.verbose)
    IN /\ lost => StrcmpDrawn(q.e, q.a, q.verbose) /\ StrfindDrawn(q.e, q.a)
       /\ lost /\ JsonDrawn(q.e, q.a, q.quoted, q.differs) = "none" => q.e < 16 \/ q.a < 16
       /\ JsonDrawn(q.e, q.a, q.quoted, q.differs) = "beside" => q.differs /\ ~q.quoted /\ q.e >= 16 /\ q.a >= 16

(* Of a piece of memory gone wrong: every stack that was recorded is       *)
(* printed once under what it is, the crime before what led to it; the     *)
(* word and the distance lead to the address of the crime                  *)
(* (h2_failure.cpp).                                                       *)
CrimeTold ==
  Asked("crime") =>
    LET f == question.failure
        t == CrimeOf(f)
        Kept2(what) == CASE what = "allocate" -> IF f.kind = "exception" THEN <<>> ELSE f.allocate
                         [] what = "free" -> IF f.kind \in {"double free", "use after free"} THEN f.release ELSE <<>>
                         [] what = "crime" -> IF f.kind = "asymmetric free" THEN f.release ELSE IF f.kind = "leak" THEN <<>> ELSE f.now
        Of(what) == {i \in DOMAIN t.stacks : t.stacks[i].what = what}
    IN /\ \A what \in {"allocate", "free", "crime"} :
            /\ Cardinality(Of(what)) <= 1 /\ \A i \in Of(what) : t.stacks[i].frames = Kept2(what)
            /\ Of(what) = {} => Kept2(what) = <<>>
            /\ what = "crime" => Of(what) \subseteq {1}
       /\ f.kind = "overflow" =>
            f.at = t.far + (IF t.word = "overflow" THEN f.start + f.size ELSE f.start) /\ (t.word = "underflow" => t.far < 0)
       /\ f.kind = "use after free" => f.at = f.start + t.far

---------------------------------------------------------------------------
(* The counts that a run and its suites say add up to the cases, round by  *)
(* round, those of the suites to those of the run; a run without a break   *)
(* counts every case as it ended; and the share in the bars grows, to all  *)
(* at the end of a round - beyond that in the next                         *)
(* (h2_report_console.cpp, h2_runner.cpp).                                 *)
CountOf0(parts, v) == FoldLeft(LAMBDA n, part : n + (IF v \in {"all", part.what} THEN part.count ELSE 0), 0, parts)
RunTold ==
  Asked("run") =>
    LET q == question
        r == Reported(q.suites, q.breakAfter, q.rounds)
        all == FoldLeft(LAMBDA cs, s : cs \o s.cases, <<>>, q.suites)
        Free(c) == ~c.filtered /\ ~c.todo
        Times(v) == Cardinality({x \in (DOMAIN all) \X (1..q.rounds) : Free(all[x[1]]) /\ all[x[1]].ends[x[2]] = v})
        line == RunLine(r)
    IN /\ CountOf0(line.parts, "all") = q.rounds * Len(all)
       /\ line.total = (IF CountOf0(line.parts, "passed") = q.rounds * Len(all) THEN -1 ELSE Len(all))
       /\ (line.head = "Success") = (Times("failed") = 0)
       /\ Len(r.lines) = q.rounds * Len(q.suites)
       /\ \A l \in DOMAIN r.lines : LET s == q.suites[((l - 1) % Len(q.suites)) + 1] IN
            /\ CountOf0(r.lines[l].parts, "all") = Len(s.cases) /\ r.lines[l].total = (IF s.cases = <<>> THEN -1 ELSE Len(s.cases))
            /\ r.lines[l].bracketed = (\A part \in Range(r.lines[l].parts) : part.count < Len(s.cases) /\ part.count > 0) \/ s.cases = <<>>
       /\ \A v \in Range(Verdicts) : FoldLeft(LAMBDA n, l : n + CountOf0(l.parts, v), 0, r.lines) = r.stats[v]
       /\ q.breakAfter = 0 => \A v \in {"passed", "failed"} : CountOf0(line.parts, v) = Times(v)
       /\ \A k \in 2..Len(r.bars) : r.bars[k - 1] < r.bars[k]
       /\ r.bars # <<>> => Last(r.bars) <= 100 * q.rounds
       /\ r.bars # <<>> /\ q.breakAfter = 0 /\ Free(Last(all)) => Last(r.bars) = 100 * q.rounds

(* The file is well nested and has every case of every round in order.  A  *)
(* case has the status it is counted as - a todo and what is filtered keep *)
(* theirs when they are left out besides - and a failure when it failed,   *)
(* or, not tested again, had failed before (h2_report_junit.cpp).          *)
RECURSIVE WellNested(_, _)
WellNested(file, open) ==
  IF file = <<>> THEN open = <<>>
  ELSE IF file[1].mark = "open" THEN WellNested(Tail(file), <<file[1].element>> \o open)
  ELSE open # <<>> /\ open[1] = file[1].element /\ WellNested(Tail(file), Tail(open))
FileTold ==
  Asked("run") =>
    LET q == question
        r == Reported(q.suites, q.breakAfter, q.rounds)
        all == FoldLeft(LAMBDA cs, s : cs \o s.cases, <<>>, q.suites)
        at == SelectSeq([k \in DOMAIN r.file |-> k], LAMBDA k : r.file[k].mark = "open" /\ r.file[k].element = "testcase")
        StatusOf(k) == r.file[at[k]].said.status
        Plain(c) == ~(c.filtered /\ c.todo) /\ (q.breakAfter = 0 \/ (~c.filtered /\ ~c.todo))
    IN /\ WellNested(r.file, <<>>)
       /\ Len(at) = q.rounds * Len(all)
       /\ \A k \in DOMAIN at :
            LET c == all[((k - 1) % Len(all)) + 1] round == ((k - 1) \div Len(all)) + 1 IN
            /\ r.file[at[k]].said.name = c.name
            /\ StatusOf(k) \in {"passed", "failed"} => StatusOf(k) = c.ends[round] /\ ~c.filtered /\ ~c.todo
            /\ (r.file[at[k] + 1].element = "failure") =
                 (\E before \in 1..round : /\ StatusOf(k - (round - before) * Len(all)) = "failed"
                                          /\ \A since \in before + 1..round : StatusOf(k - (round - since) * Len(all)) # "passed")
       /\ (\A c \in Range(all) : Plain(c)) =>
            \A v \in Range(Verdicts) : Cardinality({k \in DOMAIN at : StatusOf(k) = v}) = r.stats[v]

(* A text of the file reads back as it was (h2_report_junit.cpp).          *)
RECURSIVE ReadXml(_)
ReadXml(t) ==
  IF t = <<>> THEN <<>>
  ELSE IF t[1] # "&" THEN <<t[1]>> \o ReadXml(Tail(t))
  ELSE IF Len(t) < 3 \/ t[3] # ";" THEN <<"broken">>
  ELSE <<CASE t[2] = "amp" -> "&" [] t[2] = "lt" -> "<" [] t[2] = "gt" -> ">" [] t[2] = "quot" -> "\"" [] t[2] = "apos" -> "'"
           [] OTHER -> "broken">> \o ReadXml(SubSeq(t, 4, Len(t)))
XmlReads ==
  Asked("xml") => ReadXml(XmlEscape(question.text)) = question.text /\ Range(XmlEscape(question.text)) \cap {"<", ">", "\"", "'"} = {}

(* The table has the first tags that are met, each with as many suites and *)
(* cases as write it, whatever is dropped (h2_report_list.cpp).            *)
TagsAddUp ==
  Asked("tags") =>
    LET events == question.events
        tables == FoldLeft(Tagged, [all |-> <<>>, unfiltered |-> <<>>], events)
        Heeded(e, all) == (e.type = "cases" \/ ~e.absent) /\ (all \/ ~e.filtered)
        AddsUp(table, all) ==
          LET heeded == SelectSeq(events, LAMBDA e : Heeded(e, all))
              written == FlattenSeq([i \in DOMAIN heeded |-> [k \in DOMAIN heeded[i].tags |-> <<heeded[i].type, heeded[i].tags[k]>>]])
              Foremost(name) == Min({k \in DOMAIN written : written[k][2] = name})
          IN /\ Len(table) = Smaller(MaxTags, Cardinality({w[2] : w \in Range(written)}))
             /\ \A k \in DOMAIN table :
                  /\ Cardinality({w \in {n[2] : n \in Range(written)} : Foremost(w) < Foremost(table[k].name)}) = k - 1
                  /\ table[k].suites = Cardinality({n \in DOMAIN written : written[n] = <<"suites", table[k].name>>})
                  /\ table[k].cases = Cardinality({n \in DOMAIN written : written[n] = <<"cases", table[k].name>>})
    IN AddsUp(tables.all, TRUE) /\ AddsUp(tables.unfiltered, FALSE)

(* A bar that the next one is to erase stays on one line of the screen,    *)
(* and is cut only then (h2_report_console.cpp).                           *)
BarOnOneLine ==
  Asked("bar") => LET q == question Wide0(width) == BarWidth(q.suite, q.case, q.place, q.percentage, 7, q.backable, width) IN
    /\ q.backable => Wide0(q.width) <= q.width
    /\ Wide0(q.width) < Wide0(1000) => q.backable /\ Wide0(q.width) = q.width

(* A time is said to half of its last digit and in the largest unit that   *)
(* it has reached, or will when rounded (h2_report_console.cpp).           *)
AmountIsNear ==
  Asked("duration") => LET d == Duration(question.ms) said == d.shown * d.tick IN
    /\ 2 * said - 2 * question.ms \in -d.tick..d.tick
    /\ d.unit > 1000 => said >= d.unit
    /\ d.unit < 3600000 => said <= (CASE d.unit = 1 -> 100 [] d.unit = 1000 -> 60000 [] d.unit = 60000 -> 3600000)

ReportTold == RunTold /\ FileTold /\ XmlReads /\ TagsAddUp /\ BarOnOneLine /\ AmountIsNear

(* Of a packet that was sent, or a function that was mocked, every part    *)
(* that is wrong is told once and in order, under one failure for them     *)
(* all; the times that are said are those that would not fail              *)
(* (net/h2_socket.hpp, mock/h2_mocker.cpp, h2_checkin.cpp).                *)
AnyTimes == 9
SaidTimes(said) ==
  CASE said[1] = "never" -> {0} [] said[1] = "any number" -> 0..AnyTimes [] said[1] = "at most" -> 0..said[2]
    [] said[1] = "exactly" -> {said[2]} [] said[1] = "at least" -> said[2]..AnyTimes [] said[1] = "between" -> said[2]..said[3]
PartsTold ==
  /\ Asked("arguments") =>
       LET told == CallFails(question.arguments)
           wrong == SelectSeq([i \in DOMAIN question.arguments |-> i], LAMBDA i : question.arguments[i].wrong)
           outer == SelectSeq(told, LAMBDA f : f.depth = 1)
       IN IF wrong = <<>> THEN told = <<>>
          ELSE /\ told[1] = [depth |-> 0, marked |-> <<>>]
               /\ [k \in DOMAIN outer |-> outer[k].marked] = [k \in DOMAIN wrong |-> [i \in DOMAIN question.arguments |-> i = wrong[k]]]
  /\ Asked("packet") =>
       LET q == question t == PtxCheck(q.sent, q.expected)
           Wrong(part) == q.sent[1][part] \notin q.expected[part]
       IN IF q.sent = <<>> THEN t.says = "miss"
          ELSE /\ t.parts = SelectSeq(PacketParts, Wrong) /\ (t.says = "unexpected") = (\E part \in Range(PacketParts) : Wrong(part))
               /\ <<q.sent[1]>> \o t.sent = q.sent
  /\ Asked("checkins") =>
       LET told == MockCheck(question.checkins, AnyTimes)
           Outside(i) == question.checkins[i].call \notin SaidTimes(TimesSaid(question.checkins[i].least, question.checkins[i].most, AnyTimes))
           wrong == SelectSeq([i \in DOMAIN question.checkins |-> i], Outside)
       IN IF wrong = <<>> THEN told = <<>>
          ELSE /\ [k \in 2..Len(told) |-> told[k].seqno] = [k \in 2..Len(wrong) + 1 |-> wrong[k - 1]]
               /\ told[1].depth = 0 /\ \A k \in 2..Len(told) : told[k].depth = 1

(* Captured is, in order, all that was written to the streams to capture,  *)
(* seen or not; a file gets what is written to it, the screen all else     *)
(* that may be seen, below the bar (h2_stdio.cpp).                         *)
OutputCaptured ==
  Asked("written") =>
    LET q == question
        start == [capturable |-> {}, buffer |-> <<>>, backable |-> q.backable, screen |-> <<>>, file |-> <<>>, length |-> 0]
        out == FoldLeft(LAMBDA now, call : OnStdio(now, [verbose |-> q.verbose], call), start, 
                        <<q.before, [fn |-> "start_capture", streams |-> q.streams]>> \o q.calls \o <<[fn |-> "stop_capture"], q.behind>>)
        Wrote(calls, streams) ==
          FoldLeft(LAMBDA s, c : s \o (IF StreamOf(c) \in streams THEN c.text \o (IF c.fn = "puts" THEN <<"newline">> ELSE <<>>) ELSE <<>>), <<>>, calls)
        all == <<q.before>> \o q.calls \o <<q.behind>>
        screen == Wrote(all, {"stdout", "stderr"})
    IN /\ out.buffer = Wrote(q.calls, q.streams)
       /\ out.file = Wrote(all, {"file"})
       /\ out.screen = (IF q.verbose < Normal \/ screen = <<>> THEN <<>> ELSE (IF q.backable THEN <<"newline">> ELSE <<>>) \o screen)
       /\ out.length = (IF q.verbose < Normal THEN 0 ELSE Len(screen))

FailureTold ==
  /\ ReportTold /\ PartsTold /\ OutputCaptured
  /\ ShortenedIsDrawn /\ CrimeTold
  /\ TableShowsBoth /\ PairShowsBoth /\ SentenceTells /\ UnmarkedIsCommon /\ MemoriesShown /\ LeakTold

---------------------------------------------------------------------------
LinesUpTo(n) == {s \in Texts({"a", "w", "red"}, n) : \A i \in DOMAIN s : s[i] \in Style => i = 1}
Long == {[i \in 1..n |-> IF i = 3 THEN "w" ELSE "a"] : n \in {1, 7, 9}}
Some2 == {<<>>, <<"a">>, <<"red", "a", "w">>} \cup Long
Values == {<<>>, <<"NULL">>, <<"0">>, <<"1">>, <<"true">>, <<"x">>, <<"[", "x", "]">>, <<"Not", "(", "NULL", ")">>}
Expressions == Values \cup {<<"Eq", "(", "x", ")">>, <<"ListOf", "(", "x", ")">>, <<"f", "(", "x", ")">>, <<"\"", "x", "\"">>}
Maybe(words) == {<<>>, words}
Stacks == {<<>>, <<"f", "main">>}
TestsOf(n, cases) == {[i \in DOMAIN s |-> [s[i] EXCEPT !.name = i]] : s \in Texts(cases, n)}
TestIn(f, t, e1, e2) == [name |-> 0, filtered |-> f, todo |-> t, ignored |-> FALSE, ended |-> "passed", ends |-> <<e1, e2>>]
SuiteIn(i, cases) == [name |-> i, stats |-> NoStats, cases |-> cases]
Outcomes == {"passed", "failed"}
AllTests == {TestIn(f, t, e1, e2) : f, t \in BOOLEAN, e1, e2 \in Outcomes}
FewTests == {TestIn(FALSE, FALSE, e, "passed") : e \in Outcomes \cup {"warning"}}
TagEvents == [type : {"suites", "cases"}, absent : BOOLEAN, filtered : BOOLEAN, tags : {<<>>, <<"a">>, <<"b", "a">>, <<"b", "b">>, <<"c">>}]
CallsOfStdio ==
  [fn : {"printf", "vprintf", "puts", "putchar", "cout", "cerr", "clog", "syslog", "vsyslog"}, text : {<<"x">>}]
    \cup [fn : {"printf", "cerr", "puts"}, text : {<<"y", "z">>}]
    \cup [fn : {"fprintf", "fputc", "fputs", "fwrite", "write"}, text : {<<"u">>}, stream : {"stdout", "stderr", "file"}]
FailureKinds == {"run", "xml", "tags", "bar", "duration", "table", "pair", "sentence", "strings", "memories", "leak", "drawn", "crime", "packet", "checkins", "arguments", "written"}
AskFailures ==
  \/ About("run") /\ \E one \in TestsOf(2, AllTests), two \in TestsOf(1, FewTests), b \in 0..2, rounds \in 1..2 :
        one \o two # <<>> /\ Ask([kind |-> "run", suites |-> <<SuiteIn(1, one), SuiteIn(2, two)>>, breakAfter |-> b, rounds |-> rounds])
  \/ About("xml") /\ \E t \in Texts({"&", "<", "'", "\"", "lt", ";"}, 4) : Ask([kind |-> "xml", text |-> t])
  \/ About("tags") /\ \E e \in Texts({x \in TagEvents : x.type = "cases" => ~x.absent}, 2) : Ask([kind |-> "tags", events |-> e])
  \/ About("tags") /\ \E e \in [1..3 -> {x \in TagEvents : x.type = "cases" /\ ~x.absent}] : Ask([kind |-> "tags", events |-> e])
  \/ About("bar") /\ \E s \in {-1, 0, 5, 40}, c \in {0, 3, 20, 60}, place \in {0, 14}, p, k \in BOOLEAN, w \in {17, 25, 40, 80, 120} :
        Ask([kind |-> "bar", suite |-> s, case |-> c, place |-> place, percentage |-> p, backable |-> k, width |-> w])
  \/ About("duration") /\ \E near \in {0, 100, 1000, 60000, 90000, 100000, 3600000, 7200000}, d \in -60..1000 :
        near + d >= 0 /\ Ask([kind |-> "duration", ms |-> near + d])
  \/ About("table") /\ \E l, r \in Texts(Some2, 2), step \in {0, 8}, base \in {10, 16}, width \in {18, 20, 26} :
        Ask([kind |-> "table", left |-> l, right |-> r, step |-> step, base |-> base, width |-> width])
  \/ About("pair") /\ \E u, d \in LinesUpTo(5), width \in {10, 11} : Ask([kind |-> "pair", up |-> u, down |-> d, width |-> width])
  \/ About("sentence") /\ \E type \in {"In", "OK1", "OK2", "JE"}, ee, ae \in Expressions, ev, av \in Values,
        ex \in Maybe(<<"explained">>), ux \in Maybe(<<"user">>) :
        /\ type = "OK1" => av # <<>> /\ ae # <<>> /\ ee = <<>> /\ ev = <<>>
        /\ type = "OK2" => ae # <<>> \/ av # <<>>
        /\ type = "In" => ee = <<>> /\ ae = <<>>
        /\ type = "JE" => ev = <<>> /\ av = <<>>
        /\ Ask([kind |-> "sentence", failure |-> [type |-> type, eExpression |-> ee, aExpression |-> ae, expection |-> ev, represent |-> av,
                                                   explain |-> ex, userExplain |-> ux]])
  \/ About("strings") /\ \E e, a \in Texts({"a", "A", Blank}, 3), c, k \in BOOLEAN :
        Ask([kind |-> "strings", e |-> e, a |-> a, caseless |-> c, colorful |-> k])
  \/ About("memories") /\ \E w \in {1, 8, 16, 32}, n \in {1, 2, 5, 9, 17, 33, 40}, d \in SUBSET {1, 2, 20}, screen \in {80, 120} :
        LET size == (n * w + 7) \div 8
            e == [k \in 1..size |-> (37 * k) % 100]
        IN size <= 40 /\ Ask([kind |-> "memories", e |-> e, a |-> [k \in 1..size |-> IF k \in d THEN 99 ELSE e[k]], length |-> n, width |-> w, screen |-> screen])
  \/ About("leak") /\ \E s \in Texts([size : {1, 8}, count : 1..2], 5), v \in 0..5 : s # <<>> /\ Ask([kind |-> "leak", sizes |-> s, verbose |-> v])
  \/ About("drawn") /\ \E e, a \in {1, 8, 9, 15, 16, 17, 120, 121}, v \in 3..5, type \in {"In", "OK2"}, q, d \in BOOLEAN :
        Ask([kind |-> "drawn", e |-> e, a |-> a, verbose |-> v, type |-> type, quoted |-> q, differs |-> d])
  \/ About("packet") /\ \E sent \in Texts({[p \in Range(PacketParts) |-> 1]}, 1) \cup {<<[p \in Range(PacketParts) |-> 1], [p \in Range(PacketParts) |-> 2]>>},
                            expected \in [Range(PacketParts) -> {{1}, {2}, {1, 2}}] :
        Ask([kind |-> "packet", sent |-> sent, expected |-> expected])
  \/ About("checkins") /\ \E c \in Texts({x \in [least : 0..2, most : {0, 1, 2, AnyTimes}, call : 0..3] : x.least <= x.most}, 2) :
        Ask([kind |-> "checkins", checkins |-> c])
  \/ About("arguments") /\ \E a \in Texts([wrong : BOOLEAN, part : {-1, 0, 2}], 3) : Ask([kind |-> "arguments", arguments |-> a])
  \/ About("written") /\ \E calls \in Texts(CallsOfStdio, 2), around \in {c \in CallsOfStdio : c.fn = "puts"},
        streams \in SUBSET {"stdout", "stderr", "syslog"}, v \in {Normal - 1, Normal}, b \in BOOLEAN :
        Ask([kind |-> "written", calls |-> calls, before |-> around, behind |-> around, streams |-> streams, verbose |-> v, backable |-> b])
  \/ About("crime") /\ \E kind \in {"leak", "double free", "asymmetric free", "overflow", "use after free", "exception"},
        size \in 0..2, at \in 6..14, al, re, now \in Stacks :
        /\ kind = "overflow" => at < 10 \/ at >= 10 + size
        /\ Ask([kind |-> "crime", failure |-> [kind |-> kind, start |-> 10, size |-> size, at |-> at, allocate |-> al, release |-> re, now |-> now]])

---------------------------------------------------------------------------
(***************************************************************************)
(* Questions about what matchers say.                                      *)
(***************************************************************************)
Counts(s, i, brackets) == Cardinality({j \in 1..i : s[j] \in brackets})
Depth(s, i) == Counts(s, i, {"(", "["}) - Counts(s, i, {")", "]"})
Tops(s, word) == {i \in DOMAIN s : s[i] = word /\ Depth(s, i) = 0}
RECURSIVE Args(_)
Args(s) ==
  IF Tops(s, ", ") = {} THEN <<s>>
  ELSE LET k == Least(Tops(s, ", ")) IN <<SubSeq(s, 1, k - 1)>> \o Args(SubSeq(s, k + 1, Len(s)))
TextsSaid == [word : {"a", "b"}, upper : BOOLEAN, spaced : BOOLEAN]
Plain0 == [NoContext(0) EXCEPT !.neg = FALSE]

(* What a reader takes the words for: or is looser than and, a mark is for *)
(* the next word with its brackets, a name is a call.                      *)
RECURSIVE Says(_, _, _, _)
Says(s, a, cl, sq) ==
  LET n == Len(s)
      On(t) == Says(t, a, cl, sq)
      Parted(word) == LET k == Least(Tops(s, word)) IN <<SubSeq(s, 1, k - 1), SubSeq(s, k + 1, n)>>
      counted == n > 2 /\ s[n - 1] = " * "
      times == IF counted THEN CHOOSE t \in 1..9 : ToString(t) = s[n] ELSE 1
      args == Args(SubSeq(s, IF s[1] \in {"(", "["} THEN 2 ELSE 3, IF counted THEN n - 3 ELSE n - 1))
      Both(t, e) == Says(t[1], e.first, cl, sq) /\ Says(t[2], e.second, cl, sq)
      OfElement(e) == IF Len(args) = 2 THEN Both(args, e)
                    ELSE Says(args[1], IF a.map /\ args[1][1] # "(" THEN e.first ELSE e, cl, sq)
      Some(P(_)) == Cardinality({i \in DOMAIN a.elems : P(a.elems[i])}) >= times
      number == CHOOSE k \in 0..9 : ToString(k) = Last(s)
  IN CASE Tops(s, " or ") # {} -> On(Parted(" or ")[1]) \/ On(Parted(" or ")[2])
       [] Tops(s, " or ") = {} /\ Tops(s, " and ") # {} -> On(Parted(" and ")[1]) /\ On(Parted(" and ")[2])
       [] OTHER ->
          CASE s[1] \in {"!", "!="} -> ~On(Tail(s))
            [] s[1] = "~" -> Says(Tail(s), a, TRUE, sq)
            [] s[1] = "*" -> Says(Tail(s), a, cl, TRUE)
            [] s[1] = "(" -> IF Len(args) = 1 THEN On(args[1]) ELSE Both(args, a)
            [] s[1] = "[" -> \A k \in DOMAIN args : k \in DOMAIN a.elems /\ Says(args[k], a.elems[k], cl, sq)
            [] s[1] = "Any" -> TRUE
            [] s[1] = "NULL" -> a = 0
            [] s[1] \in {"true", "false"} -> (a # 0) = (s[1] = "true")
            [] s[1] \in {">=", ">", "<=", "<"} -> Compares(s[1], a, number)
            [] s[1] = "IsEven" -> a \in {0, 2}
            [] s[1] = "IsOdd" -> a = 1
            [] s[1] = "IsDivable" -> \E k \in 1..2, j \in 0..2 : ToString(k) = args[1][1] /\ a = j * k
            [] s[1] = "AllOf" -> \A k \in DOMAIN args : On(args[k])
            [] s[1] = "AnyOf" -> \E k \in DOMAIN args : On(args[k])
            [] s[1] = "NoneOf" -> \A k \in DOMAIN args : ~On(args[k])
            [] s[1] = "Range" -> LET Bound(k) == CHOOSE b \in 0..9 : ToString(b) = args[k][1] IN
                 \E k \in 0..9 : a = (IF Len(args) = 1 THEN 0 ELSE Bound(1)) + k * (IF Len(args) = 3 THEN Bound(3) ELSE 1)
                                 /\ a < Bound(IF Len(args) = 1 THEN 1 ELSE 2)
            [] s[1] = "Every" -> \A i \in DOMAIN a.elems :
                 IF Len(args) = 2 THEN Both(args, a.elems[i]) ELSE Says(args[1], a.elems[i], cl, sq)
            [] s[1] = "Has" -> Some(OfElement)
            [] s[1] = "HasKey" -> Some(LAMBDA e : Says(args[1], e.first, cl, sq))
            [] s[1] = "HasValue" -> Some(LAMBDA e : Says(args[1], e.second, cl, sq))
            [] s[1] = "CountOf" -> Says(args[1], Len(a.elems), cl, sq)
            [] s[1] \in {"MaxOf", "MinOf"} -> \E i \in DOMAIN a.elems :
                 /\ \A j \in DOMAIN a.elems : IF s[1] = "MaxOf" THEN a.elems[i] >= a.elems[j] ELSE a.elems[i] <= a.elems[j]
                 /\ Says(args[1], a.elems[i], cl, sq)
            [] s[1] = "Substr" \/ s[1] \notin {ToString(k) : k \in 0..9} ->
                 LET t == CHOOSE x \in TextsSaid : TextShown(x, Plain0)[1] = (IF s[1] = "Substr" THEN args[1][1] ELSE s[1])
                 IN a.word = t.word /\ (a.spaced /\ ~sq) = t.spaced /\ (cl \/ a.upper = t.upper)
            [] OTHER -> a = number

(* Not asked: a plain value that is negated, of which the negation is not  *)
(* said, and a negated pair, of which it is said twice.                    *)
RECURSIVE Outspoken(_, _)
Outspoken(m, above) ==
  LET c == Configured(m, above) IN
  CASE m.op = "value" -> ~above.neg
    [] m.op = "not" -> Outspoken(m.kids[1], [c EXCEPT !.neg = ~@])
    [] m.op \in {"if", "Member", "Pointee", "CastOf"} -> Outspoken(m.kids[1], c)
    [] OTHER -> /\ m.op \in {"pair", "every2"} => ~c.neg
                /\ \A k \in DOMAIN m.kids : Outspoken(m.kids[k], Positive(c))

(* What the words are about: the value that is inside. *)
RECURSIVE Spoken(_, _)
Spoken(m, a) ==
  CASE m.op \in {"not", "if"} -> Spoken(m.kids[1], a) [] m.op \in {"Member", "Pointee", "CastOf"} -> Spoken(m.kids[1], Inner(m, a))
    [] OTHER -> a

(* What a matcher says that it expects is what it accepts                  *)
(* (expection() and matches() in src/source/matcher).                      *)
SaysWhatItAccepts ==
  Asked("says") => LET m == question.m a == question.a c == NoContext(0) IN
    Outspoken(m, c) => Says(Expection(m, c), Spoken(m, a), FALSE, FALSE) = Matches(m, a, c)

(* OK of a comparison fails when it does not hold and KO when it does, and *)
(* the left side is said as it is (h2_assert.hpp).                         *)
AssertsAreComparisons ==
  Asked("assertion") => LET op == question.op e == question.e a == question.a
                            holds == CASE op = "==" -> e = a [] op = "!=" -> e # a [] OTHER -> Compares(op, e, a)
    IN Ok1Fails(op, e, a, question.oppose) = (holds = question.oppose) /\ Ok1Says(op, e) = <<ToString(e)>>

---------------------------------------------------------------------------
(* A tolerance is what was asked for and says so: a margin is a distance,  *)
(* a percentage a part of the expected value; none is equality.  Margins   *)
(* are below the wrap of an unsigned number, percentages below the mark    *)
(* (h2_matches_equation.hpp).                                              *)
ToleranceAsAsked ==
  Asked("near") =>
    LET t == question.tolerance e == question.e a == question.a
        near == CASE t.how = "margin" -> e - a \in -t.by..t.by
                  [] t.how = "percentage" -> \E d \in -200..200 : a = e + d /\ 100 * Unit * (d * d) <= (IF d * e > 0 THEN d * e ELSE -(d * e)) * t.by
                  [] OTHER -> e = a
    IN /\ Approximates(e, a, Epsilon(t)) = near
       /\ ToleranceSaid(Epsilon(t)) = (IF t.how = "percentage" /\ t.by = 0 THEN [how |-> "none", by |-> 0] ELSE t)

(* Two sides are equal when they are the same text, the same number or     *)
(* address, both nothing, or both true, whatever types carry them; but a   *)
(* null character pointer is also the text that is written of it           *)
(* (h2_matches_equation.hpp, h2_matches.hpp).                              *)
SameThing(e, a, caseless) ==
  LET texts == IsText(e) /\ IsText(a)
      nothing == e.type # "string" /\ e.number = 0
  IN CASE e.type = "bool" -> (e.number = 0) = (a.type # "string" /\ a.number = 0)
       [] texts /\ ~(nothing /\ e.type = "chars") ->
            \/ a.type = "chars" /\ a.number = 0 /\ e.text.word = "(null)" /\ (e.text.upper => caseless)
            \/ /\ a.type = "chars" => a.number # 0
               /\ e.text.word = a.text.word /\ e.text.spaced = a.text.spaced /\ (caseless \/ e.text.upper = a.text.upper)
       [] OTHER -> a.type # "string" /\ (\E k \in -1..1 : e.number = a.number + k * WordRange)
EqualIsSame ==
  Asked("equal") =>
    LET q == question c == [NoContext(0) EXCEPT !.caseless = q.caseless, !.neg = q.neg] IN
    /\ Equals(q.e, q.a, c, 0) = (SameThing(q.e, q.a, q.caseless) # q.neg)
    /\ TypeEquals(q.e, q.a, c) = ((q.e.type = q.a.type) # q.neg)

(* Memory is the same as a text that says its bits, its bytes in           *)
(* hexadecimal digits, or its characters, whichever it can be first, and   *)
(* as the bytes that were given as far as was asked (h2_matches_memcmp).   *)
MemoryIsSaid ==
  Asked("memory") =>
    LET m == question.m a == question.a s == m.string
        digits == SelectSeq(s, LAMBDA ch : ch < 16)
        Nibble(i) == (a[(i + 1) \div 2] \div (IF i % 2 = 1 THEN 16 ELSE 1)) % 16
        odd == Len(digits) % 2
        Spells == \A i \in DOMAIN s : a[i] = Code(s[i])
        said == IF ~m.chars \/ m.size # 0 THEN BitsEqual(m.bytes, a, m.size * (IF m.width = 0 THEN m.element ELSE m.width))
                ELSE IF Spells /\ a[Len(s) + 1] = 0 THEN TRUE
                ELSE IF digits # <<>> /\ Range(digits) \subseteq {0, 1} /\ Range(s) \subseteq {0, 1, Space1}
                THEN \A i \in DOMAIN digits : Bit(a, i - 1) = digits[i]
                ELSE IF Range(s) \subseteq 0..15 /\ s # <<>>
                THEN (odd = 1 => Nibble(1) = 0) /\ \A i \in DOMAIN digits : Nibble(i + odd) = digits[i]
                ELSE Spells
    IN SameMemory(m, a, [NoContext(0) EXCEPT !.neg = question.neg]) = (said # question.neg)

---------------------------------------------------------------------------
Turn(m) == [m EXCEPT !.neg = TRUE]
Turned1(S) == S \cup {Turn(m) : m \in S}
NumberAtoms == Turned1({Valued("equation", 1), Valued(">=", 1), Valued("<", 2), Matcher("Any", <<>>), Valued("bool", 0), Valued("bool", 1),
                        Matcher("NULL", <<>>), Spread(<<1>>), Spread(<<1, 2>>), Spread(<<0, 3, 2>>)}) \cup {Valued("value", 1)}
FewAtoms == {Valued("equation", 1), Turn(Valued(">=", 1)), Valued("value", 2)}
Joined0(ops, kids) == {Matcher(op, <<k, l>>) : op \in ops, k \in kids, l \in kids}
Above0(ops, kids) == {Matcher(op, <<k>>) : op \in ops, k \in kids}
JoinOps == {"and", "or", "AllOf", "AnyOf", "none"}
SaidLogic == Turned1(Joined0(JoinOps, NumberAtoms) \cup Above0({"not", "if"}, NumberAtoms))
FewLogic == Turned1(Joined0({"and", "or", "none"}, FewAtoms) \cup Above0({"not"}, FewAtoms))
DeepLogic == Turned1({m \in Joined0({"and", "or"}, FewLogic) : m.kids[2].kids[1] = Valued("equation", 1)} \cup Above0({"not"}, FewLogic))
OfElements == Turned1(Above0({"every", "has", "count", "max", "min"}, FewAtoms \cup FewLogic) \cup Joined0({"list"}, FewAtoms)
                      \cup {Matcher("list", <<k, l>>) : k \in FewLogic, l \in FewAtoms})
Twice(m) == [m EXCEPT !.times = 2]
OfLists == OfElements \cup {Twice(Matcher("has", <<k>>)) : k \in FewAtoms}
            \cup Turned1(Joined0({"and", "or"}, {m \in OfElements : m.kids[1] = Valued("equation", 1) /\ Len(m.kids) = 1}))
OfMaps ==
  LET pairs == Joined0({"pair"}, FewAtoms)
      keys == {Matcher("HasKey", <<Matcher("pair", <<k, Matcher("Any", <<>>)>>)>>) : k \in FewAtoms}
      values == {Matcher("HasValue", <<Matcher("pair", <<Matcher("Any", <<>>), v>>)>>) : v \in FewAtoms}
  IN Turned1(Above0({"every", "every2", "has", "has2"}, pairs) \cup Above0({"has"}, FewAtoms) \cup keys \cup values)
       \cup {Twice(m) : m \in Above0({"has2"}, pairs) \cup keys}
Custom == {Matcher("IsEven", <<>>), Matcher("IsOdd", <<>>)} \cup {[Matcher("IsDivable", <<>>) EXCEPT !.value = n] : n \in 1..2}
InsideSaid == {Member("number", m) : m \in NumberAtoms \cup Custom} \cup {Matcher(op, <<m>>) : op \in {"Pointee", "CastOf"}, m \in FewAtoms}
ObjectsSaid == {[members |-> [number |-> n], points |-> p, cast |-> n] : n, p \in 0..2}
MarkedTexts == {[Text(op, t) EXCEPT !.neg = n, !.caseless = c, !.squash = q] :
                  op \in {"string", "substr"}, t \in {x \in TextsSaid : x.word = "a"}, n \in BOOLEAN, c \in BOOLEAN, q \in BOOLEAN}
OfTexts == MarkedTexts \cup {[m EXCEPT !.caseless = c, !.squash = q, !.neg = n] :
                               m \in Joined0({"and", "none"}, {x \in MarkedTexts : x.op = "string" /\ ~x.caseless /\ ~x.squash}), c \in BOOLEAN, q \in BOOLEAN, n \in BOOLEAN}
ListsSaid == {Container(e, FALSE) : e \in Texts(0..2, 2)}
MapsSaid == {Map(e) : e \in Texts([first : 1..2, second : 1..2], 2)}
Sided(type, number) == [type |-> type, number |-> number, text |-> NullText]
Worded(type, number, word, upper) == [type |-> type, number |-> number, text |-> [word |-> word, upper |-> upper, spaced |-> FALSE]]
Sides0 == {Sided("integer", n) : n \in {-1, 0, 7, WordRange - 1}} \cup {Sided("real", n) : n \in {0, 7}} \cup {Sided("bool", n) : n \in 0..1}
           \cup {Sided("pointer", n) : n \in {0, 7}} \cup {Sided("nullptr", 0), Worded("chars", 0, "", FALSE)}
           \cup {Worded(t, n, w, u) : t \in {"chars", "string"}, n \in {7, 9}, w \in {"a", "(null)"}, u \in BOOLEAN}
Comparable(e, a) ==   \* the pairs that compile
  /\ e.type = "string" => IsText(a)
  /\ a.type = "string" => IsText(e)
  /\ "real" \in {e.type, a.type} => {e.type, a.type} \subseteq {"real", "integer"} /\ ~({-1, WordRange - 1} \cap {e.number, a.number} # {})
  /\ e.type = "chars" => ~(a.type \in {"bool", "nullptr"})
  /\ a.type = "bool" => e.type \in {"bool", "integer"}
Me(s) == [chars |-> TRUE, string |-> s, bytes |-> <<>>, size |-> 0, width |-> 0, element |-> 8, dimension |-> 0]
Block0(bytes, size, width, element) == [chars |-> FALSE, string |-> <<>>, bytes |-> bytes, size |-> size, width |-> width, element |-> element, dimension |-> 0]
Memories == {<<x, y, z, 0>> : x \in {0, 16, 18, 26, 48, 49, 160, 176}, y \in {0, 32, 49, 160, 103}, z \in {0, 48, 49}}
ExpectationKinds == {"says", "assertion", "near", "equal", "memory"}
Saying(m, a) == Ask([kind |-> "says", m |-> m, a |-> a])
AskExpectations ==
  \/ About("says") /\ \E m \in (NumberAtoms \ {Valued("value", 1)}) \cup SaidLogic \cup DeepLogic, a \in 0..2 : Saying(m, a)
  \/ About("says") /\ \E m \in Turned1(Custom), a \in 0..2 : Saying(m, a)
  \/ About("says") /\ \E m \in Turned1(InsideSaid), a \in ObjectsSaid : Saying(m, a)
  \/ About("says") /\ \E m \in OfLists, a \in ListsSaid : Saying(m, a)
  \/ About("says") /\ \E m \in OfMaps, a \in MapsSaid : Saying(m, a)
  \/ About("says") /\ \E m \in OfTexts, a \in TextsSaid : Saying(m, a)
  \/ About("assertion") /\ \E op \in {"==", "!=", ">", "<", ">=", "<="}, e, a \in 0..2, o \in BOOLEAN :
        Ask([kind |-> "assertion", op |-> op, e |-> e, a |-> a, oppose |-> o])
  \/ About("near") /\ \E how \in {"none", "margin", "percentage"}, by \in {0, 1, 3, 10, 50, 100, 1000, 99999}, e, a \in -12..12 :
        /\ how = "none" => by = 0
        /\ Ask([kind |-> "near", tolerance |-> [how |-> how, by |-> by], e |-> e, a |-> a])
  \/ About("near") /\ \E by \in {100000, 1500000, 1744669} : Ask([kind |-> "near", tolerance |-> [how |-> "margin", by |-> by], e |-> 5, a |-> 9])
  \/ About("equal") /\ \E e, a \in Sides0, c, n \in BOOLEAN : Comparable(e, a) /\ Ask([kind |-> "equal", e |-> e, a |-> a, caseless |-> c, neg |-> n])
  \/ About("memory") /\ \E s \in Texts({0, 1, 10, Space1, 19}, 3), a \in Memories, n \in BOOLEAN :
        SelectSeq(s, LAMBDA ch : ch # Space1) # <<>> /\ (Space1 \in Range(s) => Range(s) \subseteq {0, 1, 19, Space1})
          /\ Ask([kind |-> "memory", m |-> Me(s), a |-> a, neg |-> n])
  \/ About("memory") /\ \E e, a \in Memories, size \in 1..3, width \in {0, 1, 8} :
        e[1] \in {0, 16} /\ Ask([kind |-> "memory", m |-> Block0(e, size, width, 8), a |-> a, neg |-> FALSE])
===========================================================================
