------------------------------ MODULE Failures ------------------------------
(***************************************************************************)
(* What is written of a failure (src/source/report/h2_failure.cpp).  An    *)
(* expression or a value is a sequence of words; a sentence is a sequence  *)
(* of parts, each with what separates it from the one before.              *)
(***************************************************************************)
EXTENDS Layout, Text, Reports

(* h2_fail::append_subling: behind the last of those there are.            *)
AppendSubling(gathered, fail) ==
  IF gathered.fails = 0 THEN [gathered EXCEPT !.fails = fail]
  ELSE [gathered EXCEPT !.links = AppendTo(@, "sibling", gathered.fails, fail)]

(* The failures of the parts that are wrong under one for the whole, as    *)
(* they are written; none when no part is (h2_sock::check,                 *)
(* h2_mocker_base::check, tuple_matches with h2_mocker_base::failing).     *)
Gathered(wrong) ==
  LET parts == FoldLeft(LAMBDA g, i : IF wrong[i] THEN AppendSubling(g, i + 1) ELSE g,
                        [fails |-> 0, links |-> Alone(Len(wrong) + 1)], [i \in DOMAIN wrong |-> i])
  IN IF parts.fails = 0 THEN <<>> ELSE Foreach(AppendTo(parts.links, "child", 1, parts.fails), 1, 0, 0)

(* h2_mocker_base::failing: each failure of an argument, and the one of a  *)
(* part of it, with the arguments of which its number marks one.           *)
Argument(count, seqno) == [i \in 1..count |-> i - 1 = seqno]
TupleMatches(arguments) == Gathered([i \in DOMAIN arguments |-> arguments[i].wrong])
CallFails(arguments) ==
  FlattenSeq([k \in 1..Len(TupleMatches(arguments)) |->
    LET visit == TupleMatches(arguments)[k]
        Mark(depth, seqno) == [depth |-> depth, marked |-> Argument(Len(arguments), seqno)]
    IN IF visit.fail = 1 THEN <<[depth |-> 0, marked |-> <<>>]>>
       ELSE <<Mark(visit.ci, visit.fail - 2)>>
              \o (IF arguments[visit.fail - 1].part = -1 THEN <<>> ELSE <<Mark(visit.ci + 1, arguments[visit.fail - 1].part)>>)])

(* Ptx takes the oldest packet sent and compares its parts in this order.  *)
PacketParts == <<"from address", "to address", "payload", "payload length">>
PtxCheck(sent, expected) ==
  IF sent = <<>> THEN [says |-> "miss", parts |-> <<>>, sent |-> sent]
  ELSE LET fails == Gathered([i \in DOMAIN PacketParts |-> sent[1][PacketParts[i]] \notin expected[PacketParts[i]]]) IN
       [says |-> IF fails = <<>> THEN "nothing" ELSE "unexpected",
        parts |-> [k \in 1..Len(fails) - 1 |-> PacketParts[fails[k + 1].fail - 1]], sent |-> Tail(sent)]

(* Mutant of TimesSaid: the least count is said as the only one. *)
TimesSaidLeast(least, most, any) ==
  CASE least = 0 -> IF most = 0 THEN <<"never">> ELSE IF most = any THEN <<"any number">> ELSE <<"at most", most>>
    [] least # 0 -> <<"exactly", least>>

(* h2_checkin: what is said of the counts it allows, and whether it fails. *)
TimesSaid(least, most, any) ==
  CASE least = 0 -> IF most = 0 THEN <<"never">> ELSE IF most = any THEN <<"any number">> ELSE <<"at most", most>>
    [] least = most -> <<"exactly", least>>
    [] least # most /\ most = any -> <<"at least", least>>
    [] OTHER -> <<"between", least, most>>
CheckinFails(c) == ~(c.least <= c.call /\ c.call <= c.most) /\ c.call # c.most
MockCheck(checkins, any) ==
  [k \in 1..Len(Gathered([i \in DOMAIN checkins |-> CheckinFails(checkins[i])])) |->
     LET visit == Gathered([i \in DOMAIN checkins |-> CheckinFails(checkins[i])])[k] IN
     [depth |-> visit.ci, seqno |-> visit.fail - 1,
      said |-> IF visit.fail = 1 THEN <<>> ELSE TimesSaid(checkins[visit.fail - 1].least, checkins[visit.fail - 1].most, any)]]

(* is_synonym: the value is no more than the expression says.              *)
Null == {"NULL", "nullptr", "null", "__null", "(null)", "(nil)", "((void *)0)", "0", "0x0", "00000000", "0000000000000000"}
NotNull == {<<"!", "NULL">>, <<"!", "nullptr">>} \cup {<<f, "(", n, ")">> : f \in {"Not", "Nq"}, n \in {"NULL", "nullptr", "0"}}
TrueWords == {"true", "TRUE", "True", "1"}
FalseWords == {"false", "FALSE", "False", "0"}
Unbracketed(b) == IF Len(b) > 1 /\ b[1] = "[" /\ Last(b) = "]" THEN SubSeq(b, 2, Len(b) - 1) ELSE b

Synonym(a, b) ==
  \/ a = b
  \/ \E S \in {Null, TrueWords, FalseWords} : {a, b} \subseteq {<<w>> : w \in S}
  \/ {a, b} \subseteq NotNull
  \/ a = <<"Eq", "(">> \o b \o <<")">>
  \/ a = <<"ListOf", "(">> \o Unbracketed(b) \o <<")">>

---------------------------------------------------------------------------
Said(separator, words) == [separator |-> separator, words |-> words]
Comma(c) == IF c > 0 THEN ", " ELSE ""
CommaOr(c) == IF c > 0 THEN ", " ELSE " "

(* print_OK2: the sides of a comparison, the value where it says more.     *)
ExpectSide(expression, value) ==
  IF value = <<>> \/ Synonym(expression, value) THEN <<expression>> ELSE <<expression, value>>
ActualSide(expression, value) ==
  IF value = <<>> THEN <<expression>>
  ELSE IF Synonym(expression, value) \/ expression = <<>> THEN <<value>> ELSE <<value, expression>>

(* print_OK1, print_OK2, print_In: what is said and how many clauses.      *)
Ok1(f) == <<Said("", f.aExpression)>> \o (IF Synonym(f.aExpression, f.represent) THEN <<>> ELSE <<Said(" is ", f.represent)>>)
Ok2(f) == LET e == ExpectSide(f.eExpression, f.expection) a == ActualSide(f.aExpression, f.represent) IN
  [i \in DOMAIN e |-> Said(IF i = 1 THEN "" ELSE "==>", e[i])] \o [i \in DOMAIN a |-> Said(IF i = 1 THEN "op" ELSE "<==", a[i])]
In(f) ==
  (IF f.expection = <<>> THEN <<>> ELSE <<Said("", f.expection)>>)
    \o (IF f.represent = <<>> THEN <<>> ELSE <<Said(Comma(IF f.expection = <<>> THEN 0 ELSE 1), f.represent)>>)

(* print_JE: both expressions, without their quotes.                       *)
Unquoted(b, q) == IF Len(b) > 1 /\ b[1] = q /\ Last(b) = q THEN SubSeq(b, 2, Len(b) - 1) ELSE b
Je(f) == <<Said("", Unquoted(Unquoted(f.eExpression, "\""), "'")), Said(", ", Unquoted(Unquoted(f.aExpression, "\""), "'"))>>

(* Mutant of Sentence: the count of clauses begins anew behind them. *)
SentenceAnew(f) ==
  (CASE f.type = "In" -> In(f) [] f.type = "OK1" -> Ok1(f) [] f.type = "OK2" -> Ok2(f) [] f.type = "JE" -> Je(f))
    \o (IF f.explain = <<>> THEN <<>> ELSE <<Said(CommaOr(0), f.explain)>>)
    \o (IF f.userExplain = <<>> THEN <<>> ELSE <<Said(CommaOr(Len(f.explain)), f.userExplain)>>)

(* h2_fail_unexpect::print                                                 *)
Sentence(f) ==
  LET said == CASE f.type = "In" -> In(f) [] f.type = "OK1" -> Ok1(f) [] f.type = "OK2" -> Ok2(f) [] f.type = "JE" -> Je(f)
      c == IF f.type = "In" THEN Len(said) ELSE 0
      explained == IF f.explain = <<>> THEN <<>> ELSE <<Said(CommaOr(c), f.explain)>>
  IN said \o explained \o (IF f.userExplain = <<>> THEN <<>> ELSE <<Said(CommaOr(c + Len(explained)), f.userExplain)>>)

---------------------------------------------------------------------------
(* h2_fail_strcmp: characters that are in no longest common part have a    *)
(* colour, but a blank of a coloured screen is always a grey dot.          *)
Marked(chars, common, colorful) ==
  [i \in DOMAIN chars |-> [ch |-> chars[i], marked |-> i \notin common /\ ~(chars[i] = Blank /\ colorful)]]
Strcmp(e, a, caseless, lower, colorful) ==
  LET Low(s) == [i \in DOMAIN s |-> IF caseless /\ s[i] \in DOMAIN lower THEN lower[s[i]] ELSE s[i]]
      lcs == Lcs(Low(e), Low(a))
  IN [expect |-> Marked(e, {lcs[k][1] : k \in DOMAIN lcs}, colorful), actual |-> Marked(a, {lcs[k][2] : k \in DOMAIN lcs}, colorful)]

---------------------------------------------------------------------------
(* h2_fail_memcmp: rows of items of both memories, each with its blanks,   *)
(* the bits or the bytes of the item, and whether they differ.             *)
Cell(gap, e, a) == [gap |-> gap, e |-> e, a |-> a, marked |-> e # a]
PrintBits(e, a, length, perRow) ==
  LET rows == (Len(e) + perRow - 1) \div perRow
      Bits(i, j) == SelectSeq([k \in 1..8 |-> (i * perRow + j) * 8 + k - 1], LAMBDA n : n < length)
      CellOf(j, n) == Cell(IF j > 0 /\ n % 8 = 0 THEN 1 ELSE 0, Bit(e, n), Bit(a, n))
  IN [i \in 1..rows |-> FlattenSeq([j \in 1..perRow |-> LET bits == Bits(i - 1, j - 1) IN [k \in DOMAIN bits |-> CellOf(j - 1, bits[k])]])]

(* Mutant of Item: the bytes in the order they have in memory. *)
ItemForward(bytes, at, size) == SubSeq(bytes, at + 1, at + size)

(* The highest byte is written first, of memory that has the lowest first. *)
Item(bytes, at, size) == Reverse(SubSeq(bytes, at + 1, at + size))
PrintInts(e, a, size, perRow) ==
  LET rows == (Len(e) + perRow - 1) \div perRow
      Starts2(i) == SelectSeq([k \in 1..perRow \div size |-> (i - 1) * perRow + (k - 1) * size], LAMBDA at : at < Len(e))
      Gap(at) == IF at % perRow = 0 THEN 0 ELSE IF (at % perRow) \div size = 8 THEN 2 ELSE 1
  IN [i \in 1..rows |-> LET starts == Starts2(i) IN
       [k \in DOMAIN starts |-> Cell(Gap(starts[k]), Item(e, starts[k], size), Item(a, starts[k], size))]]

(* The bytes of a row, and how many items are between two labels.          *)
PerRow(width, screen) == CASE width = 1 -> 4 [] width = 8 /\ screen < 108 -> 8 [] OTHER -> 16
Memcmp(e, a, length, width, screen) ==
  [rows |-> IF width = 1 THEN PrintBits(e, a, length, PerRow(width, screen)) ELSE PrintInts(e, a, width \div 8, PerRow(width, screen)),
   step |-> (PerRow(width, screen) * 8) \div width]

---------------------------------------------------------------------------
(* Mutant of LeakShown: one that is hidden is not counted. *)
LeakShownLess(sizes, verbose) ==
  IF verbose <= CompactPassed /\ Len(sizes) > 3
  THEN [sizes |-> SubSeq(sizes, 1, 3), hidden |-> Len(sizes) - 4, list |-> TRUE]
  ELSE [sizes |-> sizes, hidden |-> 0, list |-> FoldLeft(LAMBDA c, p : c + p.count, 0, sizes) > 1]

(* h2_fail_memory_leak: the first three sizes and how many more, when      *)
(* there was more than one piece.                                          *)
LeakShown(sizes, verbose) ==
  LET n == IF verbose <= CompactPassed /\ Len(sizes) > 3 THEN 3 ELSE Len(sizes) IN
  [sizes |-> SubSeq(sizes, 1, n), hidden |-> Len(sizes) - n,
   list |-> FoldLeft(LAMBDA c, p : c + p.count, 0, SubSeq(sizes, 1, n)) > 1]

---------------------------------------------------------------------------
(* A sentence shortens what it quotes; where it does, or sooner, the texts *)
(* are drawn below it.  e and a are the widths of the two texts.           *)
Room(type, verbose) == IF type = "In" /\ verbose < Detail THEN 120 ELSE 10000
Shortens(type, wide, verbose) == wide > Room(type, verbose)
StrcmpDrawn(e, a, verbose) == verbose >= Detail \/ Larger(e, a) > 8
StrfindDrawn(e, a) == Larger(e, a) > 16

(* Mutant of JsonDrawn: one that is short is enough to draw them. *)
JsonDrawnEither(e, a, quoted, differs) ==
  IF Larger(e, a) < 16 THEN "none" ELSE IF quoted \/ ~differs THEN "each" ELSE "beside"

(* h2_fail_json: beside each other, or each as it stands where they are to *)
(* be quoted or one is no document; nothing where one is short.            *)
JsonDrawn(e, a, quoted, differs) ==
  IF Smaller(e, a) < 16 THEN "none" ELSE IF quoted \/ ~differs THEN "each" ELSE "beside"

---------------------------------------------------------------------------
(* The failures of memory and of exceptions: an address, how far it is     *)
(* from the block, and the stacks the failure has, each with what it is.   *)
Stack(what, frames) == [what |-> what, frames |-> frames]
IfAny(what, frames) == IF frames = <<>> THEN <<>> ELSE <<Stack(what, frames)>>
Far(f, at) == IF f.start < at THEN at - (f.start + f.size) ELSE at - f.start

Crime(word, far, stacks) == [word |-> word, far |-> far, stacks |-> stacks]
Allocated(f) == Stack("allocate", f.allocate)

LeakCrime(f) == Crime("leak", 0, <<Allocated(f)>>)
DoubleFree(f) == Crime("double free", 0, <<Stack("crime", f.now), Allocated(f), Stack("free", f.release)>>)
AsymmetricFree(f) == Crime("asymmetric free", 0, <<Stack("crime", f.release)>> \o IfAny("allocate", f.allocate))

(* Mutant of Overflow: counted from the start of the block. *)
OverflowFromStart(f) ==
  Crime(IF f.at >= f.start THEN "overflow" ELSE "underflow", f.at - f.start, IfAny("crime", f.now) \o <<Allocated(f)>>)

Overflow(f) ==
  Crime(IF Far(f, f.at) >= 0 THEN "overflow" ELSE "underflow", Far(f, f.at), IfAny("crime", f.now) \o <<Allocated(f)>>)
UseAfterFree(f) == Crime("after free", f.at - f.start, <<Stack("crime", f.now), Allocated(f), Stack("free", f.release)>>)
Exception(f) == Crime("exception", 0, <<Stack("crime", f.now)>>)
CrimeOf(f) ==
  CASE f.kind = "leak" -> LeakCrime(f) [] f.kind = "double free" -> DoubleFree(f)
    [] f.kind = "asymmetric free" -> AsymmetricFree(f) [] f.kind = "overflow" -> Overflow(f)
    [] f.kind = "use after free" -> UseAfterFree(f) [] f.kind = "exception" -> Exception(f)
=============================================================================
