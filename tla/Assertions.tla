----------------------------- MODULE Assertions -----------------------------
(***************************************************************************)
(* What an assertion compares, and what it says that it expects.           *)
(* Equality by the types of both sides, near equality and the comparison   *)
(* of memory (src/source/matcher/h2_matches_equation.hpp,                  *)
(* h2_matches_memcmp.hpp, h2_matches_memcmp.cpp): a side is a record with  *)
(* its type, its number - that of a pointer is its address, 0 for null -   *)
(* and its text; reals are counted in units, Unit of them are one.  Then   *)
(* the expection() of every matcher in src/source/matcher, a sequence of   *)
(* words, and how an assertion asks it (src/source/assert).                *)
(***************************************************************************)
EXTENDS Text, Matchers

CONSTANTS Unit,          \* h2_approximate::A
          MarginMark,    \* h2_approximate::B, added to a margin, more than any percentage
          WordRange      \* how many values an unsigned long long has

Distance(a, b) == IF a > b THEN a - b ELSE b - a

(* H2Eq: a tolerance is one number.  `t * 1 %` is a product and a rest of  *)
(* the mark, `t` a product and a sum with it.                              *)
Epsilon(t) ==
  CASE t.how = "none" -> 0
    [] t.how = "margin" -> (t.by + MarginMark) % WordRange
    [] t.how = "percentage" -> t.by % MarginMark

(* Mutant of IsScale: the mark alone is a percentage. *)
IsScaleOrMark(epsilon) == epsilon # 0 /\ epsilon <= MarginMark

IsScale(epsilon) == epsilon # 0 /\ epsilon < MarginMark

(* Without a tolerance 0.00001 is allowed, which is less than a unit here. *)
AbsoluteMargin(epsilon) == IF epsilon = 0 THEN 0 ELSE epsilon - MarginMark
PercentageScaled(e, epsilon) == Distance(e, 0) * epsilon   \* in units of one hundredth of a unit
Approximates(e, a, epsilon) ==
  IF IsScale(epsilon) THEN Distance(a, e) * 100 * Unit <= PercentageScaled(e, epsilon)
  ELSE Distance(a, e) <= AbsoluteMargin(epsilon)
ToleranceSaid(epsilon) ==
  CASE epsilon = 0 -> [how |-> "none", by |-> 0]
    [] IsScale(epsilon) -> [how |-> "percentage", by |-> epsilon]
    [] OTHER -> [how |-> "margin", by |-> AbsoluteMargin(epsilon)]

---------------------------------------------------------------------------
(* h2_equation.  A text is made of a character pointer, "(null)" of none.  *)
IsText(side) == side.type \in {"string", "chars"}
IsPointer(side) == side.type \in {"pointer", "chars", "nullptr"}
NullText == [word |-> "(null)", upper |-> FALSE, spaced |-> FALSE]
SideText(side) == IF side.type = "chars" /\ side.number = 0 THEN NullText ELSE side.text
IsNull(side) == IF side.type = "string" THEN FALSE ELSE side.number = 0
Numberfied(side) == side.number % WordRange
EqualTexts(e, a, c) == SameText(Text("string", SideText(e)), SideText(a), c)
EqualNumbers(e, a, epsilon) ==
  IF "real" \in {e.type, a.type} THEN Approximates(e.number, a.number, epsilon) ELSE Numberfied(e) = Numberfied(a)

(* Mutant of Equals: two character pointers are compared as pointers. *)
EqualsPointers(e, a, c, epsilon) ==
  CASE e.type = "nullptr" \/ (IsPointer(e) /\ IsNull(e)) -> Fit(IsNull(a), c)
    [] e.type = "bool" -> Fit((e.number # 0) = ~IsNull(a), c)
    [] e.type = "string" -> Fit(EqualTexts(e, a, c), c)
    [] e.type \in {"integer", "real"} -> Fit(EqualNumbers(e, a, epsilon), c)
    [] OTHER -> Fit(e.number = a.number, c)

(* Equals(): the matcher is chosen by the type of the expected side, and   *)
(* one of a null pointer is that of NULL.                                  *)
Equals(e, a, c, epsilon) ==
  CASE e.type = "nullptr" \/ (IsPointer(e) /\ IsNull(e)) -> Fit(IsNull(a), c)
    [] e.type = "bool" -> Fit((e.number # 0) = ~IsNull(a), c)
    [] e.type = "string" \/ (e.type = "chars" /\ IsText(a)) -> Fit(EqualTexts(e, a, c), c)
    [] e.type \in {"integer", "real"} -> Fit(EqualNumbers(e, a, epsilon), c)
    [] OTHER -> Fit(e.number = a.number, c)

(* TypeEq: nothing but the type counts.                                    *)
TypeEquals(e, a, c) == Fit(e.type = a.type, c)

---------------------------------------------------------------------------
(* Me(): a character is a number, 0 to 15 for those of hexadecimal digits. *)
Space1 == 16
Tab == 17
LetterX == 18
Code(ch) ==
  CASE ch \in 0..9 -> 48 + ch [] ch \in 10..15 -> 87 + ch
    [] ch = Space1 -> 32 [] ch = Tab -> 9 [] ch = LetterX -> 120 [] OTHER -> 84 + ch
Codes(s) == [i \in DOMAIN s |-> Code(s[i])]
IsBinString(s) == Range(s) \subseteq {0, 1, Space1, Tab}
IsHexString(s) == (Len(s) > 1 /\ s[1] = 0 /\ s[2] = LetterX) \/ Range(s) \subseteq 0..Tab

(* Mutant of BinToBits: a blank is a bit that is not set. *)
BinToBitsBlank(s) == [i \in DOMAIN s |-> IF s[i] = 1 THEN 1 ELSE 0]

(* bin_to_bits: of the blanks only a space is none of the bits.            *)
BinToBits(s) == LET digits == SelectSeq(s, LAMBDA ch : ch # Space1) IN [i \in DOMAIN digits |-> IF digits[i] = 1 THEN 1 ELSE 0]
Packed(bits) ==
  [i \in 1..(Len(bits) + 7) \div 8 |-> FoldLeft(LAMBDA n, j : 2 * n + (IF 8 * i + j - 8 <= Len(bits) THEN bits[8 * i + j - 8] ELSE 0),
                                               0, <<1, 2, 3, 4, 5, 6, 7, 8>>)]

(* What is compared: its bytes, how many items, of how many bits; zero is  *)
(* not said.  `same` is a text that is the very same with its end.         *)
Compared(bytes, size, width) == [bytes |-> bytes, size |-> size, width |-> width, same |-> FALSE]
ByFormat(s, a) ==
  CASE IsPrefix(Append(Codes(s), 0), a) -> [Compared(Codes(s), Len(s), 8) EXCEPT !.same = TRUE]
    [] IsBinString(s) -> Compared(Packed(BinToBits(s)), Len(BinToBits(s)), 1)
    [] IsHexString(s) -> Compared(HexToBytes([i \in DOMAIN s |-> IF s[i] < 16 THEN s[i] ELSE -1]),
                                  Len(HexToBytes([i \in DOMAIN s |-> IF s[i] < 16 THEN s[i] ELSE -1])), 8)
    [] OTHER -> Compared(Codes(s), Len(s), 8)

(* h2_matches_memcmp::matches: by the format of a text given alone, the    *)
(* type of the elements and the dimension of the array.                    *)
Deduced(m, a) ==
  LET given == Compared(m.bytes, m.size, m.width)
      first == IF m.width = 0 /\ m.size = 0 /\ m.chars THEN ByFormat(m.string, a) ELSE given
  IN [first EXCEPT !.width = IF @ = 0 THEN m.element ELSE @, !.size = IF @ = 0 THEN m.dimension ELSE @]
SameMemory(m, a, c) ==
  LET d == Deduced(m, a) IN
  IF d.same THEN Fit(TRUE, c) ELSE d.size # 0 /\ d.width # 0 /\ Fit(BitsEqual(d.bytes, a, d.size * d.width), c)

---------------------------------------------------------------------------

(* C::pre and C::post: the marks of what stands above, and the count.      *)
Pre(c, not) ==
  (IF c.neg /\ ~c.plain THEN <<not>> ELSE <<>>) \o (IF c.caseless THEN <<"~">> ELSE <<>>) \o (IF c.squash THEN <<"*">> ELSE <<>>)
Post(c) == IF c.times = 1 THEN <<>> ELSE <<" * ", ToString(c.times)>>
AnyCase(c) == [c EXCEPT !.caseless = FALSE]
Operator(op, c) == IF c.plain THEN <<>> ELSE <<op>>
TextShown(text, c) ==
  <<(IF text.spaced /\ ~c.squash THEN "_" ELSE "") \o text.word \o (IF text.upper THEN "^" ELSE "")>>
Commas(lines) == FlattenSeq([i \in DOMAIN lines |-> (IF i = 1 THEN <<>> ELSE <<", ">>) \o lines[i]])
Bracket(line) == <<"(">> \o line \o <<")">>
Binds(line, words) == IF Range(line) \cap words = {} THEN line ELSE Bracket(line)

RECURSIVE Expection(_, _)

(* A value that is no matcher is written without any mark.                 *)
SaidOf(m, c) == IF m.op = "value" THEN <<ToString(m.value)>> ELSE Expection(m, c)
SaidOfAll(m, c) == [k \in DOMAIN m.kids |-> SaidOf(m.kids[k], c)]
CalledAs(m) == CASE m.op = "max" -> "MaxOf" [] m.op = "min" -> "MinOf" [] m.op = "avg" -> "AvgOf" [] m.op = "count" -> "CountOf"
             [] m.op = "every" -> "Every" [] m.op = "has" -> "Has" [] m.op = "none" -> "NoneOf"
                  [] m.op = "every2" -> "Every" [] m.op = "has2" -> "Has" [] OTHER -> m.op
PartSaid(pair, k, c) == SaidOf(pair.kids[k], c)

(* Mutant of AndSaid: what stands on the left binds as tight. *)
AndLoose(m, c) ==
  LET s == SaidOf(m.kids[1], Positive(c)) \o <<" and ">> \o Binds(SaidOf(m.kids[2], Positive(c)), {" and ", " or "})
  IN Pre(AnyCase(c), "!") \o (IF c.neg THEN Bracket(s) ELSE s)

AndSaid(m, c) ==
  LET s == Binds(SaidOf(m.kids[1], Positive(c)), {" or "}) \o <<" and ">>
             \o Binds(SaidOf(m.kids[2], Positive(c)), {" and ", " or "})
  IN Pre(AnyCase(c), "!") \o (IF c.neg THEN Bracket(s) ELSE s)
OrSaid(m, c) ==
  LET s == SaidOf(m.kids[1], Positive(c)) \o <<" or ">> \o Binds(SaidOf(m.kids[2], Positive(c)), {" or "})
  IN Pre(AnyCase(c), "!") \o (IF c.neg THEN Bracket(s) ELSE s)
Called(m, args, c) == Pre(AnyCase(c), "!") \o <<CalledAs(m)>> \o Bracket(args)

EqualsSaid(m, c) == Pre(AnyCase(c), "!=") \o <<ToString(m.value)>>
StringSaid(m, c) == Pre(c, "!=") \o TextShown(m.text, c)
SearchSaid(m, c) == Pre(c, "!") \o <<"Substr">> \o Bracket(TextShown(m.text, [c EXCEPT !.squash = FALSE]))
BoolSaid(m, c) == IF (m.value # 0) = c.neg THEN <<"false">> ELSE <<"true">>
InequalitySaid(m, c) == Pre(AnyCase(c), "!") \o Operator(m.op, c) \o <<ToString(m.value)>>
RangeSaid(m, c) == Called(m, Commas([i \in DOMAIN m.bounds |-> <<ToString(m.bounds[i])>>]), c)
ListSaid(m, c) == Pre(AnyCase(c), "!") \o <<"[">> \o Commas(SaidOfAll(m, Positive(c))) \o <<"]">>
PairSaid(m, c) == Pre(AnyCase(c), "!") \o Bracket(Commas(SaidOfAll(m, c)))
Every2Said(m, c) == Called(m, Commas(SaidOfAll(m.kids[1], c)), c)
Has2Said(m, c) ==
  Called(m, CASE m.op = "has2" -> Commas(SaidOfAll(m.kids[1], Positive(c)))
              [] m.op = "HasKey" -> PartSaid(m.kids[1], 1, Positive(c))
              [] m.op = "HasValue" -> PartSaid(m.kids[1], 2, Positive(c)), c) \o Post(c)
CustomSaid(m, c) == Pre(c, "!") \o <<m.op>> \o Bracket(IF m.op = "IsDivable" THEN <<ToString(m.value)>> ELSE <<>>)
ContainerSaid(m, c) == Called(m, SaidOf(m.kids[1], AnyCase(Positive(c))), c) \o Post(c)

Expection(m, above) ==
  LET c == Configured(m, above) IN
  CASE m.op = "equation" -> EqualsSaid(m, c)
    [] m.op = "string" -> StringSaid(m, c)
    [] m.op = "substr" -> SearchSaid(m, c)
    [] m.op \in {"Any", "NULL"} -> (IF c.neg THEN <<"!">> ELSE <<>>) \o <<m.op>>
    [] m.op = "bool" -> BoolSaid(m, c)
    [] m.op \in {">=", ">", "<=", "<"} -> InequalitySaid(m, c)
    [] m.op = "Range" -> RangeSaid(m, c)
    [] m.op = "not" -> SaidOf(m.kids[1], [c EXCEPT !.neg = ~@])
    [] m.op \in {"if", "Member", "Pointee", "CastOf"} -> SaidOf(m.kids[1], c)
    [] m.op \in {"IsEven", "IsOdd", "IsDivable"} -> CustomSaid(m, c)
    [] m.op = "and" -> AndSaid(m, c)
    [] m.op = "or" -> OrSaid(m, c)
    [] m.op \in {"AllOf", "AnyOf", "none"} -> Called(m, Commas(SaidOfAll(m, Positive(c))), c)
    [] m.op = "list" -> ListSaid(m, c)
    [] m.op = "pair" -> PairSaid(m, c)
    [] m.op = "every2" -> Every2Said(m, c)
    [] m.op \in {"has2", "HasKey", "HasValue"} -> Has2Said(m, c)
    [] OTHER -> ContainerSaid(m, c)

---------------------------------------------------------------------------
(* OK and KO of a comparison: the left side, turned about, is the matcher  *)
(* of the right.                                                           *)
Turned0(op, e) ==
  CASE op = "==" -> Valued("equation", e)
    [] op = "!=" -> Matcher("not", <<Valued("value", e)>>)
    [] op = ">" -> Valued("<", e) [] op = "<" -> Valued(">", e)
    [] op = ">=" -> Valued("<=", e) [] op = "<=" -> Valued(">=", e)

(* Mutant of Fails: a KO that holds is no failure. *)
FailsOnly(m, a, c, oppose) == ~Matches(m, a, c)

(* h2_assert::stash: KO fails when the matcher does not.                   *)
Fails(m, a, c, oppose) == Matches(m, a, c) = oppose
Ok1Fails(op, e, a, oppose) == Fails(Turned0(op, e), a, [NoContext(0) EXCEPT !.plain = TRUE], oppose)
Ok1Says(op, e) == Expection(Turned0(op, e), [NoContext(0) EXCEPT !.plain = TRUE])
=============================================================================
