------------------------------ MODULE Matchers ------------------------------
(***************************************************************************)
(* Matchers (src/source/matcher): a tree of them is evaluated on a value   *)
(* with a context handed down, which carries the negation, the range and   *)
(* the count asked for above.  A value is a number, a text, a container,   *)
(* or one with others inside; a text is a word, its case and its spacing.  *)
(* Numbers are counted in parts, Whole of which are 1: averages need them. *)
(***************************************************************************)
EXTENDS Integers, SequencesExt

CONSTANTS
  Limit,   \* where the range of a matcher ends that was given none (5413722)
  Whole    \* a multiple of every number of elements that is averaged

Container(elems, pointer) == [elems |-> elems, pointer |-> pointer, map |-> FALSE]
Map(pairs) == [elems |-> pairs, pointer |-> FALSE, map |-> TRUE]

(* A matcher with the marks of h2_polymorphic_matcher: !, ~, *, a count    *)
(* and a range (-1 when none), and the range from..to of its type.         *)
Plainly == [neg |-> FALSE, caseless |-> FALSE, squash |-> FALSE, times |-> 1, lo |-> -1, hi |-> -1, from |-> 0, to |-> Limit,
            op |-> "", kids |-> <<>>, accepts |-> {}, value |-> 0, bounds |-> <<>>, part |-> "",
            text |-> [word |-> "", upper |-> FALSE, spaced |-> FALSE]]
Matcher(op, kids) == [Plainly EXCEPT !.op = op, !.kids = kids]
Accepting(values) == [Plainly EXCEPT !.op = "equation", !.accepts = values]
Text(op, text) == [Plainly EXCEPT !.op = op, !.text = text]
Valued(op, n) == [Plainly EXCEPT !.op = op, !.accepts = {n}, !.value = n]
Spread(bounds) == [Plainly EXCEPT !.op = "Range", !.bounds = bounds]
Member(part, m) == [Matcher("Member", <<m>>) EXCEPT !.part = part]

(* The context; `junk` is what a read beyond the end of a vector finds,    *)
(* `plain` whether the comparison is written elsewhere.                    *)
NoContext(junk) == [neg |-> FALSE, caseless |-> FALSE, squash |-> FALSE, times |-> 1, lo |-> 0, hi |-> Limit,
                    junk |-> junk, plain |-> FALSE]

(* Mutant of Configured: a mark on a matcher under a negation is lost. *)
ConfiguredOr(m, c) ==
  [c EXCEPT !.neg = m.neg \/ @, !.caseless = m.caseless \/ @, !.squash = m.squash \/ @, !.times = m.times * @,
            !.lo = IF m.lo # -1 /\ m.hi # -1 THEN m.lo ELSE @,
            !.hi = IF m.lo # -1 /\ m.hi # -1 THEN m.hi ELSE @]

Configured(m, c) ==
  [c EXCEPT !.neg = m.neg # @, !.caseless = m.caseless \/ @, !.squash = m.squash \/ @, !.times = m.times * @,
            !.lo = IF m.lo # -1 /\ m.hi # -1 THEN m.lo ELSE @,
            !.hi = IF m.lo # -1 /\ m.hi # -1 THEN m.hi ELSE @]

Fit(result, c) == result = ~c.neg
Positive(c) == [c EXCEPT !.neg = FALSE]
Element(c) == [c EXCEPT !.neg = FALSE, !.lo = 0, !.hi = Limit]   \* the count stays

(* h2_equation squashes both texts, the searching matchers only the actual. *)
SameText(m, a, c) ==
  /\ a.word = m.text.word
  /\ c.caseless \/ a.upper = m.text.upper
  /\ (a.spaced /\ ~c.squash) = (m.text.spaced /\ ~(c.squash /\ m.op = "string"))

(* A pointer without a dimension is an array as long as the range. *)
Elements(m, a, c) ==
  IF ~a.pointer THEN a.elems
  ELSE LET spans == {c.hi - c.lo, m.to - m.from, Len(a.elems)}
       IN SubSeq(a.elems, 1, CHOOSE n \in spans : \A s \in spans : n <= s)
InRange(m, c, i) == c.lo <= i - 1 /\ i - 1 < c.hi /\ m.from <= i - 1 /\ i - 1 < m.to
Kept(m, a, c) ==
  LET e == Elements(m, a, c) IN FoldLeftDomain(LAMBDA kept, i : IF InRange(m, c, i) THEN Append(kept, e[i]) ELSE kept,
                                               <<>>, e)

(* The inequalities, and Range, which counts up from its start by its step. *)
Compares(op, a, e) == CASE op = ">=" -> a >= e [] op = ">" -> a > e [] op = "<=" -> a <= e [] op = "<" -> a < e
RECURSIVE CountsTo(_, _, _, _)
CountsTo(a, i, end, step) == i < end /\ (i = a \/ CountsTo(a, i + step, end, step))

(* A single bound is the end.                                              *)
Spanned(a, bounds) ==
  IF Len(bounds) = 1 THEN CountsTo(a, 0, bounds[1], 1)
  ELSE CountsTo(a, bounds[1], bounds[2], IF Len(bounds) = 2 THEN 1 ELSE bounds[3])

Total(numbers) == FoldLeft(LAMBDA x, y : x + y, 0, numbers)
(* Of an even number of elements the two behind the middle are taken, of   *)
(* which the second is beyond the end when there are no more; they are     *)
(* whole numbers (int), and so is what the division by 2 gives.            *)
Median(numbers, junk) ==
  LET b == Append(SortSeq(numbers, <), junk) n == Len(numbers) behind == n \div 2 + 1 IN
  IF n % 2 = 1 THEN b[behind] ELSE Whole * ((b[behind] + b[behind + 1]) \div (2 * Whole))
Statistic(op, numbers, junk) ==
  CASE op = "max" -> FoldLeft(LAMBDA x, y : IF y > x THEN y ELSE x, numbers[1], numbers)
    [] op = "min" -> FoldLeft(LAMBDA x, y : IF y < x THEN y ELSE x, numbers[1], numbers)
    [] op = "avg" -> Total(numbers) \div Len(numbers)
    [] op = "median" -> Median(numbers, junk)

(* matches(): TRUE where the code returns no failure. *)
RECURSIVE Matches(_, _, _)
Negated(m, a, c) == Matches(m.kids[1], a, IF m.op = "not" THEN [c EXCEPT !.neg = ~@] ELSE c)
AllOrAny(m, a, c) ==
  LET On(k) == Matches(m.kids[k], a, Positive(c)) IN
  Fit(IF m.op \in {"and", "AllOf"} THEN \A k \in DOMAIN m.kids : On(k) ELSE \E k \in DOMAIN m.kids : On(k), c)
NoneOf(m, a, c) == Fit(\A k \in DOMAIN m.kids : ~Matches(m.kids[k], a, Positive(c)), c)
Pair(m, a, c) == Fit(Matches(m.kids[1], a.first, Element(c)) /\ Matches(m.kids[2], a.second, Element(c)), c)
Every(m, a, c) ==
  Fit(\A i \in DOMAIN Kept(m, a, c) : Matches(m.kids[1], Kept(m, a, c)[i], Element(c)), c)
Has(m, a, c) ==
  LET Found(element) == Matches(m.kids[1], IF a.map /\ m.kids[1].op # "pair" THEN element.first ELSE element, Element(c)) IN
  Fit(Len(SelectSeq(Kept(m, a, c), Found)) >= c.times, c)
ListOf(m, a, c) ==
  LET first == IF c.lo > m.from THEN c.lo ELSE m.from
      elements == Elements(m, a, c)
  IN Fit(\A k \in DOMAIN m.kids : /\ first + k <= Len(elements)
                                  /\ Matches(m.kids[k], elements[first + k], Element(c)), c)
CountOf(m, a, c) == Fit(Matches(m.kids[1], Len(Elements(m, a, c)), Element(c)), c)
Statistical(m, a, c) ==
  Fit(/\ Kept(m, a, c) # <<>>
      /\ Matches(m.kids[1], Statistic(m.op, Kept(m, a, c), c.junk), Element(c)), c)

(* A value inside another: a member of an object or of what a pointer to   *)
(* it points to, or what a method returns; what a pointer points to; what  *)
(* a cast makes of it.                                                     *)
Inner(m, a) == CASE m.op = "Member" -> a.members[m.part] [] m.op = "Pointee" -> a.points [] m.op = "CastOf" -> a.cast

(* Mutant of OfInner: what is inside is looked at as if nothing was negated. *)
OfInnerPositive(m, a, c) == Matches(m.kids[1], Inner(m, a), Positive(c))

OfInner(m, a, c) ==
  Matches(m.kids[1], Inner(m, a), IF m.op = "Pointee" THEN [c EXCEPT !.lo = 0, !.hi = Limit] ELSE c)

(* What is written with H2MATCHER: a predicate with its arguments.         *)
Customized(m, a) ==
  CASE m.op = "IsEven" -> a % 2 = 0 [] m.op = "IsOdd" -> a % 2 # 0 [] m.op = "IsDivable" -> a % m.value = 0

Matches(m, a, above) ==
  LET c == Configured(m, above) IN
  CASE m.op \in {"equation", "value"} -> Fit(a \in m.accepts, c)
    [] m.op = "Any" -> Fit(TRUE, c)
    [] m.op = "NULL" -> Fit(a = 0, c)
    [] m.op = "bool" -> Fit((a # 0) = (m.value # 0), c)
    [] m.op \in {">=", ">", "<=", "<"} -> Fit(Compares(m.op, a, m.value), c)
    [] m.op = "Range" -> Fit(Spanned(a, m.bounds), c)
    [] m.op = "pair" -> Pair(m, a, c)
    [] m.op \in {"string", "substr"} -> Fit(SameText(m, a, c), c)
    [] m.op \in {"not", "if"} -> Negated(m, a, c)
    [] m.op \in {"and", "or", "AllOf", "AnyOf"} -> AllOrAny(m, a, c)
    [] m.op = "none" -> NoneOf(m, a, c)
    [] m.op \in {"every", "every2"} -> Every(m, a, c)
    [] m.op \in {"has", "has2", "HasKey", "HasValue"} -> Has(m, a, c)
    [] m.op = "list" -> ListOf(m, a, c)
    [] m.op = "count" -> CountOf(m, a, c)
    [] m.op \in {"Member", "Pointee", "CastOf"} -> OfInner(m, a, c)
    [] m.op \in {"IsEven", "IsOdd", "IsDivable"} -> Fit(Customized(m, a), c)
    [] OTHER -> Statistical(m, a, c)
=============================================================================
