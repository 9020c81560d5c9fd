--------------------------- MODULE MCAlgorithms ---------------------------
(***************************************************************************)
(* The pure algorithms on every small input: a state holds one question,   *)
(* and each property says of its kind of question what the answer means,   *)
(* in words that do not follow the code.                                   *)
(***************************************************************************)
EXTENDS MCFunctions, MCTexts, MCFailures, Expression, Options, Libc, MachineCode

MCLower == [a |-> "a", A |-> "a", b |-> "b", k |-> "k", K |-> "k", n |-> "n"] @@ ("" :> "") @@ ("1" :> "1") @@ ("null" :> "null")
Begins == [suite |-> {"s", "suite"}, case |-> {"c", "case"}, todo |-> {"t", "todo"}, tags |-> {"t", "ta"},
           random |-> {"r", "random"}, name |-> {"n"}, file |-> {"f"}, reverse |-> {"r", "re"},
           exception |-> {"e"}, uncaught |-> {"u"}, leak |-> {"l"}, violate |-> {"v"}, asymmetric_free |-> {"a"}]

MCCode == 0..71
MCLinkerJump == (40 :> "FF25") @@ (46 :> "E9") @@ (51 :> "EB") @@ (53 :> "48FF25")
MCPointer == (40 :> 64) @@ (53 :> 64)
MCMachine == [isa : {"i386", "x86_64"}, apple : {FALSE}] \cup [isa : {"arm64", "x86_64"}, apple : BOOLEAN]

Alphabet == <<"a", "b", "c", "d", "e", "f", "g", "h", "i", "j", "k", "l">>

(* Pairs of places of two texts that keep the order of both. *)
Alignments ==
  [n \in 0..3, m \in 0..3 |->
     {A \in SUBSET ((1..n) \X (1..m)) : \A p, q \in A : p = q \/ (p[1] < q[1] /\ p[2] < q[2]) \/ (p[1] > q[1] /\ p[2] > q[2])}]
Sum(f) == FoldFunction(+, 0, f)

---------------------------------------------------------------------------
(* Matchers: atoms, one layer of logic or container, one layer more.       *)
Atoms == {[Accepting(s) EXCEPT !.neg = n] : s \in {{0}, {2, 6, 12}}, n \in BOOLEAN}
Turns(kids) == {[Matcher(op, <<k>>) EXCEPT !.neg = n] : op \in {"not", "if"}, n \in BOOLEAN, k \in kids}
Joins(kids) ==
  {[Matcher(op, <<k, l>>) EXCEPT !.neg = n] : op \in {"and", "or", "none"}, n \in BOOLEAN, k \in kids, l \in kids}
Logic(kids) == Turns(kids) \cup Joins(kids)
Ranged(m) == {m, [m EXCEPT !.lo = 0, !.hi = 2], [m EXCEPT !.from = 1, !.to = 3]}
Containers(kids) ==
  UNION {Ranged([Matcher(op, <<k>>) EXCEPT !.neg = n]) :
           op \in {"every", "has", "max", "min", "avg", "median"}, n \in BOOLEAN, k \in kids}
    \cup {[Matcher(op, <<k>>) EXCEPT !.neg = n, !.times = t] : op \in {"has", "count"}, n \in BOOLEAN, k \in kids, t \in 1..2}
    \cup {[Matcher("list", <<k, l>>) EXCEPT !.neg = n, !.from = f] : n \in BOOLEAN, f \in 0..1, k \in kids, l \in kids}
Subjects == {Container(e, FALSE) : e \in Texts({0, 6, 12}, 3)}
Over == {m \in Containers(Atoms) : m.times = 1 /\ m.from = 0 /\ m.op \in {"every", "has", "max", "min", "avg"}}
TextValues == [word : {"a", "b"}, upper : BOOLEAN, spaced : BOOLEAN]
TextMatchers ==
  {Matcher("not", <<[Text(op, t) EXCEPT !.caseless = c, !.neg = n]>>) : op \in {"string", "substr"}, t \in TextValues, c \in BOOLEAN, n \in BOOLEAN}

(* What a matcher says of a value.  A count of a nested Has is not asked   *)
(* about; the median of two numbers is, for MedianInTheMiddle only.        *)
RECURSIVE Holds(_, _, _, _)
Holds(m, a, caseless, range) ==
  LET cl == caseless \/ m.caseless
      r == IF m.lo # -1 THEN m.lo..m.hi - 1 ELSE range
      On(k) == Holds(m.kids[k], a, cl, r)
      places == {i \in DOMAIN a.elems : i - 1 \in r /\ m.from < i /\ i <= m.to}
      For(i) == Holds(m.kids[1], a.elems[i], cl, 0..Limit)
      Of(number) == Holds(m.kids[1], number, cl, 0..Limit)
      Fewer(i) == {j \in places : a.elems[j] < a.elems[i]}
      More(i) == {j \in places : a.elems[j] > a.elems[i]}
      Ranks(i) == {n \in 1..Cardinality(places) : Cardinality(Fewer(i)) < n /\ n <= Cardinality(places \ More(i))}
  IN m.neg #
  CASE m.op = "equation" -> a \in m.accepts
    [] m.op \in {"string", "substr"} -> a.word = m.text.word /\ a.spaced = m.text.spaced /\ (cl \/ a.upper = m.text.upper)
    [] m.op = "not" -> ~On(1)
    [] m.op = "Member" -> Holds(m.kids[1], a.members[m.part], cl, r)
    [] m.op = "Pointee" -> Holds(m.kids[1], a.points, cl, 0..Limit)
    [] m.op = "CastOf" -> Holds(m.kids[1], a.cast, cl, r)
    [] m.op = "if" -> On(1)
    [] m.op = "and" -> On(1) /\ On(2)
    [] m.op = "or" -> On(1) \/ On(2)
    [] m.op = "none" -> ~On(1) /\ ~On(2)
    [] m.op = "every" -> \A i \in places : For(i)
    [] m.op = "has" -> Cardinality({i \in places : For(i)}) >= m.times
    [] m.op = "list" -> \A k \in 1..2 : m.from + k \in DOMAIN a.elems /\ Holds(m.kids[k], a.elems[m.from + k], cl, 0..Limit)
    [] m.op = "count" -> Of(Len(a.elems))
    [] m.op = "max" -> \E i \in places : More(i) = {} /\ For(i)
    [] m.op = "min" -> \E i \in places : Fewer(i) = {} /\ For(i)
    [] m.op = "avg" -> \E n \in 0..12 : places # {} /\ n * Cardinality(places) = Sum([i \in places |-> a.elems[i]]) /\ Of(n)
    [] m.op = "median" -> \E i, j \in places : \E n \in Ranks(i) :   \* as many below one as above the other
                            Cardinality(places) + 1 - n \in Ranks(j) /\ Cardinality(places) - 2 * n \in {-1, 0} /\ Of((a.elems[i] + a.elems[j]) \div 2)

(* Objects with a number and a list, themselves and behind a pointer.      *)
Thing(number, elems) == [members |-> [number |-> number, list |-> Container(elems, FALSE)], points |-> Container(elems, FALSE), cast |-> number]
Things == {Thing(n, e) : n \in {0, 6}, e \in Texts({0, 6}, 2)}
Insides ==
  LET numbers == Atoms \cup Turns({Accepting({0})})
      lists == {m \in Containers({Accepting({0})}) : m.times = 1 /\ m.from = 0 /\ m.op \in {"every", "has", "max"}}
      inner == {Member("number", k) : k \in numbers} \cup {Member("list", k) : k \in lists}
                 \cup {Matcher("Pointee", <<k>>) : k \in lists} \cup {Matcher("CastOf", <<k>>) : k \in numbers}
  IN UNION {Ranged([m EXCEPT !.neg = n]) : m \in inner \cup Turns(inner), n \in BOOLEAN}

(* A negation wherever it stands in a tree of matchers turns exactly what  *)
(* stands under it: the verdict is the meaning of the tree                 *)
(* (h2_matches_logic.hpp, h2_matches_container.hpp).                       *)
VerdictIsMeaning ==
  Asked("matcher") => Matches(question.m, question.a, NoContext(0)) = Holds(question.m, question.a, FALSE, 0..Limit)

(* The median of two numbers is their mean, 1.5 of 1 and 2, as             *)
(* document/matcher.md:176 has it, whatever stands in memory behind them   *)
(* (h2_median_matches in h2_matches_container.hpp).  The code does not     *)
(* keep this: no run has it among its properties.                          *)
MedianInTheMiddle ==
  Asked("median") =>
    Matches(question.m, question.a, NoContext(question.junk)) = Holds(question.m, question.a, FALSE, 0..Limit)

---------------------------------------------------------------------------
Without(s, ch) == SelectSeq(s, LAMBDA c : c # ch)
Joined(tokens) == FoldLeft(LAMBDA s, t : s \o <<Space>> \o t, <<>>, tokens)

(* The tokens are the text: nothing but spaces is lost, and tokens written *)
(* out again with spaces between are the same tokens (h2_lexical.cpp).     *)
TokensAreText ==
  Asked("text") => LET tokens == Lexical(question.text) IN
    /\ Without(FlattenSeq(tokens), Space) = Without(question.text, Space)
    /\ Lexical(Joined(tokens)) = tokens

(* The language: a value is one token or a bracketed list of items.        *)
RECURSIVE IsValue(_), IsItems(_, _), IsItem(_, _)
IsValue(s) ==
  \/ Len(s) = 1 /\ s[1] \notin {":", ",", "[", "{"}
  \/ Len(s) > 1 /\ \E type \in {"array", "object"} :
       /\ s[1] = (IF type = "array" THEN "[" ELSE "{") /\ Last(s) = Closing(type)
       /\ IsItems(SubSeq(s, 2, Len(s) - 1), type)
IsItem(s, type) ==
  /\ s # <<>> /\ s[1] # Closing(type)
  /\ IF type = "array" THEN IsValue(s) ELSE Len(s) > 2 /\ s[2] = ":" /\ IsValue(SubSeq(s, 3, Len(s)))
IsItems(s, type) ==
  \/ s = <<>> \/ IsItem(s, type)
  \/ \E k \in DOMAIN s : s[k] = "," /\ IsItem(SubSeq(s, 1, k - 1), type) /\ IsItems(SubSeq(s, k + 1, Len(s)), type)

(* The recursive descent accepts the language of the grammar, a comma at   *)
(* the end of a list and an empty document included (h2_syntax.cpp).       *)
AcceptsTheLanguage ==
  Asked("tokens") => (Wellformed(question.tokens) = (question.tokens = <<>> \/ IsValue(question.tokens)))

Leaf(type, key, value) == [type |-> type, key |-> key, value |-> value, kids |-> <<>>]
Branch(type, key, kids) == [type |-> type, key |-> key, value |-> "", kids |-> kids]
Leaves(key) == {Leaf("string", key, v) : v \in {"a", "A", "b"}} \cup {Leaf("number", key, "n")}
Members == Leaves("k") \cup Leaves("K") \cup Leaves("b")
Objects(key, members) ==
  {Branch("object", key, kids) : kids \in {s \in Texts(members, 2) : Len(s) = 2 => MCLower[s[1].key] # MCLower[s[2].key]}}
Documents ==
  LET small == Objects("", Members \ {Leaf("number", "b", "n"), Leaf("string", "K", "a")}) IN
  Leaves("") \cup small \cup {Branch("array", "", kids) : kids \in Texts(Leaves(""), 2)}
    \cup {Branch("object", "", <<[o EXCEPT !.key = "k"], Leaf("string", "b", "a")>>) :
            o \in {d \in small : Len(d.kids) = 2 /\ d.kids[1].value = "a"}}
Turned(doc) == IF doc.type # "object" THEN doc ELSE
  [doc EXCEPT !.kids = Reverse([i \in DOMAIN @ |-> IF @[i].type = "object" THEN [@[i] EXCEPT !.kids = Reverse(@)] ELSE @[i]])]

(* Documents without patterns whose members have distinct keys: each       *)
(* matches itself, what matches through a third matches, and the order in  *)
(* which members are written makes no difference (h2_match.cpp).           *)
MatchIsOrder ==
  Asked("documents") => LET e == question.e a == question.a caseless == question.caseless IN
    /\ Match(e, e, caseless)
    /\ Match(e, a, caseless) = Match(Turned(e), a, caseless) /\ Match(e, a, caseless) = Match(e, Turned(a), caseless)
    /\ Match(e, a, caseless) => \A d \in Documents : Match(a, d, caseless) => Match(e, d, caseless)

Rendered(path) ==
  FoldLeft(LAMBDA s, p : s \o (IF p.by = "index" THEN <<"[">> \o p.name \o <<"]">>
                               ELSE IF p.quoted THEN <<"[", "'">> \o p.name \o <<"'", "]">> ELSE <<".">> \o p.name), <<>>, path)
Steps == {[by |-> "index", name |-> n, quoted |-> FALSE] : n \in {<<"0">>, <<"-", "1">>}}
  \cup {[by |-> "key", name |-> n, quoted |-> FALSE] : n \in {<<"a">>, <<"a", "]">>, <<"1">>, <<"a", " ", "a">>}}
  \cup {[by |-> "key", name |-> n, quoted |-> TRUE] : n \in {<<"a">>, <<"1">>, <<".", "[">>, <<" ", "a">>}}

(* A selector written for a path is read as that path: a key that looks    *)
(* like an index in quotes, one with a dot in brackets (h2_select.cpp).    *)
SelectorIsPath ==
  Asked("path") => Select(Rendered(question.path)) = [i \in DOMAIN question.path |-> [by |-> question.path[i].by, name |-> question.path[i].name]]

Keys == {s \in Texts({"a", "A", "b", "k"}, 2) \cup {<<"a", "b", "k">>, <<"b", "A", "n">>, <<"K", "A", "a">>} : IsInjective(s)}
Likes == [(1..3) \X (1..3) -> {0}] \cup {[p \in (1..3) \X (1..3) |-> (m * p[1] + p[2]) % 3] : m \in 0..2}

(* Side by side every member of both objects is shown exactly once, equal  *)
(* keys beside each other, those of the expected in their order and what   *)
(* only the actual has behind them (h2_dual.cpp).                          *)
EachShownOnce ==
  Asked("members") =>
    LET e == question.e a == question.a duals == Duals(e, a, question.caseless, question.likes)
        Rows(P(_)) == Len(SelectSeq(duals, P))
    IN /\ \A i \in DOMAIN e : Rows(LAMBDA d : d.e = i) = 1
       /\ \A j \in DOMAIN a : Rows(LAMBDA d : d.a = j) = 1
       /\ \A d \in Range(duals) : d.e # None \/ d.a # None
       /\ \A x, y \in DOMAIN duals : x < y /\ duals[y].e # None => duals[x].e # None /\ duals[x].e < duals[y].e
       /\ question.caseless \/ \A i \in DOMAIN e, j \in DOMAIN a : e[i] = a[j] => [e |-> i, a |-> j] \in Range(duals)

---------------------------------------------------------------------------
(* The trees the grammar gives a string: an operator of the loosest level  *)
(* stands above, the last of its level; of signs only the parity of minus  *)
(* counts; a function of one parameter takes the factorial signs behind.   *)
RECURSIVE Trees(_, _)
Trees(s, level) ==
  LET n == Len(s)
      Sub(i, j, l) == Trees(SubSeq(s, i, j), l)
      Is(k) == s[1] \in DOMAIN Parameters /\ Parameters[s[1]] = k
      minus(k) == Cardinality({i \in 1..k : s[i] = "-"})
      Above(op, trees) == {Tree(op, <<t>>) : t \in trees}
  IN CASE n = 0 -> {}
       [] level \in DOMAIN Levels ->
            Trees(s, level + 1) \cup UNION {{Tree(s[k], <<l, r>>) : l \in Sub(1, k - 1, level), r \in Sub(k + 1, n, level + 1)} :
                                            k \in {i \in 2..n - 1 : s[i] \in Levels[level]}}
       [] level = Tightest ->
            UNION {IF minus(k) % 2 = 0 THEN Sub(k + 1, n, 6) ELSE Above("negate", Sub(k + 1, n, 6)) :
                   k \in {j \in 0..n - 1 : \A i \in 1..j : s[i] \in {"+", "-"}}}
       [] s[n] = "!" /\ ~Is(1) -> Above("factorial", Sub(1, n - 1, 6))
       [] s = <<"1">> -> {Tree("1", <<>>)}
       [] s[1] = "(" /\ s[n] = ")" -> Sub(2, n - 1, 1)
       [] Is(0) /\ Tail(s) \in {<<>>, <<"(", ")">>} -> {Tree(s[1], <<>>)}
       [] Is(1) -> Above(s[1], Sub(2, n, Tightest))
       [] Is(2) /\ n > 2 /\ s[2] = "(" /\ s[n] = ")" ->
            UNION {{Tree(s[1], <<x, y>>) : x \in Sub(3, k - 1, Arguments), y \in Sub(k + 1, n - 1, Arguments)} : k \in {i \in 4..n - 1 : s[i] = ","}}
       [] OTHER -> {}

(* The descent gives the one tree of the grammar, and nothing for what the *)
(* grammar does not have (h2_tinyexpr.cpp).                                *)
TreeIsGrammars ==
  Asked("expression") => Range(Compile(question.tokens)) = Trees(question.tokens, 1) /\ Cardinality(Trees(question.tokens, 1)) <= 1

(* Permutations and combinations count the ways to put the smaller number  *)
(* into the greater, as long as the factorial is a number of the machine;  *)
(* and of ones, pluses and minuses each one counts with the signs since    *)
(* the one before (h2_tinyexpr.cpp).                                       *)
NumbersCount ==
  /\ Asked("numbers") =>
       LET n == question.n m == question.m less == Least({n, m}) more == n + m - less IN
       IF less < 0 THEN Pnm(n, m) = <<>> /\ Cnm(n, m) = <<>>
       ELSE /\ FactorialOf(n) = <<Cardinality(Bijection(1..n, 1..n))>>
            /\ Pnm(n, m) = <<Cardinality(Injection(1..less, 1..more))>>
            /\ Cnm(n, m) = <<Cardinality(kSubset(less, 1..more))>>
  /\ Asked("ones") =>
       LET s == question.tokens
           start(i) == CHOOSE k \in 0..i - 1 : (k = 0 \/ s[k] = "1") /\ \A j \in k + 1..i - 1 : s[j] # "1"
           minus(i) == Cardinality({k \in start(i)..i : k # 0 /\ s[k] = "-"})
       IN Compile(s) # <<>> => ValueOf(s) = <<<<Sum([i \in {k \in DOMAIN s : s[k] = "1"} |-> IF minus(i) % 2 = 1 THEN -1 ELSE 1])>>>>

---------------------------------------------------------------------------
(* The estimate's distance is the least number of changes, insertions and  *)
(* deletions, and what a difference leaves unmarked is a longest common    *)
(* subsequence of both texts (h2_diff.cpp).                                *)
DistanceIsLeast ==
  Asked("texts") => LET s == question.s t == question.t IN
    Levenshtein(s, t) = Least({Len(s) + Len(t) - 2 * Cardinality(A) + Cardinality({p \in A : s[p[1]] # t[p[2]]}) :
                               A \in Alignments[Len(s), Len(t)]})
CommonIsLongest ==
  Asked("texts") => LET s == question.s t == question.t lcs == Range(Lcs(s, t))
                        common == {A \in Alignments[Len(s), Len(t)] : \A p \in A : s[p[1]] = t[p[2]]} IN
    lcs \in common /\ \A A \in common : Cardinality(A) <= Cardinality(lcs)

(* The loop that goes back to the last star finds a way to divide the      *)
(* subject whenever there is one (h2_pattern.cpp, as built for Windows).   *)
RECURSIVE Divides(_, _)
Divides(p, s) ==
  IF p = <<>> THEN s = <<>>
  ELSE IF p[1] = "*" THEN \E k \in 0..Len(s) : Divides(Tail(p), SubSeq(s, k + 1, Len(s)))
  ELSE s # <<>> /\ p[1] \in {"?", s[1]} /\ Divides(Tail(p), Tail(s))
WildcardFindsAWay ==
  Asked("wildcard") =>
    LET q == question capitals == [i \in DOMAIN q.s |-> IF q.s[i] = "a" THEN "A" ELSE q.s[i]] IN
    /\ Wildcard(q.p, q.s, 1, 1, 0, 0) = Divides(q.p, q.s)
    /\ TaggedAs(<< <<"b">>, capitals>>, q.p) = (Divides(q.p, q.s) \/ Divides(q.p, <<"b">>))

(* Sorting keeps every element and the order of equal ones: suites of the  *)
(* same name stay as they are in the code (h2_list.cpp).                   *)
SortIsStable ==
  Asked("list") => LET list == [i \in DOMAIN question.keys |-> [key |-> question.keys[i], place |-> i]]
                       sorted == ListSort(list) IN
    /\ Range(sorted) = Range(list) /\ Len(sorted) = Len(list)
    /\ \A i, j \in DOMAIN sorted : i < j => sorted[i].key < sorted[j].key \/ (sorted[i].key = sorted[j].key /\ sorted[i].place < sorted[j].place)

(* Digits and bytes are the same number, whether the digits are even or    *)
(* odd in number; and memories are equal over n bits when their numbers    *)
(* are without the bits behind (h2_misc.cpp, h2_matches_memcmp.cpp).       *)
NumberOf(n, digits) == FoldLeft(LAMBDA sum, d : n * sum + d, 0, digits)
HexIsItsNumber ==
  Asked("hex") => LET bytes == HexToBytes(question.digits) read == Leading(question.digits, 0..15) IN
    NumberOf(256, bytes) = NumberOf(16, read) /\ Len(bytes) = (Len(read) + 1) \div 2
BitsAreALeadingPart ==
  Asked("bits") => (BitsEqual(question.b1, question.b2, question.n) =
                    (NumberOf(256, question.b1) \div 2 ^ (16 - question.n) = NumberOf(256, question.b2) \div 2 ^ (16 - question.n)))

(* Each place in the code that leaks is reported once, with all the bytes  *)
(* it leaked and a count for each size (h2_leaky.cpp).                     *)
LeaksAccounted ==
  Asked("pieces") =>
    LET pieces == question.pieces leaks == Leaky(pieces)
        At1(bt) == {i \in DOMAIN pieces : pieces[i].bt = bt}
    IN \A bt \in 1..2 : At1(bt) # {} =>
         \E l \in DOMAIN leaks :
           /\ \A k \in DOMAIN leaks : leaks[k].bt = bt <=> k = l
           /\ LeakTotal(leaks[l]) = Sum([i \in At1(bt) |-> pieces[i].size])
           /\ IsInjective([k \in DOMAIN leaks[l].sizes |-> leaks[l].sizes[k].size])

---------------------------------------------------------------------------
(* Settings and the ways to write them: alone, or joined with the next.    *)
Setting(letter, number, words) == [letter |-> letter, number |-> number, words |-> words]
Settings == {Setting(l, -1, <<>>) : l \in {"c", "C", "m", "l", "s"}} \cup {Setting(l, n, <<>>) : l \in {"b", "r"}, n \in {-1, 0, 3}}
  \cup {Setting("l", -1, w) : w \in {<<"s">>, <<"s", "todo">>, <<"t">>, <<"z">>}} \cup {Setting("W", -1, <<"l">>)}
Letters(s, attached) == <<Letter(s.letter)>> \o (IF s.number >= 0 /\ attached THEN <<Number(s.number)>> ELSE <<>>)
Operands(s, attached) == [i \in DOMAIN s.words |-> Plain(s.words[i], <<>>)]
  \o (IF s.number >= 0 /\ ~attached THEN <<Plain("", <<Number(s.number)>>)>> ELSE <<>>)
CommandLine(settings, attached, joined) ==
  IF joined THEN <<Flags(Letters(settings[1], TRUE) \o Letters(settings[2], attached))>> \o Operands(settings[1], TRUE) \o Operands(settings[2], attached)
  ELSE FlattenSeq([i \in DOMAIN settings |-> <<Flags(Letters(settings[i], attached))>> \o Operands(settings[i], attached)])
Unclear(s) == \E w \in Range(s.words) : Cardinality(Candidates(w, Names(s.letter))) # 1
Meant(opt, s) ==
  CASE s.letter \in Numbers -> [opt EXCEPT !.numbers[s.letter] = IF s.number >= 0 THEN s.number ELSE DefaultNumber[s.letter]]
    [] s.letter \in Lists -> Listed(opt, s.letter, Range(s.words))
    [] OTHER -> Flag(opt, s.letter)

(* However the options are written - apart, joined in a word, a number at  *)
(* its letter or in the next word, names abbreviated - they set the same;  *)
(* a name that is none or could be two ends the process (h2_option.cpp).   *)
OptionsAsMeant ==
  Asked("options") =>
    LET parsed == Parse(CommandLine(question.settings, question.attached, question.joined), 0, <<>>, Fresh) IN
    IF \E i \in DOMAIN question.settings : Unclear(question.settings[i]) THEN parsed.exit
    ELSE ~parsed.exit /\ parsed.opt = FoldLeft(Meant, Fresh, question.settings)

Test(name, tags) == [filine |-> "f.cpp:1", name |-> name, tags |-> tags]
Patterns == {[w \in Where |-> IF w = v THEN {p} ELSE {}] : v \in Where, p \in {{"f.cpp:1"}, {"S"}, {"x"}, {"x", "t"}}} \cup {[w \in Where |-> {}]}
(* No case is run whose suite is left out of the list, and a case that its *)
(* own name excludes is not run whatever includes it (h2_filter.cpp).      *)
SuitesFollowCases ==
  Asked("filter") => LET s == Test("S", question.tags) IN
    \A c \in question.cases :
      /\ ~Filter(s, <<c>>, question.i, question.e) => ~SuiteFiltered(s, question.cases, question.i, question.e)
      /\ (\E p \in question.e["case"] : c.name \in p) => Filter(s, <<c>>, question.i, question.e)

---------------------------------------------------------------------------
(* What is seen of styled text: each character with the styles it has.     *)
Marks(ch) == [sign |-> "+", style |-> ch]
Seen(text) ==
  SelectSeq(FoldLeft(LAMBDA seen, ch :
                       IF ch \in Style THEN [seen EXCEPT !.on = Changed(@, Marks(ch))]
                       ELSE [seen EXCEPT !.chars = Append(@, [ch |-> ch, style |-> Range(seen.on) \ {""}])],
                     [on |-> Off, chars |-> <<>>], text).chars, LAMBDA c : c.ch # Blank)
Brushed(row) == <<"reset">> \o row \o <<"reset">>

(* However a line is broken, every row has the width, and row after row    *)
(* shows the characters of the line in the styles they had, when a style   *)
(* is reset before the next (h2_layout.cpp, h2_color.cpp).                 *)
RowsShowTheLine ==
  Asked("line") => LET rows == LineBreak(question.line, question.width) IN
    /\ \A i \in DOMAIN rows : WidthOf(rows[i]) = question.width
    /\ Seen(FlattenSeq([i \in DOMAIN rows |-> Brushed(rows[i])])) = Seen(question.line)

(* Two columns fit beside each other, neither is wider than its text, and  *)
(* only one that takes half of the room or more is cut.                    *)
ColumnsFit ==
  Asked("columns") => LET c == Columns(question.left, question.right, question.valid) IN
    /\ c.left + c.right <= question.valid /\ c.left <= question.left /\ c.right <= question.right
    /\ c.left < question.left => 2 * question.left >= question.valid - 1
    /\ c.right < question.right => 2 * question.right >= question.valid - 1
    /\ c.left + c.right < question.valid - 1 => [left |-> c.left, right |-> c.right] = [left |-> question.left, right |-> question.right]

(* A text cut short has exactly the width it may have, with its own head   *)
(* and tail around the dots (h2_line.cpp).                                 *)
ShortHasBothEnds ==
  Asked("short") => LET s == question.text short == Abbreviate(s, question.width, question.tail) IN
    IF Len(s) <= question.width THEN short = s
    ELSE /\ Len(short) = question.width
         /\ IsPrefix(SubSeq(short, 1, question.width - 3 - question.tail), s)
         /\ IsSuffix(SubSeq(short, question.width - question.tail + 1, question.width), s)

(* A style is on when it was switched on and neither it nor all were       *)
(* switched off since, while there are slots for all marks.                *)
ColorsAreThoseOn ==
  Asked("marks") => LET marks == question.marks IN
    Colored(marks) = {marks[i].style : i \in {j \in DOMAIN marks :
      /\ marks[j].sign = "+" /\ marks[j].style # "reset"
      /\ \A k \in j + 1..Len(marks) : marks[k].style # "reset" /\ ~(marks[k].sign = "-" /\ marks[k].style = marks[j].style)}}

(* Whatever was printed before, a text is seen in its own styles alone;    *)
(* when a text is in quotes they are grey and nothing else is; and lines   *)
(* beside each other are as many and as wide on both sides (h2_console.cpp,*)
(* h2_line.cpp).                                                           *)
StyleNames == ((DOMAIN Attributes) \cup Range(Colours \o Lights \o Grounds)) \ {"reset"}
PrintedAlone ==
  /\ Asked("prints") =>
       LET texts == question.texts
           printed == FoldLeft(LAMBDA p, t : Prints(p, t.styles, t.text), [on |-> Off, seen |-> <<>>], texts)
           InForce(told) == FoldLeft(LAMBDA styles, n : IF n = 0 THEN {} ELSE styles \cup {s \in StyleNames : StyleValue(s) = n}, {}, told)
       IN [i \in DOMAIN printed.seen |-> [ch |-> printed.seen[i].ch, styles |-> InForce(printed.seen[i].told)]]
            = FlattenSeq([k \in DOMAIN texts |-> [i \in DOMAIN texts[k].text |-> [ch |-> texts[k].text[i], styles |-> Range(texts[k].styles)]]])
  /\ Asked("quotes") =>
       LET line == question.line shown == GrayQuote(line)
           text == SelectSeq(shown, LAMBDA d : d.ch \notin Style) n == Len(text)
           quoted == n > 0 /\ text[1].ch \in {"\"", "'"} /\ text[n].ch = text[1].ch
       IN /\ [i \in DOMAIN shown |-> shown[i].ch] = line
          /\ \A i \in DOMAIN text : text[i].grey = (quoted /\ i \in {1, n})
          /\ \A i \in DOMAIN shown : shown[i].ch \in Style => ~shown[i].grey
  /\ Asked("sides") =>
       LET q == question
           n == Larger(Len(q.left), Len(q.right)) w == Larger(WidestOf(q.left), WidestOf(q.right))
           Levelled(lines) == [i \in 1..n |-> Padded(SameSize(lines, n)[i], w)]
       IN /\ \A i \in 1..n : WidthOf(Levelled(q.left)[i]) = w /\ WidthOf(Levelled(q.right)[i]) = w
          /\ \A lines \in {q.left, q.right} : \A i \in DOMAIN lines : IsPrefix(lines[i], Levelled(lines)[i])

(* Squashing keeps the words apart, leaves no two blanks together outside  *)
(* quotes and none at the ends, and done again changes nothing             *)
(* (h2_string.cpp).                                                        *)
Gaps(s) == {Len(Without(SubSeq(s, 1, i), Blank)) : i \in {j \in DOMAIN s : s[j] = Blank}} \ {0, Len(Without(s, Blank))}
SquashLosesBlanks ==
  Asked("blanks") => LET s == question.text t == Squash(s) Inside(i) == Len(SelectSeq(SubSeq(t, 1, i), LAMBDA ch : ch = "'")) % 2 = 1 IN
    /\ Squash(t) = t /\ Without(t, Blank) = Without(s, Blank) /\ Gaps(t) = Gaps(s)
    /\ \A i \in 1..Len(t) - 1 : t[i] = Blank /\ t[i + 1] = Blank => Inside(i)
    /\ t # <<>> => t[1] # Blank /\ Last(t) # Blank

---------------------------------------------------------------------------
(* Failures are grouped: one, and a group as siblings behind it or as its  *)
(* children.                                                               *)
Grouped(steps) ==
  FoldLeft(LAMBDA links, i : AppendTo(links, steps[i].kind, steps[i].to, i + 1), Alone(Len(steps) + 1), [i \in DOMAIN steps |-> i])

(* Every failure that was appended is written exactly once, after the one  *)
(* it belongs to and with the depth below it (h2_failure.cpp).             *)
EachFailureOnce ==
  Asked("failures") => LET steps == question.steps visits == Foreach(Grouped(steps), 1, 0, 0) IN
    /\ Len(visits) = Len(steps) + 1 /\ {visits[v].fail : v \in DOMAIN visits} = 1..Len(steps) + 1
    /\ \A i \in DOMAIN steps : \E v, w \in DOMAIN visits :
         /\ v < w /\ visits[v].fail = steps[i].to /\ visits[w].fail = i + 1
         /\ visits[w].ci >= visits[v].ci + (IF steps[i].kind = "child" THEN 1 ELSE 0)

(* A comparison is cut at its operator whatever templates and texts stand  *)
(* on its sides (h2_assert.cpp).                                           *)
Sides == {<<"a">>, <<"a", "<", "b", ">">>, <<"'", "<", "'">>, <<"'", ">", "'">>, <<"a", "<", "b", "<", "c", ">", ">">>, <<"'", "==", "'">>, <<"a", "<", "'", ">", "'", ">">>}
CutAtItsOperator ==
  Asked("comparison") => FindCompare(question.left \o <<question.op>> \o question.right, question.op) = Len(question.left) + 1

(* A listing adds up: its lines are numbered without a gap, those of a     *)
(* suite anew, and the counts at its end are those of its lines and of     *)
(* what was left out (h2_report_list.cpp).                                 *)
Heard(list, event) == IF event.type = "suite" THEN OnSuite(list, question.lists, event) ELSE OnCase(list, question.lists, event)
ListingAddsUp ==
  Asked("listing") =>
    LET events == question.events
        list == FoldLeft(Heard, Listed0, events)
        Of(type) == SelectSeq(list.lines, LAMBDA l : l.type = type)
        Lines(i, j) == Len(SelectSeq(SubSeq(events, i, j), LAMBDA e : e.type # "suite" /\ ~e.filtered /\ e.type \in question.lists))
        shown == SelectSeq([i \in DOMAIN events |-> i], LAMBDA i : Lines(i, i) = 1)
        tests == SelectSeq(list.lines, LAMBDA l : l.type # "suite")
        since(i) == {j \in 1..i : events[j].type = "suite"}
    IN /\ \A t \in {"suite", "case", "todo"} : list.shown[t] = Len(Of(t)) /\ list.all[t] = Cardinality({i \in DOMAIN events : events[i].type = t /\ ~events[i].absent})
       /\ \A t \in question.lists :
            Totals(list, question.lists)[t].filtered = Cardinality({i \in DOMAIN events : events[i].type = t /\ events[i].filtered /\ ~events[i].absent})
       /\ \A i \in DOMAIN Of("suite") : Of("suite")[i].number = i
       /\ Len(tests) = Len(shown)
       /\ \A i \in DOMAIN tests : tests[i].number = i /\ tests[i].nth = Lines(CHOOSE j \in since(shown[i]) : \A k \in since(shown[i]) : k <= j, shown[i])

(* Nothing that a test writes and no verdict is erased by the next bar -   *)
(* but the line of a todo is - and no test writes behind a bar             *)
(* (h2_report_console.cpp, h2_stdio.cpp).                                  *)
ScreenKeepsTexts ==
  Asked("screen") => /\ question.screen.erased \subseteq {"testing", "todo"}
                     /\ "testing" \in question.screen.line => question.screen.line = {"testing"}

---------------------------------------------------------------------------
(* Matchers accept and say what they mean, equality what is the same.      *)
MatchersAsMeant ==
  /\ VerdictIsMeaning /\ SaysWhatItAccepts /\ AssertsAreComparisons /\ ToleranceAsAsked /\ EqualIsSame /\ MemoryIsSaid

(* JSON documents are read, selected from, compared and shown as their     *)
(* grammar and their trees say.                                            *)
DocumentsAsMeant ==
  TokensAreText /\ AcceptsTheLanguage /\ MatchIsOrder /\ SelectorIsPath /\ EachShownOnce /\ TreeIsGrammars /\ NumbersCount /\ DocumentsShown

(* The algorithms on texts, bytes and lists, and on the command line, give *)
(* what their declarative definitions give.                                *)
TextsAsMeant ==
  /\ DistanceIsLeast /\ CommonIsLongest /\ WildcardFindsAWay /\ SortIsStable /\ HexIsItsNumber
  /\ BitsAreALeadingPart /\ LeaksAccounted /\ OptionsAsMeant /\ SuitesFollowCases /\ PartsAsMeant

(* What is shown loses, repeats and erases nothing of what it is to show.  *)
OutputAsMeant ==
  /\ RowsShowTheLine /\ ColumnsFit /\ ShortHasBothEnds /\ ColorsAreThoseOn /\ PrintedAlone /\ SquashLosesBlanks
  /\ EachFailureOnce /\ CutAtItsOperator /\ ListingAddsUp /\ ScreenKeepsTexts /\ FailureTold

---------------------------------------------------------------------------
Kinds == {"matcher", "median", "text", "tokens", "documents", "path", "members", "texts", "wildcard", "list", "hex", "bits",
          "pieces", "options", "filter", "expression", "numbers", "ones", "line", "columns", "short", "marks", "blanks", "failures",
          "comparison", "listing", "screen", "prints", "quotes", "sides"}
(* Two more are machines: the library's heap and the bytes of functions.  *)
algorithmVars == <<question, libcVars, codeVars>>
Init ==
  /\ \E kind \in Kinds \cup FunctionKinds \cup TextKinds \cup FailureKinds \cup JsonKinds \cup ExpectationKinds \cup {"heap", "bytes"} : About(kind)
  /\ LibcInit /\ CodeInit
  /\ ~About("bytes") => machine = [isa |-> "arm64", apple |-> FALSE]
MedianOfEven(m, a) ==
  m.op = "median" /\ LET n == Len(Kept(m, a, Configured(m, NoContext(0)))) IN n > 0 /\ n % 2 = 0
Questions ==
  \/ About("matcher") /\ \E m \in Logic(Atoms), a \in {0, 6} : Ask([kind |-> "matcher", m |-> m, a |-> a])
  \/ About("matcher") /\ \E m \in Logic({l \in Logic(Atoms) : l.kids[1] = Accepting({0})}), a \in {0, 6} : Ask([kind |-> "matcher", m |-> m, a |-> a])
  \/ About("matcher") /\ \E m \in Containers(Atoms) \cup UNION {Ranged(t) : t \in Turns(Over)} \cup Joins({o \in Over : o.kids[1].neg /\ o.kids[1].accepts = {0}}), a \in Subjects :
          /\ ~MedianOfEven(m, a)
          /\ m.op \in {"and", "or", "none"} => Len(a.elems) <= 2
          /\ Ask([kind |-> "matcher", m |-> m, a |-> a])
  \/ About("matcher") /\ \E m \in Insides, a \in Things : m.from = 0 /\ Ask([kind |-> "matcher", m |-> m, a |-> a])
  \/ About("matcher") /\ \E m \in TextMatchers, a \in TextValues : Ask([kind |-> "matcher", m |-> m, a |-> a])
  \/ About("median") /\ \E n \in {9, 15}, junk \in 0..24 : \E m \in Ranged(Matcher("median", <<Accepting({n})>>)) :
          LET a == Container(<<6, 12, 18>>, FALSE)   \* the document's example: 1, 2 and 3
          IN MedianOfEven(m, a) /\ Ask([kind |-> "median", m |-> m, a |-> a, junk |-> junk])
  \/ About("text") /\ \E s \in Texts({"{", ",", "'", "/", Escape, Space, "a"}, 5) : Ask([kind |-> "text", text |-> s])
  \/ About("tokens") /\ \E s \in Texts({"[", "]", "{", "}", ":", ",", "a"}, 5) : Ask([kind |-> "tokens", tokens |-> s])
  \/ About("documents") /\ \E e, a \in Documents, c \in BOOLEAN : Ask([kind |-> "documents", e |-> e, a |-> a, caseless |-> c])
  \/ About("path") /\ \E p \in Texts(Steps, 3) : Ask([kind |-> "path", path |-> p])
  \/ About("members") /\ \E e, a \in Keys, c \in BOOLEAN, l \in Likes : Ask([kind |-> "members", e |-> e, a |-> a, caseless |-> c, likes |-> l])
  \/ About("texts") /\ \E s, t \in Texts({"a", "b", "c"}, 3) : Ask([kind |-> "texts", s |-> s, t |-> t])
  \/ About("wildcard") /\ \E p \in Texts({"a", "b", "*", "?"}, 4), s \in Texts({"a", "b"}, 4) : Ask([kind |-> "wildcard", p |-> p, s |-> s])
  \/ About("list") /\ \E s \in Texts(1..3, 4) : Ask([kind |-> "list", keys |-> s])
  \/ About("hex") /\ \E d \in Texts({-1, 0, 1, 15}, 5) : Ask([kind |-> "hex", digits |-> d])
  \/ About("bits") /\ \E b1, b2 \in [1..2 -> {0, 1, 128, 129}], n \in 0..16 : Ask([kind |-> "bits", b1 |-> b1, b2 |-> b2, n |-> n])
  \/ About("pieces") /\ \E p \in Texts([bt : 1..2, size : 1..2], 4) : Ask([kind |-> "pieces", pieces |-> p])
  \/ About("options") /\ \E s \in Texts(Settings, 2), attached, joined \in BOOLEAN :
          /\ joined => /\ Len(s) = 2
                       /\ s[1].letter \in Lists => s[2].words = <<>>
                       /\ s[1].letter \in Lists \cup Numbers => s[2].number < 0 \/ attached   \* the next word is the first one's
          /\ Ask([kind |-> "options", settings |-> s, attached |-> attached, joined |-> joined])
  \/ About("filter") /\ \E i, e \in Patterns, tags \in SUBSET {"t"}, cs \in SUBSET {Test("x", {}), Test("y", {"t"})} :
          Ask([kind |-> "filter", i |-> i, e |-> e, tags |-> tags, cases |-> cs])
  \/ About("expression") /\ \E s \in Texts({"1", "+", "*", "^", "-", "!", "(", ")", "abs"}, 4) \cup [1..5 -> {"1", "+", "*", "^", "-", "(", ")"}] :
          Ask([kind |-> "expression", tokens |-> s])
  \/ About("expression") /\ \E s \in Texts({"1", "-", ",", ")", "pi", "("}, 5), f \in {"P", "pi"} :
          Ask([kind |-> "expression", tokens |-> <<f, "(">> \o s])
  \/ About("numbers") /\ \E n, m \in -1..5 : Ask([kind |-> "numbers", n |-> n, m |-> m])
  \/ About("ones") /\ \E s \in Texts({"1", "+", "-"}, 6) : Ask([kind |-> "ones", tokens |-> s])
  \/ About("line") /\ \E s \in Texts({"a", "w", "red", "bold"}, 5), w \in 2..3 :
          LET line == FoldLeft(LAMBDA l, ch : IF ch \in Style THEN l \o <<"reset", ch>> ELSE Append(l, ch), <<>>, s)
          IN Ask([kind |-> "line", line |-> line, width |-> w])
  \/ About("columns") /\ \E l, r \in 0..12, v \in 4..12 : Ask([kind |-> "columns", left |-> l, right |-> r, valid |-> v])
  \/ About("short") /\ \E n \in 0..12, w \in 4..10, t \in 0..3 :
          w > 3 + t /\ Ask([kind |-> "short", text |-> SubSeq(Alphabet, 1, n), width |-> w, tail |-> t])
  \/ About("marks") /\ \E m \in Texts([sign : {"+", "-"}, style : {"red", "bold", "reset"}], 5) : Ask([kind |-> "marks", marks |-> m])
  \/ About("prints") /\ \E t \in Texts([styles : {<<>>, <<"red">>, <<"bold">>, <<"red", "bold">>}, text : {<<"a">>, <<"a", "b">>}], 3) :
          Ask([kind |-> "prints", texts |-> t])
  \/ About("prints") /\ \E one, other \in StyleNames : one # other /\
          Ask([kind |-> "prints", texts |-> <<[styles |-> <<one, other>>, text |-> <<"a">>], [styles |-> <<other>>, text |-> <<"b">>]>>])
  \/ About("quotes") /\ \E l \in Texts({"a", "w", "\"", "'", "red"}, 5) : Ask([kind |-> "quotes", line |-> l])
  \/ About("sides") /\ \E l, r \in Texts({<<>>, <<"a">>, <<"red", "w", "a">>}, 3) : Ask([kind |-> "sides", left |-> l, right |-> r])
  \/ About("blanks") /\ \E s \in Texts({"a", Blank, "'"}, 7) : Ask([kind |-> "blanks", text |-> s])
  \/ About("failures") /\ \E s \in Texts([kind : {"sibling", "child"}, to : 1..4], 4) :
          (\A i \in DOMAIN s : s[i].to <= i) /\ Ask([kind |-> "failures", steps |-> s])
  \/ About("comparison") /\ \E l, r \in Sides, op \in {"<", ">", "=="} : Ask([kind |-> "comparison", left |-> l, right |-> r, op |-> op])
  \/ About("listing") /\ \E s \in Texts([type : {"suite"}, absent : BOOLEAN, filtered : BOOLEAN] \cup [type : {"case", "todo"}, absent : {FALSE}, filtered : BOOLEAN], 4),
                            lists \in SUBSET {"suite", "case", "todo"} :
          s # <<>> /\ s[1].type = "suite" /\ Ask([kind |-> "listing", events |-> s, lists |-> lists])
  \/ About("screen") /\ \E v \in 0..5, p \in BOOLEAN : Ask([kind |-> "screen", o |-> [verbose |-> v, progressing |-> p], screen |-> Screen, case |-> "none"])
  \/ Asked("screen") /\ \E ends \in BOOLEAN : Ask([question EXCEPT !.screen = Write(@, question.o, ends)])
  \/ Asked("screen") /\ question.case = "none" /\ \E verdict \in {"ignored", "todo", "passed", "failed", "warning"} :
          Ask([question EXCEPT !.screen = CaseStart(@, question.o, verdict), !.case = verdict])
  \/ Asked("screen") /\ question.case \notin {"none", "over"} /\ Ask([question EXCEPT !.screen = CaseEndup(@, question.o, question.case), !.case = "none"])
  \/ Asked("screen") /\ question.case = "none" /\ Ask([question EXCEPT !.screen = RunnerEndup(@, question.o), !.case = "over"])
Next ==
  \/ (Questions \/ AskFunctions \/ AskTexts \/ AskFailures \/ AskJson \/ AskExpectations) /\ UNCHANGED <<libcVars, codeVars>>
  \/ About("heap") /\ LibcNext /\ UNCHANGED <<question, codeVars>>
  \/ About("bytes") /\ CodeNext /\ UNCHANGED <<question, libcVars>>
Spec == Init /\ [][Next]_algorithmVars
===========================================================================
