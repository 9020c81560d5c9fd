------------------------------- MODULE Json -------------------------------
(***************************************************************************)
(* JSON documents (src/source/json): the tokens of a text, the tree they   *)
(* parse to, its matching, the path of a selector, and the pairs in which  *)
(* two trees are shown side by side.  A text is a sequence of characters   *)
(* of the classes below; a document a sequence of tokens.                  *)
(***************************************************************************)
EXTENDS Integers, SequencesExt

CONSTANT Lower    \* each name in lower case

Structural == {"{", ":", "}", "[", ",", "]"}
Quotes == {"'", "\"", "/"}      \* what a string or a pattern begins and ends with
Space == " "
Escape == "\\"

RECURSIVE StripRight(_)
StripRight(s) == IF s # <<>> /\ Last(s) = Space THEN StripRight(Front(s)) ELSE s

Emitted(l, tokens) == [l EXCEPT !.lexical = @ \o tokens, !.pending = <<>>, !.state = "idle"]

(* Mutant of Lexis: what precedes a bracket is dropped. *)
LexisDrops(l, ch) ==
  LET more == Append(l.pending, ch) IN
  CASE l.state = "idle" -> IF ch = Space THEN l ELSE IF ch \in Structural THEN Emitted(l, << <<ch>> >>)
                           ELSE [l EXCEPT !.pending = more, !.state = IF ch \in Quotes THEN ch ELSE "normal"]
    [] l.state = ch \/ (l.state = "normal" /\ ch \in Structural) -> Emitted(l, <<IF l.state = ch THEN more ELSE <<ch>> >>)
    [] OTHER -> [l EXCEPT !.pending = more]

(* One character: h2_json_lexical::parse.  A quote inside another token    *)
(* opens nothing, a pattern knows no escape.                               *)
Lexis(l, ch) ==
  LET more == Append(l.pending, ch)
      escapes == ch = Escape /\ l.state # "/"
      stays == IF l.state # "idle" THEN l.state ELSE IF ch \in Quotes THEN ch ELSE "normal"
  IN
  CASE l.state = "escape" -> [l EXCEPT !.pending = more, !.state = l.stash]
    [] l.state = "idle" /\ ch = Space -> l
    [] l.state = "idle" /\ ch \in Structural -> Emitted(l, << <<ch>> >>)
    [] l.state = "normal" /\ ch \in Structural -> Emitted(l, <<StripRight(l.pending), <<ch>> >>)
    [] l.state = ch -> Emitted(l, <<more>>)
    [] OTHER -> [l EXCEPT !.pending = more, !.stash = stays, !.state = IF escapes THEN "escape" ELSE stays]

Lexical(text) ==
  LET l == FoldLeft(Lexis, [state |-> "idle", stash |-> "idle", pending |-> <<>>, lexical |-> <<>>], text)
  IN IF l.pending = <<>> THEN l.lexical ELSE Append(l.lexical, StripRight(l.pending))

---------------------------------------------------------------------------
(* A parsed value ends before token `at`. *)
Parsed(at, type, kids) == [ok |-> TRUE, at |-> at, type |-> type, kids |-> kids]
Illformed == [ok |-> FALSE]
Desired(lexical, i, token) == i <= Len(lexical) /\ lexical[i] = token
Closing(type) == IF type = "array" THEN "]" ELSE "}"

(* h2_json_syntax: any token is a key, and any but the ones named here a   *)
(* string or a number.                                                     *)
RECURSIVE ParseValue(_, _), ParseItems(_, _, _, _)
ParseValue(lexical, i) ==
  CASE i > Len(lexical) -> Parsed(i, "absent", <<>>)
    [] Desired(lexical, i, "[") -> ParseItems(lexical, i + 1, "array", <<>>)
    [] Desired(lexical, i, "{") -> ParseItems(lexical, i + 1, "object", <<>>)
    [] Desired(lexical, i, ":") \/ Desired(lexical, i, ",") -> Illformed
    [] OTHER -> Parsed(i + 1, "string", <<lexical[i]>>)

ParseItems(lexical, i, type, kids) ==
  LET first == IF type = "array" THEN i ELSE i + 2
      item == ParseValue(lexical, first)
  IN
  IF Desired(lexical, i, Closing(type)) THEN Parsed(i + 1, type, kids)
  ELSE IF i > Len(lexical) \/ (type = "object" /\ ~Desired(lexical, i + 1, ":")) \/ ~item.ok THEN Illformed
  ELSE IF Desired(lexical, item.at, ",") THEN ParseItems(lexical, item.at + 1, type, Append(kids, item))
  ELSE IF Desired(lexical, item.at, Closing(type)) THEN Parsed(item.at + 1, type, Append(kids, item)) ELSE Illformed

(* Mutant of Wellformed: what follows the value is not looked at. *)
WellformedPrefix(lexical) == ParseValue(lexical, 1).ok

Wellformed(lexical) == LET root == ParseValue(lexical, 1) IN root.ok /\ Len(lexical) < root.at

---------------------------------------------------------------------------
(* A node has a type, a key, a value and children; a pattern's value is    *)
(* the set of strings it accepts.                                          *)
Equal(a, b, caseless) == a = b \/ (caseless /\ Lower[a] = Lower[b])
Absent == [type |-> "absent", key |-> "", value |-> "", kids |-> <<>>]

GetKey(node, key, caseless) ==
  LET found == SelectSeq(node.kids, LAMBDA k : Equal(k.key, key, caseless))
  IN IF found = <<>> THEN Absent ELSE found[1]
GetIndex(node, index) ==
  LET i == IF index < 0 THEN Len(node.kids) + index ELSE index
  IN IF i \in 0..Len(node.kids) - 1 THEN node.kids[i + 1] ELSE Absent

(* Mutant of Partner: the actual's children are taken in their order. *)
PartnerByIndex(e, a, i, caseless) == GetIndex(a, i - 1)

(* Which child of the actual the i-th one of the expected is held against. *)
Partner(e, a, i, caseless) ==
  IF e.type = "object" THEN GetKey(a, e.kids[i].key, caseless) ELSE GetIndex(a, i - 1)

(* h2_json_match::match: an object may have more members than expected. *)
RECURSIVE Match(_, _, _)
Match(e, a, caseless) ==
  CASE e.type = "string" -> a.type = "string" /\ Equal(e.value, a.value, caseless)
    [] e.type = "pattern" -> a.type = "string" /\ \E word \in e.value : Equal(word, a.value, caseless)
    [] e.type \in {"null", "boolean", "number"} -> a.type = e.type /\ a.value = e.value
    [] e.type \in {"array", "object"} ->
         /\ a.type = e.type
         /\ IF e.type = "array" THEN Len(e.kids) = Len(a.kids) ELSE Len(e.kids) <= Len(a.kids)
         /\ \A i \in DOMAIN e.kids : Match(e.kids[i], Partner(e, a, i, caseless), caseless)
    [] OTHER -> FALSE

---------------------------------------------------------------------------
(* A selector's parts, from its characters (h2_json_select). *)
Numerals == {"-", "0", "1", "2", "3", "4", "5", "6", "7", "8", "9"}
Part(s, only_key) ==
  LET t == Reverse(StripRight(Reverse(StripRight(s))))
      quoted == ~only_key /\ t # <<>> /\ t[1] \in {"'", "\""} /\ Last(t) = t[1]
      name == IF quoted THEN SubSeq(t, 2, Len(t) - 1) ELSE t
  IN IF name = <<>> THEN <<>>
     ELSE <<[by |-> IF ~only_key /\ Range(t) \subseteq Numerals THEN "index" ELSE "key", name |-> name]>>

(* Mutant of Selected: a key is not ended by a bracket. *)
SelectedDots(s, ch) ==
  CASE (s.state = "bracket" /\ ch # "]") \/ (s.state = "dot" /\ ch \notin {".", "end"}) -> [s EXCEPT !.name = Append(@, ch)]
    [] s.state = "bracket" -> [state |-> "idle", name |-> <<>>, values |-> s.values \o Part(s.name, FALSE)]
    [] OTHER -> [state |-> IF ch = "[" THEN "bracket" ELSE IF ch = "." THEN "dot" ELSE "idle", name |-> <<>>,
                 values |-> s.values \o Part(s.name, TRUE)]

Selected(s, ch) ==
  CASE (s.state = "bracket" /\ ch # "]") \/ (s.state = "dot" /\ ch \notin {".", "[", "end"}) ->
         [s EXCEPT !.name = Append(@, ch)]
    [] s.state = "bracket" -> [state |-> "idle", name |-> <<>>, values |-> s.values \o Part(s.name, FALSE)]
    [] OTHER -> [state |-> IF ch = "[" THEN "bracket" ELSE IF ch = "." THEN "dot" ELSE "idle", name |-> <<>>,
                 values |-> s.values \o Part(s.name, TRUE)]

Select(selector) ==
  FoldLeft(Selected, [state |-> "idle", name |-> <<>>, values |-> <<>>], Append(selector, "end")).values

---------------------------------------------------------------------------
(* The pairs an object's children are shown in: first those of equal keys, *)
(* then similar ones, then the rest by position; sorted by the expected's  *)
(* order.  likes gives the score of two children above the threshold.      *)
None == 0
LastIndex == 2147483647
Pairing(e, a) == [e |-> e, a |-> a, duals |-> <<>>]

(* Mutant of Moved: the actual's child is left where it was. *)
MovedOne(p, i, j) == [p EXCEPT !.e = SelectSeq(@, LAMBDA k : k # i), !.duals = Append(@, [e |-> i, a |-> j])]

Moved(p, i, j) == [e |-> SelectSeq(p.e, LAMBDA k : k # i), a |-> SelectSeq(p.a, LAMBDA k : k # j),
                   duals |-> Append(p.duals, [e |-> i, a |-> j])]

SameKey(p, i, e, a, caseless) ==
  LET exact == SelectSeq(p.a, LAMBDA j : a[j] = e[i])
      alike == SelectSeq(p.a, LAMBDA j : Equal(a[j], e[i], caseless))
  IN IF exact # <<>> THEN <<exact[1]>> ELSE IF alike # <<>> THEN <<alike[1]>> ELSE <<>>
Similar(p, i, likes) ==
  LET best == {k \in DOMAIN p.a : /\ likes[<<i, p.a[k]>>] > 0
                                  /\ \A l \in DOMAIN p.a : likes[<<i, p.a[l]>>] <= likes[<<i, p.a[k]>>]}
  IN IF best = {} THEN <<>> ELSE <<p.a[CHOOSE k \in best : \A l \in best : k <= l]>>

Duals(e, a, caseless, likes) ==
  LET Pair(p, i, js) == IF js = <<>> THEN p ELSE Moved(p, i, js[1])
      start == Pairing([i \in DOMAIN e |-> i], [j \in DOMAIN a |-> j])
      byKey == FoldLeft(LAMBDA p, i : Pair(p, i, SameKey(p, i, e, a, caseless)), start, start.e)
      bySimilarity == FoldLeft(LAMBDA p, i : Pair(p, i, Similar(p, i, likes)), byKey, byKey.e)
      At(s, k) == IF k <= Len(s) THEN s[k] ELSE None
      rest == [k \in 1..(IF Len(bySimilarity.e) > Len(bySimilarity.a) THEN Len(bySimilarity.e)
                         ELSE Len(bySimilarity.a)) |-> [e |-> At(bySimilarity.e, k), a |-> At(bySimilarity.a, k)]]
      index(d) == IF d.e = None THEN LastIndex ELSE d.e
  IN SortSeq(bySimilarity.duals \o rest, LAMBDA c, d : index(c) < index(d))

---------------------------------------------------------------------------
(***************************************************************************)
(* Documents written as lines (src/source/json/h2_node.cpp, h2_json.cpp)   *)
(* and two documents written beside each other (h2_dual.cpp).  A line is a *)
(* sequence of words; a word is a text that has a colour or none.          *)
(***************************************************************************)
CONSTANT FoldWidth    \* characters below which children share their parent's line

FoldSame == 2
FoldSingle == 3
Word(text) == [text |-> text, colored |-> FALSE]
Styled(text, plain) == [text |-> text, colored |-> ~plain]
IsBlank(word) == Range(word.text) \subseteq {Space}
Indent(n) == IF n = 0 THEN <<>> ELSE <<Word([i \in 1..n |-> Space])>>
LineWidth(line) == FoldLeft(LAMBDA n, word : n + Len(word.text), 0, line)
Padding(line, n) == line \o Indent(n)

(* h2_lines: blank words do not count, and go when lines are folded.       *)
Folds(lines) == SelectSeq(FlattenSeq(lines), LAMBDA word : ~IsBlank(word))
Foldable(lines) == LineWidth(Folds(lines)) < FoldWidth
Samesized(lines, n) == lines \o [i \in 1..n - Len(lines) |-> <<>>]

---------------------------------------------------------------------------
(* format_value and the key, in quotes when there are any.                 *)
IsBranch(node) == node.type \in {"array", "object"}
Opening(node) == IF node.type = "array" THEN <<"[">> ELSE <<"{">>
FormatValue(node, quote) ==
  CASE node.type \in {"null", "boolean", "number"} -> <<node.value>>
    [] node.type = "string" -> quote \o <<node.value>> \o quote
    [] OTHER -> <<>>
KeyWord(node, quote) == quote \o <<node.key>> \o quote
HasKey(node) == node.key # ""

RECURSIVE Format(_, _, _, _, _)

(* Mutant of Behind: the last of the children has a comma too. *)
BehindAll(next, depth) == IF depth > 0 THEN <<Word(<<",", Space>>)>> ELSE <<>>

(* What follows a node that has as many next to it.                        *)
Behind(next, depth) == IF next > 0 THEN <<Word(<<",", Space>>)>> ELSE <<>>

(* h2_json_node::format *)
Enclosing(open, kids, close, fold, depth) ==
  IF fold > 0 /\ Foldable(kids) THEN <<open \o Folds(kids) \o close>> ELSE <<open>> \o kids \o <<Indent(2 * depth) \o close>>
Starting(node, quote, depth) ==
  Indent(2 * depth) \o (IF HasKey(node) THEN <<Word(KeyWord(node, quote) \o <<":", Space>>)>> ELSE <<>>)
Format(node, fold, quote, depth, next) ==
  LET Of(start, behind) ==
        IF ~IsBranch(node) THEN <<Append(start, Word(FormatValue(node, quote))) \o behind>>
        ELSE Enclosing(Append(start, Word(Opening(node))),
                       FlattenSeq([i \in DOMAIN node.kids |-> Format(node.kids[i], fold, quote, depth + 1, Len(node.kids) - i)]),
                       <<Word(<<Closing(node.type)>>)>> \o behind, fold, depth)
  IN Of(Starting(node, quote, depth), Behind(next, depth))

(* h2_json::dump: for source code between quotes, each line continued.     *)
Between(lines, i) ==
  (IF i = 1 THEN <<Word(<<"\"">>)>> ELSE <<>>) \o lines[i] \o (IF i = Len(lines) THEN <<Word(<<"\"">>)>> ELSE <<>>)
WidestLine(lines) == FoldLeft(LAMBDA w, line : IF LineWidth(line) > w THEN LineWidth(line) ELSE w, 0, lines)
Continued(lines, width) ==
  [i \in DOMAIN lines |-> Padding(lines[i], width - LineWidth(lines[i]) + 3) \o (IF i < Len(lines) THEN <<Word(<<Escape>>)>> ELSE <<>>)]
Evenly(lines) == Continued(lines, WidestLine(lines))
Sourced(lines, quote) == IF Range(quote) \subseteq {Space} THEN lines ELSE Evenly([i \in DOMAIN lines |-> Between(lines, i)])
Dump(node, fold, quote) == Sourced(Format(node, fold, quote, 0, 0), quote)

---------------------------------------------------------------------------
(* The lines of one side of a pair: on one line, or open.                  *)
Side(node, words, lines, folded, depth, last) ==
  LET comma == IF node.type # "absent" /\ ~last THEN <<Word(<<",", Space>>)>> ELSE <<>>
      bracket(text) == IF IsBranch(node) THEN <<Word(text)>> ELSE <<>>
      open == Indent(2 * depth) \o words \o bracket(Opening(node))
      close == bracket(<<Closing(node.type)>>) \o comma
  IN IF folded THEN <<open \o lines \o close>>
     ELSE IF IsBranch(node) THEN <<open>> \o lines \o <<Indent(2 * depth) \o close>>
     ELSE <<open \o close>>

(* The key and the value, coloured where they differ from the other side.  *)
Words(node, keyEqual, match) ==
  IF node.type = "absent" THEN <<>>
  ELSE (IF HasKey(node) THEN <<Styled(KeyWord(node, <<"\"">>), keyEqual), Word(<<":", Space>>)>> ELSE <<>>)
         \o (IF IsBranch(node) THEN <<>> ELSE <<Styled(FormatValue(node, <<"\"">>), match)>>)
Dots == <<Word(<<Space, "...", Space>>)>>
OrDots(lines) == IF Foldable(lines) THEN Folds(lines) ELSE Dots

(* h2_similarity::estimate of keys and values of one character, or none;   *)
(* a score of 1 is a number that two levels of children divide evenly.     *)
Score1 == 28800
Estimate(s, t, caseless) == IF Equal(s, t, caseless) THEN Score1 ELSE IF "" \in {s, t} THEN -Score1 ELSE 0

(* array_similarity, object_similarity: the score so far counts again for  *)
(* each child, it is no average.                                           *)
ScoreOf(scores, sameSize) ==
  (IF sameSize THEN (3 * Score1) \div 10 ELSE 0)
    + (7 * FoldLeftDomain(LAMBDA sub, i : sub + (sub * (i - 1) + scores[i]) \div i, 0, scores)) \div 10

RECURSIVE Similarity(_, _, _), SimilarityKeyless(_, _, _)
SimilarityOf(e, a, caseless, Of(_, _, _)) ==
  LET partner(i) == IF e.type = "array" THEN GetIndex(a, i - 1) ELSE GetKey(a, e.kids[i].key, FALSE)
  IN IF e.type # a.type THEN 0
     ELSE IF IsBranch(e) THEN ScoreOf([i \in DOMAIN e.kids |-> Of(e.kids[i], partner(i), caseless)], Len(e.kids) = Len(a.kids))
     ELSE Estimate(e.value, a.value, caseless)

(* Mutant of Similarity: the keys are not compared. *)
SimilarityKeyless(e, a, caseless) == IF "absent" \in {e.type, a.type} THEN 0 ELSE SimilarityOf(e, a, caseless, SimilarityKeyless)

Similarity(e, a, caseless) ==
  IF "absent" \in {e.type, a.type} THEN 0
  ELSE IF e.key = "" /\ a.key = "" THEN SimilarityOf(e, a, caseless, Similarity)
  ELSE (SimilarityOf(e, a, caseless, Similarity) + Estimate(e.key, a.key, caseless)) \div 2
Alike(e, a, caseless) == 5 * Similarity(e, a, caseless) > Score1

(* The children in pairs.                                                  *)
Pairs(e, a, caseless) ==
  LET Keys0(node) == [i \in DOMAIN node.kids |-> node.kids[i].key]
      longer == IF Len(e.kids) > Len(a.kids) THEN e.kids ELSE a.kids
      At(node, i) == IF i \in DOMAIN node.kids THEN i ELSE None
  IN IF "object" \in {e.type, a.type}
     THEN Duals(Keys0(e), Keys0(a), caseless, 
                [p \in (DOMAIN e.kids) \X (DOMAIN a.kids) |->
                   IF Alike(e.kids[p[1]], a.kids[p[2]], caseless) THEN Similarity(e.kids[p[1]], a.kids[p[2]], caseless) ELSE 0])
     ELSE [i \in DOMAIN longer |-> [e |-> At(e, i), a |-> At(a, i)]]
Child(node, i) == IF i = None THEN Absent ELSE node.kids[i]

(* A pair of members that nothing but their place has brought together.    *)
Single(e, a, pair, caseless) ==
  /\ "object" \in {e.type, a.type}
  /\ \/ None \in {pair.e, pair.a}
     \/ LET ek == e.kids[pair.e] ak == a.kids[pair.a] IN ~Equal(ek.key, ak.key, caseless) /\ ~Alike(ek, ak, caseless)

(* Mutant of LastOf: the last pair, whether the side has a part in it. *)
LastOfAll(pairs, k, side) == k = Len(pairs)

(* __mark_last *)
LastOf(pairs, k, side) == \A j \in k + 1..Len(pairs) : pairs[j][side] = None

(* The children of both sides from top to bottom, short when the option    *)
(* asks for it, on one line when they are or both fit, and then both sides *)
(* as long as the longer one.                                              *)
LinesOn(kids, side) == FlattenSeq([k \in DOMAIN kids |-> kids[k][side]])
Samelong(els, als) ==
  LET n == IF Len(els) > Len(als) THEN Len(els) ELSE Len(als) IN [e |-> Samesized(els, n), a |-> Samesized(als, n)]
SideAs(node, words, lines, short, folded, depth, last) ==
  Side(node, words, IF short THEN OrDots(lines) ELSE IF folded THEN Folds(lines) ELSE lines, folded, depth, last)
Short(o, single, same) == (o.fold >= FoldSame /\ same) \/ (o.fold >= FoldSingle /\ single)
Folded(o, short, kids) == short \/ (o.fold > 0 /\ Foldable(LinesOn(kids, "e")) /\ Foldable(LinesOn(kids, "a")))
Besides(e, a, depth, eLast, aLast, keyEqual, match, kids, short, folded) ==
  Samelong(SideAs(e, Words(e, keyEqual, match), LinesOn(kids, "e"), short, folded, depth, eLast),
           SideAs(a, Words(a, keyEqual, match), LinesOn(kids, "a"), short, folded, depth, aLast))

(* h2_json_dual::align; o has the options caseless and fold.           *)
RECURSIVE Align(_, _, _, _, _, _, _)
AlignKids(e, a, o, depth, pairs) ==
  [k \in DOMAIN pairs |->
     Align(Child(e, pairs[k].e), Child(a, pairs[k].a), o, depth + 1, Single(e, a, pairs[k], o.caseless),
           LastOf(pairs, k, "e"), LastOf(pairs, k, "a"))]
Align(e, a, o, depth, single, eLast, aLast) ==
  LET Of(keyEqual, match, short, kids) == Besides(e, a, depth, eLast, aLast, keyEqual, match, kids, short, Folded(o, short, kids))
      With(keyEqual, match, kids) == Of(keyEqual, match, Short(o, single, keyEqual /\ match), kids)
  IN With(Equal(e.key, a.key, o.caseless), Match(e, a, o.caseless), AlignKids(e, a, o, depth, Pairs(e, a, o.caseless)))
Diff(e, a, o) == Align(e, a, o, 0, FALSE, TRUE, TRUE)
===========================================================================
