------------------------------ MODULE Strings ------------------------------
(***************************************************************************)
(* Texts as the library handles them (utils/h2_string.cpp, h2_misc.cpp)    *)
(* and values as texts (utils/h2_stringify.hpp).  A text is a sequence of  *)
(* characters; where bytes matter, of their numbers.                       *)
(***************************************************************************)
EXTENDS Integers, SequencesExt

CONSTANT Many    \* elements of a container that are still shown

(* utf8len, disperse, width: the first byte of a character says how many. *)
Utf8Len(byte) ==
  CASE byte \in 240..247 -> 4 [] byte \in 224..239 -> 3 [] byte \in 192..223 -> 2 [] OTHER -> 1

RECURSIVE Disperse(_), Replaced(_, _, _), ReplacedAgain(_, _, _), StripLeft(_)
Disperse(bytes) ==
  IF bytes = <<>> THEN <<>>
  ELSE LET n == Utf8Len(bytes[1]) IN <<SubSeq(bytes, 1, n)>> \o Disperse(SubSeq(bytes, n + 1, Len(bytes)))
TextWidth(bytes, fat) == FoldLeft(LAMBDA w, ch : w + (IF Len(ch) = 1 THEN 1 ELSE fat), 0, Disperse(bytes))

(* find and rfind: the place, 0 for npos.                                  *)
Starts(s, part) == {i \in 1..Len(s) + 1 - Len(part) : SubSeq(s, i, i + Len(part) - 1) = part}
FindText(s, part) == IF Starts(s, part) = {} THEN 0 ELSE CHOOSE i \in Starts(s, part) : \A j \in Starts(s, part) : i <= j
FindLast(s, part) == IF Starts(s, part) = {} THEN 0 ELSE CHOOSE i \in Starts(s, part) : \A j \in Starts(s, part) : j <= i

StartsWith(s, prefix) == Len(s) >= Len(prefix) /\ FindText(s, prefix) = 1

(* Mutant of EndsWith: the first place counts, not the last. *)
EndsWithFirst(s, suffix) == Len(s) >= Len(suffix) /\ FindText(s, suffix) = Len(s) - Len(suffix) + 1

EndsWith(s, suffix) == Len(s) >= Len(suffix) /\ FindLast(s, suffix) = Len(s) - Len(suffix) + 1

(* Mutant of Replaced: what was put in is looked through again. *)
ReplacedAgain(s, from, to) ==
  LET i == FindText(s, from) IN
  IF i = 0 THEN s ELSE SubSeq(s, 1, i - 1) \o ReplacedAgain(to \o SubSeq(s, i + Len(from), Len(s)), from, to)

Replaced(s, from, to) ==
  LET i == FindText(s, from) IN
  IF i = 0 THEN s ELSE SubSeq(s, 1, i - 1) \o to \o Replaced(SubSeq(s, i + Len(from), Len(s)), from, to)

(* unescape: one kind of escape after the other, the backslash itself last *)
Escapable == <<"b", "f", "n", "r", "t", "\"">>
Control(letter) ==
  IF letter = "\"" THEN letter ELSE [b |-> "backspace", f |-> "formfeed", n |-> "newline", r |-> "return", t |-> "tab"][letter]

Unescape(s) ==
  Replaced(FoldLeft(LAMBDA t, c : Replaced(t, <<"\\", c>>, <<Control(c)>>), s, Escapable), <<"\\", "\\">>, <<"\\">>)

(* escape: what has no picture of its own gets one; without pictures two   *)
(* characters, and a zero is lost.                                         *)
Pictures == [n |-> <<"picture n">>, r |-> <<"picture r">>, t |-> <<"picture t">>, zero |-> <<"picture 0">>]
Picture(ch, utf8) ==
  CASE ch = Control("n") -> IF utf8 THEN Pictures.n ELSE <<"\\", "n">>
    [] ch = Control("r") -> IF utf8 THEN Pictures.r ELSE <<"\\", "r">>
    [] ch = Control("t") -> IF utf8 THEN Pictures.t ELSE <<"\\", "t">>
    [] ch = "zero" -> IF utf8 THEN Pictures.zero ELSE <<>>
    [] OTHER -> <<ch>>
Escape0(s, utf8) == FlattenSeq([i \in DOMAIN s |-> Picture(s[i], utf8)])

(* unenclose: of one character that is both quotes, size() - 2 is no size. *)
Enclosed(s, left, right) == s # <<>> /\ s[1] = left /\ Last(s) = right
TooLong == <<"length_error">>
Unenclose(s, left, right) ==
  IF ~Enclosed(s, left, right) THEN s ELSE IF Len(s) < 2 THEN TooLong ELSE SubSeq(s, 2, Len(s) - 1)

Centre(s, width, blank) ==
  LET left == (width - Len(s)) \div 2 IN
  IF width <= Len(s) THEN s ELSE [i \in 1..left |-> blank] \o s \o [i \in 1..width - left - Len(s) |-> blank]

---------------------------------------------------------------------------
(* h2_test::h2_test: what a description says between brackets, outside of  *)
(* quotes, are tags, the rest is the name.                                 *)
Unquoted0(s, from) == {i \in from..Len(s) : Len(SelectSeq(SubSeq(s, from, i), LAMBDA ch : ch = "\"")) % 2 = 0}
First0(s, from, ch) == LET at == {i \in Unquoted0(s, from) : s[i] = ch} IN IF at = {} THEN 0 ELSE CHOOSE i \in at : \A j \in at : i <= j
RECURSIVE Tokens(_)
Tokens(s) ==
  IF s = <<>> THEN <<>> ELSE IF s[1] \in {" ", ","} THEN Tokens(Tail(s))
  ELSE LET n == SelectInSeq(s, LAMBDA ch : ch \in {" ", ","}) IN
       IF n = 0 THEN <<s>> ELSE <<SubSeq(s, 1, n - 1)>> \o Tokens(SubSeq(s, n, Len(s)))

(* Mutant of SplitDescribe: a bracket in quotes is one. *)
SplitDescribeQuoted(s) ==
  LET left == SelectInSeq(s, LAMBDA ch : ch = "[") right == SelectInSeq(s, LAMBDA ch : ch = "]") IN
  IF left = 0 \/ right <= left THEN [name |-> s, tags |-> <<>>]
  ELSE [name |-> SubSeq(s, 1, left - 1) \o SubSeq(s, right + 1, Len(s)), tags |-> SubSeq(s, left + 1, right - 1)]

SplitDescribe(s) ==
  LET left == First0(s, 1, "[") right == First0(s, left, "]") IN
  IF left = 0 THEN [name |-> s, tags |-> <<>>]
  ELSE IF right = 0 THEN [name |-> s, tags |-> <<>>]
  ELSE [name |-> SubSeq(s, 1, left - 1) \o SubSeq(s, right + 1, Len(s)), tags |-> SubSeq(s, left + 1, right - 1)]
Described(s) == [name |-> StripLeft(SplitDescribe(s).name), tags |-> Tokens(SplitDescribe(s).tags)]

(* h2_misc.cpp: h2_basefile, strip_left, get_keyvalue ("" without a = ).   *)
Basefile(path) == SubSeq(path, SelectLastInSeq(path, LAMBDA ch : ch \in {"/", "\\"}) + 1, Len(path))
StripLeft(s) == IF s # <<>> /\ s[1] = " " THEN StripLeft(Tail(s)) ELSE s

(* Mutant of KeyValue: blanks before the = are not skipped. *)
KeyValueTight(attributes, key) ==
  LET at == FindText(attributes, key)
      behind == SubSeq(attributes, at + Len(key), Len(attributes))
  IN IF at = 0 THEN <<"nullptr">> ELSE IF behind = <<>> \/ behind[1] # "=" THEN <<>> ELSE StripLeft(Tail(behind))

KeyValue(attributes, key) ==
  LET at == FindText(attributes, key)
      behind == StripLeft(SubSeq(attributes, at + Len(key), Len(attributes)))
  IN IF at = 0 THEN <<"nullptr">> ELSE IF behind = <<>> \/ behind[1] # "=" THEN <<>> ELSE StripLeft(Tail(behind))

---------------------------------------------------------------------------
(* Values as texts: a number has digits before and after the point, a wide *)
(* character may be beyond a byte, and of a container a value its elements *)
Quoted(s, quote, represent) == IF represent THEN <<quote>> \o s \o <<quote>> ELSE s
TrimRight(s, ch) == SubSeq(s, 1, SelectLastInSeq(s, LAMBDA c : c # ch))

(* Mutant of Arithmetic: the zeros of a whole number go as well. *)
ArithmeticTrimmed(str) == TrimRight(TrimRight(str, "0"), ".")

Arithmetic(str) == IF "." \in Range(str) THEN TrimRight(TrimRight(str, "0"), ".") ELSE str

Narrow(ch) == IF ch = "wide" THEN "?" ELSE ch

RECURSIVE Stringify(_, _)
Listing0(vs, represent) == FoldLeftDomain(LAMBDA s, i : s \o (IF i = 1 THEN <<>> ELSE <<",", " ">>) \o Stringify(vs[i], represent), <<>>, vs)
Stringify(v, represent) ==
  CASE v.type = "number" -> Arithmetic(v.of)
    [] v.type = "text" -> Quoted(v.of, "\"", represent)
    [] v.type = "char" -> Quoted(v.of, "'", represent)
    [] v.type = "wstring" -> Quoted([i \in DOMAIN v.of |-> Narrow(v.of[i])], "\"", represent)
    [] v.type = "word" -> v.of    \* true, false, nullptr; (null) for a text that is nullptr
    [] v.type = "tuple" -> <<"(">> \o Listing0(v.of, represent) \o <<")">>
    [] v.type = "container" -> <<"[">> \o (IF Len(v.of) > Many THEN <<".", ".", ".">> ELSE Listing0(v.of, represent)) \o <<"]">>
=============================================================================
