------------------------------- MODULE MCMock -------------------------------
(* Two MOCKs of one function.  The first has one, two or three             *)
(* expectations of every kind, on arguments that are the same, overlap or  *)
(* differ, read greedily or not; the second has one.  Up to four calls.    *)
EXTENDS Mock

CONSTANTS m1, m2

A == {"a"}
AB == {"a", "b"}
B == {"b"}
C == {"c"}

Kinds(c, s) ==
  {Once(c, s), Twice(c, s), Any(c, s), Atleast(c, 2, s), Atmost(c, 1, s), Between(c, 1, 2, s)}
Ones == Kinds(Fresh, A) \cup {Any(Fresh, AB), Between(Fresh, 1, 2, AB)}
Seconds(c, s) == {Once(c, s), Any(c, s), Between(c, 1, 2, s)}
Twos == UNION {UNION {Seconds(Return(c, "r1"), s) : s \in {A, AB, B}} : c \in Ones}
Threes ==
  LET middle == {Once(Once(Fresh, A), C), Any(Once(Fresh, A), C), Atmost(Once(Fresh, A), 1, C)}
  IN  UNION {{Twice(Return(c, "r1"), B), Atleast(c, 2, B), Between(c, 1, 2, B)} : c \in middle}
Bare == {Braces(Fresh, "r2"), With(Fresh, A), Return(Fresh, "r1"), Times(Fresh, 0, A)}

Greedy == Bare \cup Ones \cup {Braces(c, "r2") : c \in Twos} \cup Threes
Chains == Greedy \cup {Greed(c, FALSE) : c \in Greedy}
Pair(c, d) == [m \in Mocker |-> IF m = m1 THEN c ELSE d]

MCText == {Pair(c, Return(Once(Fresh, A), "r2")) : c \in Chains}

SkipText == {Pair(Once(Any(Once(Fresh, A), B), A), Once(Fresh, A))}
===========================================================================
