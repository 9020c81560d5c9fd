----------------------------- MODULE Expression -----------------------------
(***************************************************************************)
(* The arithmetic a number in a JSON document may be written as            *)
(* (src/source/json/h2_tinyexpr.cpp): a recursive descent over tokens,     *)
(* which is to give the tree the usual rules give.                         *)
(***************************************************************************)
EXTENDS Integers, SequencesExt, TLC

CONSTANT LongRange    \* as many numbers as unsigned long has

(* Each function with its number of parameters. *)
Parameters ==
  [f \in {"pi", "e", "nan", "inf"} |-> 0]
    @@ [f \in {"negate", "factorial", "abs", "sqrt", "ln", "log", "log10", "log2", "floor", "ceil", "exp", "cos", "acos", "cosh",
               "sin", "asin", "sinh", "tan", "atan", "tanh"} |-> 1]
    @@ [f \in {"comma", "C", "P", "A", "fmod", "pow", "atan2"} |-> 2]

Tree(op, kids) == [op |-> op, kids |-> kids]
Nan == Tree("nan", <<>>)

(* How binary operators bind, the loosest first. *)
Levels == << {","}, {"+", "-"}, {"*", "/", "%"}, {"^"} >>
Tightest == 5
Arguments == 2     \* an argument of a function ends at a comma

(* A parsed part and the place of the next token, 0 after an error: the    *)
(* type of the token is then none that anything goes on with.              *)
Piece(tree, at) == [tree |-> tree, at |-> at]
Token(toks, at) == IF at = 0 THEN "error" ELSE IF at > Len(toks) THEN "end" ELSE toks[at]
Expect(toks, at, token) == IF Token(toks, at) = token THEN at + 1 ELSE 0

RECURSIVE Binary(_, _, _), Chain(_, _, _), Power(_, _, _), Factorial(_, _), Base(_, _), Call(_, _, _)

(* Mutant of Chain: operators of a level are grouped from the right. *)
ChainRight(toks, level, left) ==
  IF Token(toks, left.at) \notin Levels[level] THEN left
  ELSE LET right == Binary(toks, level, left.at + 1) IN Piece(Tree(toks[left.at], <<left.tree, right.tree>>), right.at)

(* list, expr, term and factor: one loop each, on the next tighter level. *)
Chain(toks, level, left) ==
  IF Token(toks, left.at) \notin Levels[level] THEN left
  ELSE LET right == Binary(toks, level + 1, left.at + 1)
       IN Chain(toks, level, Piece(Tree(toks[left.at], <<left.tree, right.tree>>), right.at))
Binary(toks, level, at) ==
  IF level = Tightest THEN Power(toks, at, 1) ELSE Chain(toks, level, Binary(toks, level + 1, at))

Power(toks, at, sign) ==
  CASE Token(toks, at) = "+" -> Power(toks, at + 1, sign)
    [] Token(toks, at) = "-" -> Power(toks, at + 1, -sign)
    [] OTHER -> LET part == Factorial(toks, Base(toks, at))
                IN IF sign = 1 THEN part ELSE Piece(Tree("negate", <<part.tree>>), part.at)
Factorial(toks, part) ==
  IF Token(toks, part.at) # "!" THEN part ELSE Factorial(toks, Piece(Tree("factorial", <<part.tree>>), part.at + 1))

Base(toks, at) ==
  LET token == Token(toks, at) IN
  CASE token = "1" -> Piece(Tree("1", <<>>), at + 1)
    [] token = "(" -> LET list == Binary(toks, 1, at + 1) IN Piece(list.tree, Expect(toks, list.at, ")"))
    [] token \in DOMAIN Parameters ->
         (CASE Parameters[token] = 0 -> Piece(Tree(token, <<>>), IF Token(toks, at + 1) = "(" THEN Expect(toks, at + 2, ")") ELSE at + 1)
            [] Parameters[token] = 1 -> LET power == Power(toks, at + 1, 1) IN Piece(Tree(token, <<power.tree>>), power.at)
            [] OTHER -> IF Token(toks, at + 1) = "(" THEN Call(toks, Piece(Tree(token, <<>>), at + 1), Parameters[token])
                        ELSE Piece(Tree(token, <<>>), 0))
    [] OTHER -> Piece(Nan, 0)

(* The parameters from the parenthesis or comma at call.at on, four at     *)
(* most; as many as the function has, and no comma behind the last.        *)
Call(toks, call, wanted) ==
  LET given == Binary(toks, Arguments, call.at + 1)
      tree == Tree(call.tree.op, Append(call.tree.kids, given.tree))
      n == Len(tree.kids)
  IN IF Token(toks, given.at) = "," /\ n < 4 THEN Call(toks, Piece(tree, given.at), wanted)
     ELSE Piece(tree, IF n = wanted THEN Expect(toks, given.at, ")") ELSE 0)

(* compile: everything is to be read; nothing where it is not.             *)
Compile(toks) == LET list == Binary(toks, 1, 1) IN IF Token(toks, list.at) = "end" THEN <<list.tree>> ELSE <<>>

---------------------------------------------------------------------------
(* A value is one whole number, or none (NAN); products of unsigned long wrap *)
(* around.  Functions of the C library are external.                       *)
Product(from, to) == FoldLeft(LAMBDA result, i : (result * i) % LongRange, 1, [k \in 1..to - from + 1 |-> from + k - 1])
FactorialOf(n) == IF n < 0 THEN <<>> ELSE <<Product(1, n)>>
Difference(n, m) == IF n > m THEN n - m ELSE m - n
Greatest(n, m) == IF n > m THEN n ELSE m
PnmShort(n, m) == IF n < 0 \/ m < 0 THEN <<>> ELSE <<Product(Difference(n, m) + 2, Greatest(n, m))>>      \* mutant: one factor less
Pnm(n, m) == IF n < 0 \/ m < 0 THEN <<>> ELSE <<Product(Difference(n, m) + 1, Greatest(n, m))>>
Cnm(n, m) ==
  IF n < 0 \/ m < 0 THEN <<>> ELSE <<Pnm(n, m)[1] \div FactorialOf(n + m - Greatest(n, m))[1]>>

Apply(op, v) ==
  CASE op = "1" -> <<1>>
    [] \E i \in DOMAIN v : v[i] = <<>> -> IF op = "," THEN v[2] ELSE <<>>
    [] op = "+" -> <<v[1][1] + v[2][1]>>
    [] op = "-" -> <<v[1][1] - v[2][1]>>
    [] op = "*" -> <<v[1][1] * v[2][1]>>
    [] op = "negate" -> <<-v[1][1]>>
    [] op = "abs" -> <<IF v[1][1] < 0 THEN -v[1][1] ELSE v[1][1]>>
    [] op \in {",", "comma"} -> v[2]
    [] op = "factorial" -> FactorialOf(v[1][1])
    [] op = "C" -> Cnm(v[1][1], v[2][1])
    [] op \in {"P", "A"} -> Pnm(v[1][1], v[2][1])
RECURSIVE Evaluate(_)
Evaluate(tree) == Apply(tree.op, [i \in DOMAIN tree.kids |-> Evaluate(tree.kids[i])])
(* tinyexpr::evaluate: no number when the text is none.                    *)
ValueOf(toks) == LET trees == Compile(toks) IN IF trees = <<>> THEN <<>> ELSE <<Evaluate(trees[1])>>
=============================================================================
