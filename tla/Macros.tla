------------------------------ MODULE Macros ------------------------------
(***************************************************************************)
(* The argument lists of src/source/utils/h2_macro.hpp, and the cases that *)
(* the macros of src/source/core/h2_core.hpp make from them.               *)
(*                                                                         *)
(* An argument is its tokens: names, and groups in parentheses, which hold *)
(* an argument list again.  Where nothing is written there is one argument *)
(* without tokens.  Names are no macros.  Lists have at most 63 arguments  *)
(* (64TH), of which 32 have a number (INC).                                *)
(***************************************************************************)
EXTENDS Naturals, SequencesExt

CONSTANT Rescans      \* how often EVAL scans a list again: 128

Atom(x) == [name |-> x]
Group(args) == [group |-> args]
Nothing == << <<>> >>
Zero == << Atom("0") >>
One == << Atom("1") >>

HAS_COMMA(args) == Len(args) > 1
BeginsInGroup(args) == args[1] # <<>> /\ "group" \in DOMAIN args[1][1]

(* Four looks for a comma: at the list, with COMMA in front, with () after *)
(* it, with both.  COMMA takes a group it stands in front of.              *)
IS_EMPTY(args) ==
  LET comma == HAS_COMMA(args) IN
  <<comma, comma \/ BeginsInGroup(args), comma, comma \/ BeginsInGroup(args) \/ args[1] = <<>> >>
    = <<FALSE, FALSE, FALSE, TRUE>>

(* IS_BEGIN_PARENTHESIS: of a list that does not begin with a group the    *)
(* second argument, which the 0 is behind of.                              *)
IS_BEGIN_PARENTHESIS(args) ==
  IF BeginsInGroup(args) THEN One ELSE IF HAS_COMMA(args) THEN args[2] ELSE Zero

(* IS_PARENTHESIS is written with IF_ELSE, which 0 and 1 choose from and   *)
(* which is left as it stands by anything else.                            *)
Expands(args) == IS_BEGIN_PARENTHESIS(args) \in {Zero, One}
IS_PARENTHESIS(args) ==
  /\ BeginsInGroup(args)
  /\ IS_EMPTY(<<Tail(args[1])>> \o Tail(args))

REMOVE_PARENTHESES(argument) == argument[1].group
REMOVE_PARENTHESES_IF(args) == IF IS_PARENTHESIS(args) THEN REMOVE_PARENTHESES(args[1]) ELSE args

NARG(args) == IF IS_EMPTY(args) THEN 0 ELSE Len(args)
HEAD(args) == IF IS_EMPTY(args) THEN <<>> ELSE args[1]
TAIL(args) == IF Len(args) <= 1 THEN Nothing ELSE Tail(args)

(* LAST takes arguments off until one is left: the last has tokens.         *)
LAST(args) == IF IS_EMPTY(args) THEN <<>> ELSE args[Len(args)]

(* REPEAT: the macro is called for 0 first, with the count less one last. *)
REPEAT(count) == [k \in 1..count |-> k - 1]

(* How many calls FOREACH makes: it takes the head until nothing is left,  *)
(* which an empty last argument is.                                        *)
Calls(args) == IF args[Len(args)] = <<>> THEN Len(args) - 1 ELSE Len(args)

FOREACH(args) == [k \in 1..Calls(args) |-> [i |-> k - 1, x |-> args[k]]]

(* Mutant of FULLMESH: each x with the y that has its number. *)
FULLMESH_ZIP(args) ==
  [k \in 1..Calls(REMOVE_PARENTHESES(args[1])) |->
     [i |-> k - 1, j |-> k - 1, x |-> REMOVE_PARENTHESES(args[1])[k], y |-> REMOVE_PARENTHESES(args[Len(args)])[k]]]

(* FULLMESH: for each x in turn each y; one list alone is crossed with     *)
(* itself.                                                                 *)
FULLMESH(args) ==
  LET xs == REMOVE_PARENTHESES(args[1])
      ys == REMOVE_PARENTHESES(IF IS_EMPTY(TAIL(args)) THEN args[1] ELSE args[2])
      m == Calls(ys)
  IN IF IS_EMPTY(args) THEN <<>>
     ELSE [k \in 1..Calls(xs) * m |->
             LET i == (k - 1) \div m  j == (k - 1) % m IN [i |-> i, j |-> j, x |-> xs[i + 1], y |-> ys[j + 1]]]

(* An: what the first argument begins with, each rescan opening one pair   *)
(* of parentheses; it gives x its type.                                    *)
OpenOnce(args) ==
  IF ~IS_EMPTY(args) /\ IS_PARENTHESIS(<<HEAD(args)>>) THEN REMOVE_PARENTHESES(args[1]) ELSE args
EVAL(args) == FoldLeft(LAMBDA list, k : OpenOnce(list), args, [k \in 1..Rescans |-> k])
An(args) ==
  LET inner == EVAL(args) IN
  IF IS_EMPTY(inner) THEN Zero ELSE HEAD(inner)
XAn(args) == An(<<HEAD(args)>>)
YAn(args) == An(<<LAST(args)>>)

(* Cases, CASES and CASES_T; Casess, CASESS and CASESS_T: a case for each  *)
(* call, and a copy of x and y of the type of the first.  The others are   *)
(* TODOs: one case that is not tested, whatever the list holds.            *)
Cases(args) == [made |-> FOREACH(REMOVE_PARENTHESES_IF(args)), type |-> An(args)]
Casess(args) == [made |-> FULLMESH(args), xtype |-> XAn(args), ytype |-> YAn(args)]
Todos(args) == [made |-> << [i |-> 0, x |-> args] >>, type |-> An(args)]

(* The macros that name a function, by the number of their arguments       *)
(* (VCALL): an object, a class and a method, or the function alone, before *)
(* its signature, which may be two arguments; then what is theirs.  Every  *)
(* part may have parentheses around it, for the commas in it.              *)
TheirOwn == [STUB |-> 1, UNSTUB |-> 0, STUBS |-> 0, UNSTUBS |-> 0, MOCK |-> 0, MOCKS |-> 1]
SignatureParts == [STUB |-> 1, UNSTUB |-> 1, STUBS |-> 2, UNSTUBS |-> 2, MOCK |-> 1, MOCKS |-> 2]
Signed(result, parameters) == [result EXCEPT ![Len(result)] = @ \o parameters]

(* h2_fp<...>::get, without a signature by the source's name or address.   *)
Fp(macro, args) ==
  LET given == SubSeq(args, 1, Len(args) - TheirOwn[macro])
      n == Len(given)
      plain == [i \in 1..n |-> REMOVE_PARENTHESES_IF(<<given[i]>>)]
  IN IF n = 1 THEN [names |-> plain, signature |-> Nothing]
     ELSE [names |-> SubSeq(plain, 1, n - SignatureParts[macro]),
           signature |-> IF SignatureParts[macro] = 1 THEN plain[n] ELSE Signed(plain[n - 1], given[n])]

(* STUBS and MOCKS of a member: the object is the first parameter, with a  *)
(* comma behind it where there are others.                                 *)
MemberParameters(object, parameters) ==
  LET others == REMOVE_PARENTHESES(parameters) IN IF IS_EMPTY(others) THEN <<object>> ELSE <<object>> \o others
===========================================================================
