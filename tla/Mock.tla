-------------------------------- MODULE Mock --------------------------------
(***************************************************************************)
(* The expectations of a mock (src/source/mock).  A MOCK statement gives a *)
(* mocker a chain of expectations, each with the arguments it accepts, the *)
(* least and the most calls, and maybe a routine; the mocker walks along   *)
(* the chain as the calls of the case arrive, and the teardown of the case *)
(* compares the counts.  Several mockers, one per MOCK in the text, may    *)
(* mock the same function: the last one executed answers.                  *)
(*                                                                         *)
(* An expectation's matchers are abstracted to the set of argument tuples  *)
(* they accept.  Which list a mocker is put on is the matter of Scope;     *)
(* here every mock belongs to the case.                                    *)
(***************************************************************************)
EXTENDS Integers, Sequences, FiniteSets

CONSTANTS
  Mocker,      \* the MOCKs in the text of the case
  Nobody,      \* the function is not replaced
  Argument,    \* argument tuples
  Routine,     \* what Return and the braces can give
  Original,    \* no routine: the original function is called
  Text,        \* what may follow the MOCKs: functions from Mocker to chains as written
  MaxCall      \* bound: calls in a case

IntMax == 2147483647   \* 0x7fffffff, the `most` of Any and Atleast

Expectation ==
  [least : 0..IntMax, most : 0..IntMax, call : 0..IntMax, accepts : SUBSET Argument,
   routine : Routine \cup {Original}]
Chain == [expect : Seq(Expectation), greed : BOOLEAN]

ASSUME MockAssumption ==
  /\ IsFiniteSet(Mocker) /\ Nobody \notin Mocker
  /\ Original \notin Routine
  /\ MaxCall \in 0..IntMax
  /\ Text \subseteq [Mocker -> Chain]
  /\ \A t \in Text, m \in Mocker :
       \A i \in DOMAIN t[m].expect : t[m].expect[i].call = 0

VARIABLES
  text,     \* per MOCK its chain as written
  continue_assert, \* -c: a failing assertion does not leave the body
  phase,    \* "body", "left" by a failing assertion, "ended"
  mocker,   \* per mocker: its chain, where it is (checkin_index) and whether it is on the case's list
  patched,  \* the mocker the function leads to
  failed,   \* h2_case::failed
  log,      \* history, per mocker set in this case: the calls since then and what answered
  lost      \* history: a mocker was set again after other calls than its chain says

given == <<text, continue_assert>>
mockVars == <<given, phase, mocker, patched, failed, log, lost>>

MockTypeOK ==
  /\ text \in [Mocker -> Chain] /\ continue_assert \in BOOLEAN
  /\ phase \in {"body", "left", "ended"}
  /\ mocker \in [Mocker -> [chain : Chain, index : Nat, listed : BOOLEAN]]
  /\ \A m \in Mocker : mocker[m].index \in 1..Len(mocker[m].chain.expect) \cup {1}
  /\ patched \in Mocker \cup {Nobody}
  /\ failed \in BOOLEAN
  /\ DOMAIN log \subseteq Mocker
  /\ \A m \in DOMAIN log : log[m] \in Seq([arg : Argument, answer : Routine \cup {Original}])
  /\ lost \in BOOLEAN

---------------------------------------------------------------------------
(* The parts of a MOCK statement.                                          *)
Fresh == [expect |-> <<>>, greed |-> TRUE]
Greed(c, mode) == [c EXCEPT !.greed = mode]
Between(c, least, most, accepts) ==
  [c EXCEPT !.expect = Append(@, [least |-> least, most |-> most, call |-> 0,
                                  accepts |-> accepts, routine |-> Original])]
Times(c, n, accepts) == Between(c, n, n, accepts)
Once(c, accepts) == Times(c, 1, accepts)
Twice(c, accepts) == Times(c, 2, accepts)
Atleast(c, n, accepts) == Between(c, n, IntMax, accepts)
Atmost(c, n, accepts) == Between(c, 0, n, accepts)
Any(c, accepts) == Atleast(c, 0, accepts)

(* With, Th, Return and the braces need an expectation to speak of. *)
OrAny(c) == IF c.expect = <<>> THEN Any(c, Argument) ELSE c
With(c, accepts) ==
  LET d == OrAny(c) IN [d EXCEPT !.expect[Len(d.expect)].accepts = accepts]
Return(c, r) ==
  LET d == OrAny(c) IN [d EXCEPT !.expect[Len(d.expect)].routine = r]
Braces(c, r) ==
  LET d == OrAny(c)
  IN  [d EXCEPT !.expect = [i \in DOMAIN @ |->
         IF @[i].routine = Original THEN [@[i] EXCEPT !.routine = r] ELSE @[i]]]

(* What a chain says of the calls made, whoever counts them: `at` deals    *)
(* them out to the expectations in order.                                  *)
Dealt(c, calls, at) ==
  /\ \A j \in DOMAIN calls :
       /\ calls[j].arg \in c.expect[at[j]].accepts
       /\ j > 1 => at[j - 1] <= at[j]
  /\ \A i \in DOMAIN c.expect :
       Cardinality({j \in DOMAIN calls : at[j] = i}) \in c.expect[i].least..c.expect[i].most
Deals(c, calls) == {at \in [DOMAIN calls -> DOMAIN c.expect] : Dealt(c, calls, at)}

---------------------------------------------------------------------------
MockInit ==
  /\ text \in Text /\ continue_assert \in BOOLEAN
  /\ phase = "body"
  /\ mocker = [m \in Mocker |-> [chain |-> Fresh, index |-> 1, listed |-> FALSE]]
  /\ patched = Nobody
  /\ failed = FALSE
  /\ log = [m \in {} |-> <<>>] /\ lost = FALSE

(* h2_case::prev_setup, for the next case that has the MOCKs. *)
Begin ==
  /\ phase = "ended"
  /\ phase' = "body" /\ failed' = FALSE
  /\ log' = [m \in {} |-> <<>>] /\ lost' = FALSE
  /\ UNCHANGED <<given, mocker, patched>>

(* MOCK: the mocker forgets what it had, joins the case's list, takes the  *)
(* function, and gets its new chain.                                       *)
Set(m) ==
  /\ phase = "body"
  /\ mocker' = [mocker EXCEPT ![m] = [chain |-> text[m], index |-> 1, listed |-> TRUE]]
  /\ patched' = m
  /\ log' = [n \in DOMAIN log \cup {m} |-> IF n = m THEN <<>> ELSE log[n]]
  /\ lost' = (lost \/ (mocker[m].listed /\ Deals(text[m], log[m]) = {}))
  /\ UNCHANGED <<given, phase, failed>>

(* UNMOCK takes the patch back; the mocker stays on the list. *)
UnMock ==
  /\ phase = "body" /\ patched # Nobody
  /\ patched' = Nobody
  /\ UNCHANGED <<given, phase, mocker, failed, log, lost>>

---------------------------------------------------------------------------
Insufficient(e) == e.call < e.least

(* Mutant of Satisfied: an expectation may be passed over only when full. *)
SatisfiedFull(e) == e.call = e.most

Satisfied(e) == e.least <= e.call /\ e.call <= e.most
Saturated(e) == e.call = e.most

(* Mutant of Passes: a chain is always walked lazily. *)
PassesLazily(c, i) == Saturated(c.expect[i]) \/ ~Insufficient(c.expect[i])

(* A call the expectation accepts is offered to the next one too.          *)
Passes(c, i) ==
  Saturated(c.expect[i]) \/ (~Insufficient(c.expect[i]) /\ ~c.greed)

(* matches: from where the mocker is, the first expectation that accepts   *)
(* the argument, and the last of the unbroken row of such expectations     *)
(* that the call is passed along.                                          *)
Accepting(m, a) ==
  {i \in DOMAIN mocker[m].chain.expect :
     i >= mocker[m].index /\ a \in mocker[m].chain.expect[i].accepts}
First(m, a) == CHOOSE i \in Accepting(m, a) : \A j \in Accepting(m, a) : i <= j
Reached(m, a) ==
  {i \in Accepting(m, a) :
     \A j \in First(m, a)..(i - 1) : j \in Accepting(m, a) /\ Passes(mocker[m].chain, j)}
Taken(m, a) == CHOOSE i \in Reached(m, a) : \A j \in Reached(m, a) : j <= i

(* The expectations before it that refuse the argument and are not         *)
(* satisfied: each is reported.                                            *)
Refusing(m, a) ==
  {i \in DOMAIN mocker[m].chain.expect :
     /\ i >= mocker[m].index
     /\ \A j \in Accepting(m, a) : i < j
     /\ ~Satisfied(mocker[m].chain.expect[i])}

Answered(m, a, r) ==
  log' = [log EXCEPT ![m] = Append(@, [arg |-> a, answer |-> r])]

(* Mutant of Count: the mocker moves behind the expectation. *)
CountMoves(m, i) ==
  mocker' = [mocker EXCEPT ![m].index = i + 1, ![m].chain.expect[i].call = @ + 1]

Count(m, i) ==
  mocker' = [mocker EXCEPT ![m].index = i, ![m].chain.expect[i].call = @ + 1]

(* A call an expectation takes, and a routine or the original answers.     *)
Expected(m, a) ==
  /\ Accepting(m, a) # {}
  /\ Refusing(m, a) = {} \/ continue_assert
  /\ Count(m, Taken(m, a))
  /\ Answered(m, a, mocker[m].chain.expect[Taken(m, a)].routine)
  /\ failed' = (failed \/ Refusing(m, a) # {})
  /\ UNCHANGED <<given, phase, patched, lost>>

(* A call that is reported: control leaves the case at the first report,   *)
(* or the original answers.                                                *)
Unexpected(m, a) ==
  /\ Refusing(m, a) # {} \/ Accepting(m, a) = {}
  /\ Accepting(m, a) = {} \/ ~continue_assert
  /\ failed' = TRUE
  /\ phase' = IF continue_assert THEN "body" ELSE "left"
  /\ Answered(m, a, Original)
  /\ UNCHANGED <<given, mocker, patched, lost>>

Made == {c \in Mocker \X (1..MaxCall) : c[1] \in DOMAIN log /\ c[2] \in DOMAIN log[c[1]]}

Call(a) ==
  /\ phase = "body" /\ patched # Nobody
  /\ Cardinality(Made) < MaxCall
  /\ Expected(patched, a) \/ Unexpected(patched, a)

(* Mutant of Check: too many calls are not looked for. *)
CheckLeast(e) == ~Insufficient(e)

Check(e) == Satisfied(e) \/ Saturated(e)

(* h2_case::post_cleanup: the stubs go, then the mocks of the list are     *)
(* checked and reset.                                                      *)
Teardown ==
  /\ phase \in {"body", "left"}
  /\ phase' = "ended"
  /\ patched' = Nobody
  /\ failed' = (failed \/ \E m \in Mocker : mocker[m].listed /\
                            \E i \in DOMAIN mocker[m].chain.expect : ~Check(mocker[m].chain.expect[i]))
  /\ mocker' = [m \in Mocker |-> [chain |-> Fresh, index |-> 1, listed |-> FALSE]]
  /\ UNCHANGED <<given, log, lost>>

MockNext ==
  \/ Begin \/ UnMock \/ Teardown
  \/ \E m \in Mocker : Set(m)
  \/ \E a \in Argument : Call(a)

MockSpec == MockInit /\ [][MockNext]_mockVars

---------------------------------------------------------------------------
(* The answers are those of the expectations the calls are dealt to. *)
Answers(c, calls, at) == \A j \in DOMAIN calls : calls[j].answer = c.expect[at[j]].routine

(* A case that passes made no call and omitted none its MOCKs did not      *)
(* allow, and each call was answered by the routine of the expectation it  *)
(* counts for: a mock must not hide a wrong call.                          *)
PassMeansExpected ==
  phase = "ended" /\ ~failed =>
    \A m \in DOMAIN log :
      \E at \in Deals(text[m], log[m]) : Answers(text[m], log[m], at)

(* Where no two expectations accept the same arguments there is nothing to *)
(* choose, and a case whose calls are as said does not fail.               *)
Distinct(c) ==
  \A i, j \in DOMAIN c.expect : i # j => c.expect[i].accepts \cap c.expect[j].accepts = {}
ExpectedPasses ==
  phase = "ended" /\ ~lost /\ (\A m \in DOMAIN log : Distinct(text[m])
                                        /\ Deals(text[m], log[m]) # {})
    => ~failed

(* The verdict of a case on its mocks is right both ways.                  *)
PassIffExpected == PassMeansExpected /\ ExpectedPasses

(* "match call in greed mode": while an expectation that accepts a call is *)
(* not full, no later one answers it.                                      *)
Greedily(c, calls, at) ==
  \A j \in DOMAIN calls : \A i \in DOMAIN c.expect :
    i < at[j] /\ (j > 1 => at[j - 1] <= i) /\ calls[j].arg \in c.expect[i].accepts
      => Cardinality({k \in 1..(j - 1) : at[k] = i}) = c.expect[i].most
EarliestAnswers ==
  phase = "ended" /\ ~failed =>
    \A m \in DOMAIN log : text[m].greed =>
      \E at \in Deals(text[m], log[m]) :
        Answers(text[m], log[m], at) /\ Greedily(text[m], log[m], at)

(* An expectation of any number of calls ("include 0 times") may be left   *)
(* out: a case whose calls a greedy chain allows, read greedily, passes.   *)
GreedyPasses ==
  phase = "ended" /\ ~lost
    /\ (\A m \in DOMAIN log : text[m].greed /\
          \E at \in Deals(text[m], log[m]) : Greedily(text[m], log[m], at))
    => ~failed
===========================================================================
