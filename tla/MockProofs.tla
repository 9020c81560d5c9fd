----------------------------- MODULE MockProofs -----------------------------
(***************************************************************************)
(* What the verdict of a case on its mocks says, for every chain, any      *)
(* number of mockers and of calls.                                         *)
(***************************************************************************)
EXTENDS Mock, FiniteSetTheorems, SequenceTheorems, WellFoundedInduction, TLAPS

(* What is written allows a number of calls. *)
Allowing ==
  \A t \in Text, m \in Mocker :
    \A i \in DOMAIN t[m].expect : t[m].expect[i].least <= t[m].expect[i].most

(* A mocker on the list has the chain as written, but for the counts. *)
Written(c, d) ==
  /\ c.greed = d.greed /\ Len(c.expect) = Len(d.expect)
  /\ \A i \in DOMAIN c.expect :
       /\ c.expect[i].least = d.expect[i].least /\ c.expect[i].most = d.expect[i].most
       /\ c.expect[i].accepts = d.expect[i].accepts /\ c.expect[i].routine = d.expect[i].routine
ListInv ==
  /\ \A m \in Mocker : mocker[m].listed <=> phase # "ended" /\ m \in DOMAIN log
  /\ patched # Nobody => phase # "ended" /\ patched \in DOMAIN log
  /\ phase # "ended" => \A m \in DOMAIN log : Written(mocker[m].chain, text[m])

(* No expectation counts more calls than were made. *)
BoundInv ==
  /\ \A m \in DOMAIN log : Len(log[m]) <= MaxCall
  /\ phase # "ended" =>
       \A m \in DOMAIN log : \A i \in DOMAIN mocker[m].chain.expect :
         mocker[m].chain.expect[i].call <= Len(log[m])

(* The calls so far are dealt out the way the mocker w has walked.         *)
Walked(c, w, calls, at) ==
  /\ \A j \in DOMAIN calls :
       /\ calls[j].arg \in c.expect[at[j]].accepts
       /\ calls[j].answer = c.expect[at[j]].routine
       /\ j > 1 => at[j - 1] <= at[j]
  /\ \A i \in DOMAIN c.expect :
       w.chain.expect[i].call = Cardinality({j \in DOMAIN calls : at[j] = i})
  /\ w.index = IF calls = <<>> THEN 1 ELSE at[Len(calls)]
  /\ c.greed => Greedily(c, calls, at)
WalkInv ==
  phase # "ended" /\ ~failed =>
    \A m \in DOMAIN log :
      \E at \in [DOMAIN log[m] -> DOMAIN text[m].expect] : Walked(text[m], mocker[m], log[m], at)

(* The calls so far can be the beginning of calls that a chain allows. *)
Begun(c, calls, at) ==
  /\ \A j \in DOMAIN calls :
       /\ calls[j].arg \in c.expect[at[j]].accepts
       /\ j > 1 => at[j - 1] <= at[j]
  /\ \A i \in DOMAIN c.expect :
       /\ Cardinality({j \in DOMAIN calls : at[j] = i}) <= c.expect[i].most
       /\ (\E j \in DOMAIN calls : i < at[j]) =>
            c.expect[i].least <= Cardinality({j \in DOMAIN calls : at[j] = i})
Open(c, calls) == \E at \in [DOMAIN calls -> DOMAIN c.expect] : Begun(c, calls, at)

(* Where there is nothing to choose, the counts are those of the calls.    *)
Accepted(c, calls, i) == {j \in DOMAIN calls : calls[j].arg \in c.expect[i].accepts}
Counted(c, w, calls) ==
  Distinct(c) /\ Open(c, calls) =>
    /\ \A i \in DOMAIN c.expect : w.chain.expect[i].call = Cardinality(Accepted(c, calls, i))
    /\ calls = <<>> => w.index = 1
    /\ calls # <<>> => calls[Len(calls)].arg \in c.expect[w.index].accepts
DistinctInv == phase # "ended" => \A m \in DOMAIN log : Counted(text[m], mocker[m], log[m])

(* A failure has a chain to blame. *)
BlameInv ==
  phase # "ended" /\ failed =>
    \/ lost
    \/ \E m \in DOMAIN log : ~Distinct(text[m]) \/ ~Open(text[m], log[m])

MockInv ==
  /\ MockTypeOK /\ ListInv /\ BoundInv
  /\ WalkInv /\ DistinctInv /\ BlameInv
  /\ ExpectedPasses

---------------------------------------------------------------------------
Made1 == [arg : Argument, answer : Routine \cup {Original}]
Walker == [chain : Chain, index : Nat, listed : BOOLEAN]

LEMMA IntMaxNat == IntMax \in Nat
  BY SMT DEF IntMax

LEMMA ChainFacts ==
  ASSUME NEW c \in Chain
  PROVE  /\ Len(c.expect) \in Nat /\ DOMAIN c.expect = 1..Len(c.expect) /\ c.greed \in BOOLEAN
         /\ c.expect \in Seq(Expectation)
         /\ \A i \in DOMAIN c.expect :
              /\ c.expect[i] \in Expectation
              /\ c.expect[i].least \in Nat /\ c.expect[i].most \in Nat
              /\ c.expect[i].call \in Nat /\ c.expect[i].accepts \subseteq Argument
              /\ c.expect[i].routine \in Routine \cup {Original}
<1>1. c.expect \in Seq(Expectation) /\ c.greed \in BOOLEAN
  BY DEF Chain
<1>2. Len(c.expect) \in Nat /\ DOMAIN c.expect = 1..Len(c.expect)
      /\ \A i \in DOMAIN c.expect : c.expect[i] \in Expectation
  BY <1>1, LenProperties
<1>3. \A x \in 0..IntMax : x \in Nat
  BY IntMaxNat
<1>4. QED
  BY <1>1, <1>2, <1>3 DEF Expectation

LEMMA CallsFacts ==
  ASSUME NEW calls \in Seq(Made1)
  PROVE  /\ Len(calls) \in Nat /\ DOMAIN calls = 1..Len(calls)
         /\ \A j \in DOMAIN calls : calls[j] \in Made1
         /\ calls = <<>> <=> Len(calls) = 0
<1>1. Len(calls) \in Nat /\ DOMAIN calls = 1..Len(calls)
      /\ \A j \in DOMAIN calls : calls[j] \in Made1
  BY LenProperties
<1>2. calls = <<>> <=> Len(calls) = 0
  BY <1>1, EmptySeq, LenProperties
<1>3. QED
  BY <1>1, <1>2

(* One more call. *)
LEMMA OneMore ==
  ASSUME NEW calls \in Seq(Made1), NEW e \in Made1
  PROVE  LET more == Append(calls, e)
             n == Len(calls)
         IN  /\ more \in Seq(Made1) /\ Len(more) = n + 1 /\ more # <<>>
             /\ DOMAIN more = (DOMAIN calls) \cup {n + 1} /\ n + 1 \notin DOMAIN calls
             /\ DOMAIN more = 1..(n + 1)
             /\ \A j \in DOMAIN calls : more[j] = calls[j]
             /\ more[n + 1] = e
<1> DEFINE more == Append(calls, e)
           n == Len(calls)
<1>1. n \in Nat /\ DOMAIN calls = 1..n
  BY CallsFacts
<1>2. more \in Seq(Made1) /\ Len(more) = n + 1 /\ more[n + 1] = e
      /\ \A j \in 1..n : more[j] = calls[j]
  BY AppendProperties
<1>3. DOMAIN more = 1..(n + 1) /\ more # <<>>
  BY <1>1, <1>2, LenProperties, EmptySeq
<1>4. QED
  BY <1>1, <1>2, <1>3

LEMMA CountOne ==
  ASSUME NEW n \in Nat, NEW S \in SUBSET (1..n)
  PROVE  /\ IsFiniteSet(S) /\ Cardinality(S) \in Nat /\ Cardinality(S) <= n
         /\ Cardinality(S \cup {n + 1}) = Cardinality(S) + 1
<1>1. IsFiniteSet(1..n) /\ Cardinality(1..n) = n
  BY FS_Interval
<1>2. IsFiniteSet(S) /\ Cardinality(S) <= n
  BY <1>1, FS_Subset
<1>3. Cardinality(S) \in Nat
  BY <1>2, FS_CardinalityType
<1>4. n + 1 \notin S
  OBVIOUS
<1>5. Cardinality(S \cup {n + 1}) = Cardinality(S) + 1
  BY <1>2, <1>4, FS_AddElement
<1>6. QED
  BY <1>2, <1>3, <1>5

(* The mocker after a call that its k-th expectation takes. *)
Stepped(w, k) == [w EXCEPT !.index = k, !.chain.expect[k].call = @ + 1]

LEMMA SteppedFacts ==
  ASSUME NEW w \in Walker, NEW k \in DOMAIN w.chain.expect
  PROVE  LET v == Stepped(w, k)
         IN  /\ v.index = k /\ v.listed = w.listed /\ v.chain.greed = w.chain.greed
             /\ DOMAIN v.chain.expect = DOMAIN w.chain.expect
             /\ Len(v.chain.expect) = Len(w.chain.expect)
             /\ \A i \in DOMAIN w.chain.expect :
                  /\ v.chain.expect[i].least = w.chain.expect[i].least
                  /\ v.chain.expect[i].most = w.chain.expect[i].most
                  /\ v.chain.expect[i].accepts = w.chain.expect[i].accepts
                  /\ v.chain.expect[i].routine = w.chain.expect[i].routine
                  /\ v.chain.expect[i].call = IF i = k THEN w.chain.expect[i].call + 1
                                              ELSE w.chain.expect[i].call
             /\ w.chain.expect[k].call + 1 <= IntMax => v \in Walker
<1> DEFINE v == Stepped(w, k)
           s == w.chain.expect
           e == [s[k] EXCEPT !.call = @ + 1]
           t == [s EXCEPT ![k] = e]
<1>1. w.chain \in Chain /\ w.index \in Nat /\ w.listed \in BOOLEAN
  BY DEF Walker
<1>2. /\ Len(s) \in Nat /\ DOMAIN s = 1..Len(s) /\ s \in Seq(Expectation)
      /\ \A i \in DOMAIN s : s[i] \in Expectation /\ s[i].call \in Nat
  BY <1>1, ChainFacts
<1>3. v = [w EXCEPT !.index = k, !.chain = [w.chain EXCEPT !.expect = t]]
  BY <1>1 DEF Stepped, Walker, Chain
<1>4. v = [chain |-> [expect |-> t, greed |-> w.chain.greed], index |-> k, listed |-> w.listed]
  BY <1>1, <1>3 DEF Walker, Chain
<1>5. v.index = k /\ v.listed = w.listed /\ v.chain.greed = w.chain.greed /\ v.chain.expect = t
  BY <1>4
<1>6. DOMAIN t = DOMAIN s /\ \A i \in DOMAIN s : t[i] = IF i = k THEN e ELSE s[i]
  BY <1>2
<1>7. /\ e.least = s[k].least /\ e.most = s[k].most /\ e.accepts = s[k].accepts
      /\ e.routine = s[k].routine /\ e.call = s[k].call + 1
  BY <1>2 DEF Expectation
<1>8. Len(t) = Len(s)
  BY <1>2, <1>6, SeqDef, LenProperties
<1>9. ASSUME s[k].call + 1 <= IntMax
      PROVE  v \in Walker
  <2>1. e \in Expectation
    <3>1. s[k].call + 1 \in 0..IntMax
      BY <1>2, <1>9, IntMaxNat
    <3>2. QED
      BY <1>2, <3>1 DEF Expectation
  <2>2. \A i \in 1..Len(s) : t[i] \in Expectation
    BY <1>2, <1>6, <2>1
  <2>3. t \in [1..Len(s) -> Expectation]
    BY <1>2, <1>6, <2>2
  <2>4. t \in Seq(Expectation)
    BY <1>2, <2>3, SeqDef
  <2>5. QED
    BY <1>1, <1>2, <1>4, <2>4 DEF Walker, Chain
<1>10. QED
  BY <1>5, <1>6, <1>7, <1>8, <1>9

---------------------------------------------------------------------------
(* The first and the last of some positions. *)
LEMMA Earliest ==
  ASSUME NEW T \in SUBSET Nat, T # {}
  PROVE  \E x \in T : \A y \in T : x <= y
<1>1. IsWellFoundedOn(OpToRel(<, Nat), Nat)
  BY NatLessThanWellFounded
<1>2. PICK x \in T : \A y \in T : ~ (<<y, x>> \in OpToRel(<, Nat))
  BY <1>1, WFMin
<1>3. ASSUME NEW y \in T PROVE x <= y
  <2>1. ~ (y < x)
    BY <1>2 DEF OpToRel
  <2>2. QED
    BY <2>1
<1>4. QED
  BY <1>3

LEMMA Latest ==
  ASSUME NEW n \in Nat, NEW T \in SUBSET (1..n), T # {}
  PROVE  \E x \in T : \A y \in T : y <= x
<1> DEFINE Rest == {n - x : x \in T}
<1>1. \A x \in T : n - x \in Nat
  OBVIOUS
<1>2. Rest \in SUBSET Nat /\ Rest # {}
  BY <1>1
<1>3. PICK m \in Rest : \A y \in Rest : m <= y
  BY <1>2, Earliest
<1>4. PICK x \in T : m = n - x
  OBVIOUS
<1>5. ASSUME NEW y \in T PROVE y <= x
  <2>1. n - y \in Rest
    OBVIOUS
  <2>2. n - x <= n - y
    BY <1>3, <1>4, <2>1
  <2>3. QED
    BY <2>2
<1>6. QED
  BY <1>5

(* Where no step goes down, nothing later is lower. *)
LEMMA Rising ==
  ASSUME NEW n \in Nat, NEW at, \A j \in 1..n : at[j] \in Nat,
         \A j \in 1..n : j > 1 => at[j - 1] <= at[j],
         NEW j \in 1..n, NEW l \in 1..n, j <= l
  PROVE  at[j] <= at[l]
<1> DEFINE Low == {x \in 1..n : j <= x /\ at[x] < at[j]}
<1>1. SUFFICES ASSUME Low # {} PROVE FALSE
  <2>1. l \notin Low => at[j] <= at[l]
    OBVIOUS
  <2>2. QED
    BY <1>1, <2>1
<1>2. PICK x \in Low : \A y \in Low : x <= y
  <2>1. Low \in SUBSET Nat
    OBVIOUS
  <2> HIDE DEF Low
  <2>2. QED
    BY <1>1, <2>1, Earliest
<1>3. x # j
  BY <1>2
<1>4. x - 1 \in 1..n /\ j <= x - 1 /\ x > 1
  BY <1>2, <1>3
<1>5. x - 1 \notin Low
  BY <1>2, <1>4
<1>6. at[j] <= at[x - 1] /\ at[x - 1] <= at[x]
  BY <1>4, <1>5
<1>7. QED
  BY <1>2, <1>4, <1>6

---------------------------------------------------------------------------
(* The expectation that takes a call accepts it, and each one before it    *)
(* that accepts it passes it on.                                           *)
LEMMA TakenFacts ==
  ASSUME MockTypeOK, NEW m \in Mocker, NEW a, Accepting(m, a) # {}
  PROVE  /\ Taken(m, a) \in Accepting(m, a)
         /\ \A i \in Accepting(m, a) : i < Taken(m, a) => Passes(mocker[m].chain, i)
<1> DEFINE n == Len(mocker[m].chain.expect)
           f == First(m, a)
           k == Taken(m, a)
<1>1. n \in Nat /\ DOMAIN mocker[m].chain.expect = 1..n
  BY ChainFacts DEF MockTypeOK
<1>2. Accepting(m, a) \in SUBSET (1..n)
  BY <1>1 DEF Accepting
<1>3. f \in Accepting(m, a) /\ \A j \in Accepting(m, a) : f <= j
  <2>1. \E i \in Accepting(m, a) : \A j \in Accepting(m, a) : i <= j
    BY <1>2, Earliest
  <2>2. QED
    BY <2>1 DEF First
<1>4. f \in Reached(m, a) /\ Reached(m, a) \in SUBSET (1..n)
  BY <1>2, <1>3 DEF Reached
<1>5. k \in Reached(m, a)
  <2>1. \E i \in Reached(m, a) : \A j \in Reached(m, a) : j <= i
    BY <1>1, <1>4, Latest
  <2>2. QED
    BY <2>1 DEF Taken
<1>6. k \in Accepting(m, a) /\ \A j \in f..(k - 1) : Passes(mocker[m].chain, j)
  BY <1>5 DEF Reached
<1>7. ASSUME NEW i \in Accepting(m, a), i < k
      PROVE  Passes(mocker[m].chain, i)
  <2>1. i \in f..(k - 1)
    BY <1>2, <1>3, <1>6, <1>7
  <2>2. QED
    BY <1>6, <2>1
<1>8. QED
  BY <1>6, <1>7

(* A call that the mocker takes goes on with the walk. *)
LEMMA WalkOn ==
  ASSUME NEW c \in Chain, NEW w \in Walker, Written(w.chain, c),
         NEW calls \in Seq(Made1), NEW at \in [DOMAIN calls -> DOMAIN c.expect],
         Walked(c, w, calls, at),
         NEW e \in Made1, NEW k \in DOMAIN c.expect, w.index <= k,
         e.arg \in c.expect[k].accepts, e.answer = c.expect[k].routine,
         c.greed => \A i \in DOMAIN c.expect :
                      w.index <= i /\ i < k /\ e.arg \in c.expect[i].accepts
                        => w.chain.expect[i].call = c.expect[i].most
  PROVE  \E bt \in [DOMAIN Append(calls, e) -> DOMAIN c.expect] :
           Walked(c, Stepped(w, k), Append(calls, e), bt)
<1> DEFINE n == Len(calls)
           more == Append(calls, e)
           bt == [j \in DOMAIN more |-> IF j = n + 1 THEN k ELSE at[j]]
           v == Stepped(w, k)
<1>1. n \in Nat /\ DOMAIN calls = 1..n /\ (calls = <<>> <=> n = 0)
  BY CallsFacts
<1>2. /\ Len(more) = n + 1 /\ more # <<>> /\ DOMAIN more = 1..(n + 1)
      /\ \A j \in 1..n : more[j] = calls[j]
      /\ more[n + 1] = e
  BY <1>1, OneMore
<1>3. /\ Len(c.expect) \in Nat /\ DOMAIN c.expect = 1..Len(c.expect)
      /\ DOMAIN w.chain.expect = DOMAIN c.expect
  <2>1. w.chain \in Chain
    BY DEF Walker
  <2>2. QED
    BY <2>1, ChainFacts DEF Written
<1>4. /\ v.index = k
      /\ \A i \in DOMAIN c.expect : v.chain.expect[i].call = IF i = k THEN w.chain.expect[i].call + 1
                                                              ELSE w.chain.expect[i].call
  BY <1>3, SteppedFacts
<1> HIDE DEF more, v
<1>5. /\ bt \in [DOMAIN more -> DOMAIN c.expect]
      /\ \A j \in 1..n : bt[j] = at[j]
      /\ bt[n + 1] = k
  BY <1>1, <1>2
<1> HIDE DEF bt
<1>6. /\ \A j \in 1..n : /\ calls[j].arg \in c.expect[at[j]].accepts
                         /\ calls[j].answer = c.expect[at[j]].routine
                         /\ j > 1 => at[j - 1] <= at[j]
      /\ \A i \in DOMAIN c.expect : w.chain.expect[i].call = Cardinality({j \in 1..n : at[j] = i})
      /\ w.index = IF n = 0 THEN 1 ELSE at[n]
      /\ c.greed => Greedily(c, calls, at)
  BY <1>1 DEF Walked
<1>7. \A j \in 1..(n + 1) : /\ more[j].arg \in c.expect[bt[j]].accepts
                            /\ more[j].answer = c.expect[bt[j]].routine
  BY <1>1, <1>2, <1>5, <1>6
<1>8. ASSUME NEW j \in 1..(n + 1), j > 1
      PROVE  bt[j - 1] <= bt[j]
  <2>1. CASE j \in 1..n
    <3>1. j - 1 \in 1..n
      BY <1>1, <1>8, <2>1
    <3>2. QED
      BY <1>5, <1>6, <1>8, <2>1, <3>1
  <2>2. CASE j = n + 1
    <3>1. n \in 1..n /\ n # 0 /\ j - 1 = n
      BY <1>1, <1>8, <2>2
    <3>2. QED
      BY <1>5, <1>6, <2>2, <3>1
  <2>3. QED
    BY <1>1, <2>1, <2>2
<1>9. ASSUME NEW i \in DOMAIN c.expect
      PROVE  v.chain.expect[i].call = Cardinality({j \in DOMAIN more : bt[j] = i})
  <2> DEFINE S == {j \in 1..n : at[j] = i}
  <2>1. S \in SUBSET (1..n)
    OBVIOUS
  <2>2. CASE i = k
    <3>1. {j \in DOMAIN more : bt[j] = i} = S \cup {n + 1}
      BY <1>1, <1>2, <1>5, <2>2
    <3>2. Cardinality(S \cup {n + 1}) = Cardinality(S) + 1
      BY <1>1, <2>1, CountOne
    <3>3. QED
      BY <1>4, <1>6, <2>2, <3>1, <3>2
  <2>3. CASE i # k
    <3>1. {j \in DOMAIN more : bt[j] = i} = S
      BY <1>1, <1>2, <1>5, <2>3
    <3>2. QED
      BY <1>4, <1>6, <2>3, <3>1
  <2>4. QED
    BY <2>2, <2>3
<1>10. ASSUME c.greed PROVE Greedily(c, more, bt)
  <2>1. SUFFICES ASSUME NEW j \in 1..(n + 1), NEW i \in DOMAIN c.expect,
                        i < bt[j], j > 1 => bt[j - 1] <= i, more[j].arg \in c.expect[i].accepts
                 PROVE  Cardinality({l \in 1..(j - 1) : bt[l] = i}) = c.expect[i].most
    BY <1>2 DEF Greedily
  <2>2. {l \in 1..(j - 1) : bt[l] = i} = {l \in 1..(j - 1) : at[l] = i}
    <3>1. \A l \in 1..(j - 1) : l \in 1..n
      BY <1>1
    <3>2. QED
      BY <1>5, <3>1
  <2>3. CASE j \in 1..n
    <3>1. j > 1 => at[j - 1] <= i
      <4>1. j > 1 => j - 1 \in 1..n
        BY <1>1, <2>3
      <4>2. QED
        BY <1>5, <2>1, <4>1
    <3>2. i < at[j] /\ calls[j].arg \in c.expect[i].accepts
      BY <1>2, <1>5, <2>1, <2>3
    <3>3. Cardinality({l \in 1..(j - 1) : at[l] = i}) = c.expect[i].most
      BY <1>1, <1>6, <1>10, <2>3, <3>1, <3>2 DEF Greedily
    <3>4. QED
      BY <2>2, <3>3
  <2>4. CASE j = n + 1
    <3>1. i < k /\ e.arg \in c.expect[i].accepts
      BY <1>2, <1>5, <2>1, <2>4
    <3>2. w.index <= i
      <4>1. CASE n = 0
        BY <1>3, <1>6, <4>1
      <4>2. CASE n # 0
        <5>1. n \in 1..n /\ j > 1 /\ j - 1 = n
          BY <1>1, <2>4, <4>2
        <5>2. QED
          BY <1>5, <1>6, <2>1, <4>2, <5>1
      <4>3. QED
        BY <4>1, <4>2
    <3>3. w.chain.expect[i].call = c.expect[i].most
      BY <1>10, <3>1, <3>2
    <3>4. 1..(j - 1) = 1..n
      BY <1>1, <2>4
    <3>5. QED
      BY <1>6, <2>2, <3>3, <3>4
  <2>5. QED
    BY <1>1, <2>3, <2>4
<1>11. Walked(c, v, more, bt)
  <2>1. v.index = IF more = <<>> THEN 1 ELSE bt[Len(more)]
    BY <1>2, <1>4, <1>5
  <2>2. QED
    BY <1>2, <1>7, <1>8, <1>9, <1>10, <2>1 DEF Walked
<1>12. QED
  BY <1>5, <1>11 DEF more, v

(* What may go on was allowed so far. *)
LEMMA OpenBefore ==
  ASSUME NEW c \in Chain, NEW calls \in Seq(Made1), NEW e \in Made1,
         Open(c, Append(calls, e))
  PROVE  Open(c, calls)
<1> DEFINE n == Len(calls)
           more == Append(calls, e)
<1>1. n \in Nat /\ DOMAIN calls = 1..n
  BY CallsFacts
<1>2. DOMAIN more = 1..(n + 1) /\ \A j \in 1..n : more[j] = calls[j]
  BY <1>1, OneMore
<1>3. Len(c.expect) \in Nat /\ DOMAIN c.expect = 1..Len(c.expect)
      /\ \A i \in DOMAIN c.expect : c.expect[i].least \in Nat /\ c.expect[i].most \in Nat
  BY ChainFacts
<1> HIDE DEF more
<1>4. PICK bt \in [DOMAIN more -> DOMAIN c.expect] : Begun(c, more, bt)
  BY DEF Open, more
<1> DEFINE at == [j \in 1..n |-> bt[j]]
<1>5. at \in [DOMAIN calls -> DOMAIN c.expect] /\ \A j \in 1..n : at[j] = bt[j]
  BY <1>1, <1>2
<1> HIDE DEF at
<1>6. \A j \in 1..n : /\ calls[j].arg \in c.expect[at[j]].accepts
                      /\ j > 1 => at[j - 1] <= at[j]
  <2>1. ASSUME NEW j \in 1..n, j > 1 PROVE at[j - 1] <= at[j]
    <3>1. j - 1 \in 1..n /\ j \in 1..(n + 1)
      BY <1>1, <2>1
    <3>2. QED
      BY <1>2, <1>4, <1>5, <2>1, <3>1 DEF Begun
  <2>2. QED
    BY <1>1, <1>2, <1>4, <1>5, <2>1 DEF Begun
<1>7. ASSUME NEW i \in DOMAIN c.expect
      PROVE  /\ Cardinality({j \in 1..n : at[j] = i}) <= c.expect[i].most
             /\ (\E j \in 1..n : i < at[j]) =>
                  c.expect[i].least <= Cardinality({j \in 1..n : at[j] = i})
  <2> DEFINE S == {j \in 1..n : at[j] = i}
             T == {j \in DOMAIN more : bt[j] = i}
  <2>1. S \in SUBSET (1..n) /\ Cardinality(S) \in Nat
    BY <1>1, CountOne
  <2>2. T = IF bt[n + 1] = i THEN S \cup {n + 1} ELSE S
    BY <1>1, <1>2, <1>5
  <2>3. Cardinality(S \cup {n + 1}) = Cardinality(S) + 1
    BY <1>1, <2>1, CountOne
  <2>4. /\ Cardinality(T) <= c.expect[i].most
        /\ (\E j \in DOMAIN more : i < bt[j]) => c.expect[i].least <= Cardinality(T)
    BY <1>4 DEF Begun
  <2> HIDE DEF S, T
  <2>5. Cardinality(S) <= c.expect[i].most
    BY <1>3, <2>1, <2>2, <2>3, <2>4
  <2>6. ASSUME NEW j \in 1..n, i < at[j]
        PROVE  c.expect[i].least <= Cardinality(S)
    <3>1. j \in 1..(n + 1) /\ n + 1 \in 1..(n + 1) /\ j <= n + 1
      BY <1>1
    <3>2. /\ \A l \in 1..(n + 1) : bt[l] \in Nat
          /\ \A l \in 1..(n + 1) : l > 1 => bt[l - 1] <= bt[l]
      <4>1. \A l \in 1..(n + 1) : bt[l] \in DOMAIN c.expect
        BY <1>2, <1>4
      <4>2. \A l \in 1..(n + 1) : l > 1 => bt[l - 1] <= bt[l]
        BY <1>2, <1>4 DEF Begun
      <4>3. QED
        BY <1>3, <4>1, <4>2
    <3>3. bt[j] <= bt[n + 1]
      <4> HIDE DEF n
      <4>1. n + 1 \in Nat
        BY <1>1
      <4>2. QED
        BY <3>1, <3>2, <4>1, Rising
    <3>4. bt[n + 1] # i
      BY <1>3, <1>5, <2>6, <3>1, <3>2, <3>3
    <3>5. T = S /\ c.expect[i].least <= Cardinality(T)
      BY <1>2, <1>5, <2>2, <2>4, <2>6, <3>1, <3>4
    <3>6. QED
      BY <3>5
  <2>7. QED
    BY <2>5, <2>6 DEF S
<1>8. Begun(c, calls, at)
  BY <1>1, <1>6, <1>7 DEF Begun
<1>9. QED
  BY <1>5, <1>8 DEF Open

(* Calls that a chain allows are the beginning of such calls. *)
LEMMA DealtOpen ==
  ASSUME NEW c \in Chain, NEW calls \in Seq(Made1), Deals(c, calls) # {}
  PROVE  Open(c, calls)
<1>1. PICK at \in [DOMAIN calls -> DOMAIN c.expect] : Dealt(c, calls, at)
  BY DEF Deals
<1>2. \A i \in DOMAIN c.expect : c.expect[i].least \in Nat /\ c.expect[i].most \in Nat
  BY ChainFacts
<1>3. \A i \in DOMAIN c.expect :
        /\ Cardinality({j \in DOMAIN calls : at[j] = i}) <= c.expect[i].most
        /\ c.expect[i].least <= Cardinality({j \in DOMAIN calls : at[j] = i})
  BY <1>1, <1>2 DEF Dealt
<1>4. Begun(c, calls, at)
  BY <1>1, <1>3 DEF Dealt, Begun
<1>5. QED
  BY <1>4 DEF Open

(* Nothing to choose: calls are dealt to the only expectation there is.    *)
LEMMA NoChoice ==
  ASSUME NEW c \in Chain, NEW calls \in Seq(Made1), Distinct(c),
         NEW at \in [DOMAIN calls -> DOMAIN c.expect],
         \A j \in DOMAIN calls : calls[j].arg \in c.expect[at[j]].accepts,
         NEW i \in DOMAIN c.expect
  PROVE  {j \in DOMAIN calls : at[j] = i} = Accepted(c, calls, i)
<1>1. ASSUME NEW j \in DOMAIN calls, calls[j].arg \in c.expect[i].accepts
      PROVE  at[j] = i
  <2>1. at[j] \in DOMAIN c.expect
    OBVIOUS
  <2>2. QED
    BY <1>1, <2>1 DEF Distinct
<1>2. QED
  BY <1>1 DEF Accepted

(* A call that the mocker takes is counted where it belongs.               *)
LEMMA CountOn ==
  ASSUME NEW c \in Chain, NEW w \in Walker, Written(w.chain, c),
         NEW calls \in Seq(Made1), Counted(c, w, calls),
         NEW e \in Made1, NEW k \in DOMAIN c.expect, e.arg \in c.expect[k].accepts
  PROVE  Counted(c, Stepped(w, k), Append(calls, e))
<1> DEFINE n == Len(calls)
           more == Append(calls, e)
           v == Stepped(w, k)
<1>1. SUFFICES ASSUME Distinct(c), Open(c, more)
               PROVE  /\ \A i \in DOMAIN c.expect :
                           v.chain.expect[i].call = Cardinality(Accepted(c, more, i))
                      /\ more = <<>> => v.index = 1
                      /\ more # <<>> => more[Len(more)].arg \in c.expect[v.index].accepts
  BY DEF Counted
<1>2. n \in Nat /\ DOMAIN calls = 1..n
  BY CallsFacts
<1>3. /\ Len(more) = n + 1 /\ more # <<>> /\ DOMAIN more = 1..(n + 1)
      /\ \A j \in 1..n : more[j] = calls[j]
      /\ more[n + 1] = e
  BY <1>2, OneMore
<1>4. DOMAIN w.chain.expect = DOMAIN c.expect
  <2>1. w.chain \in Chain
    BY DEF Walker
  <2>2. QED
    BY <2>1, ChainFacts DEF Written
<1>5. /\ v.index = k
      /\ \A i \in DOMAIN c.expect : v.chain.expect[i].call = IF i = k THEN w.chain.expect[i].call + 1
                                                              ELSE w.chain.expect[i].call
  BY <1>4, SteppedFacts
<1>6. Open(c, calls)
  BY <1>1, OpenBefore
<1>7. \A i \in DOMAIN c.expect : w.chain.expect[i].call = Cardinality(Accepted(c, calls, i))
  BY <1>1, <1>6 DEF Counted
<1> HIDE DEF more, v
<1>8. ASSUME NEW i \in DOMAIN c.expect
      PROVE  v.chain.expect[i].call = Cardinality(Accepted(c, more, i))
  <2>1. Accepted(c, calls, i) \in SUBSET (1..n)
    BY <1>2 DEF Accepted
  <2>2. CASE i = k
    <3>1. Accepted(c, more, i) = Accepted(c, calls, i) \cup {n + 1}
      BY <1>2, <1>3, <2>2 DEF Accepted
    <3>2. Cardinality(Accepted(c, calls, i) \cup {n + 1}) = Cardinality(Accepted(c, calls, i)) + 1
      BY <1>2, <2>1, CountOne
    <3>3. QED
      BY <1>5, <1>7, <2>2, <3>1, <3>2
  <2>3. CASE i # k
    <3>1. e.arg \notin c.expect[i].accepts
      BY <1>1, <2>3 DEF Distinct
    <3>2. Accepted(c, more, i) = Accepted(c, calls, i)
      BY <1>2, <1>3, <3>1 DEF Accepted
    <3>3. QED
      BY <1>5, <1>7, <2>3, <3>2
  <2>4. QED
    BY <2>2, <2>3
<1>9. QED
  BY <1>3, <1>5, <1>8

(* A call that is reported is none the chain allows there.                 *)
LEMMA Closed ==
  ASSUME NEW c \in Chain, NEW w \in Walker, Written(w.chain, c), w.index \in DOMAIN c.expect \cup {1},
         NEW calls \in Seq(Made1), Counted(c, w, calls), Distinct(c),
         NEW e \in Made1,
         NEW A \in SUBSET DOMAIN c.expect,
         A = {i \in DOMAIN c.expect : i >= w.index /\ e.arg \in c.expect[i].accepts},
         \/ A = {}
         \/ \E i \in DOMAIN c.expect : /\ i >= w.index /\ ~Satisfied(w.chain.expect[i])
                                       /\ \A j \in A : i < j
  PROVE  ~Open(c, Append(calls, e))
<1> DEFINE n == Len(calls)
           more == Append(calls, e)
<1>1. SUFFICES ASSUME Open(c, more) PROVE FALSE
  OBVIOUS
<1>2. n \in Nat /\ DOMAIN calls = 1..n /\ (calls = <<>> <=> n = 0)
  BY CallsFacts
<1>3. /\ DOMAIN more = 1..(n + 1) /\ more \in Seq(Made1)
      /\ \A j \in 1..n : more[j] = calls[j]
      /\ more[n + 1] = e
  BY <1>2, OneMore
<1>4. Open(c, calls)
  BY <1>1, OpenBefore
<1>5. /\ \A i \in DOMAIN c.expect : w.chain.expect[i].call = Cardinality(Accepted(c, calls, i))
      /\ calls = <<>> => w.index = 1
      /\ calls # <<>> => calls[n].arg \in c.expect[w.index].accepts
  BY <1>4 DEF Counted
<1>6. PICK bt \in [DOMAIN more -> DOMAIN c.expect] : Begun(c, more, bt)
  BY <1>1 DEF Open
<1> HIDE DEF more
<1>7. Len(c.expect) \in Nat /\ DOMAIN c.expect = 1..Len(c.expect)
  BY ChainFacts
<1> DEFINE p == bt[n + 1]
<1>8. p \in DOMAIN c.expect /\ e.arg \in c.expect[p].accepts
  <2>1. n + 1 \in DOMAIN more
    BY <1>2, <1>3
  <2>2. QED
    BY <1>3, <1>6, <2>1 DEF Begun
<1>9. w.index <= p
  <2>1. CASE n = 0
    BY <1>2, <1>5, <1>7, <1>8, <2>1
  <2>2. CASE n # 0
    <3>1. n \in 1..n /\ n \in DOMAIN more /\ n + 1 \in DOMAIN more /\ n + 1 > 1 /\ (n + 1) - 1 = n
      BY <1>2, <1>3, <2>2
    <3>2. bt[n] <= p /\ bt[n] \in DOMAIN c.expect /\ calls[n].arg \in c.expect[bt[n]].accepts
      BY <1>3, <1>6, <3>1 DEF Begun
    <3>3. calls[n].arg \in c.expect[w.index].accepts
      BY <1>2, <1>5, <2>2
    <3>4. w.index \in DOMAIN c.expect
      BY <1>7, <1>8
    <3>5. bt[n] = w.index
      BY <1>7, <3>2, <3>3, <3>4 DEF Distinct
    <3>6. QED
      BY <3>2, <3>5
  <2>3. QED
    BY <2>1, <2>2
<1>10. p \in A
  BY <1>7, <1>8, <1>9
<1>11. PICK i \in DOMAIN c.expect : /\ i >= w.index /\ ~Satisfied(w.chain.expect[i])
                                    /\ \A j \in A : i < j
  BY <1>10
<1>12. i < p
  BY <1>10, <1>11
<1>13. e.arg \notin c.expect[i].accepts
  BY <1>7, <1>8, <1>11, <1>12 DEF Distinct
<1>14. {j \in DOMAIN more : bt[j] = i} = Accepted(c, more, i)
  <2>1. \A j \in DOMAIN more : more[j].arg \in c.expect[bt[j]].accepts
    BY <1>6 DEF Begun
  <2>2. more \in Seq(Made1)
    BY <1>3
  <2>3. QED
    BY <2>1, <2>2, NoChoice
<1>15. Accepted(c, more, i) = Accepted(c, calls, i)
  BY <1>2, <1>3, <1>13 DEF Accepted
<1>16. /\ w.chain.expect[i].call <= c.expect[i].most
       /\ c.expect[i].least <= w.chain.expect[i].call
  <2>1. n + 1 \in DOMAIN more /\ i < bt[n + 1]
    BY <1>2, <1>3, <1>12
  <2>2. QED
    BY <1>5, <1>6, <1>14, <1>15, <2>1 DEF Begun
<1>17. Satisfied(w.chain.expect[i])
  <2>1. w.chain \in Chain /\ DOMAIN w.chain.expect = DOMAIN c.expect
    BY ChainFacts DEF Walker, Written
  <2>2. w.chain.expect[i].least = c.expect[i].least /\ w.chain.expect[i].most = c.expect[i].most
    BY <2>1 DEF Written
  <2>3. QED
    BY <1>16, <2>2 DEF Satisfied
<1>18. QED
  BY <1>11, <1>17

---------------------------------------------------------------------------
LEMMA StateFacts ==
  ASSUME MockTypeOK, ListInv, phase # "ended", NEW m \in DOMAIN log
  PROVE  /\ m \in Mocker /\ mocker[m] \in Walker /\ text[m] \in Chain /\ log[m] \in Seq(Made1)
         /\ mocker[m].chain \in Chain
         /\ mocker[m].listed /\ Written(mocker[m].chain, text[m])
         /\ DOMAIN mocker[m].chain.expect = DOMAIN text[m].expect
         /\ mocker[m].index \in DOMAIN text[m].expect \cup {1}
<1>1. m \in Mocker /\ mocker[m] \in Walker /\ text[m] \in Chain /\ log[m] \in Seq(Made1)
  BY DEF MockTypeOK, Walker, Made1
<1>2. mocker[m].chain \in Chain
  BY <1>1 DEF Walker
<1>3. mocker[m].listed /\ Written(mocker[m].chain, text[m])
  BY <1>1 DEF ListInv
<1>4. DOMAIN mocker[m].chain.expect = DOMAIN text[m].expect
      /\ DOMAIN text[m].expect = 1..Len(mocker[m].chain.expect)
  BY <1>1, <1>2, <1>3, ChainFacts DEF Written
<1>5. mocker[m].index \in DOMAIN text[m].expect \cup {1}
  BY <1>1, <1>4 DEF MockTypeOK
<1>6. QED
  BY <1>1, <1>2, <1>3, <1>4, <1>5

LEMMA TextFacts ==
  ASSUME MockTypeOK, text \in Text, NEW m \in Mocker
  PROVE  /\ text[m] \in Chain
         /\ \A i \in DOMAIN text[m].expect : text[m].expect[i].call = 0
BY MockAssumption DEF MockTypeOK

(* While there is room for a call, every mocker has room for one. *)
LEMMA Room ==
  ASSUME MockTypeOK, BoundInv, Cardinality(Made) < MaxCall, NEW m \in DOMAIN log
  PROVE  Len(log[m]) < MaxCall
<1>1. /\ m \in Mocker /\ MaxCall \in Nat
      /\ Len(log[m]) \in Nat /\ DOMAIN log[m] = 1..Len(log[m]) /\ Len(log[m]) <= MaxCall
  <2>1. m \in Mocker /\ log[m] \in Seq(Made1)
    BY DEF MockTypeOK, Made1
  <2>2. MaxCall \in Nat
    BY MockAssumption, IntMaxNat
  <2>3. QED
    BY <2>1, <2>2, CallsFacts DEF BoundInv
<1> DEFINE n == Len(log[m])
<1>2. SUFFICES ASSUME n = MaxCall PROVE FALSE
  <2>1. n \in Nat /\ n <= MaxCall /\ MaxCall \in Nat
    BY <1>1
  <2> HIDE DEF n
  <2>2. n # MaxCall => n < MaxCall
    BY <2>1
  <2>3. QED
    BY <1>2, <2>2 DEF n
<1>3. IsFiniteSet(1..MaxCall) /\ Cardinality(1..MaxCall) = MaxCall
  BY <1>1, FS_Interval
<1>4. IsFiniteSet(Made)
  <2>1. IsFiniteSet(Mocker \X (1..MaxCall))
    BY <1>3, FS_Product, MockAssumption
  <2>2. Made \in SUBSET (Mocker \X (1..MaxCall))
    BY DEF Made
  <2>3. QED
    BY <2>1, <2>2, FS_Subset
<1>5. IsFiniteSet({m}) /\ Cardinality({m}) = 1
  BY FS_Singleton
<1>6. Cardinality({m} \X (1..MaxCall)) = MaxCall
  <2>1. Cardinality({m} \X (1..MaxCall)) = 1 * MaxCall
    BY <1>3, <1>5, FS_Product
  <2>2. QED
    BY <1>1, <2>1
<1>7. {m} \X (1..MaxCall) \in SUBSET Made
  BY <1>1, <1>2 DEF Made
<1>8. MaxCall <= Cardinality(Made)
  BY <1>4, <1>6, <1>7, FS_Subset
<1>9. Cardinality(Made) \in Nat
  BY <1>4, FS_CardinalityType
<1>10. QED
  BY <1>1, <1>8, <1>9

---------------------------------------------------------------------------
(* text is what it was at the beginning. *)
TextInv == text \in Text

LEMMA InitStep == MockInit => MockInv /\ TextInv /\ PassMeansExpected /\ EarliestAnswers
<1> SUFFICES ASSUME MockInit
             PROVE  MockInv /\ TextInv /\ PassMeansExpected /\ EarliestAnswers
  OBVIOUS
<1>1. text \in [Mocker -> Chain] /\ text \in Text
  BY MockAssumption DEF MockInit
<1>2. Fresh \in Chain /\ [chain |-> Fresh, index |-> 1, listed |-> FALSE] \in Walker
  <2>1. <<>> \in Seq(Expectation)
    BY EmptySeq
  <2>2. QED
    BY <2>1 DEF Fresh, Chain, Walker
<1>3. MockTypeOK
  <2>1. mocker \in [Mocker -> Walker] /\ \A m \in Mocker : mocker[m].index = 1
    BY <1>2 DEF MockInit
  <2>2. DOMAIN log = {}
    BY DEF MockInit
  <2>3. QED
    BY <1>1, <2>1, <2>2 DEF MockInit, MockTypeOK, Walker
<1>4. DOMAIN log = {}
  BY DEF MockInit
<1>5. ListInv /\ BoundInv /\ WalkInv /\ DistinctInv
  BY <1>4 DEF MockInit, ListInv, BoundInv, WalkInv, DistinctInv
<1>6. phase = "body" /\ ~failed
  BY DEF MockInit
<1>7. BlameInv /\ ExpectedPasses /\ PassMeansExpected /\ EarliestAnswers
  BY <1>6 DEF BlameInv, ExpectedPasses, PassMeansExpected, EarliestAnswers
<1>8. QED
  BY <1>1, <1>3, <1>5, <1>7 DEF MockInv, TextInv

LEMMA BeginStep ==
  ASSUME MockInv, Begin PROVE MockInv'
<1>1. DOMAIN log' = {} /\ phase = "ended" /\ phase' = "body" /\ ~failed' /\ ~lost'
  BY DEF Begin
<1>2. patched = Nobody /\ \A m \in Mocker : ~mocker[m].listed
  <2>1. patched = Nobody
    BY <1>1 DEF MockInv, ListInv
  <2>2. \A m \in Mocker : mocker[m].listed <=> FALSE
    BY <1>1 DEF MockInv, ListInv
  <2>3. QED
    BY <2>1, <2>2
<1>3. UNCHANGED <<text, continue_assert, mocker, patched>>
  BY DEF Begin, given
<1>4. MockTypeOK'
  <2>1. phase' \in {"body", "left", "ended"} /\ failed' \in BOOLEAN /\ lost' \in BOOLEAN
    BY <1>1 DEF Begin
  <2>2. DOMAIN log' \subseteq Mocker /\ \A m \in DOMAIN log' : log'[m] \in Seq(Made1)
    BY <1>1
  <2>3. QED
    BY <1>3, <2>1, <2>2 DEF MockInv, MockTypeOK, Made1
<1>5. ListInv'
  <2>1. \A m \in Mocker : mocker'[m].listed <=> (phase' # "ended" /\ m \in DOMAIN log')
    BY <1>1, <1>2, <1>3
  <2>2. QED
    BY <1>1, <1>2, <1>3, <2>1 DEF ListInv
<1>6. BoundInv' /\ WalkInv' /\ DistinctInv' /\ BlameInv' /\ ExpectedPasses'
  BY <1>1 DEF BoundInv, WalkInv, DistinctInv, BlameInv, ExpectedPasses
<1>7. QED
  BY <1>4, <1>5, <1>6 DEF MockInv

LEMMA UnMockStep ==
  ASSUME MockInv, UnMock PROVE MockInv'
<1>1. UNCHANGED <<text, continue_assert, phase, mocker, failed, log, lost>> /\ patched' = Nobody
  BY DEF UnMock, given
<1>2. MockTypeOK'
  BY <1>1 DEF MockInv, MockTypeOK
<1>3. ListInv' /\ BoundInv'
  BY <1>1 DEF MockInv, ListInv, BoundInv
<1>4. WalkInv' /\ DistinctInv' /\ BlameInv' /\ ExpectedPasses'
  BY <1>1 DEF MockInv, WalkInv, DistinctInv, BlameInv, ExpectedPasses
<1>5. QED
  BY <1>2, <1>3, <1>4 DEF MockInv

LEMMA StutterStep ==
  ASSUME MockInv, UNCHANGED mockVars PROVE MockInv'
<1>1. UNCHANGED <<text, continue_assert, phase, mocker, patched, failed, log, lost>>
  BY DEF mockVars, given
<1>2. MockTypeOK'
  BY <1>1 DEF MockInv, MockTypeOK
<1>3. ListInv' /\ BoundInv'
  BY <1>1 DEF MockInv, ListInv, BoundInv
<1>4. WalkInv' /\ DistinctInv' /\ BlameInv' /\ ExpectedPasses'
  BY <1>1 DEF MockInv, WalkInv, DistinctInv, BlameInv, ExpectedPasses
<1>5. QED
  BY <1>2, <1>3, <1>4 DEF MockInv

(* A chain as written has been walked by no call. *)
LEMMA Unwalked ==
  ASSUME NEW c \in Chain, \A i \in DOMAIN c.expect : c.expect[i].call = 0
  PROVE  LET w == [chain |-> c, index |-> 1, listed |-> TRUE]
         IN  /\ w \in Walker /\ Written(w.chain, c) /\ Counted(c, w, <<>>)
             /\ \E at \in [DOMAIN <<>> -> DOMAIN c.expect] : Walked(c, w, <<>>, at)
<1> DEFINE w == [chain |-> c, index |-> 1, listed |-> TRUE]
           none == <<>>
           at == [j \in DOMAIN none |-> j]
<1>1. w \in Walker /\ Written(w.chain, c)
  BY DEF Walker, Written
<1>2. none \in Seq(Made1) /\ Len(none) = 0 /\ DOMAIN none = {}
  BY EmptySeq, LenProperties
<1>3. Cardinality({}) = 0
  BY FS_EmptySet
<1> HIDE DEF none
<1>4. Counted(c, w, none)
  <2>1. \A i \in DOMAIN c.expect : Accepted(c, none, i) = {}
    BY <1>2 DEF Accepted
  <2>2. none = <<>>
    BY DEF none
  <2>3. \A i \in DOMAIN c.expect : w.chain.expect[i].call = Cardinality(Accepted(c, none, i))
    BY <1>3, <2>1
  <2>4. QED
    BY <2>2, <2>3 DEF Counted
<1>5. at \in [DOMAIN none -> DOMAIN c.expect]
  BY <1>2
<1> HIDE DEF at
<1>6. Walked(c, w, none, at)
  <2>1. \A i \in DOMAIN c.expect : {j \in DOMAIN none : at[j] = i} = {}
    BY <1>2
  <2>2. \A i \in DOMAIN c.expect : w.chain.expect[i].call = Cardinality({j \in DOMAIN none : at[j] = i})
    BY <1>3, <2>1
  <2>3. none = <<>>
    BY DEF none
  <2>4. Greedily(c, none, at)
    BY <1>2 DEF Greedily
  <2>5. QED
    BY <1>2, <2>2, <2>3, <2>4 DEF Walked
<1>7. QED
  BY <1>1, <1>4, <1>5, <1>6 DEF none

LEMMA SetStep ==
  ASSUME MockInv, TextInv, NEW m \in Mocker, Set(m) PROVE MockInv'
<1> DEFINE w == [chain |-> text[m], index |-> 1, listed |-> TRUE]
<1>1. /\ phase = "body" /\ patched' = m /\ lost' = (lost \/ (mocker[m].listed /\ Deals(text[m], log[m]) = {}))
      /\ UNCHANGED <<text, continue_assert, phase, failed>>
  BY DEF Set, given
<1>2. MockTypeOK /\ ListInv /\ BoundInv /\ WalkInv /\ DistinctInv /\ BlameInv
  BY DEF MockInv
<1>3. text[m] \in Chain /\ \A i \in DOMAIN text[m].expect : text[m].expect[i].call = 0
  BY <1>2, TextFacts DEF TextInv
<1>4. /\ DOMAIN log' = DOMAIN log \cup {m} /\ log'[m] = <<>>
      /\ \A n \in DOMAIN log : n # m => log'[n] = log[n]
  BY DEF Set
<1>5. /\ mocker' \in [Mocker -> Walker] /\ mocker'[m] = w
      /\ \A n \in Mocker : n # m => mocker'[n] = mocker[n]
  <2>1. w \in Walker
    BY <1>3, Unwalked
  <2>2. QED
    BY <1>2, <2>1 DEF Set, MockTypeOK, Walker
<1>6. \A n \in DOMAIN log' : n # m => n \in DOMAIN log /\ n \in Mocker
  BY <1>2, <1>4 DEF MockTypeOK
<1>7. <<>> \in Seq(Made1) /\ Len(<<>>) = 0 /\ MaxCall \in Nat
  <2>1. MaxCall \in Nat
    BY MockAssumption, IntMaxNat
  <2>2. <<>> \in Seq(Made1) /\ Len(<<>>) = 0
    BY EmptySeq
  <2>3. QED
    BY <2>1, <2>2
<1>8. MockTypeOK'
  <2>1. \A n \in Mocker : mocker'[n].index \in 1..Len(mocker'[n].chain.expect) \cup {1}
    BY <1>2, <1>5 DEF MockTypeOK
  <2>2. DOMAIN log' \subseteq Mocker /\ \A n \in DOMAIN log' : log'[n] \in Seq(Made1)
    BY <1>2, <1>4, <1>6, <1>7 DEF MockTypeOK, Made1
  <2>3. lost' \in BOOLEAN
    BY <1>1
  <2>4. text' \in [Mocker -> Chain] /\ continue_assert' \in BOOLEAN
        /\ phase' \in {"body", "left", "ended"} /\ patched' \in Mocker \cup {Nobody} /\ failed' \in BOOLEAN
    BY <1>1, <1>2 DEF MockTypeOK
  <2>5. QED
    BY <1>5, <2>1, <2>2, <2>3, <2>4 DEF MockTypeOK, Made1, Walker
<1>9. ListInv'
  <2>1. \A n \in Mocker : mocker'[n].listed <=> phase' # "ended" /\ n \in DOMAIN log'
    BY <1>1, <1>2, <1>4, <1>5 DEF ListInv
  <2>2. \A n \in DOMAIN log' : Written(mocker'[n].chain, text'[n])
    <3>1. Written(mocker'[m].chain, text'[m])
      BY <1>1, <1>3, <1>5, Unwalked
    <3>2. QED
      BY <1>1, <1>2, <1>5, <1>6, <3>1 DEF ListInv
  <2>3. QED
    BY <1>1, <1>4, <2>1, <2>2 DEF ListInv
<1>10. BoundInv'
  <2>1. \A n \in DOMAIN log' : Len(log'[n]) <= MaxCall
    BY <1>2, <1>4, <1>6, <1>7 DEF BoundInv
  <2>2. ASSUME NEW n \in DOMAIN log', NEW i \in DOMAIN mocker'[n].chain.expect
        PROVE  mocker'[n].chain.expect[i].call <= Len(log'[n])
    <3>1. CASE n = m
      <4>1. mocker'[n].chain.expect[i].call = 0
        BY <1>3, <1>5, <2>2, <3>1
      <4>2. Len(log'[n]) = 0
        BY <1>4, <1>7, <3>1
      <4>3. QED
        BY <4>1, <4>2
    <3>2. CASE n # m
      BY <1>1, <1>2, <1>4, <1>5, <1>6, <2>2, <3>2 DEF BoundInv
    <3>3. QED
      BY <3>1, <3>2
  <2>3. QED
    BY <2>1, <2>2 DEF BoundInv
<1>11. WalkInv'
  <2>1. SUFFICES ASSUME ~failed', NEW n \in DOMAIN log'
                 PROVE  \E at \in [DOMAIN log'[n] -> DOMAIN text'[n].expect] :
                          Walked(text'[n], mocker'[n], log'[n], at)
    BY DEF WalkInv
  <2>2. CASE n = m
    BY <1>1, <1>3, <1>4, <1>5, <2>2, Unwalked
  <2>3. CASE n # m
    BY <1>1, <1>2, <1>4, <1>5, <1>6, <2>1, <2>3 DEF WalkInv
  <2>4. QED
    BY <2>2, <2>3
<1>12. DistinctInv'
  <2>1. SUFFICES ASSUME NEW n \in DOMAIN log' PROVE Counted(text'[n], mocker'[n], log'[n])
    BY DEF DistinctInv
  <2>2. CASE n = m
    BY <1>1, <1>3, <1>4, <1>5, <2>2, Unwalked
  <2>3. CASE n # m
    BY <1>1, <1>2, <1>4, <1>5, <1>6, <2>1, <2>3 DEF DistinctInv
  <2>4. QED
    BY <2>2, <2>3
<1>13. BlameInv'
  <2>1. SUFFICES ASSUME failed, ~lost'
                 PROVE  \E n \in DOMAIN log' : ~Distinct(text'[n]) \/ ~Open(text'[n], log'[n])
    BY <1>1 DEF BlameInv
  <2>2. PICK n \in DOMAIN log : ~Distinct(text[n]) \/ ~Open(text[n], log[n])
    BY <1>1, <1>2, <2>1 DEF BlameInv
  <2>3. CASE n # m
    BY <1>1, <1>4, <2>2, <2>3
  <2>4. CASE n = m
    <3>1. mocker[m].listed /\ log[m] \in Seq(Made1)
      BY <1>1, <1>2, <2>4, StateFacts
    <3>2. Deals(text[m], log[m]) # {}
      BY <1>1, <2>1, <3>1
    <3>3. Open(text[m], log[m])
      BY <1>3, <3>1, <3>2, DealtOpen
    <3>4. QED
      BY <1>1, <1>4, <2>2, <2>4, <3>3
  <2>5. QED
    BY <2>3, <2>4
<1>14. ExpectedPasses'
  BY <1>1 DEF ExpectedPasses
<1>15. QED
  BY <1>8, <1>9, <1>10, <1>11, <1>12, <1>13, <1>14 DEF MockInv

---------------------------------------------------------------------------
LEMMA LogOn ==
  ASSUME MockTypeOK, BoundInv, NEW m \in DOMAIN log, Len(log[m]) < MaxCall,
         NEW a \in Argument, NEW r \in Routine \cup {Original}, Answered(m, a, r)
  PROVE  /\ [arg |-> a, answer |-> r] \in Made1
         /\ DOMAIN log' = DOMAIN log
         /\ log'[m] = Append(log[m], [arg |-> a, answer |-> r])
         /\ \A n \in DOMAIN log : n # m => log'[n] = log[n]
         /\ \A n \in DOMAIN log' :
              n \in Mocker /\ log'[n] \in Seq(Made1) /\ Len(log'[n]) <= MaxCall
         /\ Len(log'[m]) = Len(log[m]) + 1
<1> DEFINE e == [arg |-> a, answer |-> r]
<1>1. e \in Made1 /\ MaxCall \in Nat
  BY MockAssumption, IntMaxNat DEF Made1
<1>2. \A n \in DOMAIN log : n \in Mocker /\ log[n] \in Seq(Made1) /\ Len(log[n]) <= MaxCall
  BY DEF MockTypeOK, Made1, BoundInv
<1>3. Len(log[m]) \in Nat
  BY <1>2, CallsFacts
<1> HIDE DEF e
<1>4. Append(log[m], e) \in Seq(Made1) /\ Len(Append(log[m], e)) = Len(log[m]) + 1
  BY <1>1, <1>2, OneMore
<1>5. /\ DOMAIN log' = DOMAIN log /\ log'[m] = Append(log[m], e)
      /\ \A n \in DOMAIN log : n # m => log'[n] = log[n]
  BY DEF Answered, e
<1>6. Len(log[m]) + 1 <= MaxCall
  BY <1>1, <1>3
<1>7. \A n \in DOMAIN log' : n \in Mocker /\ log'[n] \in Seq(Made1) /\ Len(log'[n]) <= MaxCall
  BY <1>2, <1>4, <1>5, <1>6
<1>8. QED
  BY <1>1, <1>4, <1>5, <1>7 DEF e

(* What the refused or unsatisfied call at m says of the chain. *)
LEMMA ReportedCloses ==
  ASSUME MockInv, phase = "body", NEW m \in DOMAIN log, NEW a \in Argument,
         NEW r \in Routine \cup {Original},
         Refusing(m, a) # {} \/ Accepting(m, a) = {}
  PROVE  \/ ~Distinct(text[m])
         \/ ~Open(text[m], Append(log[m], [arg |-> a, answer |-> r]))
<1> DEFINE e == [arg |-> a, answer |-> r]
           c == text[m]
           w == mocker[m]
<1>1. SUFFICES ASSUME Distinct(c) PROVE ~Open(c, Append(log[m], e))
  OBVIOUS
<1>2. /\ m \in Mocker /\ w \in Walker /\ c \in Chain /\ log[m] \in Seq(Made1)
      /\ Written(w.chain, c) /\ DOMAIN w.chain.expect = DOMAIN c.expect
      /\ w.index \in DOMAIN c.expect \cup {1}
  BY StateFacts DEF MockInv
<1>3. Counted(c, w, log[m])
  BY DEF MockInv, DistinctInv
<1>4. e \in Made1 /\ e.arg = a
  BY DEF Made1
<1> DEFINE A == {i \in DOMAIN c.expect : i >= w.index /\ e.arg \in c.expect[i].accepts}
<1>5. A = Accepting(m, a)
  <2>1. \A i \in DOMAIN c.expect : w.chain.expect[i].accepts = c.expect[i].accepts
    BY <1>2 DEF Written
  <2>2. QED
    BY <1>2, <1>4, <2>1 DEF Accepting
<1>6. \/ A = {}
      \/ \E i \in DOMAIN c.expect : /\ i >= w.index /\ ~Satisfied(w.chain.expect[i])
                                    /\ \A j \in A : i < j
  BY <1>2, <1>5 DEF Refusing
<1>7. A \in SUBSET DOMAIN c.expect
  OBVIOUS
<1> HIDE DEF e, c, w
<1>8. QED
  BY <1>1, <1>2, <1>3, <1>4, <1>6, <1>7, Closed

LEMMA ExpectedStep ==
  ASSUME MockInv, phase = "body", NEW m \in DOMAIN log, Len(log[m]) < MaxCall,
         NEW a \in Argument, Expected(m, a)
  PROVE  MockInv'
<1> DEFINE c == text[m]
           w == mocker[m]
           k == Taken(m, a)
           r == w.chain.expect[k].routine
           e == [arg |-> a, answer |-> r]
<1>1. /\ MockTypeOK /\ ListInv /\ BoundInv /\ WalkInv /\ DistinctInv /\ BlameInv
      /\ phase # "ended"
  BY DEF MockInv
<1>2. /\ m \in Mocker /\ w \in Walker /\ c \in Chain /\ log[m] \in Seq(Made1)
      /\ w.chain \in Chain
      /\ Written(w.chain, c) /\ DOMAIN w.chain.expect = DOMAIN c.expect
  BY <1>1, StateFacts
<1>3. /\ Accepting(m, a) # {} /\ Count(m, k) /\ Answered(m, a, r)
      /\ failed' = (failed \/ Refusing(m, a) # {})
      /\ UNCHANGED <<text, continue_assert, phase, patched, lost>>
  BY DEF Expected, given
<1>4. /\ k \in Accepting(m, a)
      /\ \A i \in Accepting(m, a) : i < k => Passes(w.chain, i)
  BY <1>1, <1>2, <1>3, TakenFacts
<1>5. k \in DOMAIN c.expect /\ k >= w.index /\ a \in c.expect[k].accepts
      /\ k \in DOMAIN w.chain.expect /\ r = c.expect[k].routine
      /\ r \in Routine \cup {Original}
  <2>1. k \in DOMAIN c.expect /\ k >= w.index /\ a \in w.chain.expect[k].accepts
    BY <1>2, <1>4 DEF Accepting
  <2>2. QED
    BY <1>2, <2>1, ChainFacts DEF Written
<1>6. /\ e \in Made1 /\ DOMAIN log' = DOMAIN log /\ log'[m] = Append(log[m], e)
      /\ \A n \in DOMAIN log : n # m => log'[n] = log[n]
      /\ \A n \in DOMAIN log' : n \in Mocker /\ log'[n] \in Seq(Made1) /\ Len(log'[n]) <= MaxCall
      /\ Len(log'[m]) = Len(log[m]) + 1 /\ Len(log[m]) \in Nat
  BY <1>1, <1>2, <1>3, <1>5, LogOn, CallsFacts
<1>7. e.arg = a /\ e.answer = r
  OBVIOUS
<1> HIDE DEF c, w, k, r, e
<1>8. /\ mocker' = [mocker EXCEPT ![m] = Stepped(w, k)]
      /\ mocker'[m] = Stepped(w, k) /\ \A n \in Mocker : n # m => mocker'[n] = mocker[n]
  BY <1>1, <1>2, <1>3 DEF Count, Stepped, MockTypeOK, w
<1> DEFINE v == Stepped(w, k)
<1>9. /\ v.index = k /\ v.listed = w.listed /\ v.chain.greed = w.chain.greed
      /\ DOMAIN v.chain.expect = DOMAIN w.chain.expect
      /\ Len(v.chain.expect) = Len(w.chain.expect)
      /\ \A i \in DOMAIN w.chain.expect :
           /\ v.chain.expect[i].least = w.chain.expect[i].least
           /\ v.chain.expect[i].most = w.chain.expect[i].most
           /\ v.chain.expect[i].accepts = w.chain.expect[i].accepts
           /\ v.chain.expect[i].routine = w.chain.expect[i].routine
           /\ v.chain.expect[i].call = IF i = k THEN w.chain.expect[i].call + 1
                                       ELSE w.chain.expect[i].call
  BY <1>2, <1>5, SteppedFacts
<1>10. /\ \A i \in DOMAIN w.chain.expect : w.chain.expect[i].call \in Nat
       /\ \A i \in DOMAIN w.chain.expect : w.chain.expect[i].call <= Len(log[m])
  BY <1>1, <1>2, ChainFacts DEF BoundInv, w
<1>11. v \in Walker
  <2>1. w.chain.expect[k].call + 1 <= IntMax
    <3>1. Len(log[m]) + 1 <= MaxCall /\ MaxCall \in Nat /\ MaxCall <= IntMax /\ IntMax \in Nat
      BY <1>6, MockAssumption, IntMaxNat
    <3>2. w.chain.expect[k].call \in Nat /\ w.chain.expect[k].call <= Len(log[m])
      BY <1>5, <1>10
    <3>3. QED
      BY <1>6, <3>1, <3>2
  <2>2. QED
    BY <1>2, <1>5, <2>1, SteppedFacts
<1> HIDE DEF v
<1>12. mocker' \in [Mocker -> Walker] /\ mocker'[m] = v
  BY <1>1, <1>8, <1>11 DEF MockTypeOK, Walker, v
<1>13. MockTypeOK'
  <2>1. \A n \in Mocker : mocker'[n].index \in 1..Len(mocker'[n].chain.expect) \cup {1}
    <3>1. DOMAIN w.chain.expect = 1..Len(w.chain.expect)
      BY <1>2, ChainFacts
    <3>2. v.index \in 1..Len(v.chain.expect)
      BY <1>5, <1>9, <3>1
    <3>3. QED
      BY <1>1, <1>8, <1>12, <3>2 DEF MockTypeOK
  <2>2. DOMAIN log' \subseteq Mocker /\ \A n \in DOMAIN log' : log'[n] \in Seq(Made1)
    BY <1>6
  <2>3. text' \in [Mocker -> Chain] /\ continue_assert' \in BOOLEAN
        /\ phase' \in {"body", "left", "ended"} /\ patched' \in Mocker \cup {Nobody}
        /\ lost' \in BOOLEAN
    BY <1>1, <1>3 DEF MockTypeOK
  <2>4. failed' \in BOOLEAN
    BY <1>3
  <2>5. QED
    BY <1>12, <2>1, <2>2, <2>3, <2>4 DEF MockTypeOK, Made1, Walker
<1>14. ListInv'
  <2>1. \A n \in Mocker : mocker'[n].listed = mocker[n].listed
    BY <1>8, <1>9, <1>12 DEF w
  <2>2. Written(v.chain, c)
    BY <1>2, <1>9 DEF Written
  <2>3. \A n \in DOMAIN log : Written(mocker'[n].chain, text[n])
    <3>1. \A n \in DOMAIN log : n # m => Written(mocker'[n].chain, text[n])
      BY <1>1, <1>6, <1>8 DEF ListInv
    <3>2. QED
      BY <1>12, <2>2, <3>1 DEF c
  <2>4. \A n \in Mocker : mocker'[n].listed <=> phase' # "ended" /\ n \in DOMAIN log'
    BY <1>1, <1>3, <1>6, <2>1 DEF ListInv
  <2>5. patched' # Nobody => phase' # "ended" /\ patched' \in DOMAIN log'
    BY <1>1, <1>3, <1>6 DEF ListInv
  <2>6. QED
    BY <1>3, <1>6, <2>3, <2>4, <2>5 DEF ListInv
<1>15. BoundInv'
  <2>1. ASSUME NEW n \in DOMAIN log', NEW i \in DOMAIN mocker'[n].chain.expect
        PROVE  mocker'[n].chain.expect[i].call <= Len(log'[n])
    <3>1. CASE n = m
      <4>1. i \in DOMAIN w.chain.expect
        BY <1>9, <1>12, <2>1, <3>1
      <4>2. v.chain.expect[i].call <= Len(log[m]) + 1
        <5>1. /\ w.chain.expect[i].call \in Nat /\ w.chain.expect[i].call <= Len(log[m])
              /\ Len(log[m]) \in Nat
          BY <1>6, <1>10, <4>1
        <5>2. \/ v.chain.expect[i].call = w.chain.expect[i].call + 1
              \/ v.chain.expect[i].call = w.chain.expect[i].call
          BY <1>9, <4>1
        <5>3. QED
          BY <5>1, <5>2
      <4>3. QED
        BY <1>6, <1>12, <3>1, <4>2
    <3>2. CASE n # m
      BY <1>1, <1>6, <1>8, <2>1, <3>2 DEF BoundInv
    <3>3. QED
      BY <3>1, <3>2
  <2>2. QED
    BY <1>6, <2>1 DEF BoundInv
<1>16. DistinctInv'
  <2>1. Counted(c, v, log'[m])
    <3>1. Counted(c, w, log[m])
      BY <1>1 DEF DistinctInv, c, w
    <3>2. Counted(c, Stepped(w, k), Append(log[m], e))
      BY <1>2, <1>5, <1>6, <1>7, <3>1, CountOn
    <3>3. QED
      BY <1>6, <3>2 DEF v
  <2>2. \A n \in DOMAIN log' : n # m => Counted(text[n], mocker'[n], log'[n])
    BY <1>1, <1>6, <1>8 DEF DistinctInv
  <2>3. \A n \in DOMAIN log' : Counted(text'[n], mocker'[n], log'[n])
    BY <1>3, <1>12, <2>1, <2>2 DEF c
  <2>4. QED
    BY <2>3 DEF DistinctInv
<1>17. WalkInv'
  <2>1. SUFFICES ASSUME ~failed', NEW n \in DOMAIN log'
                 PROVE  \E at \in [DOMAIN log'[n] -> DOMAIN text'[n].expect] :
                          Walked(text'[n], mocker'[n], log'[n], at)
    BY DEF WalkInv
  <2>2. ~failed
    BY <1>3, <2>1
  <2>3. CASE n # m
    BY <1>1, <1>3, <1>6, <1>8, <2>1, <2>2, <2>3 DEF WalkInv
  <2>4. CASE n = m
    <3>1. PICK at \in [DOMAIN log[m] -> DOMAIN c.expect] : Walked(c, w, log[m], at)
      BY <1>1, <2>2 DEF WalkInv, c, w
    <3>2. ASSUME c.greed, NEW i \in DOMAIN c.expect,
                 w.index <= i, i < k, a \in c.expect[i].accepts
          PROVE  w.chain.expect[i].call = c.expect[i].most
      <4>1. i \in Accepting(m, a)
        <5>1. a \in w.chain.expect[i].accepts
          BY <1>2, <3>2 DEF Written
        <5>2. i >= w.index
          <6>1. i \in Nat /\ w.index \in Nat
            BY <1>2, <3>2, ChainFacts DEF Walker
          <6>2. QED
            BY <3>2, <6>1
        <5>3. QED
          BY <1>2, <3>2, <5>1, <5>2 DEF Accepting, w
      <4>2. Passes(w.chain, i) /\ w.chain.greed
        BY <1>2, <1>4, <3>2, <4>1 DEF Written
      <4>3. w.chain.expect[i].most = c.expect[i].most
        BY <1>2, <3>2 DEF Written
      <4>4. QED
        BY <4>2, <4>3 DEF Passes, Saturated
    <3>3. w.index <= k
      BY <1>2, <1>5, ChainFacts DEF Walker
    <3>4. \E bt \in [DOMAIN Append(log[m], e) -> DOMAIN c.expect] :
            Walked(c, Stepped(w, k), Append(log[m], e), bt)
      BY <1>2, <1>5, <1>6, <1>7, <3>1, <3>2, <3>3, WalkOn
    <3>5. QED
      BY <1>3, <1>6, <1>8, <2>4, <3>4 DEF c
  <2>5. QED
    BY <2>3, <2>4
<1>18. BlameInv'
  <2>1. SUFFICES ASSUME failed', ~lost'
                 PROVE  \E n \in DOMAIN log' : ~Distinct(text[n]) \/ ~Open(text[n], log'[n])
    BY <1>3 DEF BlameInv
  <2>2. CASE Refusing(m, a) # {}
    <3>1. ~Distinct(c) \/ ~Open(c, log'[m])
      BY <1>5, <1>6, <2>2, ReportedCloses DEF c, e
    <3>2. QED
      BY <1>6, <3>1 DEF c
  <2>3. CASE failed
    <3>1. PICK n \in DOMAIN log : ~Distinct(text[n]) \/ ~Open(text[n], log[n])
      BY <1>1, <1>3, <2>1, <2>3 DEF BlameInv
    <3>2. CASE n = m
      <4>1. ~Distinct(c) \/ ~Open(c, log'[m])
        BY <1>2, <1>6, <3>1, <3>2, OpenBefore DEF c
      <4>2. QED
        BY <1>6, <4>1 DEF c
    <3>3. CASE n # m
      BY <1>6, <3>1, <3>3
    <3>4. QED
      BY <3>2, <3>3
  <2>4. QED
    BY <1>3, <2>1, <2>2, <2>3
<1>19. ExpectedPasses'
  BY <1>1, <1>3 DEF ExpectedPasses
<1>20. QED
  BY <1>13, <1>14, <1>15, <1>16, <1>17, <1>18, <1>19 DEF MockInv

LEMMA UnexpectedStep ==
  ASSUME MockInv, phase = "body", NEW m \in DOMAIN log, Len(log[m]) < MaxCall,
         NEW a \in Argument, Unexpected(m, a)
  PROVE  MockInv'
<1> DEFINE e == [arg |-> a, answer |-> Original]
<1>1. /\ MockTypeOK /\ ListInv /\ BoundInv /\ WalkInv /\ DistinctInv /\ BlameInv
      /\ phase # "ended"
  BY DEF MockInv
<1>2. /\ Refusing(m, a) # {} \/ Accepting(m, a) = {}
      /\ failed' = TRUE /\ phase' \in {"body", "left"} /\ Answered(m, a, Original)
      /\ UNCHANGED <<text, continue_assert, mocker, patched, lost>>
  BY DEF Unexpected, given
<1>3. /\ e \in Made1 /\ DOMAIN log' = DOMAIN log /\ log'[m] = Append(log[m], e)
      /\ \A n \in DOMAIN log : n # m => log'[n] = log[n]
      /\ \A n \in DOMAIN log' : n \in Mocker /\ log'[n] \in Seq(Made1) /\ Len(log'[n]) <= MaxCall
      /\ Len(log'[m]) = Len(log[m]) + 1
  BY <1>1, <1>2, LogOn
<1>4. ~Distinct(text[m]) \/ ~Open(text[m], log'[m])
  BY <1>2, <1>3, ReportedCloses
<1> HIDE DEF e
<1>5. MockTypeOK'
  <2>1. DOMAIN log' \subseteq Mocker /\ \A n \in DOMAIN log' : log'[n] \in Seq(Made1)
    BY <1>3
  <2>2. phase' \in {"body", "left", "ended"} /\ failed' \in BOOLEAN
    BY <1>2
  <2>3. QED
    BY <1>1, <1>2, <2>1, <2>2 DEF MockTypeOK, Made1
<1>6. ListInv'
  <2>1. phase' # "ended"
    BY <1>2
  <2>2. QED
    BY <1>1, <1>2, <1>3, <2>1 DEF ListInv
<1>7. BoundInv'
  <2>1. ASSUME NEW n \in DOMAIN log, NEW i \in DOMAIN mocker[n].chain.expect
        PROVE  mocker[n].chain.expect[i].call <= Len(log'[n])
    <3>1. mocker[n].chain.expect[i].call <= Len(log[n]) /\ mocker[n].chain.expect[i].call \in Nat
      BY <1>1, StateFacts, ChainFacts DEF BoundInv
    <3>2. Len(log[n]) \in Nat
      BY <1>1, StateFacts, CallsFacts
    <3>3. Len(log'[n]) = Len(log[n]) \/ Len(log'[n]) = Len(log[n]) + 1
      BY <1>3
    <3>4. QED
      BY <3>1, <3>2, <3>3
  <2>2. QED
    BY <1>2, <1>3, <2>1 DEF BoundInv
<1>8. WalkInv'
  BY <1>2 DEF WalkInv
<1>9. DistinctInv'
  <2>1. Counted(text[m], mocker[m], log'[m])
    BY <1>4 DEF Counted
  <2>2. \A n \in DOMAIN log' : Counted(text[n], mocker[n], log'[n])
    BY <1>1, <1>3, <2>1 DEF DistinctInv
  <2>3. QED
    BY <1>2, <2>2 DEF DistinctInv
<1>10. BlameInv'
  BY <1>2, <1>3, <1>4 DEF BlameInv
<1>11. ExpectedPasses'
  BY <1>2 DEF ExpectedPasses
<1>12. QED
  BY <1>5, <1>6, <1>7, <1>8, <1>9, <1>10, <1>11 DEF MockInv

LEMMA CallStep ==
  ASSUME MockInv, NEW a \in Argument, Call(a) PROVE MockInv'
<1>1. phase = "body" /\ patched \in DOMAIN log /\ Cardinality(Made) < MaxCall
  BY DEF Call, MockInv, ListInv
<1>2. Len(log[patched]) < MaxCall
  BY <1>1, Room DEF MockInv
<1>3. Expected(patched, a) \/ Unexpected(patched, a)
  BY DEF Call
<1>4. QED
  BY <1>1, <1>2, <1>3, ExpectedStep, UnexpectedStep

---------------------------------------------------------------------------
(* At the end: where there is nothing to choose, calls that are as said    *)
(* leave nothing to report.                                                *)
LEMMA DealtChecks ==
  ASSUME MockInv, phase # "ended", NEW m \in DOMAIN log,
         Distinct(text[m]), Deals(text[m], log[m]) # {},
         NEW i \in DOMAIN text[m].expect
  PROVE  Check(mocker[m].chain.expect[i])
<1> DEFINE c == text[m]
           w == mocker[m]
           calls == log[m]
<1>1. /\ c \in Chain /\ calls \in Seq(Made1) /\ Written(w.chain, c)
      /\ DOMAIN w.chain.expect = DOMAIN c.expect
  BY StateFacts DEF MockInv
<1>2. Counted(c, w, calls)
  BY DEF MockInv, DistinctInv
<1> HIDE DEF c, w, calls
<1>3. PICK at \in [DOMAIN calls -> DOMAIN c.expect] : Dealt(c, calls, at)
  BY DEF Deals, c, calls
<1>4. Open(c, calls) /\ Distinct(c) /\ i \in DOMAIN c.expect
  BY <1>1, DealtOpen DEF c, calls
<1>5. w.chain.expect[i].call = Cardinality(Accepted(c, calls, i))
  BY <1>2, <1>4 DEF Counted
<1>6. {j \in DOMAIN calls : at[j] = i} = Accepted(c, calls, i)
  <2>1. \A j \in DOMAIN calls : calls[j].arg \in c.expect[at[j]].accepts
    BY <1>3 DEF Dealt
  <2>2. QED
    BY <1>1, <1>4, <2>1, NoChoice
<1>7. w.chain.expect[i].call \in c.expect[i].least..c.expect[i].most
  BY <1>3, <1>4, <1>5, <1>6 DEF Dealt
<1>8. c.expect[i].least = w.chain.expect[i].least /\ c.expect[i].most = w.chain.expect[i].most
  BY <1>1, <1>4 DEF Written
<1>9. c.expect[i].least \in Nat /\ c.expect[i].most \in Nat
  BY <1>1, <1>4, ChainFacts
<1>10. Satisfied(w.chain.expect[i])
  BY <1>7, <1>8, <1>9 DEF Satisfied
<1>11. QED
  BY <1>10 DEF Check, w

LEMMA TeardownStep ==
  ASSUME MockInv, Teardown PROVE MockInv'
<1>1. /\ phase # "ended" /\ phase' = "ended" /\ patched' = Nobody
      /\ failed' = (failed \/ \E m \in Mocker : mocker[m].listed /\
                                \E i \in DOMAIN mocker[m].chain.expect : ~Check(mocker[m].chain.expect[i]))
      /\ mocker' = [m \in Mocker |-> [chain |-> Fresh, index |-> 1, listed |-> FALSE]]
      /\ UNCHANGED <<text, continue_assert, log, lost>>
  BY DEF Teardown, given
<1>2. MockTypeOK'
  <2>1. Fresh \in Chain
    <3>1. <<>> \in Seq(Expectation)
      BY EmptySeq
    <3>2. QED
      BY <3>1 DEF Fresh, Chain
  <2>2. mocker' \in [Mocker -> Walker] /\ \A m \in Mocker : mocker'[m].index = 1
    BY <1>1, <2>1 DEF Walker
  <2>3. phase' \in {"body", "left", "ended"} /\ failed' \in BOOLEAN /\ patched' \in Mocker \cup {Nobody}
    BY <1>1
  <2>4. QED
    BY <1>1, <2>2, <2>3 DEF MockInv, MockTypeOK, Walker
<1>3. ListInv' /\ WalkInv' /\ DistinctInv' /\ BlameInv'
  <2>1. \A m \in Mocker : mocker'[m].listed = FALSE
    BY <1>1
  <2>2. QED
    BY <1>1, <2>1 DEF ListInv, WalkInv, DistinctInv, BlameInv
<1>4. BoundInv'
  BY <1>1 DEF MockInv, BoundInv
<1>5. ExpectedPasses'
  <2>1. SUFFICES ASSUME ~lost, \A m \in DOMAIN log : Distinct(text[m]) /\ Deals(text[m], log[m]) # {}
                 PROVE  ~failed'
    BY <1>1 DEF ExpectedPasses
  <2>2. ~failed
    <3>1. \A m \in DOMAIN log : Open(text[m], log[m])
      BY <1>1, <2>1, StateFacts, DealtOpen DEF MockInv
    <3>2. QED
      BY <1>1, <2>1, <3>1 DEF MockInv, BlameInv
  <2>3. ASSUME NEW m \in Mocker, mocker[m].listed, NEW i \in DOMAIN mocker[m].chain.expect
        PROVE  Check(mocker[m].chain.expect[i])
    <3>1. m \in DOMAIN log
      BY <1>1, <2>3 DEF MockInv, ListInv
    <3>2. i \in DOMAIN text[m].expect
      BY <1>1, <2>3, <3>1, StateFacts DEF MockInv
    <3>3. QED
      BY <1>1, <2>1, <3>1, <3>2, DealtChecks
  <2>4. QED
    BY <1>1, <2>2, <2>3
<1>6. QED
  BY <1>2, <1>3, <1>4, <1>5 DEF MockInv

(* What a case that passes has seen: each list's walk deals its calls.     *)
LEMMA PassDealt ==
  ASSUME Allowing, MockInv, TextInv, Teardown, ~failed', NEW m \in DOMAIN log
  PROVE  \E at \in Deals(text[m], log[m]) :
           /\ Answers(text[m], log[m], at)
           /\ text[m].greed => Greedily(text[m], log[m], at)
<1> DEFINE c == text[m]
           w == mocker[m]
           calls == log[m]
<1>1. /\ phase # "ended" /\ ~failed
      /\ \A n \in Mocker : mocker[n].listed =>
           \A i \in DOMAIN mocker[n].chain.expect : Check(mocker[n].chain.expect[i])
  BY DEF Teardown
<1>2. /\ m \in Mocker /\ c \in Chain /\ calls \in Seq(Made1) /\ w.listed
      /\ Written(w.chain, c) /\ DOMAIN w.chain.expect = DOMAIN c.expect
  BY <1>1, StateFacts DEF MockInv
<1>3. \A i \in DOMAIN c.expect : c.expect[i].least <= c.expect[i].most
  BY <1>2 DEF Allowing, TextInv
<1>4. PICK at \in [DOMAIN calls -> DOMAIN c.expect] : Walked(c, w, calls, at)
  BY <1>1 DEF MockInv, WalkInv
<1>5. \A i \in DOMAIN c.expect : Check(w.chain.expect[i])
  BY <1>1, <1>2
<1> HIDE DEF c, w, calls
<1>6. ASSUME NEW i \in DOMAIN c.expect
      PROVE  Cardinality({j \in DOMAIN calls : at[j] = i}) \in c.expect[i].least..c.expect[i].most
  <2>1. /\ c.expect[i].least \in Nat /\ c.expect[i].most \in Nat
        /\ w.chain.expect[i].least = c.expect[i].least /\ w.chain.expect[i].most = c.expect[i].most
        /\ w.chain.expect[i].call \in Nat
    <3>1. w.chain \in Chain
      BY <1>1, StateFacts DEF MockInv, w
    <3>2. QED
      BY <1>2, <3>1, ChainFacts DEF Written
  <2>2. w.chain.expect[i].call \in c.expect[i].least..c.expect[i].most
    BY <1>3, <1>5, <2>1 DEF Check, Satisfied, Saturated
  <2>3. QED
    BY <1>4, <2>2 DEF Walked
<1>7. Dealt(c, calls, at)
  BY <1>4, <1>6 DEF Walked, Dealt
<1>8. at \in Deals(c, calls) /\ Answers(c, calls, at) /\ (c.greed => Greedily(c, calls, at))
  BY <1>4, <1>7 DEF Walked, Deals, Answers
<1>9. QED
  BY <1>8 DEF c, calls

---------------------------------------------------------------------------
LEMMA MockStep ==
  ASSUME MockInv, TextInv, [MockNext]_mockVars
  PROVE  MockInv' /\ TextInv'
<1>1. MockInv'
  <2>1. CASE Begin
    BY <2>1, BeginStep
  <2>2. CASE UnMock
    BY <2>2, UnMockStep
  <2>3. CASE Teardown
    BY <2>3, TeardownStep
  <2>4. ASSUME NEW m \in Mocker, Set(m) PROVE MockInv'
    BY <2>4, SetStep
  <2>5. ASSUME NEW a \in Argument, Call(a) PROVE MockInv'
    BY <2>5, CallStep
  <2>6. CASE UNCHANGED mockVars
    BY <2>6, StutterStep
  <2>7. QED
    BY <2>1, <2>2, <2>3, <2>4, <2>5, <2>6 DEF MockNext
<1>2. UNCHANGED text
  BY DEF MockNext, mockVars, given, Begin, UnMock, Teardown, Set, Call, Expected, Unexpected
<1>3. QED
  BY <1>1, <1>2 DEF TextInv

LEMMA VerdictStep ==
  ASSUME Allowing, MockInv, TextInv, PassMeansExpected, EarliestAnswers, [MockNext]_mockVars
  PROVE  PassMeansExpected' /\ EarliestAnswers'
<1>1. CASE Teardown
  <2>1. UNCHANGED <<text, log>>
    BY <1>1 DEF Teardown, given
  <2>2. ~failed' => \A m \in DOMAIN log : \E at \in Deals(text[m], log[m]) :
           /\ Answers(text[m], log[m], at)
           /\ text[m].greed => Greedily(text[m], log[m], at)
    BY <1>1, PassDealt
  <2>3. QED
    BY <2>1, <2>2 DEF PassMeansExpected, EarliestAnswers
<1>2. CASE phase' # "ended"
  BY <1>2 DEF PassMeansExpected, EarliestAnswers
<1>3. CASE UNCHANGED mockVars
  BY <1>3 DEF mockVars, given, PassMeansExpected, EarliestAnswers
<1>4. Begin \/ UnMock \/ (\E m \in Mocker : Set(m)) \/ (\E a \in Argument : Call(a)) => phase' # "ended"
  BY DEF Begin, UnMock, Set, Call, Expected, Unexpected
<1>5. QED
  BY <1>1, <1>2, <1>3, <1>4 DEF MockNext

(* The variables keep their types: a mocker never stands behind its chain, *)
(* and no count overflows.                                                 *)
THEOREM MockTypeCorrect == MockSpec => []MockTypeOK
<1>1. MockInit => MockInv /\ TextInv
  BY InitStep
<1>2. MockInv /\ TextInv /\ [MockNext]_mockVars => (MockInv /\ TextInv)'
  BY MockStep
<1>3. MockInv => MockTypeOK
  BY DEF MockInv
<1>4. QED
  BY <1>1, <1>2, <1>3, PTL DEF MockSpec

(* Where no two expectations of a chain accept the same arguments, a case  *)
(* whose calls are those it said does not fail for its mocks.              *)
THEOREM SaidCallsPass == MockSpec => []ExpectedPasses
<1>1. MockInit => MockInv /\ TextInv
  BY InitStep
<1>2. MockInv /\ TextInv /\ [MockNext]_mockVars => (MockInv /\ TextInv)'
  BY MockStep
<1>3. MockInv => ExpectedPasses
  BY DEF MockInv
<1>4. QED
  BY <1>1, <1>2, <1>3, PTL DEF MockSpec

(* The verdict of a case on its mocks is right both ways, whatever its     *)
(* chains, its calls and where control leaves it.                          *)
THEOREM VerdictRight ==
  ASSUME Allowing
  PROVE  MockSpec => []PassIffExpected
<1> DEFINE Inv == MockInv /\ TextInv /\ PassMeansExpected /\ EarliestAnswers
<1>1. MockInit => Inv
  BY InitStep
<1>2. Inv /\ [MockNext]_mockVars => Inv'
  BY MockStep, VerdictStep
<1>3. Inv => PassIffExpected
  BY DEF PassIffExpected, MockInv
<1>4. QED
  BY <1>1, <1>2, <1>3, PTL DEF MockSpec

(* In a case that passes, a greedy chain has answered every call by the    *)
(* earliest expectation that still could.                                  *)
THEOREM EarliestAlwaysAnswers ==
  ASSUME Allowing
  PROVE  MockSpec => []EarliestAnswers
<1> DEFINE Inv == MockInv /\ TextInv /\ PassMeansExpected /\ EarliestAnswers
<1>1. MockInit => Inv
  BY InitStep
<1>2. Inv /\ [MockNext]_mockVars => Inv'
  BY MockStep, VerdictStep
<1>3. Inv => EarliestAnswers
  OBVIOUS
<1>4. QED
  BY <1>1, <1>2, <1>3, PTL DEF MockSpec
===========================================================================
