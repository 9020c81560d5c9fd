---------------------------- MODULE MachineProofs ----------------------------
(***************************************************************************)
(* Theorems about what the library does below the language: the allocator  *)
(* of its own objects (Libc), whose areas are divided without rest into    *)
(* headers and chunks and which keeps what Heap promises, for any sizes    *)
(* and any number of areas; and the patches in machine code (MachineCode), *)
(* which lead where they are meant to on every machine it is built for.    *)
(***************************************************************************)
EXTENDS Libc, MachineCode, SequenceTheorems, FiniteSetTheorems, WellFoundedInduction, TLAPS

(* Natural numbers have a least one, which is what Min chooses.            *)
LEMMA Least ==
  ASSUME NEW T \in SUBSET Nat, T # {}
  PROVE  Min(T) \in T /\ \A y \in T : Min(T) <= y
<1> DEFINE R == OpToRel(<, Nat)
<1>1. IsWellFoundedOn(R, Nat)
  BY NatLessThanWellFounded
<1>2. \A x, y \in Nat : y < x => <<y, x>> \in R
  BY DEF OpToRel
<1> HIDE DEF R
<1>3. PICK x \in T : \A y \in T : ~(<<y, x>> \in R)
  BY <1>1, WFMin
<1>4. \A y \in T : x <= y
  <2> TAKE y \in T
  <2>1. x \in Nat /\ y \in Nat
    OBVIOUS
  <2>2. ~(y < x)
    BY <1>2, <1>3, <2>1
  <2>3. QED
    BY <2>1, <2>2
<1>5. QED
  BY <1>4 DEF Min

(* What RemoveAt leaves of a sequence.                                     *)
LEMMA RemoveAtFacts ==
  ASSUME NEW S, NEW s \in Seq(S), NEW i \in 1..Len(s)
  PROVE  /\ RemoveAt(s, i) \in Seq(S) /\ Len(RemoveAt(s, i)) = Len(s) - 1
         /\ \A j \in 1..(Len(s) - 1) : RemoveAt(s, i)[j] = s[IF j < i THEN j ELSE j + 1]
<1> DEFINE n == Len(s)
           a == SubSeq(s, 1, i - 1)
           b == SubSeq(s, i + 1, n)
<1>1. n \in Nat /\ i \in 1..n /\ \A j \in 1..n : s[j] \in S
  OBVIOUS
<1> HIDE DEF n
<1>2. a \in Seq(S) /\ Len(a) = i - 1 /\ \A j \in 1..(i - 1) : a[j] = s[j]
  <2>1. 1 \in Int /\ i - 1 \in Int /\ \A j \in 1..(i - 1) : s[j] \in S
    BY <1>1
  <2>2. /\ a \in Seq(S) /\ Len(a) = IF 1 <= i - 1 THEN i - 1 - 1 + 1 ELSE 0
        /\ \A j \in 1..(i - 1 - 1 + 1) : a[j] = s[1 + j - 1]
    BY <2>1, SubSeqProperties
  <2>3. QED
    BY <1>1, <2>2
<1>3. b \in Seq(S) /\ Len(b) = n - i /\ \A j \in 1..(n - i) : b[j] = s[i + j]
  <2>1. i + 1 \in Int /\ n \in Int /\ \A j \in (i + 1)..n : s[j] \in S
    BY <1>1
  <2>2. /\ b \in Seq(S) /\ Len(b) = IF i + 1 <= n THEN n - (i + 1) + 1 ELSE 0
        /\ \A j \in 1..(n - (i + 1) + 1) : b[j] = s[i + 1 + j - 1]
    BY <2>1, SubSeqProperties
  <2>3. QED
    BY <1>1, <2>2
<1>4. RemoveAt(s, i) = a \o b
  BY DEF RemoveAt, n
<1> HIDE DEF a, b
<1>5. /\ a \o b \in Seq(S) /\ Len(a \o b) = Len(a) + Len(b)
      /\ \A j \in 1..(Len(a) + Len(b)) : (a \o b)[j] = IF j <= Len(a) THEN a[j] ELSE b[j - Len(a)]
  <2>1. a \in Seq(S) /\ b \in Seq(S)
    BY <1>2, <1>3
  <2>2. QED
    BY <2>1, ConcatProperties
<1>6. \A j \in 1..(n - 1) : (a \o b)[j] = s[IF j < i THEN j ELSE j + 1]
  <2> TAKE j \in 1..(n - 1)
  <2>1. CASE j < i
    BY <1>1, <1>2, <1>3, <1>5, <2>1
  <2>2. CASE ~(j < i)
    <3>1. j - (i - 1) \in 1..(n - i) /\ i + (j - (i - 1)) = j + 1
      BY <1>1, <2>2
    <3>2. QED
      BY <1>1, <1>2, <1>3, <1>5, <2>2, <3>1
  <2>3. QED
    BY <2>1, <2>2
<1>7. QED
  BY <1>1, <1>2, <1>3, <1>4, <1>5, <1>6 DEF n

(* What InsertAt makes of a sequence.                                      *)
LEMMA InsertAtFacts ==
  ASSUME NEW S, NEW s \in Seq(S), NEW i \in 1..Len(s), NEW e \in S
  PROVE  /\ InsertAt(s, i, e) \in Seq(S) /\ Len(InsertAt(s, i, e)) = Len(s) + 1
         /\ \A j \in 1..(Len(s) + 1) :
              InsertAt(s, i, e)[j] = IF j < i THEN s[j] ELSE IF j = i THEN e ELSE s[j - 1]
<1> DEFINE n == Len(s)
           a == SubSeq(s, 1, i - 1)
           m == <<e>>
           b == SubSeq(s, i, n)
<1>1. n \in Nat /\ i \in 1..n /\ \A j \in 1..n : s[j] \in S
  OBVIOUS
<1> HIDE DEF n
<1>2. a \in Seq(S) /\ Len(a) = i - 1 /\ \A j \in 1..(i - 1) : a[j] = s[j]
  <2>1. 1 \in Int /\ i - 1 \in Int /\ \A j \in 1..(i - 1) : s[j] \in S
    BY <1>1
  <2>2. /\ a \in Seq(S) /\ Len(a) = IF 1 <= i - 1 THEN i - 1 - 1 + 1 ELSE 0
        /\ \A j \in 1..(i - 1 - 1 + 1) : a[j] = s[1 + j - 1]
    BY <2>1, SubSeqProperties
  <2>3. QED
    BY <1>1, <2>2
<1>3. b \in Seq(S) /\ Len(b) = n - i + 1 /\ \A j \in 1..(n - i + 1) : b[j] = s[i + j - 1]
  <2>1. i \in Int /\ n \in Int /\ \A j \in i..n : s[j] \in S
    BY <1>1
  <2>2. /\ b \in Seq(S) /\ Len(b) = IF i <= n THEN n - i + 1 ELSE 0
        /\ \A j \in 1..(n - i + 1) : b[j] = s[i + j - 1]
    BY <2>1, SubSeqProperties
  <2>3. QED
    BY <1>1, <2>2
<1>4. m \in Seq(S) /\ Len(m) = 1 /\ m[1] = e
  OBVIOUS
<1>5. InsertAt(s, i, e) = a \o m \o b
  BY DEF InsertAt, n
<1> HIDE DEF a, b, m
<1>6. /\ a \o m \in Seq(S) /\ Len(a \o m) = Len(a) + Len(m)
      /\ \A j \in 1..(Len(a) + Len(m)) : (a \o m)[j] = IF j <= Len(a) THEN a[j] ELSE m[j - Len(a)]
  BY <1>2, <1>4, ConcatProperties
<1> DEFINE c == a \o m
<1>7. /\ c \in Seq(S) /\ Len(c) = i /\ \A j \in 1..i : c[j] = IF j < i THEN s[j] ELSE e
  <2>1. c \in Seq(S) /\ Len(c) = i
    BY <1>1, <1>2, <1>4, <1>6
  <2>2. ASSUME NEW j \in 1..i PROVE c[j] = IF j < i THEN s[j] ELSE e
    <3>1. CASE j < i
      BY <1>1, <1>2, <1>4, <1>6, <3>1
    <3>2. CASE j = i
      <4>1. j - Len(a) = 1 /\ ~(j <= Len(a)) /\ j \in 1..(Len(a) + Len(m))
        BY <1>1, <1>2, <1>4, <3>2
      <4>2. QED
        BY <1>4, <1>6, <3>2, <4>1
    <3>3. j < i \/ j = i
      BY <1>1
    <3>4. QED
      BY <3>1, <3>2, <3>3
  <2>3. QED
    BY <2>1, <2>2
<1> HIDE DEF c
<1>8. /\ c \o b \in Seq(S) /\ Len(c \o b) = Len(c) + Len(b)
      /\ \A j \in 1..(Len(c) + Len(b)) : (c \o b)[j] = IF j <= Len(c) THEN c[j] ELSE b[j - Len(c)]
  BY <1>3, <1>7, ConcatProperties
<1>9. \A j \in 1..(n + 1) : (c \o b)[j] = IF j < i THEN s[j] ELSE IF j = i THEN e ELSE s[j - 1]
  <2> TAKE j \in 1..(n + 1)
  <2>1. Len(c) + Len(b) = n + 1
    BY <1>1, <1>3, <1>7
  <2>2. CASE j <= i
    <3>1. (c \o b)[j] = c[j] /\ j \in 1..i
      BY <1>1, <1>7, <1>8, <2>1, <2>2
    <3>2. QED
      BY <1>1, <1>7, <2>2, <3>1
  <2>3. CASE ~(j <= i)
    <3>1. (c \o b)[j] = b[j - i] /\ j - i \in 1..(n - i + 1) /\ i + (j - i) - 1 = j - 1
      BY <1>1, <1>7, <1>8, <2>1, <2>3
    <3>2. QED
      BY <1>1, <1>3, <2>3, <3>1
  <2>4. QED
    BY <2>2, <2>3
<1>10. InsertAt(s, i, e) = c \o b
  BY <1>5 DEF c
<1>11. QED
  BY <1>1, <1>3, <1>7, <1>8, <1>9, <1>10 DEF n

---------------------------------------------------------------------------
(* Chunks: where they begin, where they end, and that no two overlap.      *)
Chunk == [at : Nat, size : {n \in Nat : n >= BuddyWords}]
Apart2(c, d) == c.at + c.size <= d.at \/ d.at + d.size <= c.at
Apart(A) == \A c, d \in A : c # d => Apart2(c, d)

(* The words of an area that chunks are made of.                           *)
InBody(b, w) == w \in (b.at + BlockWords)..(b.at + b.words - 1)
Fills(A, bs) == \A w \in Nat : (\E c \in A : Covers(c, w)) <=> \E k \in DOMAIN bs : InBody(bs[k], w)

Ascends(list) == \A i, j \in 1..Len(list) : i < j => list[i].at + list[i].size <= list[j].at

(* They are words of it.                                                   *)
LEMMA InBodyWithin ==
  ASSUME NEW b, b.at \in Nat, b.words \in Nat, BlockWords \in Nat, NEW w \in Nat, InBody(b, w)
  PROVE  b.at <= w /\ w < b.at + b.words
BY DEF InBody

(* A chunk is never empty.                                                 *)
LEMMA ChunkSize == \A c \in Chunk : c.at \in Nat /\ c.size \in Nat /\ c.size > 0 /\ c.size >= BuddyWords
BY LibcAssumption DEF Chunk

(* A chunk split in two, and two that lie beside each other joined.        *)
LEMMA Split ==
  ASSUME NEW A \in SUBSET Chunk, NEW bs, Apart(A), Fills(A, bs),
         NEW p \in A, NEW c \in Chunk, NEW d \in Chunk,
         c.at = p.at, d.at = p.at + c.size, c.size + d.size = p.size,
         NEW B, B = (A \ {p}) \cup {c, d}
  PROVE  c \notin A /\ d \notin A /\ c # d /\ B \in SUBSET Chunk /\ Apart(B) /\ Fills(B, bs)
<1>1. \A e \in A : e.at \in Nat /\ e.size \in Nat /\ e.size > 0 /\ (e # p => Apart2(e, p) /\ Apart2(p, e))
  BY ChunkSize DEF Apart
<1>2. c.at \in Nat /\ c.size \in Nat /\ c.size > 0 /\ d.at \in Nat /\ d.size \in Nat /\ d.size > 0
  BY ChunkSize
<1>3. \A e \in A : e # p => Apart2(e, c) /\ Apart2(c, e) /\ Apart2(e, d) /\ Apart2(d, e)
  BY <1>1, <1>2 DEF Apart2
<1>4. c # p /\ d # p /\ c # d /\ Apart2(c, d) /\ Apart2(d, c) /\ ~Apart2(c, c) /\ ~Apart2(d, d)
  BY <1>1, <1>2 DEF Apart2
<1>5. c \notin A /\ d \notin A
  BY <1>3, <1>4
<1>6. Apart(B)
  BY <1>3, <1>4 DEF Apart
<1>7. \A w \in Nat : Covers(p, w) <=> Covers(c, w) \/ Covers(d, w)
  BY <1>1, <1>2 DEF Covers
<1>8. \A w \in Nat : (\E e \in B : Covers(e, w)) <=> \E e \in A : Covers(e, w)
  BY <1>7
<1>9. Fills(B, bs)
  BY <1>8 DEF Fills
<1>10. QED
  BY <1>4, <1>5, <1>6, <1>9

(* Two chunks beside each other made one.                                  *)
LEMMA Join ==
  ASSUME NEW A \in SUBSET Chunk, NEW bs, Apart(A), Fills(A, bs),
         NEW c \in A, NEW d \in A, NEW p \in Chunk, c # d,
         c.at = p.at, d.at = p.at + c.size, c.size + d.size = p.size,
         NEW B, B = (A \ {c, d}) \cup {p}
  PROVE  p \notin A /\ B \in SUBSET Chunk /\ Apart(B) /\ Fills(B, bs)
<1>1. \A e \in A : /\ e.at \in Nat /\ e.size \in Nat /\ e.size > 0
                   /\ e # c => Apart2(e, c) /\ Apart2(c, e)
                   /\ e # d => Apart2(e, d) /\ Apart2(d, e)
  BY ChunkSize DEF Apart
<1>2. p.at \in Nat /\ p.size \in Nat /\ p.size > 0
  BY ChunkSize
<1>3. \A e \in A : e # c /\ e # d => Apart2(e, p) /\ Apart2(p, e)
  BY <1>1, <1>2 DEF Apart2
<1>4. p # c /\ p # d /\ ~Apart2(p, p)
  BY <1>1, <1>2 DEF Apart2
<1>5. p \notin A
  BY <1>3, <1>4
<1>6. Apart(B)
  BY <1>3 DEF Apart
<1>7. \A w \in Nat : Covers(p, w) <=> Covers(c, w) \/ Covers(d, w)
  BY <1>1, <1>2 DEF Covers
<1>8. \A w \in Nat : (\E e \in B : Covers(e, w)) <=> \E e \in A : Covers(e, w)
  BY <1>7
<1>9. Fills(B, bs)
  BY <1>8 DEF Fills
<1>10. QED
  BY <1>5, <1>6, <1>9
---------------------------------------------------------------------------
(* What the lists of free chunks become.  A chunk is once in its list.     *)
LEMMA Members ==
  ASSUME NEW list \in Seq(Chunk), Ascends(list)
  PROVE  /\ \A i \in 1..Len(list) : list[i] \in Chunk /\ list[i] \in Range(list)
         /\ \A c : c \in Range(list) <=> \E i \in 1..Len(list) : c = list[i]
         /\ \A i, j \in 1..Len(list) : i # j => list[i] # list[j] /\ Apart2(list[i], list[j])
<1>1. DOMAIN list = 1..Len(list) /\ Len(list) \in Nat /\ \A i \in 1..Len(list) : list[i] \in Chunk
  OBVIOUS
<1>2. \A c : c \in Range(list) <=> \E i \in 1..Len(list) : c = list[i]
  BY <1>1 DEF Range
<1>3. ASSUME NEW i \in 1..Len(list), NEW j \in 1..Len(list), i # j
      PROVE  list[i] # list[j] /\ Apart2(list[i], list[j])
  <2>1. /\ list[i].at \in Nat /\ list[i].size \in Nat /\ list[i].size > 0
        /\ list[j].at \in Nat /\ list[j].size \in Nat /\ list[j].size > 0
    BY <1>1, ChunkSize
  <2>2. list[i].at + list[i].size <= list[j].at \/ list[j].at + list[j].size <= list[i].at
    BY <1>1, <1>3 DEF Ascends
  <2>3. QED
    BY <2>1, <2>2 DEF Apart2
<1>4. QED
  BY <1>1, <1>2, <1>3

(* A list without one of its chunks.                                       *)
LEMMA ListRemoves ==
  ASSUME NEW list \in Seq(Chunk), Ascends(list), NEW i \in 1..Len(list)
  PROVE  /\ RemoveAt(list, i) \in Seq(Chunk) /\ Ascends(RemoveAt(list, i))
         /\ Range(RemoveAt(list, i)) = Range(list) \ {list[i]}
<1> DEFINE n == Len(list)
           L == RemoveAt(list, i)
           was(j) == IF j < i THEN j ELSE j + 1
<1>1. n \in Nat /\ i \in 1..n
  OBVIOUS
<1>2. L \in Seq(Chunk) /\ Len(L) = n - 1 /\ \A j \in 1..(n - 1) : L[j] = list[was(j)]
  BY RemoveAtFacts
<1>3. /\ \A j \in 1..n : list[j] \in Chunk /\ list[j] \in Range(list)
      /\ \A c : c \in Range(list) <=> \E j \in 1..n : c = list[j]
      /\ \A j, k \in 1..n : j # k => list[j] # list[k]
  BY Members
<1>4. \A j, k \in 1..n : j < k => list[j].at + list[j].size <= list[k].at
  BY DEF Ascends
<1> HIDE DEF n, L
<1>5. /\ \A j \in 1..(n - 1) : was(j) \in 1..n /\ was(j) # i
      /\ \A j, k \in 1..(n - 1) : j < k => was(j) < was(k)
  BY <1>1
<1>6. ASSUME NEW k \in 1..n, k # i PROVE \E j \in 1..(n - 1) : was(j) = k
  <2>1. CASE k < i
    <3>1. k \in 1..(n - 1) /\ was(k) = k
      BY <1>1, <2>1
    <3>2. QED
      BY <3>1
  <2>2. CASE ~(k < i)
    <3>1. k - 1 \in 1..(n - 1) /\ was(k - 1) = k
      BY <1>1, <1>6, <2>2
    <3>2. QED
      BY <3>1
  <2>3. QED
    BY <2>1, <2>2
<1> HIDE DEF was
<1>7. Ascends(L)
  BY <1>2, <1>4, <1>5 DEF Ascends
<1>8. \A c : c \in Range(L) <=> \E j \in 1..(n - 1) : c = L[j]
  <2>1. DOMAIN L = 1..(n - 1)
    BY <1>2
  <2>2. QED
    BY <2>1 DEF Range
<1>9. ASSUME NEW c PROVE c \in Range(L) <=> c \in Range(list) /\ c # list[i]
  <2>1. ASSUME c \in Range(L) PROVE c \in Range(list) /\ c # list[i]
    <3>1. PICK j \in 1..(n - 1) : c = L[j]
      BY <1>8, <2>1
    <3>2. c = list[was(j)] /\ was(j) \in 1..n /\ was(j) # i
      BY <1>2, <1>5, <3>1
    <3>3. QED
      BY <1>1, <1>3, <3>2
  <2>2. ASSUME c \in Range(list), c # list[i] PROVE c \in Range(L)
    <3>1. PICK k \in 1..n : c = list[k]
      BY <1>3, <2>2
    <3>2. PICK j \in 1..(n - 1) : was(j) = k
      BY <1>6, <2>2, <3>1
    <3>3. QED
      BY <1>2, <1>8, <3>1, <3>2
  <2>3. QED
    BY <2>1, <2>2
<1>10. QED
  BY <1>2, <1>7, <1>9 DEF L

(* A chunk changed where it stands.                                        *)
LEMMA ListChanges ==
  ASSUME NEW list \in Seq(Chunk), Ascends(list), NEW i \in 1..Len(list), NEW c \in Chunk,
         \A j \in 1..Len(list) : /\ j < i => list[j].at + list[j].size <= c.at
                                 /\ i < j => c.at + c.size <= list[j].at
  PROVE  /\ [list EXCEPT ![i] = c] \in Seq(Chunk) /\ Ascends([list EXCEPT ![i] = c])
         /\ Range([list EXCEPT ![i] = c]) = (Range(list) \ {list[i]}) \cup {c}
<1> DEFINE n == Len(list)
           L == [list EXCEPT ![i] = c]
<1>1. n \in Nat /\ i \in 1..n
  OBVIOUS
<1>2. /\ L \in Seq(Chunk) /\ Len(L) = n /\ DOMAIN L = 1..n /\ L[i] = c
      /\ \A j \in 1..n : j # i => L[j] = list[j]
  OBVIOUS
<1>3. /\ \A j \in 1..n : list[j] \in Chunk /\ list[j] \in Range(list)
      /\ \A d : d \in Range(list) <=> \E j \in 1..n : d = list[j]
      /\ \A j, k \in 1..n : j # k => list[j] # list[k]
  BY Members
<1>4. \A j, k \in 1..n : j < k => list[j].at + list[j].size <= list[k].at
  BY DEF Ascends
<1>5. \A j \in 1..n : /\ j < i => list[j].at + list[j].size <= c.at
                      /\ i < j => c.at + c.size <= list[j].at
  OBVIOUS
<1> HIDE DEF n, L
<1>6. Ascends(L)
  <2>1. ASSUME NEW j \in 1..n, NEW k \in 1..n, j < k PROVE L[j].at + L[j].size <= L[k].at
    <3>1. CASE j = i
      BY <1>1, <1>2, <1>5, <2>1, <3>1
    <3>2. CASE k = i
      BY <1>1, <1>2, <1>5, <2>1, <3>2
    <3>3. CASE j # i /\ k # i
      BY <1>2, <1>4, <2>1, <3>3
    <3>4. QED
      BY <3>1, <3>2, <3>3
  <2>2. QED
    BY <1>2, <2>1 DEF Ascends
<1>7. \A d : d \in Range(L) <=> \E j \in 1..n : d = L[j]
  BY <1>2 DEF Range
<1>8. \A d : d \in Range(L) <=> (d \in Range(list) /\ d # list[i]) \/ d = c
  BY <1>1, <1>2, <1>3, <1>7
<1>9. QED
  BY <1>2, <1>6, <1>8 DEF L

(* A chunk put in front of the one behind it.                              *)
LEMMA ListInserts ==
  ASSUME NEW list \in Seq(Chunk), Ascends(list), NEW i \in 1..Len(list), NEW c \in Chunk,
         \A j \in 1..Len(list) : /\ j < i => list[j].at + list[j].size <= c.at
                                 /\ i <= j => c.at + c.size <= list[j].at
  PROVE  /\ InsertAt(list, i, c) \in Seq(Chunk) /\ Ascends(InsertAt(list, i, c))
         /\ Range(InsertAt(list, i, c)) = Range(list) \cup {c}
<1> DEFINE n == Len(list)
           L == InsertAt(list, i, c)
<1>1. n \in Nat /\ i \in 1..n
  OBVIOUS
<1>2. /\ L \in Seq(Chunk) /\ Len(L) = n + 1
      /\ \A j \in 1..(n + 1) : L[j] = IF j < i THEN list[j] ELSE IF j = i THEN c ELSE list[j - 1]
  <2> HIDE DEF n, L
  <2>1. i \in 1..Len(list) /\ c \in Chunk /\ list \in Seq(Chunk)
    OBVIOUS
  <2>2. /\ InsertAt(list, i, c) \in Seq(Chunk) /\ Len(InsertAt(list, i, c)) = Len(list) + 1
        /\ \A j \in 1..(Len(list) + 1) :
             InsertAt(list, i, c)[j] = IF j < i THEN list[j] ELSE IF j = i THEN c ELSE list[j - 1]
    BY <2>1, InsertAtFacts
  <2>3. QED
    BY <2>2 DEF n, L
<1>3. \A d : d \in Range(list) <=> \E j \in 1..n : d = list[j]
  BY Members
<1>4. \A j, k \in 1..n : j < k => list[j].at + list[j].size <= list[k].at
  BY DEF Ascends
<1>5. \A j \in 1..n : /\ j < i => list[j].at + list[j].size <= c.at
                      /\ i <= j => c.at + c.size <= list[j].at
  OBVIOUS
<1> HIDE DEF n, L
<1>6. /\ \A j \in 1..(n + 1) : j < i => j \in 1..n /\ L[j] = list[j]
      /\ \A j \in 1..(n + 1) : j > i => j - 1 \in 1..n /\ i <= j - 1 /\ L[j] = list[j - 1]
      /\ i \in 1..(n + 1) /\ L[i] = c
  BY <1>1, <1>2
<1>7. Ascends(L)
  <2>1. ASSUME NEW j \in 1..(n + 1), NEW k \in 1..(n + 1), j < k PROVE L[j].at + L[j].size <= L[k].at
    <3>1. CASE k < i
      <4>1. j < i
        BY <1>1, <2>1, <3>1
      <4>2. QED
        BY <1>4, <1>6, <2>1, <3>1, <4>1
    <3>2. CASE k = i
      BY <1>5, <1>6, <2>1, <3>2
    <3>3. CASE k > i /\ j < i
      <4>1. j \in 1..n /\ L[j] = list[j] /\ k - 1 \in 1..n /\ L[k] = list[k - 1] /\ j < k - 1
        BY <1>1, <1>6, <3>3
      <4>2. QED
        BY <1>4, <4>1
    <3>4. CASE k > i /\ j = i
      BY <1>5, <1>6, <3>4
    <3>5. CASE k > i /\ j > i
      <4>1. j - 1 \in 1..n /\ L[j] = list[j - 1] /\ k - 1 \in 1..n /\ L[k] = list[k - 1] /\ j - 1 < k - 1
        BY <1>6, <2>1, <3>5
      <4>2. QED
        BY <1>4, <4>1
    <3>6. QED
      BY <1>1, <3>1, <3>2, <3>3, <3>4, <3>5
  <2>2. QED
    BY <1>2, <2>1 DEF Ascends
<1>8. \A d : d \in Range(L) <=> \E j \in 1..(n + 1) : d = L[j]
  <2>1. DOMAIN L = 1..(n + 1)
    BY <1>2
  <2>2. QED
    BY <2>1 DEF Range
<1>9. ASSUME NEW d PROVE d \in Range(L) <=> d \in Range(list) \/ d = c
  <2>1. ASSUME d \in Range(L) PROVE d \in Range(list) \/ d = c
    <3>1. PICK j \in 1..(n + 1) : d = L[j]
      BY <1>8, <2>1
    <3>2. j < i \/ j = i \/ j > i
      BY <1>1
    <3>3. QED
      BY <1>3, <1>6, <3>1, <3>2
  <2>2. ASSUME d = c PROVE d \in Range(L)
    BY <1>6, <1>8, <2>2
  <2>3. ASSUME d \in Range(list) PROVE d \in Range(L)
    <3>1. PICK j \in 1..n : d = list[j]
      BY <1>3, <2>3
    <3>2. CASE j < i
      <4>1. j \in 1..(n + 1)
        BY <1>1
      <4>2. QED
        BY <1>6, <1>8, <3>1, <3>2, <4>1
    <3>3. CASE ~(j < i)
      <4>1. j + 1 \in 1..(n + 1) /\ j + 1 > i /\ j + 1 - 1 = j
        BY <1>1, <3>3
      <4>2. L[j + 1] = list[j]
        BY <1>6, <4>1
      <4>3. QED
        BY <1>8, <3>1, <4>1, <4>2
    <3>4. QED
      BY <3>2, <3>3
  <2>4. QED
    BY <2>1, <2>2, <2>3
<1>10. QED
  BY <1>2, <1>7, <1>9 DEF L

(* A chunk behind all the others.                                          *)
LEMMA ListAppends ==
  ASSUME NEW list \in Seq(Chunk), Ascends(list), NEW c \in Chunk,
         \A j \in 1..Len(list) : list[j].at + list[j].size <= c.at
  PROVE  /\ Append(list, c) \in Seq(Chunk) /\ Ascends(Append(list, c))
         /\ Range(Append(list, c)) = Range(list) \cup {c}
<1> DEFINE n == Len(list)
           L == Append(list, c)
<1>1. /\ n \in Nat /\ L \in Seq(Chunk) /\ Len(L) = n + 1 /\ DOMAIN L = 1..(n + 1) /\ L[n + 1] = c
      /\ \A j \in 1..n : L[j] = list[j]
  OBVIOUS
<1>2. \A d : d \in Range(list) <=> \E j \in 1..n : d = list[j]
  BY Members
<1>3. \A j, k \in 1..n : j < k => list[j].at + list[j].size <= list[k].at
  BY DEF Ascends
<1>4. \A j \in 1..n : list[j].at + list[j].size <= c.at
  OBVIOUS
<1> HIDE DEF n, L
<1>5. \A j \in 1..(n + 1) : j \in 1..n \/ j = n + 1
  BY <1>1
<1>6. Ascends(L)
  <2>1. ASSUME NEW j \in 1..(n + 1), NEW k \in 1..(n + 1), j < k PROVE L[j].at + L[j].size <= L[k].at
    <3>1. j \in 1..n
      BY <1>1, <2>1
    <3>2. CASE k \in 1..n
      BY <1>1, <1>3, <2>1, <3>1, <3>2
    <3>3. CASE k = n + 1
      BY <1>1, <1>4, <3>1, <3>3
    <3>4. QED
      BY <1>5, <3>2, <3>3
  <2>2. QED
    BY <1>1, <2>1 DEF Ascends
<1>7. \A d : d \in Range(L) <=> \E j \in 1..(n + 1) : d = L[j]
  BY <1>1 DEF Range
<1>8. ASSUME NEW d PROVE d \in Range(L) <=> d \in Range(list) \/ d = c
  <2>1. \A j \in 1..n : j \in 1..(n + 1)
    BY <1>1
  <2>2. n + 1 \in 1..(n + 1)
    BY <1>1
  <2>3. QED
    BY <1>1, <1>2, <1>5, <1>7, <2>1, <2>2
<1>9. QED
  BY <1>1, <1>6, <1>8 DEF L
---------------------------------------------------------------------------
(* Areas and chunks together.                                              *)
LibcArea == [at : Nat, words : Nat, buddies : Seq(Chunk)]
Free1(bs, k) == Range(bs[k].buddies)
FreeBut(bs, k) == UNION {Free1(bs, l) : l \in DOMAIN bs \ {k}}
AllFree(bs) == UNION {Free1(bs, l) : l \in DOMAIN bs}
AreaApart(a, b) == a.at + a.words <= b.at \/ b.at + b.words <= a.at

LibcAreas(bs) ==
  /\ bs \in Seq(LibcArea)
  /\ \A k \in DOMAIN bs : bs[k].at + bs[k].words <= MaxAreas * Brk /\ bs[k].words > BlockWords
  /\ \A k, l \in DOMAIN bs : k # l => AreaApart(bs[k], bs[l])
Lists(bs) ==
  /\ \A k \in DOMAIN bs : Ascends(bs[k].buddies)
  /\ \A k, l \in DOMAIN bs : k # l => Free1(bs, k) \cap Free1(bs, l) = {}
Shared(bs, given) ==
  /\ given \in SUBSET Chunk /\ IsFiniteSet(given) /\ AllFree(bs) \cap given = {}
  /\ Apart(AllFree(bs) \cup given) /\ Fills(AllFree(bs) \cup given, bs)
Good(bs, given) == LibcAreas(bs) /\ Lists(bs) /\ Shared(bs, given)

(* What an area is made of, and its list beside the others.                *)
LEMMA AreaFacts ==
  ASSUME NEW bs, LibcAreas(bs), NEW k \in DOMAIN bs
  PROVE  /\ Len(bs) \in Nat /\ DOMAIN bs = 1..Len(bs)
         /\ bs[k] \in LibcArea /\ bs[k].at \in Nat /\ bs[k].words \in Nat /\ bs[k].buddies \in Seq(Chunk)
         /\ Free1(bs, k) \subseteq Chunk /\ AllFree(bs) = FreeBut(bs, k) \cup Free1(bs, k)
<1>1. Len(bs) \in Nat /\ DOMAIN bs = 1..Len(bs) /\ bs[k] \in LibcArea
  BY DEF LibcAreas
<1>2. bs[k].at \in Nat /\ bs[k].words \in Nat /\ bs[k].buddies \in Seq(Chunk)
  BY <1>1 DEF LibcArea
<1>3. Free1(bs, k) \subseteq Chunk
  BY <1>2 DEF Free1, Range
<1>4. AllFree(bs) = FreeBut(bs, k) \cup Free1(bs, k)
  BY DEF AllFree, FreeBut
<1>5. QED
  BY <1>1, <1>2, <1>3, <1>4

(* What lists hold are chunks.                                             *)
LEMMA FreeChunks == ASSUME NEW bs, LibcAreas(bs) PROVE AllFree(bs) \subseteq Chunk
BY AreaFacts DEF AllFree

(* One list changes.                                                       *)
OneChange(bs, given, k, L, next, now) ==
  /\ Good(bs, given) /\ k \in DOMAIN bs
  /\ L \in Seq(Chunk) /\ Ascends(L) /\ Range(L) \cap FreeBut(bs, k) = {}
  /\ next = [bs EXCEPT ![k].buddies = L] /\ now \in SUBSET Chunk /\ IsFiniteSet(now)
  /\ (FreeBut(bs, k) \cup Range(L)) \cap now = {}
  /\ Apart(FreeBut(bs, k) \cup Range(L) \cup now) /\ Fills(FreeBut(bs, k) \cup Range(L) \cup now, bs)

(* A list may change when the chunks still make up the areas.              *)
LEMMA ListChanged ==
  ASSUME NEW bs, NEW given, NEW k, NEW L, NEW next, NEW now, OneChange(bs, given, k, L, next, now)
  PROVE  /\ Good(next, now) /\ AllFree(next) = FreeBut(bs, k) \cup Range(L)
         /\ DOMAIN next = DOMAIN bs /\ \A l \in DOMAIN bs : next[l].at = bs[l].at /\ next[l].words = bs[l].words
<1> USE DEF OneChange
<1>1. LibcAreas(bs) /\ Lists(bs) /\ bs \in Seq(LibcArea)
  BY DEF Good, LibcAreas
<1>2. /\ next \in Seq(LibcArea) /\ DOMAIN next = DOMAIN bs
      /\ next[k].buddies = L /\ next[k].at = bs[k].at /\ next[k].words = bs[k].words
      /\ \A l \in DOMAIN bs : l # k => next[l] = bs[l]
  <2>1. [bs[k] EXCEPT !.buddies = L] \in LibcArea
    <3>1. bs[k] \in LibcArea
      BY <1>1
    <3>2. QED
      BY <3>1 DEF LibcArea
  <2>2. next = [bs EXCEPT ![k] = [bs[k] EXCEPT !.buddies = L]]
    OBVIOUS
  <2> DEFINE a == [bs[k] EXCEPT !.buddies = L]
  <2>3. a.buddies = L /\ a.at = bs[k].at /\ a.words = bs[k].words
    <3>1. bs[k] \in LibcArea
      BY <1>1
    <3>2. QED
      BY <3>1 DEF LibcArea
  <2> HIDE DEF a
  <2>4. next = [bs EXCEPT ![k] = a] /\ a \in LibcArea
    BY <2>1, <2>2 DEF a
  <2>5. QED
    BY <1>1, <2>3, <2>4
<1>3. \A l \in DOMAIN bs : next[l].at = bs[l].at /\ next[l].words = bs[l].words
  BY <1>2
<1>4. LibcAreas(next)
  BY <1>1, <1>2, <1>3 DEF LibcAreas, AreaApart
<1>5. Free1(next, k) = Range(L) /\ \A l \in DOMAIN bs : l # k => Free1(next, l) = Free1(bs, l)
  BY <1>2 DEF Free1
<1>6. \A l \in DOMAIN bs : l # k => Free1(bs, l) \subseteq FreeBut(bs, k)
  BY DEF FreeBut
<1>7. Lists(next)
  <2>1. \A l \in DOMAIN next : Ascends(next[l].buddies)
    BY <1>1, <1>2 DEF Lists
  <2>2. \A l, m \in DOMAIN next : l # m => Free1(next, l) \cap Free1(next, m) = {}
    <3> SUFFICES ASSUME NEW l \in DOMAIN bs, NEW m \in DOMAIN bs, l # m
                 PROVE  Free1(next, l) \cap Free1(next, m) = {}
      BY <1>2
    <3>1. CASE l = k
      BY <1>5, <1>6, <3>1
    <3>2. CASE m = k
      BY <1>5, <1>6, <3>2
    <3>3. CASE l # k /\ m # k
      <4>1. Free1(bs, l) \cap Free1(bs, m) = {}
        BY <1>1 DEF Lists
      <4>2. QED
        BY <1>5, <3>3, <4>1
    <3>4. QED
      BY <3>1, <3>2, <3>3
  <2>3. QED
    BY <2>1, <2>2 DEF Lists
<1>8. AllFree(next) = FreeBut(bs, k) \cup Range(L)
  <2>1. AllFree(next) = FreeBut(next, k) \cup Free1(next, k)
    BY <1>2, <1>4, AreaFacts
  <2>2. FreeBut(next, k) = FreeBut(bs, k)
    <3>1. \A c : c \in FreeBut(next, k) <=> \E l \in DOMAIN bs \ {k} : c \in Free1(next, l)
      <4>1. \A c : c \in FreeBut(next, k) <=> \E l \in DOMAIN next \ {k} : c \in Free1(next, l)
        BY DEF FreeBut
      <4>2. QED
        BY <1>2, <4>1
    <3>2. \A c : c \in FreeBut(bs, k) <=> \E l \in DOMAIN bs \ {k} : c \in Free1(bs, l)
      BY DEF FreeBut
    <3>3. \A l \in DOMAIN bs \ {k} : Free1(next, l) = Free1(bs, l)
      BY <1>5
    <3>4. \A c : c \in FreeBut(next, k) <=> c \in FreeBut(bs, k)
      BY <3>1, <3>2, <3>3
    <3>5. QED
      BY <3>4
  <2>3. QED
    BY <1>5, <2>1, <2>2
<1>9. Fills(AllFree(next) \cup now, next)
  <2>1. \A w : (\E l \in DOMAIN next : InBody(next[l], w)) <=> \E l \in DOMAIN bs : InBody(bs[l], w)
    BY <1>2, <1>3 DEF InBody
  <2>2. QED
    BY <1>8, <2>1 DEF Fills
<1>10. Shared(next, now)
  BY <1>8, <1>9 DEF Shared
<1>11. QED
  BY <1>2, <1>3, <1>4, <1>7, <1>8, <1>10 DEF Good
---------------------------------------------------------------------------
(* What the selections find.                                               *)
LEMMA FirstFits ==
  ASSUME NEW list \in Seq(Chunk), NEW n \in Nat
  PROVE  /\ FirstFit(list, n) \in 0..Len(list)
         /\ FirstFit(list, n) # 0 => n + SizeWords <= list[FirstFit(list, n)].size
         /\ FirstFit(list, n) = 0 => \A i \in 1..Len(list) : ~(n + SizeWords <= list[i].size)
<1> DEFINE I == {i \in 1..Len(list) : n + SizeWords <= list[i].size}
<1>1. FirstFit(list, n) = IF I # {} THEN Min(I) ELSE 0
  BY DEF FirstFit, SelectInSeq
<1>2. I \in SUBSET Nat /\ Len(list) \in Nat
  OBVIOUS
<1>3. I # {} => Min(I) \in I
  BY <1>2, Least
<1>4. I # {} => Min(I) \in 1..Len(list) /\ n + SizeWords <= list[Min(I)].size /\ Min(I) # 0
  BY <1>2, <1>3
<1>5. I = {} => \A i \in 1..Len(list) : ~(n + SizeWords <= list[i].size)
  OBVIOUS
<1> HIDE DEF I
<1>6. QED
  BY <1>1, <1>2, <1>4, <1>5

(* The first area whose list has room.                                     *)
LEMMA FittingFacts ==
  ASSUME NEW bs \in Seq(LibcArea), NEW n
  PROVE  /\ Fitting(bs, n) \in 0..Len(bs)
         /\ Fitting(bs, n) # 0 => FirstFit(bs[Fitting(bs, n)].buddies, n) # 0
         /\ Fitting(bs, n) = 0 => \A k \in 1..Len(bs) : FirstFit(bs[k].buddies, n) = 0
<1> DEFINE I == {k \in 1..Len(bs) : FirstFit(bs[k].buddies, n) # 0}
<1>1. Fitting(bs, n) = IF I # {} THEN Min(I) ELSE 0
  BY DEF Fitting, SelectInSeq
<1>2. I \in SUBSET Nat /\ Len(bs) \in Nat
  OBVIOUS
<1>3. I # {} => Min(I) \in I
  BY <1>2, Least
<1>4. I # {} => Min(I) \in 1..Len(bs) /\ FirstFit(bs[Min(I)].buddies, n) # 0 /\ Min(I) # 0
  BY <1>2, <1>3
<1>5. I = {} => \A k \in 1..Len(bs) : FirstFit(bs[k].buddies, n) = 0
  OBVIOUS
<1> HIDE DEF I
<1>6. QED
  BY <1>1, <1>2, <1>4, <1>5

(* The neighbour that a chunk joins, or the first behind it.               *)
Meets(b, p) == RightOf(b, p) \/ b.at + b.size <= p.at
FirstMet(list, b) == SelectInSeq(list, LAMBDA p : RightOf(b, p) \/ b.at + b.size <= p.at)

(* The first chunk of a list that the freed one meets.                     *)
LEMMA FirstMetFacts ==
  ASSUME NEW list \in Seq(Chunk), NEW b \in Chunk
  PROVE  /\ FirstMet(list, b) \in 0..Len(list)
         /\ FirstMet(list, b) # 0 => /\ Meets(b, list[FirstMet(list, b)])
                                     /\ \A i \in 1..Len(list) : i < FirstMet(list, b) => ~Meets(b, list[i])
         /\ FirstMet(list, b) = 0 => \A i \in 1..Len(list) : ~Meets(b, list[i])
<1> DEFINE I == {i \in 1..Len(list) : RightOf(b, list[i]) \/ b.at + b.size <= list[i].at}
<1>1. FirstMet(list, b) = IF I # {} THEN Min(I) ELSE 0
  BY DEF FirstMet, SelectInSeq
<1>2. I \in SUBSET Nat /\ Len(list) \in Nat /\ \A i : i \in I <=> i \in 1..Len(list) /\ Meets(b, list[i])
  BY DEF Meets
<1> HIDE DEF I
<1>3. I # {} => Min(I) \in I /\ \A y \in I : Min(I) <= y
  BY <1>2, Least
<1>4. ASSUME I # {}
      PROVE  /\ Min(I) \in 1..Len(list) /\ Min(I) # 0 /\ Meets(b, list[Min(I)])
             /\ \A i \in 1..Len(list) : i < Min(I) => ~Meets(b, list[i])
  <2>1. Min(I) \in I /\ Min(I) \in Nat /\ Min(I) \in 1..Len(list)
    BY <1>2, <1>3, <1>4
  <2>2. \A i \in 1..Len(list) : i < Min(I) => i \notin I
    BY <1>3, <1>4, <2>1
  <2>3. QED
    BY <1>2, <2>1, <2>2
<1>5. QED
  BY <1>1, <1>2, <1>4

(* Two words at least are asked of an area: room for the links.            *)
LEMMA WantedFacts == \A size \in Nat : Wanted(size) \in Nat /\ Wanted(size) >= 2
BY DEF Wanted

(* One list among the others.                                              *)
LEMMA OneList ==
  ASSUME NEW bs, NEW given, Good(bs, given), NEW k \in DOMAIN bs
  PROVE  /\ bs[k].buddies \in Seq(Chunk) /\ Ascends(bs[k].buddies)
         /\ Free1(bs, k) \subseteq Chunk /\ AllFree(bs) = FreeBut(bs, k) \cup Free1(bs, k)
         /\ Free1(bs, k) \cap FreeBut(bs, k) = {} /\ Free1(bs, k) = Range(bs[k].buddies)
<1>1. LibcAreas(bs) /\ Lists(bs)
  BY DEF Good
<1>2. \A l \in DOMAIN bs : l # k => Free1(bs, k) \cap Free1(bs, l) = {}
  BY <1>1 DEF Lists
<1>3. \A c : c \in FreeBut(bs, k) <=> \E l \in DOMAIN bs \ {k} : c \in Free1(bs, l)
  BY DEF FreeBut
<1>4. Free1(bs, k) \cap FreeBut(bs, k) = {}
  BY <1>2, <1>3
<1>5. QED
  BY <1>1, <1>4, AreaFacts DEF Lists, Free1

(* A chunk given: the end of a free one, or all of it.                     *)
Giving(bs, given, n, k, i, L, c, next) ==
  /\ Good(bs, given) /\ n \in Nat /\ n >= 2 /\ k \in DOMAIN bs
  /\ i \in 1..Len(bs[k].buddies) /\ n + SizeWords <= bs[k].buddies[i].size
  /\ L = Remaining(bs[k].buddies, i, n) /\ c = Carved(bs[k].buddies[i], n)
  /\ next = [bs EXCEPT ![k].buddies = L]

LEMMA Gives ==
  ASSUME NEW bs, NEW given, NEW n, NEW k, NEW i, NEW L, NEW c, NEW next, Giving(bs, given, n, k, i, L, c, next)
  PROVE  /\ Good(next, given \cup {c}) /\ c \in Chunk /\ c \notin given /\ n + SizeWords <= c.size
         /\ DOMAIN next = DOMAIN bs /\ \A l \in DOMAIN bs : next[l].at = bs[l].at /\ next[l].words = bs[l].words
<1> DEFINE list == bs[k].buddies
           p == list[i]
           A == AllFree(bs) \cup given
           others == FreeBut(bs, k)
           now == given \cup {c}
<1> USE DEF Giving
<1>1. /\ list \in Seq(Chunk) /\ Ascends(list) /\ Range(list) \subseteq Chunk /\ i \in 1..Len(list)
      /\ AllFree(bs) = others \cup Range(list) /\ Range(list) \cap others = {}
  BY OneList
<1>2. p \in Chunk /\ p \in Range(list) /\ p.at \in Nat /\ p.size \in Nat /\ p.size >= BuddyWords
  <2>1. p \in Chunk /\ p \in Range(list)
    BY <1>1, Members
  <2>2. QED
    BY <2>1, ChunkSize
<1>3. /\ A \in SUBSET Chunk /\ given \in SUBSET Chunk /\ IsFiniteSet(given) /\ AllFree(bs) \cap given = {}
      /\ Apart(A) /\ Fills(A, bs)
  BY FreeChunks DEF Good, Shared
<1>4. p \in A /\ p \notin others /\ p \notin given
  BY <1>1, <1>2, <1>3
<1>5. n + SizeWords <= p.size
  OBVIOUS
<1>6. L = Remaining(list, i, n) /\ c = Carved(p, n)
  OBVIOUS
<1>7. IsFiniteSet(now)
  BY <1>3, FS_AddElement
<1>8. SizeWords \in Nat /\ SplitWords \in Nat /\ BuddyWords \in Nat /\ BuddyWords <= SplitWords /\ BuddyWords <= SizeWords + 2
  BY LibcAssumption
<1> DEFINE left == p.size - (n + SizeWords)
<1>9. CASE SplitWords <= left
  <2> DEFINE q == [at |-> p.at, size |-> left]
  <2>1. left \in Nat /\ left >= BuddyWords
    BY <1>2, <1>5, <1>8, <1>9
  <2>2. c = [at |-> p.at + left, size |-> n + SizeWords]
    BY <1>6, <1>9 DEF Carved, Left
  <2>3. q \in Chunk /\ c \in Chunk
    <3>1. n + SizeWords \in {m \in Nat : m >= BuddyWords} /\ left \in {m \in Nat : m >= BuddyWords}
      BY <1>8, <2>1
    <3>2. p.at + left \in Nat
      BY <1>2, <2>1
    <3>3. QED
      BY <1>2, <2>2, <3>1, <3>2 DEF Chunk
  <2>4. L = [list EXCEPT ![i] = q]
    <3>1. L = [list EXCEPT ![i].size = left]
      BY <1>6, <1>9 DEF Remaining, Left
    <3>2. q = [p EXCEPT !.size = left]
      BY <1>2 DEF Chunk
    <3>3. [list EXCEPT ![i].size = left] = [list EXCEPT ![i] = [list[i] EXCEPT !.size = left]]
      OBVIOUS
    <3>4. QED
      BY <3>1, <3>2, <3>3
  <2>5. q.at = p.at /\ q.size = left /\ c.at = q.at + q.size /\ c.size = n + SizeWords /\ q.size + c.size = p.size
    BY <1>2, <1>5, <1>8, <2>2
  <2> HIDE DEF left, q
  <2> DEFINE B == (A \ {p}) \cup {q, c}
  <2>6. q \notin A /\ c \notin A /\ q # c /\ B \in SUBSET Chunk /\ Apart(B) /\ Fills(B, bs)
    <3> HIDE DEF A, p
    <3>1. c.at = p.at + q.size
      BY <2>5
    <3>2. QED
      BY <1>3, <1>4, <2>3, <2>5, <3>1, Split
  <2>7. L \in Seq(Chunk) /\ Ascends(L) /\ Range(L) = (Range(list) \ {p}) \cup {q}
    <3>1. \A j \in 1..Len(list) : /\ j < i => list[j].at + list[j].size <= q.at
                                  /\ i < j => q.at + q.size <= list[j].at
      <4> TAKE j \in 1..Len(list)
      <4>1. j < i => list[j].at + list[j].size <= p.at
        BY <1>1 DEF Ascends
      <4>2. i < j => p.at + p.size <= list[j].at
        BY <1>1 DEF Ascends
      <4>3. list[j].at \in Nat
        BY <1>1, ChunkSize
      <4>4. q.at + q.size <= p.at + p.size
        BY <1>2, <1>8, <2>1, <2>5 DEF left
      <4> HIDE DEF p
      <4>5. q.at + q.size \in Nat /\ p.at + p.size \in Nat
        BY <1>2, <2>1, <2>5
      <4>6. QED
        BY <2>5, <4>1, <4>2, <4>3, <4>4, <4>5
    <3> HIDE DEF list
    <3>2. /\ [list EXCEPT ![i] = q] \in Seq(Chunk) /\ Ascends([list EXCEPT ![i] = q])
          /\ Range([list EXCEPT ![i] = q]) = (Range(list) \ {list[i]}) \cup {q}
      BY <1>1, <2>3, <3>1, ListChanges
    <3>3. QED
      BY <2>4, <3>2
  <2>8. others \cup Range(L) \cup now = B
    BY <1>1, <1>3, <1>4, <2>7
  <2>9. Range(L) \cap others = {} /\ (others \cup Range(L)) \cap now = {}
    BY <1>1, <1>3, <1>4, <2>6, <2>7
  <2>10. now \in SUBSET Chunk /\ c \notin given /\ n + SizeWords <= c.size
    BY <1>2, <1>3, <1>8, <2>3, <2>5, <2>6
  <2> HIDE DEF A, others, now, B
  <2>11. /\ Good(next, now)
         /\ DOMAIN next = DOMAIN bs /\ \A l \in DOMAIN bs : next[l].at = bs[l].at /\ next[l].words = bs[l].words
    <3>1. Apart(FreeBut(bs, k) \cup Range(L) \cup now) /\ Fills(FreeBut(bs, k) \cup Range(L) \cup now, bs)
      BY <2>6, <2>8 DEF others
    <3>2. Range(L) \cap FreeBut(bs, k) = {} /\ (FreeBut(bs, k) \cup Range(L)) \cap now = {}
      BY <2>9 DEF others
    <3>3. OneChange(bs, given, k, L, next, now)
      BY <1>7, <2>7, <2>10, <3>1, <3>2 DEF OneChange
    <3>4. QED
      BY <3>3, ListChanged
  <2>12. QED
    BY <2>3, <2>10, <2>11 DEF now
<1>10. CASE ~(SplitWords <= left)
  <2>1. c = p /\ L = RemoveAt(list, i)
    BY <1>6, <1>10 DEF Carved, Remaining, Left
  <2>2. L \in Seq(Chunk) /\ Ascends(L) /\ Range(L) = Range(list) \ {p}
    <3> HIDE DEF list
    <3>1. QED
      BY <1>1, <2>1, ListRemoves DEF p
  <2>3. others \cup Range(L) \cup now = A
    BY <1>1, <1>4, <2>1, <2>2
  <2>4. Range(L) \cap others = {} /\ (others \cup Range(L)) \cap now = {}
    BY <1>1, <1>3, <1>4, <2>1, <2>2
  <2>5. now \in SUBSET Chunk
    BY <1>2, <1>3, <2>1
  <2> HIDE DEF A, others, now
  <2>6. /\ Good(next, now)
        /\ DOMAIN next = DOMAIN bs /\ \A l \in DOMAIN bs : next[l].at = bs[l].at /\ next[l].words = bs[l].words
    <3>1. Apart(FreeBut(bs, k) \cup Range(L) \cup now) /\ Fills(FreeBut(bs, k) \cup Range(L) \cup now, bs)
      BY <1>3, <2>3 DEF others
    <3>2. Range(L) \cap FreeBut(bs, k) = {} /\ (FreeBut(bs, k) \cup Range(L)) \cap now = {}
      BY <2>4 DEF others
    <3>3. OneChange(bs, given, k, L, next, now)
      BY <1>7, <2>2, <2>5, <3>1, <3>2 DEF OneChange
    <3>4. QED
      BY <3>3, ListChanged
  <2>7. QED
    BY <1>2, <1>4, <1>5, <2>1, <2>6 DEF now
<1>11. QED
  BY <1>9, <1>10

(* A chunk taken back: it joins a neighbour or is put among the free ones. *)
TakingBack(bs, given, b, k, L, next) ==
  /\ Good(bs, given) /\ b \in given /\ k \in DOMAIN bs
  /\ L = Inserted(bs[k].buddies, b) /\ next = [bs EXCEPT ![k].buddies = L]

LEMMA TakesBack ==
  ASSUME NEW bs, NEW given, NEW b, NEW k, NEW L, NEW next, TakingBack(bs, given, b, k, L, next)
  PROVE  /\ Good(next, given \ {b})
         /\ DOMAIN next = DOMAIN bs /\ \A l \in DOMAIN bs : next[l].at = bs[l].at /\ next[l].words = bs[l].words
<1> DEFINE list == bs[k].buddies
           A == AllFree(bs) \cup given
           others == FreeBut(bs, k)
           now == given \ {b}
           i == FirstMet(list, b)
           n == Len(list)
<1> USE DEF TakingBack
<1>1. /\ list \in Seq(Chunk) /\ Ascends(list) /\ Range(list) \subseteq Chunk
      /\ AllFree(bs) = others \cup Range(list) /\ Range(list) \cap others = {}
  BY OneList
<1>2. /\ A \in SUBSET Chunk /\ given \in SUBSET Chunk /\ IsFiniteSet(given) /\ AllFree(bs) \cap given = {}
      /\ Apart(A) /\ Fills(A, bs)
  BY FreeChunks DEF Good, Shared
<1>3. /\ b \in Chunk /\ b \in A /\ b \notin others /\ b \notin Range(list)
      /\ b.at \in Nat /\ b.size \in Nat /\ b.size > 0
  BY <1>1, <1>2, ChunkSize
<1>4. IsFiniteSet(now) /\ now \in SUBSET Chunk
  BY <1>2, FS_RemoveElement
<1>5. /\ i \in 0..n /\ n \in Nat
      /\ i # 0 => Meets(b, list[i]) /\ \A j \in 1..n : j < i => ~Meets(b, list[j])
      /\ i = 0 => \A j \in 1..n : ~Meets(b, list[j])
  BY <1>1, <1>3, FirstMetFacts
<1>6. L = IF i = 0 THEN Append(list, b)
          ELSE IF RightOf(b, list[i]) THEN [list EXCEPT ![i].size = @ + b.size]
          ELSE IF LeftOf(b, list[i]) THEN [list EXCEPT ![i] = [at |-> b.at, size |-> b.size + @.size]]
          ELSE InsertAt(list, i, b)
  BY DEF Inserted, FirstMet
<1>7. \A j \in 1..n : /\ list[j] \in Chunk /\ list[j] \in Range(list) /\ list[j] \in A /\ list[j] # b
                      /\ list[j].at \in Nat /\ list[j].size \in Nat /\ list[j].size > 0
                      /\ Apart2(b, list[j])
  <2> TAKE j \in 1..n
  <2>1. list[j] \in Chunk /\ list[j] \in Range(list)
    BY <1>1, Members
  <2>2. list[j] \in A /\ list[j] # b
    BY <1>1, <1>3, <2>1
  <2>3. Apart2(b, list[j])
    BY <1>2, <1>3, <2>2 DEF Apart
  <2>4. QED
    BY <2>1, <2>2, <2>3, ChunkSize
<1>8. \A j, m \in 1..n : j < m => list[j].at + list[j].size <= list[m].at
  BY <1>1 DEF Ascends
<1> HIDE DEF i, n
<1>9. \A j \in 1..n : ~Meets(b, list[j]) => list[j].at + list[j].size <= b.at
  BY <1>3, <1>7 DEF Meets, Apart2

(* It is put among them, ...                                               *)
<1>10. CASE L \in Seq(Chunk) /\ Ascends(L) /\ Range(L) = Range(list) \cup {b}
  <2>1. others \cup Range(L) \cup now = A
    BY <1>1, <1>2, <1>3, <1>10
  <2>2. Range(L) \cap others = {} /\ (others \cup Range(L)) \cap now = {}
    BY <1>1, <1>2, <1>3, <1>10
  <2> HIDE DEF A, others, now, list
  <2>3. Apart(FreeBut(bs, k) \cup Range(L) \cup now) /\ Fills(FreeBut(bs, k) \cup Range(L) \cup now, bs)
    BY <1>2, <2>1 DEF others
  <2>4. Range(L) \cap FreeBut(bs, k) = {} /\ (FreeBut(bs, k) \cup Range(L)) \cap now = {}
    BY <2>2 DEF others
  <2>5. OneChange(bs, given, k, L, next, now)
    BY <1>4, <1>10, <2>3, <2>4 DEF OneChange
  <2>6. QED
    BY <2>5, ListChanged DEF now

(* ... or it makes one of a neighbour and itself.                          *)
<1>11. ASSUME NEW p \in Range(list), NEW q \in Chunk,
              \/ p.at = q.at /\ b.at = q.at + p.size /\ p.size + b.size = q.size
              \/ b.at = q.at /\ p.at = q.at + b.size /\ b.size + p.size = q.size,
              L \in Seq(Chunk) /\ Ascends(L) /\ Range(L) = (Range(list) \ {p}) \cup {q}
       PROVE  /\ Good(next, given \ {b})
              /\ DOMAIN next = DOMAIN bs /\ \A l \in DOMAIN bs : next[l].at = bs[l].at /\ next[l].words = bs[l].words
  <2> DEFINE B == (A \ {p, b}) \cup {q}
  <2>1. p \in A /\ p # b /\ p \notin others /\ p \notin given
    BY <1>1, <1>2, <1>3
  <2>2. q \notin A /\ B \in SUBSET Chunk /\ Apart(B) /\ Fills(B, bs)
    <3> HIDE DEF A
    <3>1. B = (A \ {b, p}) \cup {q}
      OBVIOUS
    <3> HIDE DEF B
    <3>2. CASE p.at = q.at /\ b.at = q.at + p.size /\ p.size + b.size = q.size
      <4>1. p.at = q.at /\ b.at = p.at + p.size /\ p.size + b.size = q.size /\ B = (A \ {p, b}) \cup {q}
        BY <3>2 DEF B
      <4>2. QED
        BY <1>2, <1>3, <2>1, <4>1, Join
    <3>3. CASE b.at = q.at /\ p.at = q.at + b.size /\ b.size + p.size = q.size
      <4>1. b.at = q.at /\ p.at = b.at + b.size /\ b.size + p.size = q.size
        BY <3>3
      <4>2. QED
        BY <1>2, <1>3, <2>1, <3>1, <4>1, Join
    <3>4. QED
      BY <1>11, <3>2, <3>3
  <2>3. others \cup Range(L) \cup now = B
    BY <1>1, <1>2, <1>3, <1>11, <2>1
  <2>4. Range(L) \cap others = {} /\ (others \cup Range(L)) \cap now = {}
    BY <1>1, <1>2, <1>3, <1>11, <2>1, <2>2
  <2> HIDE DEF A, others, now, list, B
  <2>5. Apart(FreeBut(bs, k) \cup Range(L) \cup now) /\ Fills(FreeBut(bs, k) \cup Range(L) \cup now, bs)
    BY <2>2, <2>3 DEF others
  <2>6. Range(L) \cap FreeBut(bs, k) = {} /\ (FreeBut(bs, k) \cup Range(L)) \cap now = {}
    BY <2>4 DEF others
  <2>7. OneChange(bs, given, k, L, next, now)
    BY <1>4, <1>11, <2>5, <2>6 DEF OneChange
  <2>8. QED
    BY <2>7, ListChanged DEF now
<1>12. CASE i = 0
  <2>1. \A j \in 1..n : list[j].at + list[j].size <= b.at
    BY <1>5, <1>9, <1>12
  <2>2. L = Append(list, b)
    BY <1>6, <1>12
  <2> HIDE DEF list
  <2>3. L \in Seq(Chunk) /\ Ascends(L) /\ Range(L) = Range(list) \cup {b}
    BY <1>1, <1>3, <2>1, <2>2, ListAppends DEF n
  <2>4. QED
    BY <1>10, <2>3
<1>13. CASE i # 0
  <2> DEFINE p == list[i]
  <2>1. i \in 1..n
    BY <1>5, <1>13
  <2>2. p \in Chunk /\ p \in Range(list) /\ p.at \in Nat /\ p.size \in Nat /\ p.size > 0 /\ Apart2(b, p)
    BY <1>7, <2>1
  <2>3. \A j \in 1..n : /\ j < i => list[j].at + list[j].size <= b.at /\ list[j].at + list[j].size <= p.at
                        /\ i < j => p.at + p.size <= list[j].at
    BY <1>5, <1>8, <1>9, <1>13, <2>1
  <2>4. Meets(b, p)
    BY <1>5, <1>13
  <2>5. CASE RightOf(b, p)
    <3> DEFINE q == [at |-> p.at, size |-> p.size + b.size]
    <3>1. p.at + p.size = b.at
      BY <2>5 DEF RightOf
    <3>2. q \in Chunk
      BY <1>3, <2>2, LibcAssumption DEF Chunk
    <3>3. L = [list EXCEPT ![i] = q]
      <4>1. L = [list EXCEPT ![i] = [list[i] EXCEPT !.size = @ + b.size]]
        BY <1>6, <1>13, <2>5
      <4>2. [p EXCEPT !.size = @ + b.size] = q
        BY <2>2 DEF Chunk
      <4>3. QED
        BY <4>1, <4>2
    <3>4. q.at = p.at /\ q.size = p.size + b.size
      OBVIOUS
    <3> HIDE DEF q
    <3>5. \A j \in 1..n : /\ j < i => list[j].at + list[j].size <= q.at
                          /\ i < j => q.at + q.size <= list[j].at
      <4> TAKE j \in 1..n
      <4>1. i < j => q.at + q.size <= list[j].at
        <5> HAVE i < j
        <5>1. b.at <= list[j].at
          BY <2>3, <3>1
        <5>2. b.at + b.size <= list[j].at \/ list[j].at + list[j].size <= b.at
          BY <1>7 DEF Apart2
        <5>3. b.at + b.size <= list[j].at
          BY <1>3, <1>7, <5>1, <5>2
        <5>4. q.at + q.size = b.at + b.size
          BY <1>3, <2>2, <3>1, <3>4
        <5>5. QED
          BY <5>3, <5>4
      <4>2. QED
        BY <2>3, <3>4, <4>1
    <3> HIDE DEF list
    <3>6. /\ [list EXCEPT ![i] = q] \in Seq(Chunk) /\ Ascends([list EXCEPT ![i] = q])
          /\ Range([list EXCEPT ![i] = q]) = (Range(list) \ {list[i]}) \cup {q}
      BY <1>1, <2>1, <3>2, <3>5, ListChanges DEF n
    <3>7. L \in Seq(Chunk) /\ Ascends(L) /\ Range(L) = (Range(list) \ {p}) \cup {q}
      BY <3>3, <3>6
    <3>8. p.at = q.at /\ b.at = q.at + p.size /\ p.size + b.size = q.size
      BY <3>1, <3>4
    <3> HIDE DEF p
    <3>9. QED
      BY <1>11, <2>2, <3>2, <3>7, <3>8
  <2>6. CASE ~RightOf(b, p) /\ LeftOf(b, p)
    <3> DEFINE q == [at |-> b.at, size |-> b.size + p.size]
    <3>1. b.at + b.size = p.at
      BY <2>6 DEF LeftOf
    <3>2. q \in Chunk
      BY <1>3, <2>2, LibcAssumption DEF Chunk
    <3>3. L = [list EXCEPT ![i] = q]
      BY <1>6, <1>13, <2>6
    <3>4. q.at = b.at /\ q.size = b.size + p.size /\ q.at + q.size = p.at + p.size
      BY <1>3, <2>2, <3>1
    <3> HIDE DEF q
    <3>5. \A j \in 1..n : /\ j < i => list[j].at + list[j].size <= q.at
                          /\ i < j => q.at + q.size <= list[j].at
      BY <2>3, <3>4
    <3> HIDE DEF list
    <3>6. /\ [list EXCEPT ![i] = q] \in Seq(Chunk) /\ Ascends([list EXCEPT ![i] = q])
          /\ Range([list EXCEPT ![i] = q]) = (Range(list) \ {list[i]}) \cup {q}
      BY <1>1, <2>1, <3>2, <3>5, ListChanges DEF n
    <3>7. L \in Seq(Chunk) /\ Ascends(L) /\ Range(L) = (Range(list) \ {p}) \cup {q}
      BY <3>3, <3>6
    <3>8. b.at = q.at /\ p.at = q.at + b.size /\ b.size + p.size = q.size
      BY <3>1, <3>4
    <3> HIDE DEF p
    <3>9. QED
      BY <1>11, <2>2, <3>2, <3>7, <3>8
  <2>7. CASE ~RightOf(b, p) /\ ~LeftOf(b, p)
    <3>1. b.at + b.size <= p.at
      BY <2>4, <2>7 DEF Meets
    <3>2. L = InsertAt(list, i, b)
      BY <1>6, <1>13, <2>7
    <3>3. \A j \in 1..n : /\ j < i => list[j].at + list[j].size <= b.at
                          /\ i <= j => b.at + b.size <= list[j].at
      <4> TAKE j \in 1..n
      <4>1. i <= j => i = j \/ i < j
        BY <2>1, <1>5
      <4>2. i < j => b.at + b.size <= list[j].at
        <5> HAVE i < j
        <5>1. p.at + p.size <= list[j].at
          BY <2>3
        <5>2. list[j].at \in Nat
          BY <1>7
        <5> HIDE DEF p
        <5>3. QED
          BY <1>3, <2>2, <3>1, <5>1, <5>2
      <4>3. QED
        BY <2>3, <3>1, <4>1, <4>2
    <3> HIDE DEF list
    <3>4. /\ InsertAt(list, i, b) \in Seq(Chunk) /\ Ascends(InsertAt(list, i, b))
          /\ Range(InsertAt(list, i, b)) = Range(list) \cup {b}
      BY <1>1, <1>3, <2>1, <3>3, ListInserts DEF n
    <3>5. QED
      BY <1>10, <3>2, <3>4
  <2>8. QED
    BY <2>5, <2>6, <2>7
<1>14. QED
  BY <1>12, <1>13
---------------------------------------------------------------------------
(* A new area.                                                             *)
LEMMA Products ==
  ASSUME NEW a \in Nat, NEW c \in Nat, NEW b \in Nat, NEW m \in Nat
  PROVE  /\ a * b \in Nat /\ (a + c) * b = a * b + c * b
         /\ a + c <= m => a * b + c * b <= m * b
         /\ c >= 1 => c * b >= b
<1>1. a * b \in Nat /\ c * b \in Nat /\ (a + c) * b = a * b + c * b
  OBVIOUS
<1>2. ASSUME a + c <= m PROVE a * b + c * b <= m * b
  <2> DEFINE r == m - (a + c)
  <2>1. r \in Nat /\ m = a + c + r
    BY <1>2
  <2> HIDE DEF r
  <2>2. m * b = a * b + c * b + r * b /\ r * b \in Nat
    BY <2>1
  <2>3. QED
    BY <1>1, <2>2
<1>3. ASSUME c >= 1 PROVE c * b >= b
  <2> DEFINE r == c - 1
  <2>1. r \in Nat /\ c = r + 1
    BY <1>3
  <2> HIDE DEF r
  <2>2. c * b = r * b + b /\ r * b \in Nat
    BY <2>1
  <2>3. QED
    BY <2>2
<1>4. QED
  BY <1>1, <1>2, <1>3

(* At least one Brk is mapped.                                             *)
LEMMA BrkFacts == \A n \in Nat : n >= 2 => BrkCount(n) \in Nat /\ BrkCount(n) >= 1
<1> SUFFICES ASSUME NEW n \in Nat, n >= 2 PROVE BrkCount(n) \in Nat /\ BrkCount(n) >= 1
  OBVIOUS
<1> DEFINE x == n + Brk - 1
           q == x \div Brk
<1>1. Brk \in Nat /\ Brk > 0 /\ x \in Nat /\ x > Brk
  BY LibcAssumption
<1> HIDE DEF x
<1>2. q \in Nat /\ x < (q + 1) * Brk
  BY <1>1
<1> HIDE DEF q
<1>3. q # 0
  BY <1>1, <1>2
<1>4. QED
  BY <1>2, <1>3 DEF BrkCount, q, x

Opening(bs, given, at, words, next) ==
  /\ Good(bs, given) /\ at \in Nat /\ words \in Nat
  /\ at + words <= MaxAreas * Brk /\ words >= BlockWords + BuddyWords
  /\ \A w \in at..(at + words - 1) : ~Within(bs, w)
  /\ next = <<Block(at, words)>> \o bs

LEMMA Opens ==
  ASSUME NEW bs, NEW given, NEW at, NEW words, NEW next, Opening(bs, given, at, words, next)
  PROVE  /\ Good(next, given) /\ Len(next) = Len(bs) + 1 /\ DOMAIN next = 1..Len(next)
         /\ next[1] = Block(at, words) /\ \A k \in DOMAIN bs : k + 1 \in DOMAIN next /\ next[k + 1] = bs[k]
<1> DEFINE n == Len(bs)
           area == Block(at, words)
           fresh == [at |-> at + BlockWords, size |-> words - BlockWords]
           A == AllFree(bs) \cup given
<1> USE DEF Opening
<1>1. BlockWords \in Nat /\ BuddyWords \in Nat /\ BuddyWords > 0
  BY LibcAssumption
<1>2. fresh \in Chunk
  <2>1. at + BlockWords \in Nat /\ words - BlockWords \in {m \in Nat : m >= BuddyWords}
    BY <1>1
  <2>2. QED
    BY <2>1 DEF Chunk
<1>3. fresh.at = at + BlockWords /\ fresh.size = words - BlockWords
  OBVIOUS
<1>4. area = [at |-> at, words |-> words, buddies |-> <<fresh>>]
  BY DEF Block
<1> HIDE DEF fresh
<1>5. <<fresh>> \in Seq(Chunk) /\ Ascends(<<fresh>>) /\ Range(<<fresh>>) = {fresh}
  <2>1. <<fresh>> \in Seq(Chunk) /\ Len(<<fresh>>) = 1 /\ DOMAIN <<fresh>> = {1} /\ <<fresh>>[1] = fresh
    BY <1>2
  <2>2. QED
    BY <2>1 DEF Ascends, Range
<1>6. area \in LibcArea /\ area.at = at /\ area.words = words /\ area.buddies = <<fresh>>
  BY <1>4, <1>5 DEF LibcArea
<1>7. next = <<area>> \o bs
  OBVIOUS
<1> HIDE DEF area
<1>8. LibcAreas(bs) /\ Lists(bs) /\ Shared(bs, given) /\ bs \in Seq(LibcArea) /\ n \in Nat /\ DOMAIN bs = 1..n
  BY DEF Good, LibcAreas
<1> DEFINE s == <<area>>
<1>9. s \in Seq(LibcArea) /\ Len(s) = 1 /\ s[1] = area
  BY <1>6
<1>10. next = s \o bs
  BY <1>7
<1> HIDE DEF s, n
<1>11. /\ next \in Seq(LibcArea) /\ Len(next) = 1 + n
       /\ \A i \in 1..(1 + n) : next[i] = IF i <= 1 THEN s[i] ELSE bs[i - 1]
  <2>1. /\ s \o bs \in Seq(LibcArea) /\ Len(s \o bs) = Len(s) + Len(bs)
        /\ \A i \in 1..(Len(s) + Len(bs)) : (s \o bs)[i] = IF i <= Len(s) THEN s[i] ELSE bs[i - Len(s)]
    BY <1>8, <1>9, ConcatProperties
  <2>2. QED
    BY <1>9, <1>10, <2>1 DEF n
<1>12. DOMAIN next = 1..(1 + n) /\ next[1] = area /\ \A k \in 1..n : k + 1 \in DOMAIN next /\ next[k + 1] = bs[k]
  <2>1. DOMAIN next = 1..(1 + n)
    BY <1>8, <1>11
  <2>2. \A k \in 1..n : k + 1 \in 1..(1 + n) /\ ~(k + 1 <= 1) /\ k + 1 - 1 = k
    BY <1>8
  <2>3. next[1] = area
    BY <1>8, <1>9, <1>11
  <2>4. QED
    BY <1>11, <2>1, <2>2, <2>3
<1>13. \A k \in DOMAIN next : k = 1 \/ (k - 1 \in 1..n /\ next[k] = bs[k - 1])
  <2> TAKE k \in DOMAIN next
  <2>1. k \in 1..(1 + n)
    BY <1>12
  <2>2. k = 1 \/ (k - 1 \in 1..n /\ ~(k <= 1))
    BY <1>8, <2>1
  <2>3. QED
    BY <1>11, <2>1, <2>2
<1> HIDE DEF area
<1>14. \A k \in 1..n : bs[k].at \in Nat /\ bs[k].words \in Nat /\ bs[k].words > BlockWords
  BY <1>8, AreaFacts DEF LibcAreas
<1>15. \A w \in Nat : \A k \in 1..n : bs[k].at <= w /\ w < bs[k].at + bs[k].words => Within(bs, w)
  BY <1>8, <1>14 DEF Within
<1>16. \A k \in 1..n : AreaApart(area, bs[k]) /\ AreaApart(bs[k], area)
  <2> TAKE k \in 1..n
  <2>1. bs[k].at \in Nat /\ bs[k].words \in Nat /\ bs[k].words > 0
    BY <1>1, <1>14
  <2>2. SUFFICES ASSUME at < bs[k].at + bs[k].words, bs[k].at < at + words PROVE FALSE
    BY <1>6, <2>1 DEF AreaApart
  <2> DEFINE w == IF at <= bs[k].at THEN bs[k].at ELSE at
  <2>3. w \in at..(at + words - 1) /\ w \in Nat /\ bs[k].at <= w /\ w < bs[k].at + bs[k].words
    BY <1>1, <2>1, <2>2
  <2>4. QED
    BY <1>15, <2>3
<1>17. LibcAreas(next)
  <2>1. \A k \in DOMAIN next : next[k].at + next[k].words <= MaxAreas * Brk /\ next[k].words > BlockWords
    <3> TAKE k \in DOMAIN next
    <3>1. CASE k = 1
      BY <1>1, <1>6, <1>12, <3>1
    <3>2. CASE k - 1 \in 1..n /\ next[k] = bs[k - 1]
      BY <1>8, <3>2 DEF LibcAreas
    <3>3. QED
      BY <1>13, <3>1, <3>2
  <2>2. ASSUME NEW k \in DOMAIN next, NEW l \in DOMAIN next, k # l PROVE AreaApart(next[k], next[l])
    <3>1. CASE k = 1
      <4>1. l - 1 \in 1..n /\ next[l] = bs[l - 1] /\ next[k] = area
        BY <1>12, <1>13, <2>2, <3>1
      <4>2. QED
        BY <1>16, <4>1
    <3>2. CASE l = 1
      <4>1. k - 1 \in 1..n /\ next[k] = bs[k - 1] /\ next[l] = area
        BY <1>12, <1>13, <2>2, <3>2
      <4>2. QED
        BY <1>16, <4>1
    <3>3. CASE k # 1 /\ l # 1
      <4>1. k - 1 \in 1..n /\ next[k] = bs[k - 1] /\ l - 1 \in 1..n /\ next[l] = bs[l - 1]
        BY <1>13, <3>3
      <4>2. k - 1 # l - 1
        BY <1>8, <1>12, <2>2
      <4>3. QED
        BY <1>8, <4>1, <4>2 DEF LibcAreas
    <3>4. QED
      BY <3>1, <3>2, <3>3
  <2>3. QED
    BY <1>11, <2>1, <2>2 DEF LibcAreas
<1>18. Free1(next, 1) = {fresh} /\ \A k \in 1..n : Free1(next, k + 1) = Free1(bs, k)
  BY <1>5, <1>6, <1>12 DEF Free1
<1>19. \A k \in DOMAIN next : (k = 1 /\ Free1(next, k) = {fresh}) \/ (k - 1 \in 1..n /\ Free1(next, k) = Free1(bs, k - 1))
  BY <1>13, <1>18 DEF Free1
<1>20. AllFree(next) = AllFree(bs) \cup {fresh}
  <2>1. \A c : c \in AllFree(next) <=> \E k \in DOMAIN next : c \in Free1(next, k)
    BY DEF AllFree
  <2>2. \A c : c \in AllFree(bs) <=> \E k \in 1..n : c \in Free1(bs, k)
    BY <1>8 DEF AllFree
  <2>3. ASSUME NEW c PROVE c \in AllFree(next) <=> c \in AllFree(bs) \/ c = fresh
    <3>1. ASSUME c \in AllFree(next) PROVE c \in AllFree(bs) \/ c = fresh
      <4>1. PICK k \in DOMAIN next : c \in Free1(next, k)
        BY <2>1, <3>1
      <4>2. QED
        BY <1>19, <2>2, <4>1
    <3>2. ASSUME c \in AllFree(bs) PROVE c \in AllFree(next)
      <4>1. PICK k \in 1..n : c \in Free1(bs, k)
        BY <2>2, <3>2
      <4>2. QED
        BY <1>12, <1>18, <2>1, <4>1
    <3>3. 1 \in DOMAIN next
      BY <1>8, <1>12
    <3>4. ASSUME c = fresh PROVE c \in AllFree(next)
      BY <1>18, <2>1, <3>3, <3>4
    <3>5. QED
      BY <3>1, <3>2, <3>4
  <2>4. QED
    BY <2>3
<1>21. /\ A \in SUBSET Chunk /\ given \in SUBSET Chunk /\ IsFiniteSet(given) /\ AllFree(bs) \cap given = {}
       /\ Apart(A) /\ Fills(A, bs)
  BY <1>8, FreeChunks DEF Shared
<1>22. fresh.at \in Nat /\ fresh.size \in Nat /\ fresh.size > 0
  BY <1>2, ChunkSize
<1>23. \A c \in A : Apart2(c, fresh) /\ Apart2(fresh, c) /\ c # fresh
  <2> TAKE c \in A
  <2>1. c.at \in Nat /\ c.size \in Nat /\ c.size > 0
    BY <1>21, ChunkSize
  <2>2. SUFFICES ASSUME c.at < fresh.at + fresh.size, fresh.at < c.at + c.size PROVE FALSE
    <3>1. c = fresh => c.at < fresh.at + fresh.size /\ fresh.at < c.at + c.size
      BY <1>22
    <3>2. Apart2(c, fresh) \/ (c.at < fresh.at + fresh.size /\ fresh.at < c.at + c.size)
      BY <1>22, <2>1 DEF Apart2
    <3>3. Apart2(fresh, c) <=> Apart2(c, fresh)
      BY DEF Apart2
    <3>4. QED
      BY <3>1, <3>2, <3>3
  <2> DEFINE w == IF c.at <= fresh.at THEN fresh.at ELSE c.at
  <2>3. w \in Nat /\ c.at <= w /\ w < c.at + c.size /\ fresh.at <= w /\ w < fresh.at + fresh.size
    BY <1>22, <2>1, <2>2
  <2> HIDE DEF w
  <2>4. Covers(c, w)
    BY <2>1, <2>3 DEF Covers
  <2>5. PICK k \in 1..n : InBody(bs[k], w)
    <3> HIDE DEF A
    <3>1. QED
      BY <1>8, <1>21, <2>3, <2>4 DEF Fills
  <2>6. bs[k].at <= w /\ w < bs[k].at + bs[k].words
    <3>1. bs[k].at \in Nat /\ bs[k].words \in Nat /\ BlockWords \in Nat
      BY <1>1, <1>14
    <3>2. QED
      BY <2>3, <2>5, <3>1, InBodyWithin
  <2>7. w \in at..(at + words - 1)
    BY <1>1, <1>3, <2>3
  <2>8. QED
    BY <1>15, <2>3, <2>6, <2>7
<1>24. Lists(next)
  <2>1. \A k \in DOMAIN next : Ascends(next[k].buddies)
    <3> TAKE k \in DOMAIN next
    <3>1. CASE k = 1
      BY <1>5, <1>6, <1>12, <3>1
    <3>2. CASE k - 1 \in 1..n /\ next[k] = bs[k - 1]
      BY <1>8, <3>2 DEF Lists
    <3>3. QED
      BY <1>13, <3>1, <3>2
  <2>2. \A k \in 1..n : fresh \notin Free1(bs, k)
    BY <1>8, <1>23 DEF AllFree
  <2>3. ASSUME NEW k \in DOMAIN next, NEW l \in DOMAIN next, k # l PROVE Free1(next, k) \cap Free1(next, l) = {}
    <3>1. CASE k = 1
      <4>1. l - 1 \in 1..n /\ Free1(next, l) = Free1(bs, l - 1) /\ Free1(next, k) = {fresh}
        BY <1>18, <1>19, <2>3, <3>1
      <4>2. QED
        BY <2>2, <4>1
    <3>2. CASE l = 1
      <4>1. k - 1 \in 1..n /\ Free1(next, k) = Free1(bs, k - 1) /\ Free1(next, l) = {fresh}
        BY <1>18, <1>19, <2>3, <3>2
      <4>2. QED
        BY <2>2, <4>1
    <3>3. CASE k # 1 /\ l # 1
      <4>1. /\ k - 1 \in 1..n /\ Free1(next, k) = Free1(bs, k - 1)
            /\ l - 1 \in 1..n /\ Free1(next, l) = Free1(bs, l - 1)
        BY <1>19, <3>3
      <4>2. k - 1 # l - 1
        BY <1>8, <1>12, <2>3
      <4>3. QED
        BY <1>8, <4>1, <4>2 DEF Lists
    <3>4. QED
      BY <3>1, <3>2, <3>3
  <2>4. QED
    BY <2>1, <2>3 DEF Lists
<1>25. AllFree(next) \cup given = A \cup {fresh}
  BY <1>20
<1>26. Apart(A \cup {fresh})
  BY <1>21, <1>23 DEF Apart
<1>27. Fills(A \cup {fresh}, next)
  <2>1. \A w \in Nat : Covers(fresh, w) <=> InBody(area, w)
    BY <1>1, <1>3, <1>6 DEF Covers, InBody
  <2>2. ASSUME NEW w \in Nat
        PROVE  (\E k \in DOMAIN next : InBody(next[k], w)) <=> InBody(area, w) \/ \E k \in 1..n : InBody(bs[k], w)
    <3>1. ASSUME NEW k \in DOMAIN next, InBody(next[k], w)
          PROVE  InBody(area, w) \/ \E l \in 1..n : InBody(bs[l], w)
      BY <1>12, <1>13, <3>1
    <3>2. ASSUME NEW k \in 1..n, InBody(bs[k], w) PROVE \E l \in DOMAIN next : InBody(next[l], w)
      BY <1>12, <3>2
    <3>3. 1 \in DOMAIN next
      BY <1>8, <1>12
    <3>4. InBody(area, w) => \E k \in DOMAIN next : InBody(next[k], w)
      BY <1>12, <3>3
    <3>5. QED
      BY <3>1, <3>2, <3>4
  <2>3. \A w \in Nat : (\E c \in A : Covers(c, w)) <=> \E k \in 1..n : InBody(bs[k], w)
    <3> HIDE DEF A
    <3>1. QED
      BY <1>8, <1>21 DEF Fills
  <2> HIDE DEF A
  <2>4. QED
    BY <2>1, <2>2, <2>3 DEF Fills
<1>28. Shared(next, given)
  BY <1>20, <1>21, <1>23, <1>25, <1>26, <1>27 DEF Shared
<1>29. Good(next, given)
  BY <1>17, <1>24, <1>28 DEF Good
<1>30. Len(next) = n + 1 /\ DOMAIN next = 1..Len(next)
  BY <1>8, <1>11, <1>12
<1>31. QED
  BY <1>8, <1>12, <1>29, <1>30 DEF n, area
---------------------------------------------------------------------------
(* The steps.                                                              *)
LEMMA SameWords ==
  ASSUME NEW bs \in Seq(LibcArea), NEW next, DOMAIN next = DOMAIN bs,
         \A l \in DOMAIN bs : next[l].at = bs[l].at /\ next[l].words = bs[l].words
  PROVE  \A w : Within(next, w) <=> Within(bs, w)
BY DEF Within

(* h2_libc_malloc::alloc keeps the areas good, and gives what was asked.   *)
LEMMA Allocs ==
  ASSUME NEW bs, Good(bs, held), NEW n \in Nat, n >= 2, Alloc(bs, n)
  PROVE  /\ Good(blocks', held') /\ \A w : Within(blocks', w) <=> Within(bs, w)
         /\ Fitting(bs, n) = 0 => held' = held
         /\ Fitting(bs, n) # 0 => \E c \in Chunk \ held : held' = held \cup {c} /\ n + SizeWords <= c.size
<1> DEFINE k == Fitting(bs, n)
           list == bs[k].buddies
           i == FirstFit(list, n)
<1>1. /\ k = 0 => blocks' = bs /\ held' = held
      /\ k # 0 => blocks' = [bs EXCEPT ![k].buddies = Remaining(list, i, n)] /\ held' = held \cup {Carved(list[i], n)}
  BY DEF Alloc
<1>2. bs \in Seq(LibcArea) /\ DOMAIN bs = 1..Len(bs) /\ Len(bs) \in Nat
  BY DEF Good, LibcAreas
<1>3. k \in 0..Len(bs) /\ (k # 0 => i # 0)
  BY <1>2, FittingFacts
<1> HIDE DEF k
<1>4. CASE k = 0
  BY <1>1, <1>4 DEF k
<1>5. CASE k # 0
  <2>1. k \in DOMAIN bs
    BY <1>2, <1>3, <1>5
  <2>2. list \in Seq(Chunk)
    BY <2>1, OneList
  <2>3. i \in 1..Len(list) /\ n + SizeWords <= list[i].size
    <3>1. /\ i \in 0..Len(list)
          /\ i # 0 => n + SizeWords <= list[i].size
      <4> HIDE DEF list
      <4>1. QED
        BY <2>2, FirstFits
    <3> HIDE DEF i, list
    <3>2. Len(list) \in Nat
      BY <2>2
    <3>3. QED
      BY <1>3, <1>5, <3>1, <3>2
  <2> DEFINE L == Remaining(list, i, n)
             c == Carved(list[i], n)
  <2>4. blocks' = [bs EXCEPT ![k].buddies = L] /\ held' = held \cup {c}
    BY <1>1, <1>5
  <2>5. L = Remaining(bs[k].buddies, i, n) /\ c = Carved(bs[k].buddies[i], n) /\ i \in 1..Len(bs[k].buddies)
        /\ n + SizeWords <= bs[k].buddies[i].size
    BY <2>3
  <2> HIDE DEF L, c, i, list
  <2>6. /\ Good(blocks', held \cup {c}) /\ c \in Chunk /\ c \notin held /\ n + SizeWords <= c.size
        /\ DOMAIN blocks' = DOMAIN bs
        /\ \A l \in DOMAIN bs : blocks'[l].at = bs[l].at /\ blocks'[l].words = bs[l].words
    <3>1. Giving(bs, held, n, k, i, L, c, blocks')
      BY <2>1, <2>4, <2>5 DEF Giving
    <3>2. QED
      BY <3>1, Gives
  <2>7. \A w : Within(blocks', w) <=> Within(bs, w)
    BY <1>2, <2>6, SameWords
  <2>8. QED
    BY <1>5, <2>4, <2>6, <2>7 DEF k
<1>6. QED
  BY <1>4, <1>5

(* What h2_libc::malloc does: a chunk not given, or none though a new area *)
(* was mapped, which is as large as the Brks that hold the words wanted.   *)
LEMMA Mallocs ==
  ASSUME Good(blocks, held), NEW size \in Sizes, Malloc(size)
  PROVE  /\ Good(blocks', held') /\ \A w : Within(blocks, w) => Within(blocks', w)
         /\ \/ \E c \in Chunk \ held : held' = held \cup {c} /\ Wanted(size) + SizeWords <= c.size
            \/ held' = held /\ BrkCount(Wanted(size)) * Brk - BlockWords < Wanted(size) + SizeWords
<1> DEFINE n == Wanted(size)
<1>1. n \in Nat /\ n >= 2
  BY WantedFacts, LibcAssumption
<1>2. IF Fitting(blocks, n) # 0 THEN Alloc(blocks, n) ELSE \E bs \in Batch(n) : Alloc(bs, n)
  BY DEF Malloc
<1> HIDE DEF n
<1>3. CASE Fitting(blocks, n) # 0
  BY <1>1, <1>2, <1>3, Allocs DEF n
<1>4. CASE Fitting(blocks, n) = 0
  <2>1. PICK bs \in Batch(n) : Alloc(bs, n)
    BY <1>2, <1>4
  <2> DEFINE many == BrkCount(n)
  <2>2. PICK a \in 0..(MaxAreas - many) :
          /\ \A w \in a * Brk .. (a + many) * Brk - 1 : ~Within(blocks, w)
          /\ bs = <<Block(a * Brk, many * Brk)>> \o blocks
    BY <2>1 DEF Batch
  <2>3. many \in Nat /\ many >= 1 /\ MaxAreas \in Nat /\ Brk \in Nat /\ BlockWords \in Nat /\ SizeWords \in Nat
        /\ BlockWords + BuddyWords <= Brk
    BY <1>1, BrkFacts, LibcAssumption
  <2> HIDE DEF many
  <2>4. a \in Nat /\ a + many <= MaxAreas
    BY <2>2, <2>3
  <2> DEFINE at == a * Brk
             words == many * Brk
  <2>5. /\ at \in Nat /\ words \in Nat /\ (a + many) * Brk = at + words /\ at + words <= MaxAreas * Brk
        /\ words >= Brk
    BY <2>3, <2>4, Products
  <2>6. /\ \A w \in at..(at + words - 1) : ~Within(blocks, w)
        /\ bs = <<Block(at, words)>> \o blocks
    BY <2>2, <2>5
  <2> HIDE DEF at, words
  <2>7. words >= BlockWords + BuddyWords
    BY <2>3, <2>5, LibcAssumption
  <2>8. /\ Good(bs, held) /\ Len(bs) = Len(blocks) + 1 /\ DOMAIN bs = 1..Len(bs)
        /\ bs[1] = Block(at, words) /\ \A k \in DOMAIN blocks : k + 1 \in DOMAIN bs /\ bs[k + 1] = blocks[k]
    <3>1. Opening(blocks, held, at, words, bs)
      BY <2>5, <2>6, <2>7 DEF Opening
    <3>2. QED
      BY <3>1, Opens
  <2>9. /\ Good(blocks', held') /\ \A w : Within(blocks', w) <=> Within(bs, w)
        /\ Fitting(bs, n) = 0 => held' = held
        /\ Fitting(bs, n) # 0 => \E c \in Chunk \ held : held' = held \cup {c} /\ n + SizeWords <= c.size
    BY <1>1, <2>1, <2>8, Allocs
  <2>10. \A w : Within(blocks, w) => Within(bs, w)
    BY <2>8 DEF Within
  <2>11. Fitting(bs, n) = 0 => words - BlockWords < n + SizeWords
    <3>1. bs \in Seq(LibcArea) /\ Len(blocks) \in Nat
      BY <2>8 DEF Good, LibcAreas
    <3>2. HAVE Fitting(bs, n) = 0
    <3>3. FirstFit(bs[1].buddies, n) = 0
      BY <2>8, <3>1, <3>2, FittingFacts
    <3> DEFINE fresh == [at |-> at + BlockWords, size |-> words - BlockWords]
    <3>4. bs[1].buddies = <<fresh>> /\ fresh.size = words - BlockWords
      BY <2>8 DEF Block
    <3> HIDE DEF fresh
    <3>5. <<fresh>> \in Seq(Chunk)
      <4>1. 1 \in DOMAIN bs
        BY <2>8, <3>1
      <4>2. bs[1].buddies \in Seq(Chunk)
        BY <2>8, <4>1, OneList
      <4>3. QED
        BY <3>4, <4>2
    <3>6. ~(n + SizeWords <= fresh.size)
      <4>1. \A j \in 1..Len(<<fresh>>) : ~(n + SizeWords <= <<fresh>>[j].size)
        BY <1>1, <3>3, <3>4, <3>5, FirstFits
      <4>2. 1 \in 1..Len(<<fresh>>) /\ <<fresh>>[1] = fresh
        OBVIOUS
      <4>3. QED
        BY <4>1, <4>2
    <3>7. QED
      BY <1>1, <2>3, <2>5, <3>4, <3>6
  <2>12. Fitting(bs, n) # 0 \/ (Fitting(bs, n) = 0 /\ held' = held /\ BrkCount(n) * Brk - BlockWords < n + SizeWords)
    BY <2>9, <2>11 DEF words, many
  <2>13. QED
    BY <2>9, <2>10, <2>12 DEF n
<1>5. QED
  BY <1>3, <1>4

(* h2_libc::free keeps them good: what is freed goes to the newest area.   *)
LEMMA Frees ==
  ASSUME Good(blocks, held), NEW b \in held, Free(b)
  PROVE  Good(blocks', held') /\ held' = held \ {b} /\ \A w : Within(blocks', w) <=> Within(blocks, w)
<1> DEFINE I == {i \in 1..Len(blocks) : ~TurnsDown(blocks[i], b)}
           k == SelectInSeq(blocks, LAMBDA p : ~TurnsDown(p, b))
<1>1. /\ blocks \in Seq(LibcArea) /\ Len(blocks) \in Nat /\ DOMAIN blocks = 1..Len(blocks)
      /\ Good(blocks, held) /\ b \in held
  BY DEF Good, LibcAreas
<1>2. k = IF I # {} THEN Min(I) ELSE 0
  BY DEF SelectInSeq
<1>3. \E l \in DOMAIN blocks : InBody(blocks[l], b.at)
  <2>1. b \in Chunk
    BY DEF Good, Shared
  <2>2. b.at \in Nat /\ Covers(b, b.at)
    BY <2>1, ChunkSize DEF Covers
  <2>3. QED
    BY <2>2 DEF Good, Shared, Fills
<1>4. 1 \in I
  <2>1. 1 \in DOMAIN blocks
    BY <1>1, <1>3
  <2>2. blocks[1].at \in Nat /\ blocks[1].words \in Nat
    BY <2>1, AreaFacts DEF Good
  <2>3. b.at \in Nat
    BY ChunkSize DEF Good, Shared
  <2>4. QED
    BY <1>1, <2>1, <2>2, <2>3 DEF TurnsDown
<1>5. Min(I) \in I
  <2>1. I \in SUBSET Nat
    OBVIOUS
  <2>2. QED
    BY <1>4, <2>1, Least
<1>6. k \in DOMAIN blocks
  BY <1>1, <1>2, <1>4, <1>5
<1>7. blocks' = [blocks EXCEPT ![k].buddies = Inserted(@, b)] /\ held' = held \ {b}
  BY DEF Free
<1>8. PICK j : j \in DOMAIN blocks /\ blocks' = [blocks EXCEPT ![j].buddies = Inserted(blocks[j].buddies, b)]
  <2> HIDE DEF k
  <2>1. QED
    BY <1>6, <1>7
<1>9. PICK L : L = Inserted(blocks[j].buddies, b)
  OBVIOUS
<1>10. /\ Good(blocks', held \ {b}) /\ DOMAIN blocks' = DOMAIN blocks
       /\ \A l \in DOMAIN blocks : blocks'[l].at = blocks[l].at /\ blocks'[l].words = blocks[l].words
  <2>1. TakingBack(blocks, held, b, j, L, blocks')
    BY <1>1, <1>8, <1>9 DEF TakingBack
  <2>2. /\ Good(blocks', held \ {b})
        /\ DOMAIN blocks' = DOMAIN blocks /\ \A l \in DOMAIN blocks : blocks'[l].at = blocks[l].at /\ blocks'[l].words = blocks[l].words
    BY ONLY <2>1, TakesBack
  <2>3. QED
    BY <2>2
<1>11. \A w : Within(blocks', w) <=> Within(blocks, w)
  BY <1>1, <1>10, SameWords
<1>12. QED
  BY <1>7, <1>10, <1>11

(* The inductive invariant: the areas lie apart, every list goes up and    *)
(* shares no chunk with another, and the chunks, free and given together,  *)
(* lie apart and make up the areas but for their headers.                  *)
LibcIInv == Good(blocks, held)

(* It holds at the start and every step keeps it.                          *)
LEMMA LibcInductive == LibcSpec => []LibcIInv
<1>1. LibcInit => LibcIInv
  <2> SUFFICES ASSUME LibcInit PROVE Good(blocks, held)
    BY DEF LibcIInv
  <2>1. blocks = <<>> /\ held = {} /\ DOMAIN blocks = {} /\ blocks \in Seq(LibcArea)
    BY DEF LibcInit
  <2>2. AllFree(blocks) = {}
    BY <2>1 DEF AllFree
  <2>3. LibcAreas(blocks) /\ Lists(blocks)
    BY <2>1 DEF LibcAreas, Lists
  <2>4. Shared(blocks, held)
    BY <2>1, <2>2, FS_EmptySet DEF Shared, Apart, Fills
  <2>5. QED
    BY <2>3, <2>4 DEF Good
<1>2. LibcIInv /\ [LibcNext]_libcVars => LibcIInv'
  <2> SUFFICES ASSUME Good(blocks, held), [LibcNext]_libcVars PROVE Good(blocks', held')
    BY DEF LibcIInv
  <2>1. CASE \E size \in Sizes : Malloc(size)
    BY <2>1, Mallocs
  <2>2. CASE \E b \in held : Free(b)
    BY <2>2, Frees
  <2>3. CASE UNCHANGED libcVars
    BY <2>3 DEF libcVars
  <2>4. QED
    BY <2>1, <2>2, <2>3 DEF LibcNext
<1>3. QED
  BY <1>1, <1>2, PTL DEF LibcSpec
---------------------------------------------------------------------------
(* What the lists hold, by area and place.                                 *)
LEMMA BuddyFacts ==
  ASSUME Good(blocks, held)
  PROVE  /\ \A x : x \in Buddies <=> \E k \in DOMAIN blocks : \E i \in 1..Len(blocks[k].buddies) : x = <<k, i>>
         /\ \A x \in Buddies : Buddy(x) \in AllFree(blocks)
         /\ \A c \in AllFree(blocks) : \E x \in Buddies : Buddy(x) = c
         /\ \A x, y \in Buddies : Buddy(x) = Buddy(y) => x = y
<1>1. ASSUME NEW k \in DOMAIN blocks
      PROVE  /\ blocks[k].buddies \in Seq(Chunk) /\ Ascends(blocks[k].buddies)
             /\ DOMAIN blocks[k].buddies = 1..Len(blocks[k].buddies)
  BY OneList
<1>2. \A x : x \in Buddies <=> \E k \in DOMAIN blocks : \E i \in 1..Len(blocks[k].buddies) : x = <<k, i>>
  BY <1>1 DEF Buddies
<1>3. \A k, i : Buddy(<<k, i>>) = blocks[k].buddies[i]
  BY DEF Buddy
<1>4. \A k \in DOMAIN blocks : \A c : c \in Free1(blocks, k) <=> \E i \in 1..Len(blocks[k].buddies) : c = blocks[k].buddies[i]
  BY <1>1, Members DEF Free1
<1>5. \A c : c \in AllFree(blocks) <=> \E k \in DOMAIN blocks : c \in Free1(blocks, k)
  BY DEF AllFree
<1>6. \A x \in Buddies : Buddy(x) \in AllFree(blocks)
  BY <1>2, <1>3, <1>4, <1>5
<1>7. ASSUME NEW c \in AllFree(blocks) PROVE \E x \in Buddies : Buddy(x) = c
  <2>1. PICK k \in DOMAIN blocks : c \in Free1(blocks, k)
    BY <1>5
  <2>2. PICK i \in 1..Len(blocks[k].buddies) : c = blocks[k].buddies[i]
    BY <1>4, <2>1
  <2>3. <<k, i>> \in Buddies /\ Buddy(<<k, i>>) = c
    BY <1>2, <1>3, <2>2
  <2>4. QED
    BY <2>3
<1>8. ASSUME NEW x \in Buddies, NEW y \in Buddies, Buddy(x) = Buddy(y) PROVE x = y
  <2>1. PICK k \in DOMAIN blocks : \E i \in 1..Len(blocks[k].buddies) : x = <<k, i>>
    BY <1>2
  <2>2. PICK l \in DOMAIN blocks : \E j \in 1..Len(blocks[l].buddies) : y = <<l, j>>
    BY <1>2
  <2> PICK i \in 1..Len(blocks[k].buddies) : x = <<k, i>>
    BY <2>1
  <2> PICK j \in 1..Len(blocks[l].buddies) : y = <<l, j>>
    BY <2>2
  <2>3. blocks[k].buddies[i] = blocks[l].buddies[j]
    BY <1>3, <1>8
  <2>4. k = l
    <3>1. blocks[k].buddies[i] \in Free1(blocks, k) \cap Free1(blocks, l)
      BY <1>4, <2>3
    <3>2. QED
      BY <3>1 DEF Good, Lists
  <2>5. i = j
    BY <1>1, <2>3, <2>4, Members
  <2>6. QED
    BY <2>4, <2>5
<1>9. QED
  BY <1>2, <1>6, <1>7, <1>8

(* A word of an area is one of its header's, or of one chunk only.         *)
LEMMA OnlyOne ==
  ASSUME Good(blocks, held), NEW k \in DOMAIN blocks, NEW w \in Nat,
         Covers([at |-> blocks[k].at, size |-> blocks[k].words], w)
  PROVE  /\ w \in Heads(k) => \A c \in AllFree(blocks) \cup held : ~Covers(c, w)
         /\ w \notin Heads(k) => \E c \in AllFree(blocks) \cup held :
              Covers(c, w) /\ \A d \in AllFree(blocks) \cup held : Covers(d, w) => d = c
<1> DEFINE A == AllFree(blocks) \cup held
<1>1. /\ LibcAreas(blocks) /\ Apart(A) /\ A \subseteq Chunk
      /\ (\E c \in A : Covers(c, w)) <=> \E l \in DOMAIN blocks : InBody(blocks[l], w)
  BY FreeChunks DEF Good, Shared, Fills
<1>2. \A l \in DOMAIN blocks : blocks[l].at \in Nat /\ blocks[l].words \in Nat
  BY <1>1, AreaFacts
<1>3. BlockWords \in Nat
  BY LibcAssumption
<1>4. blocks[k].at <= w /\ w < blocks[k].at + blocks[k].words
  BY <1>2 DEF Covers
<1>5. w \in Heads(k) <=> w < blocks[k].at + BlockWords
  <2>1. w < blocks[k].at + BlockWords => w - blocks[k].at \in 0..(BlockWords - 1) /\ blocks[k].at + (w - blocks[k].at) = w
    BY <1>2, <1>3, <1>4
  <2>2. w < blocks[k].at + BlockWords => w \in Heads(k)
    BY <2>1 DEF Heads
  <2>3. w \in Heads(k) => w < blocks[k].at + BlockWords
    BY <1>2, <1>3 DEF Heads
  <2>4. QED
    BY <2>2, <2>3
<1>6. \A l \in DOMAIN blocks : InBody(blocks[l], w) => l = k /\ ~(w < blocks[k].at + BlockWords)
  <2> SUFFICES ASSUME NEW l \in DOMAIN blocks, InBody(blocks[l], w)
               PROVE  l = k /\ ~(w < blocks[k].at + BlockWords)
    OBVIOUS
  <2>1. blocks[l].at + BlockWords <= w /\ w < blocks[l].at + blocks[l].words
    BY <1>2, <1>3 DEF InBody
  <2>2. l # k => AreaApart(blocks[l], blocks[k])
    BY <1>1 DEF LibcAreas
  <2>3. ~AreaApart(blocks[l], blocks[k])
    BY <1>2, <1>3, <1>4, <2>1 DEF AreaApart
  <2>4. l = k
    BY <2>2, <2>3
  <2>5. QED
    BY <1>2, <1>3, <2>1, <2>4
<1> HIDE DEF A
<1>7. ASSUME w \in Heads(k) PROVE \A c \in A : ~Covers(c, w)
  BY <1>1, <1>5, <1>6, <1>7
<1>8. ASSUME w \notin Heads(k) PROVE \E c \in A : Covers(c, w) /\ \A d \in A : Covers(d, w) => d = c
  <2>1. InBody(blocks[k], w)
    BY <1>2, <1>3, <1>4, <1>5, <1>8 DEF InBody
  <2>2. PICK c \in A : Covers(c, w)
    BY <1>1, <2>1
  <2>3. ASSUME NEW d \in A, Covers(d, w), d # c PROVE FALSE
    <3>1. Apart2(c, d)
      BY <1>1, <2>3 DEF Apart
    <3>2. c.at \in Nat /\ c.size \in Nat /\ d.at \in Nat /\ d.size \in Nat
      BY <1>1, ChunkSize
    <3>3. QED
      BY <2>2, <2>3, <3>1, <3>2 DEF Apart2, Covers
  <2>4. QED
    BY <2>2, <2>3
<1>9. QED
  BY <1>7, <1>8 DEF A

(* It is stronger than what is claimed of the heap.                        *)
LEMMA GoodIsSound == LibcIInv => HeapSound
<1> SUFFICES ASSUME Good(blocks, held) PROVE HeapSound
  BY DEF LibcIInv
<1>1. /\ held \subseteq Chunk /\ AllFree(blocks) \subseteq Chunk /\ AllFree(blocks) \cap held = {}
  BY FreeChunks DEF Good, Shared
<1>2. ASSUME NEW k \in DOMAIN blocks, NEW w \in 0..(MaxAreas * Brk - 1),
             Covers([at |-> blocks[k].at, size |-> blocks[k].words], w)
      PROVE  Cardinality({x \in Buddies : Covers(Buddy(x), w)}) + Cardinality({c \in held : Covers(c, w)})
               = (IF w \in Heads(k) THEN 0 ELSE 1)
  <2> DEFINE X == {x \in Buddies : Covers(Buddy(x), w)}
             C == {c \in held : Covers(c, w)}
  <2>1. w \in Nat
    OBVIOUS
  <2>2. /\ w \in Heads(k) => \A c \in AllFree(blocks) \cup held : ~Covers(c, w)
        /\ w \notin Heads(k) => \E c \in AllFree(blocks) \cup held :
             Covers(c, w) /\ \A d \in AllFree(blocks) \cup held : Covers(d, w) => d = c
    BY <1>2, <2>1, OnlyOne
  <2>3. CASE w \in Heads(k)
    <3>1. X = {} /\ C = {}
      BY <2>2, <2>3, BuddyFacts
    <3> HIDE DEF X, C
    <3>2. Cardinality(X) = 0 /\ Cardinality(C) = 0
      BY <3>1, FS_EmptySet
    <3>3. QED
      BY <2>3, <3>2 DEF X, C
  <2>4. CASE w \notin Heads(k)
    <3>1. PICK c \in AllFree(blocks) \cup held : Covers(c, w) /\ \A d \in AllFree(blocks) \cup held : Covers(d, w) => d = c
      BY <2>2, <2>4
    <3>2. CASE c \in held
      <4>1. X = {}
        BY <1>1, <3>1, <3>2, BuddyFacts
      <4>2. C = {c}
        BY <3>1, <3>2
      <4> HIDE DEF X, C
      <4>3. Cardinality(X) = 0 /\ Cardinality(C) = 1
        BY <4>1, <4>2, FS_EmptySet, FS_Singleton
      <4>4. QED
        BY <2>4, <4>3 DEF X, C
    <3>3. CASE c \in AllFree(blocks)
      <4>1. PICK x \in Buddies : Buddy(x) = c
        BY <3>3, BuddyFacts
      <4>2. \A y \in Buddies : Covers(Buddy(y), w) => y = x
        BY <3>1, <4>1, BuddyFacts
      <4>3. X = {x}
        BY <3>1, <4>1, <4>2
      <4>4. C = {}
        BY <1>1, <3>1, <3>3
      <4> HIDE DEF X, C
      <4>5. Cardinality(X) = 1 /\ Cardinality(C) = 0
        BY <4>3, <4>4, FS_EmptySet, FS_Singleton
      <4>6. QED
        BY <2>4, <4>5 DEF X, C
    <3>4. QED
      BY <3>2, <3>3
  <2>5. QED
    BY <2>3, <2>4
<1>3. \A c \in held \cup {Buddy(x) : x \in Buddies} : c.size >= BuddyWords
  <2> TAKE c \in held \cup {Buddy(x) : x \in Buddies}
  <2>1. c \in held \/ c \in AllFree(blocks)
    BY BuddyFacts
  <2>2. QED
    BY <1>1, <2>1, ChunkSize
<1>4. ASSUME NEW k \in DOMAIN blocks, NEW i \in DOMAIN blocks[k].buddies, NEW j \in DOMAIN blocks[k].buddies, i < j
      PROVE  blocks[k].buddies[i].at + blocks[k].buddies[i].size <= blocks[k].buddies[j].at
  <2>1. /\ blocks[k].buddies \in Seq(Chunk) /\ Ascends(blocks[k].buddies)
        /\ DOMAIN blocks[k].buddies = 1..Len(blocks[k].buddies)
    BY OneList
  <2>2. QED
    BY <1>4, <2>1 DEF Ascends
<1>5. QED
  BY <1>2, <1>3, <1>4 DEF HeapSound

(* Every word of every area the allocator mapped is a word of its header   *)
(* or of exactly one chunk, given or free; chunks have room for their      *)
(* links and lists go up in addresses (HeapSound), for any sizes asked.    *)
THEOREM HeapAlwaysSound == LibcSpec => []HeapSound
BY LibcInductive, GoodIsSound, PTL
---------------------------------------------------------------------------
(* The promise: what a chunk given is made of, and the steps.              *)
LEMMA InWords ==
  ASSUME NEW bs, NEW given, Good(bs, given), NEW c \in given
  PROVE  \A w \in c.at..(c.at + c.size - 1) :
           /\ w \in 0..(MaxAreas * Brk - 1) /\ Within(bs, w)
           /\ \A d \in given : d # c => w \notin d.at..(d.at + d.size - 1)
<1>1. LibcAreas(bs) /\ given \subseteq Chunk /\ Apart(AllFree(bs) \cup given) /\ Fills(AllFree(bs) \cup given, bs)
  BY DEF Good, Shared
<1>2. MaxAreas * Brk \in Nat /\ BlockWords \in Nat
  BY LibcAssumption, Products
<1>3. \A d \in given : d.at \in Nat /\ d.size \in Nat /\ d.size > 0
  BY <1>1, ChunkSize
<1> SUFFICES ASSUME NEW w \in c.at..(c.at + c.size - 1)
             PROVE  /\ w \in 0..(MaxAreas * Brk - 1) /\ Within(bs, w)
                    /\ \A d \in given : d # c => w \notin d.at..(d.at + d.size - 1)
  OBVIOUS
<1>4. w \in Nat /\ Covers(c, w)
  BY <1>3 DEF Covers
<1>5. PICK k \in DOMAIN bs : InBody(bs[k], w)
  BY <1>1, <1>4 DEF Fills
<1>6. bs[k].at \in Nat /\ bs[k].words \in Nat /\ bs[k].at + bs[k].words <= MaxAreas * Brk
  BY <1>1, AreaFacts DEF LibcAreas
<1>7. bs[k].at <= w /\ w < bs[k].at + bs[k].words
  BY <1>2, <1>4, <1>5, <1>6 DEF InBody
<1>8. w \in 0..(MaxAreas * Brk - 1)
  BY <1>2, <1>4, <1>6, <1>7
<1>9. Within(bs, w)
  BY <1>4, <1>6, <1>7 DEF Within
<1>10. ASSUME NEW d \in given, d # c, w \in d.at..(d.at + d.size - 1) PROVE FALSE
  <2>1. Apart2(c, d)
    BY <1>1, <1>10 DEF Apart
  <2>2. QED
    BY <1>3, <1>4, <1>10, <2>1 DEF Apart2
<1>11. QED
  BY <1>8, <1>9, <1>10

(* Every step is one of Heap, or changes nothing it speaks of.             *)
LEMMA StepPromised ==
  LibcIInv /\ [LibcNext]_libcVars => [Promise!HeapNext]_(Promise!heapVars)
<1> DEFINE mapped(bs) == {w \in 0..(MaxAreas * Brk - 1) : Within(bs, w)}
<1> SUFFICES ASSUME Good(blocks, held), [LibcNext]_libcVars
             PROVE  Promise!HeapNext \/ UNCHANGED <<mapped(blocks), held>>
  BY DEF LibcIInv, Promise!heapVars
<1>1. ASSUME NEW size \in Sizes, Malloc(size) PROVE Promise!HeapNext
  <2> DEFINE n == Wanted(size) + SizeWords
  <2>1. /\ Good(blocks', held') /\ \A w : Within(blocks, w) => Within(blocks', w)
        /\ \/ \E c \in Chunk \ held : held' = held \cup {c} /\ n <= c.size
           \/ held' = held /\ BrkCount(Wanted(size)) * Brk - BlockWords < n
    BY <1>1, Mallocs
  <2>2. mapped(blocks) \subseteq mapped(blocks') /\ mapped(blocks') \subseteq 0..(MaxAreas * Brk - 1)
    BY <2>1
  <2>3. ASSUME NEW c \in Chunk \ held, held' = held \cup {c}, n <= c.size PROVE Promise!Give(n)
    <3>1. c.size >= n
      <4>1. c.size \in Nat /\ n \in Nat
        BY ChunkSize, WantedFacts, LibcAssumption
      <4>2. QED
        BY <2>3, <4>1
    <3>2. c \in held'
      BY <2>3
    <3>3. \A w \in c.at..(c.at + c.size - 1) :
            /\ w \in 0..(MaxAreas * Brk - 1) /\ Within(blocks', w)
            /\ \A d \in held' : d # c => w \notin d.at..(d.at + d.size - 1)
      BY <2>1, <3>2, InWords
    <3>4. Promise!WordsOf(c) \subseteq mapped(blocks') \ Promise!Taken
      <4>1. \A d \in held : d # c /\ d \in held'
        BY <2>3
      <4>2. QED
        BY <3>3, <4>1 DEF Promise!WordsOf, Promise!Taken
    <3>5. QED
      BY <2>3, <3>1, <3>2, <3>4 DEF Promise!Give
  <2>4. ASSUME held' = held, BrkCount(Wanted(size)) * Brk - BlockWords < n PROVE Promise!Refuse(n)
    BY <2>4 DEF Promise!Refuse
  <2>5. Promise!Give(n) \/ Promise!Refuse(n)
    BY <2>1, <2>3, <2>4
  <2>6. n \in {Wanted(s) + SizeWords : s \in Sizes}
    OBVIOUS
  <2> HIDE DEF n
  <2>7. QED
    BY <2>2, <2>5, <2>6 DEF Promise!HeapNext
<1>2. ASSUME NEW b \in held, Free(b) PROVE Promise!HeapNext
  <2>1. held' = held \ {b} /\ \A w : Within(blocks', w) <=> Within(blocks, w)
    BY <1>2, Frees
  <2>2. mapped(blocks') = mapped(blocks)
    BY <2>1
  <2>3. QED
    BY <2>1, <2>2 DEF Promise!HeapNext, Promise!TakeBack
<1>3. CASE UNCHANGED libcVars
  BY <1>3 DEF libcVars
<1>4. QED
  BY <1>1, <1>2, <1>3 DEF LibcNext

(* The allocator keeps the promise of Heap: a chunk it gives is as large   *)
(* as asked and lies in memory it mapped, apart from all that are given;   *)
(* it refuses only sizes that leave their area no room for the header.     *)
THEOREM LibcImplementsHeap == LibcSpec => ImplementsHeap
<1>1. LibcInit => Promise!HeapInit
  BY DEF LibcInit, Promise!HeapInit, Within
<1>2. LibcIInv /\ [LibcNext]_libcVars => [Promise!HeapNext]_(Promise!heapVars)
  BY StepPromised
<1>3. QED
  BY <1>1, <1>2, LibcInductive, PTL DEF LibcSpec, ImplementsHeap, Promise!HeapSpec

---------------------------------------------------------------------------
(* The bytes of the instructions, one by one.                              *)
LEMMA ShortJumpBytes ==
  ASSUME NEW op, NEW v, NEW n \in {1, 4}, NEW b, b = Instruction(<<op>>, v, n, <<>>)
  PROVE  /\ DOMAIN b = 1 .. 1 + n /\ b[1] = Byte(op, 0, 1)
         /\ \A k \in 1..n : b[1 + k] = Byte("value", v, k)
BY DEF Instruction
(* With two opcodes, with three, and with two on each side.                *)
LEMMA PointerJumpBytes ==
  ASSUME NEW op, NEW op2, NEW v, NEW b, b = Instruction(<<op, op2>>, v, 4, <<>>)
  PROVE  /\ DOMAIN b = 1..6 /\ b[1] = Byte(op, 0, 1) /\ b[2] = Byte(op2, 0, 1)
         /\ \A k \in 1..4 : b[2 + k] = Byte("value", v, k)
BY DEF Instruction
LEMMA LongPointerJumpBytes ==
  ASSUME NEW op, NEW op2, NEW op3, NEW v, NEW b, b = Instruction(<<op, op2, op3>>, v, 4, <<>>)
  PROVE  /\ DOMAIN b = 1..7 /\ b[1] = Byte(op, 0, 1) /\ b[2] = Byte(op2, 0, 1) /\ b[3] = Byte(op3, 0, 1)
         /\ \A k \in 1..4 : b[3 + k] = Byte("value", v, k)
BY DEF Instruction
LEMMA FarJumpBytes ==
  ASSUME NEW op, NEW op2, NEW op3, NEW op4, NEW v, NEW b, b = Instruction(<<op, op2>>, v, 8, <<op3, op4>>)
  PROVE  /\ DOMAIN b = 1..12 /\ b[1] = Byte(op, 0, 1) /\ b[2] = Byte(op2, 0, 1)
         /\ b[11] = Byte(op3, 0, 1) /\ b[12] = Byte(op4, 0, 1)
         /\ \A k \in 1..8 : b[2 + k] = Byte("value", v, k)
BY DEF Instruction

(* An operand is read when its bytes are there.                            *)
LEMMA ReadOperand ==
  ASSUME NEW c, NEW p \in Int, NEW n \in {1, 4, 8}, NEW v,
         \A k \in 1..n : p + k - 1 \in DOMAIN c /\ c[p + k - 1] = Byte("value", v, k)
  PROVE  ReadIn(c, p, n) = v
<1>1. c[p].value = v
  <2>1. 1 \in 1..n /\ p + 1 - 1 = p
    OBVIOUS
  <2>2. c[p] = Byte("value", v, 1)
    BY <2>1
  <2>3. QED
    BY <2>2 DEF Byte
<1>2. QED
  BY <1>1 DEF ReadIn

---------------------------------------------------------------------------
(* What stands at the addresses before anything is patched.                *)
LEMMA MachineFacts ==
  ASSUME CodeLayout, NEW m \in Machine
  PROVE  /\ m.isa \in {"i386", "x86_64", "arm64"} /\ m.apple \in BOOLEAN
         /\ m.isa = "i386" => SizeOn(m) = 5
         /\ m.isa = "x86_64" => SizeOn(m) = 12
         /\ m.isa = "arm64" => SizeOn(m) = IF m.apple THEN 4 ELSE 16
         /\ SizeOn(m) \in Nat /\ 4 <= SizeOn(m)
BY DEF CodeLayout, SizeOn

(* The code compiled, byte by byte.                                        *)
LEMMA CompiledIs ==
  ASSUME machine \in Machine
  PROVE  DOMAIN Compiled = Memory /\ \A x \in Memory : Compiled[x] = LinkedByte(machine.isa, x)
BY DEF Compiled, LinkedFor, Linked

(* What is known of a jump of the linker.                                  *)
LEMMA JumpFacts ==
  ASSUME CodeLayout, machine \in Machine, NEW a \in Jumps
  PROVE  /\ a \in DOMAIN LinkerJump /\ a \in Nat /\ machine.isa # "arm64"
         /\ LinkerJump[a] \in {"E9", "EB", "FF25", "48FF25"}
         /\ LinkerJump[a] = "48FF25" => machine.isa # "i386"
         /\ LinkerJump[a] \in {"FF25", "48FF25"} => a \in DOMAIN Pointer /\ Pointer[a] \in Nat
         /\ JumpArea(a) \subseteq Memory /\ a \in JumpArea(a)
         /\ JumpArea(a) = a .. a + JumpBytes(LinkerJump[a]) - 1
<1>1. a \in DOMAIN LinkerJump /\ machine.isa # "arm64" /\ (LinkerJump[a] = "48FF25" => machine.isa # "i386")
  BY DEF Jumps, JumpsOn
<1>2. a \in Nat /\ LinkerJump[a] \in {"E9", "EB", "FF25", "48FF25"} /\ JumpArea(a) \subseteq Memory
  BY <1>1 DEF CodeLayout
<1>3. a \in JumpArea(a)
  BY <1>2 DEF JumpArea, JumpBytes
<1>4. LinkerJump[a] \in {"FF25", "48FF25"} => a \in DOMAIN Pointer /\ Pointer[a] \in Nat
  BY <1>1 DEF CodeLayout
<1>5. QED
  BY <1>1, <1>2, <1>3, <1>4 DEF JumpArea

(* Each of its bytes is its own.                                           *)
LEMMA JumpByte ==
  ASSUME CodeLayout, machine \in Machine, NEW a \in Jumps, NEW x \in JumpArea(a)
  PROVE  x \in Memory /\ Compiled[x] = LinkerCode(machine.isa, a)[x - a + 1]
<1>1. x \in Memory
  BY JumpFacts
<1> DEFINE jumps == {b \in JumpsOn(machine.isa) : x \in JumpArea(b)}
           c == CHOOSE b \in jumps : TRUE
<1>2. a \in jumps
  BY DEF Jumps
<1>3. c \in jumps
  BY <1>2
<1>4. c = a
  <2>1. c \in DOMAIN LinkerJump /\ a \in DOMAIN LinkerJump
    BY <1>2, <1>3 DEF JumpsOn
  <2>2. x \in JumpArea(a) \cap JumpArea(c)
    BY <1>3
  <2>3. QED
    BY <2>1, <2>2 DEF CodeLayout
<1>5. LinkedByte(machine.isa, x) = LinkerCode(machine.isa, c)[x - c + 1]
  BY <1>2 DEF LinkedByte
<1>6. QED
  BY <1>1, <1>4, <1>5, CompiledIs

(* So is each of its pointer.                                              *)
LEMMA PointerByte ==
  ASSUME CodeLayout, machine \in Machine, NEW a \in Jumps, a \in DOMAIN Pointer, NEW x \in PointerArea(a)
  PROVE  x \in Memory /\ Compiled[x] = Byte("value", First, x - Pointer[a] + 1)
<1>1. x \in Memory /\ Pointer[a] \in Nat
  BY DEF CodeLayout
<1> DEFINE jumps == {b \in JumpsOn(machine.isa) : x \in JumpArea(b)}
           pointers == {b \in JumpsOn(machine.isa) \cap DOMAIN Pointer : x \in PointerArea(b)}
           c == CHOOSE b \in pointers : TRUE
<1>2. jumps = {}
  <2> SUFFICES ASSUME NEW b \in jumps PROVE FALSE
    OBVIOUS
  <2>1. b \in DOMAIN LinkerJump /\ x \in JumpArea(b) \cap PointerArea(a)
    BY DEF JumpsOn
  <2>2. QED
    BY <2>1 DEF CodeLayout
<1>3. a \in pointers
  BY DEF Jumps
<1>4. c \in pointers
  BY <1>3
<1>5. Pointer[c] = Pointer[a]
  <2>1. c \in DOMAIN Pointer /\ x \in PointerArea(a) \cap PointerArea(c)
    BY <1>4
  <2>2. QED
    BY <2>1 DEF CodeLayout
<1>6. LinkedByte(machine.isa, x) = Operand(First, 8)[x - Pointer[c] + 1]
  BY <1>2, <1>3 DEF LinkedByte
<1>7. x - Pointer[a] + 1 \in 1..8
  BY <1>1 DEF PointerArea
<1>8. Operand(First, 8)[x - Pointer[a] + 1] = Byte("value", First, x - Pointer[a] + 1)
  BY <1>7 DEF Operand
<1>9. QED
  BY <1>1, <1>5, <1>6, <1>8, CompiledIs

(* The areas of the two functions hold their bodies, apart from all jumps  *)
(* and pointers.                                                           *)
LEMMA BodyByte ==
  ASSUME CodeLayout, machine \in Machine, NEW x \in Areas(machine)
  PROVE  /\ x \in Memory /\ Compiled[x] = Byte("body", x, 1)
         /\ \A a \in Jumps : x \notin JumpArea(a) /\ (a \in DOMAIN Pointer => x \notin PointerArea(a))
<1>1. x \in Memory
  BY DEF CodeLayout
<1>2. \A a \in JumpsOn(machine.isa) : x \notin JumpArea(a) /\ (a \in DOMAIN Pointer => x \notin PointerArea(a))
  <2> SUFFICES ASSUME NEW a \in JumpsOn(machine.isa)
               PROVE  x \notin JumpArea(a) /\ (a \in DOMAIN Pointer => x \notin PointerArea(a))
    OBVIOUS
  <2>1. machine.isa # "arm64" /\ a \in DOMAIN LinkerJump
    BY DEF JumpsOn
  <2>2. QED
    BY <2>1 DEF CodeLayout
<1>3. LinkedByte(machine.isa, x) = Byte("body", x, 1)
  BY <1>2 DEF LinkedByte
<1>4. QED
  BY <1>1, <1>2, <1>3, CompiledIs DEF Jumps

(* A jump of the linker is one byte after the other as it was made.        *)
LEMMA JumpStands ==
  ASSUME CodeLayout, machine \in Machine, NEW a \in Jumps, DOMAIN code = Memory,
         \A x \in Memory : x \notin Areas(machine) => code[x] = Compiled[x]
  PROVE  /\ \A k \in 1..JumpBytes(LinkerJump[a]) : a + k - 1 \in DOMAIN code /\ code[a + k - 1] = LinkerCode(machine.isa, a)[k]
         /\ a \in DOMAIN Pointer =>
              \A k \in 1..8 : Pointer[a] + k - 1 \in DOMAIN code /\ code[Pointer[a] + k - 1] = Byte("value", First, k)
<1>1. ASSUME NEW k \in 1..JumpBytes(LinkerJump[a])
      PROVE  a + k - 1 \in DOMAIN code /\ code[a + k - 1] = LinkerCode(machine.isa, a)[k]
  <2>1. a \in Nat /\ JumpBytes(LinkerJump[a]) \in Nat
    BY JumpFacts DEF JumpBytes
  <2>2. a + k - 1 \in JumpArea(a) /\ (a + k - 1) - a + 1 = k
    BY <2>1, JumpFacts
  <2>3. a + k - 1 \in Memory /\ Compiled[a + k - 1] = LinkerCode(machine.isa, a)[k]
    BY <2>2, JumpByte
  <2>4. a + k - 1 \notin Areas(machine)
    BY <2>2, BodyByte
  <2>5. QED
    BY <2>3, <2>4
<1>2. ASSUME a \in DOMAIN Pointer, NEW k \in 1..8
      PROVE  Pointer[a] + k - 1 \in DOMAIN code /\ code[Pointer[a] + k - 1] = Byte("value", First, k)
  <2>1. Pointer[a] \in Nat
    BY <1>2 DEF CodeLayout
  <2>2. Pointer[a] + k - 1 \in PointerArea(a) /\ (Pointer[a] + k - 1) - Pointer[a] + 1 = k
    BY <2>1 DEF PointerArea
  <2>3. Pointer[a] + k - 1 \in Memory /\ Compiled[Pointer[a] + k - 1] = Byte("value", First, k)
    BY <1>2, <2>2, PointerByte
  <2>4. Pointer[a] + k - 1 \notin Areas(machine)
    BY <1>2, <2>2, BodyByte
  <2>5. QED
    BY <2>3, <2>4
<1>3. QED
  BY <1>1, <1>2

(* Followed and run, it leads to the first function.                       *)
LEMMA JumpLeads ==
  ASSUME CodeLayout, machine \in Machine, NEW a \in Jumps, DOMAIN code = Memory,
         \A x \in Memory : x \notin Areas(machine) => code[x] = Compiled[x]
  PROVE  FollowJmp(a) = First /\ GoesTo(code, a) = First
<1> DEFINE b == LinkerCode(machine.isa, a)
           n == JumpBytes(LinkerJump[a])
<1>1. /\ a \in Nat /\ machine.isa # "arm64" /\ LinkerJump[a] \in {"E9", "EB", "FF25", "48FF25"}
      /\ LinkerJump[a] = "48FF25" => machine.isa # "i386"
      /\ LinkerJump[a] \in {"FF25", "48FF25"} => a \in DOMAIN Pointer /\ Pointer[a] \in Nat
      /\ First \in Nat
  BY JumpFacts DEF CodeLayout
<1>2. \A k \in 1..n : a + k - 1 \in DOMAIN code /\ code[a + k - 1] = b[k]
  BY JumpStands
<1>3. a \in DOMAIN Pointer =>
        \A k \in 1..8 : Pointer[a] + k - 1 \in DOMAIN code /\ code[Pointer[a] + k - 1] = Byte("value", First, k)
  BY JumpStands
<1>4. a \in DOMAIN Pointer => ReadIn(code, Pointer[a], 8) = First
  <2> SUFFICES ASSUME a \in DOMAIN Pointer PROVE ReadIn(code, Pointer[a], 8) = First
    OBVIOUS
  <2>1. Pointer[a] \in Int
    BY DEF CodeLayout
  <2>2. QED
    BY <1>3, <2>1, ReadOperand
<1> HIDE DEF b
<1>5. CASE LinkerJump[a] = "E9"
  <2>1. b = Instruction(<<"E9">>, First - (a + 5), 4, <<>>) /\ n = 5
    BY <1>5 DEF b, LinkerCode, JumpBytes
  <2>2. b[1] = Byte("E9", 0, 1) /\ \A k \in 1..4 : b[1 + k] = Byte("value", First - (a + 5), k)
    BY <2>1, ShortJumpBytes
  <2>3. HasOp(code, a, "E9") /\ ~HasOp(code, a, "EB") /\ ~HasOp(code, a, "FF") /\ ~HasOp(code, a, "48")
    <3>1. a + 1 - 1 \in DOMAIN code /\ code[a + 1 - 1] = b[1] /\ a + 1 - 1 = a
      BY <1>1, <1>2, <2>1
    <3>2. QED
      BY <3>1, <2>2 DEF HasOp, Byte
  <2>4. \A k \in 1..4 : (a + 1) + k - 1 \in DOMAIN code /\ code[(a + 1) + k - 1] = Byte("value", First - (a + 5), k)
    <3> TAKE k \in 1..4
    <3>1. 1 + k \in 1..n /\ a + (1 + k) - 1 = (a + 1) + k - 1
      BY <1>1, <2>1
    <3>2. QED
      BY <1>2, <2>2, <3>1
  <2>5. ReadIn(code, a + 1, 4) = First - (a + 5)
    BY <1>1, <2>4, ReadOperand
  <2>6. FollowJmp(a) = First
    BY <1>1, <2>3, <2>5 DEF FollowJmp
  <2>7. GoesOnPC(code, a) = First
    BY <1>1, <2>3, <2>5 DEF GoesOnPC
  <2>8. QED
    BY <1>1, <2>6, <2>7 DEF GoesTo
<1>6. CASE LinkerJump[a] = "EB"
  <2>1. b = Instruction(<<"EB">>, First - (a + 2), 1, <<>>) /\ n = 2
    BY <1>6 DEF b, LinkerCode, JumpBytes
  <2>2. b[1] = Byte("EB", 0, 1) /\ \A k \in 1..1 : b[1 + k] = Byte("value", First - (a + 2), k)
    BY <2>1, ShortJumpBytes
  <2>3. HasOp(code, a, "EB") /\ ~HasOp(code, a, "E9") /\ ~HasOp(code, a, "FF") /\ ~HasOp(code, a, "48")
    <3>1. a + 1 - 1 \in DOMAIN code /\ code[a + 1 - 1] = b[1] /\ a + 1 - 1 = a
      BY <1>1, <1>2, <2>1
    <3>2. QED
      BY <3>1, <2>2 DEF HasOp, Byte
  <2>4. \A k \in 1..1 : (a + 1) + k - 1 \in DOMAIN code /\ code[(a + 1) + k - 1] = Byte("value", First - (a + 2), k)
    <3> TAKE k \in 1..1
    <3>1. 1 + k \in 1..n /\ a + (1 + k) - 1 = (a + 1) + k - 1
      BY <1>1, <2>1
    <3>2. QED
      BY <1>2, <2>2, <3>1
  <2>5. ReadIn(code, a + 1, 1) = First - (a + 2)
    BY <1>1, <2>4, ReadOperand
  <2>6. FollowJmp(a) = First
    BY <1>1, <2>3, <2>5 DEF FollowJmp
  <2>7. GoesOnPC(code, a) = First
    BY <1>1, <2>3, <2>5 DEF GoesOnPC
  <2>8. QED
    BY <1>1, <2>6, <2>7 DEF GoesTo
<1>7. CASE LinkerJump[a] = "FF25"
  <2> DEFINE v == IF machine.isa = "i386" THEN Pointer[a] ELSE Pointer[a] - (a + 6)
  <2>1. b = Instruction(<<"FF", "25">>, v, 4, <<>>) /\ n = 6
    BY <1>7 DEF b, LinkerCode, JumpBytes
  <2> HIDE DEF v
  <2>2. b[1] = Byte("FF", 0, 1) /\ b[2] = Byte("25", 0, 1) /\ \A k \in 1..4 : b[2 + k] = Byte("value", v, k)
    BY <2>1, PointerJumpBytes
  <2>3. /\ HasOp(code, a, "FF") /\ HasOp(code, a + 1, "25")
        /\ ~HasOp(code, a, "EB") /\ ~HasOp(code, a, "E9") /\ ~HasOp(code, a, "48")
    <3>1. a + 1 - 1 \in DOMAIN code /\ code[a + 1 - 1] = b[1] /\ a + 1 - 1 = a
      BY <1>1, <1>2, <2>1
    <3>2. a + 2 - 1 \in DOMAIN code /\ code[a + 2 - 1] = b[2] /\ a + 2 - 1 = a + 1
      BY <1>1, <1>2, <2>1
    <3>3. QED
      BY <3>1, <3>2, <2>2 DEF HasOp, Byte
  <2>4. \A k \in 1..4 : (a + 2) + k - 1 \in DOMAIN code /\ code[(a + 2) + k - 1] = Byte("value", v, k)
    <3> TAKE k \in 1..4
    <3>1. 2 + k \in 1..n /\ a + (2 + k) - 1 = (a + 2) + k - 1
      BY <1>1, <2>1
    <3>2. QED
      BY <1>2, <2>2, <3>1
  <2>5. ReadIn(code, a + 2, 4) = v
    BY <1>1, <2>4, ReadOperand
  <2>6. ReadIn(code, Pointer[a], 8) = First /\ Pointer[a] \in Nat
    BY <1>1, <1>4, <1>7
  <2>7. (IF machine.isa = "i386" THEN 0 ELSE a + 6) + v = Pointer[a]
        /\ (IF machine.isa = "i386" THEN v ELSE a + v + 6) = Pointer[a]
    BY <1>1, <2>6 DEF v
  <2>8. FollowJmp(a) = First
    BY <1>1, <2>3, <2>5, <2>6, <2>7 DEF FollowJmp, JMP32ABS
  <2>9. GoesOnPC(code, a) = First
    BY <1>1, <2>3, <2>5, <2>6, <2>7 DEF GoesOnPC
  <2>10. QED
    BY <1>1, <2>8, <2>9 DEF GoesTo
<1>8. CASE LinkerJump[a] = "48FF25"
  <2> DEFINE v == Pointer[a] - (a + 7)
  <2>1. b = Instruction(<<"48", "FF", "25">>, v, 4, <<>>) /\ n = 7
    BY <1>8 DEF b, LinkerCode, JumpBytes
  <2> HIDE DEF v
  <2>2. /\ b[1] = Byte("48", 0, 1) /\ b[2] = Byte("FF", 0, 1) /\ b[3] = Byte("25", 0, 1)
        /\ \A k \in 1..4 : b[3 + k] = Byte("value", v, k)
    BY <2>1, LongPointerJumpBytes
  <2>3. /\ HasOp(code, a, "48") /\ HasOp(code, a + 1, "FF") /\ HasOp(code, a + 2, "25")
        /\ ~HasOp(code, a, "EB") /\ ~HasOp(code, a, "E9") /\ ~HasOp(code, a, "FF") /\ ~HasOp(code, a + 1, "B8")
    <3>1. a + 1 - 1 \in DOMAIN code /\ code[a + 1 - 1] = b[1] /\ a + 1 - 1 = a
      BY <1>1, <1>2, <2>1
    <3>2. a + 2 - 1 \in DOMAIN code /\ code[a + 2 - 1] = b[2] /\ a + 2 - 1 = a + 1
      BY <1>1, <1>2, <2>1
    <3>3. a + 3 - 1 \in DOMAIN code /\ code[a + 3 - 1] = b[3] /\ a + 3 - 1 = a + 2
      BY <1>1, <1>2, <2>1
    <3>4. QED
      BY <3>1, <3>2, <3>3, <2>2 DEF HasOp, Byte
  <2>4. \A k \in 1..4 : (a + 3) + k - 1 \in DOMAIN code /\ code[(a + 3) + k - 1] = Byte("value", v, k)
    <3> TAKE k \in 1..4
    <3>1. 3 + k \in 1..n /\ a + (3 + k) - 1 = (a + 3) + k - 1
      BY <1>1, <2>1
    <3>2. QED
      BY <1>2, <2>2, <3>1
  <2>5. ReadIn(code, a + 3, 4) = v
    BY <1>1, <2>4, ReadOperand
  <2>6. ReadIn(code, Pointer[a], 8) = First /\ Pointer[a] \in Nat
    BY <1>1, <1>4, <1>8
  <2>7. a + 7 + v = Pointer[a] /\ (a + 1) + v + 6 = Pointer[a] /\ (a + 1) + 2 = a + 3 /\ machine.isa # "i386"
    BY <1>1, <1>8, <2>6 DEF v
  <2>8. FollowJmp(a) = First
    BY <1>1, <2>3, <2>5, <2>6, <2>7 DEF FollowJmp, JMP32ABS
  <2>9. GoesOnPC(code, a) = First
    BY <1>1, <2>3, <2>5, <2>6, <2>7 DEF GoesOnPC
  <2>10. QED
    BY <1>1, <2>8, <2>9 DEF GoesTo
<1>9. QED
  BY <1>1, <1>5, <1>6, <1>7, <1>8

(* A body is where it is, and so is what lies outside this memory.         *)
LEMMA BodyLeads ==
  ASSUME NEW p, p \in DOMAIN code => code[p] = Byte("body", p, 1)
  PROVE  FollowJmp(p) = p /\ GoesTo(code, p) = p
<1>1. \A op \in {"E9", "EB", "FF", "48", "ldr_x17", "b"} : ~HasOp(code, p, op)
  BY DEF HasOp, Byte
<1>0. /\ ~HasOp(code, p, "E9") /\ ~HasOp(code, p, "EB") /\ ~HasOp(code, p, "FF") /\ ~HasOp(code, p, "48")
      /\ ~HasOp(code, p, "ldr_x17") /\ ~HasOp(code, p, "b")
  BY <1>1
<1>3. FollowJmp(p) = p
  BY <1>0 DEF FollowJmp
<1>4. GoesOnPC(code, p) = p
  BY <1>0 DEF GoesOnPC
<1>5. GoesOnArm(code, p) = p
  BY <1>0 DEF GoesOnArm
<1>2. QED
  BY <1>3, <1>4, <1>5 DEF GoesTo

---------------------------------------------------------------------------
(* The invariant.  A function kept has at its place, or put by while it    *)
(* passes, the bytes that lead where it is meant to.                       *)
Homes == {First, First + Size}
Original(s) == [k \in 1..Size |-> Compiled[s + k - 1]]
Stands(bytes, s, to) == Jump(s, to) # <<>> /\ \A k \in DOMAIN Jump(s, to) : bytes[k] = Jump(s, to)[k]
Guiding(bytes, s, to) ==
  \/ to = s /\ bytes = Original(s)
  \/ \E there \in Reached : to = there /\ Stands(bytes, s, there)
InMemory ==
  /\ machine \in Machine /\ DOMAIN code = Memory
  /\ mode \in [Pages -> SUBSET {"r", "w", "x"}]
Sources ==
  /\ kept = [s \in DOMAIN kept |-> Original(s)] /\ DOMAIN kept \subseteq Homes
  /\ meant = [s \in DOMAIN kept |-> meant[s]]
  /\ passing = [s \in DOMAIN passing |-> passing[s]] /\ DOMAIN passing \subseteq DOMAIN kept
  /\ \A s \in DOMAIN passing : passing[s] = [k \in 1..Size |-> passing[s][k]]
Untouched == \A x \in Memory : (\A s \in DOMAIN kept : x \notin Area(s)) => code[x] = Compiled[x]
Led ==
  /\ \A s \in DOMAIN kept \ DOMAIN passing : Guiding(Bytes(s), s, meant[s])
  /\ \A s \in DOMAIN passing : Bytes(s) = Original(s) /\ Guiding(passing[s], s, meant[s])
Permitted ==
  /\ fault = FALSE /\ \A p \in Pages : "x" \in mode[p]
  /\ ~machine.apple => \A s \in DOMAIN kept : \A x \in Area(s) : "w" \in mode[x \div PageSize]
CodeInv == InMemory /\ Sources /\ Untouched /\ Led /\ Permitted

(* The two functions lie a patch apart.                                    *)
LEMMA HomeFacts ==
  ASSUME CodeLayout, machine \in Machine, NEW s \in Homes
  PROVE  /\ s \in Nat /\ Size \in Nat /\ 4 <= Size /\ Area(s) = s .. s + Size - 1
         /\ Area(s) \subseteq Areas(machine) /\ Area(s) \subseteq Memory
         /\ \A k \in 1..Size : s + k - 1 \in Area(s)
         /\ \A t \in Homes : t # s => Area(s) \cap Area(t) = {}
<1>1. First \in Nat /\ Areas(machine) \subseteq Memory
  BY DEF CodeLayout
<1>2. Size \in Nat /\ 4 <= Size /\ Size = SizeOn(machine)
  BY MachineFacts DEF Size
<1>3. s \in Nat /\ Area(s) = s .. s + Size - 1
  BY <1>1, <1>2 DEF Homes, Area
<1>4. Areas(machine) = First .. First + 2 * Size - 1
  BY <1>2 DEF Areas
<1>5. Area(s) \subseteq Areas(machine)
  BY <1>1, <1>2, <1>3, <1>4 DEF Homes
<1>6. \A k \in 1..Size : s + k - 1 \in Area(s)
  BY <1>2, <1>3
<1>7. \A t \in Homes : t # s => Area(s) \cap Area(t) = {}
  BY <1>1, <1>2, <1>3 DEF Homes, Area
<1>8. QED
  BY <1>1, <1>2, <1>3, <1>5, <1>6, <1>7

(* The jumps written, by machine; with 32 bits none is far.                *)
LEMMA JumpCases ==
  ASSUME CodeLayout, machine \in Machine, NEW s \in Homes, NEW to \in Reached
  PROVE  \/ Jump(s, to) = <<>>
         \/ machine.isa # "arm64" /\ Jump(s, to) = Instruction(<<"E9">>, to - s - 5, 4, <<>>)
         \/ machine.isa = "x86_64" /\ Jump(s, to) = Instruction(<<"48", "B8">>, to, 8, <<"FF", "E0">>)
         \/ machine.isa = "arm64" /\ machine.apple /\ Jump(s, to) = [k \in 1..4 |-> Byte("b", to - s, k)]
         \/ machine.isa = "arm64" /\ ~machine.apple
            /\ Jump(s, to) = [k \in 1..16 |-> IF k <= 4 THEN Byte("ldr_x17", 8, k)
                                              ELSE IF k <= 8 THEN Byte("br_x17", 0, k - 4) ELSE Byte("value", to, k - 8)]
<1>1. machine.isa \in {"i386", "x86_64", "arm64"} /\ machine.apple \in BOOLEAN
  BY MachineFacts
<1>2. s \in Nat /\ s \in Memory /\ to \in Nat /\ Near \in Nat
  <2>1. s \in Area(s)
    BY HomeFacts
  <2>2. QED
    BY <2>1, HomeFacts DEF CodeLayout, Reached
<1>3. CASE machine.isa = "arm64"
  BY <1>1, <1>3 DEF Jump
<1>4. CASE machine.isa # "arm64" /\ ~(to - s - 5 < -Near \/ Near < to - s - 5)
  BY <1>4 DEF Jump
<1>5. CASE machine.isa # "arm64" /\ (to - s - 5 < -Near \/ Near < to - s - 5)
  <2>1. machine.isa # "i386"
    <3> SUFFICES ASSUME machine.isa = "i386" PROVE FALSE
      OBVIOUS
    <3>1. to < Near /\ s + 5 <= Near
      BY <1>2 DEF Reached, CodeLayout
    <3>2. QED
      BY <1>2, <1>5, <3>1
  <2>2. QED
    BY <1>1, <1>5, <2>1 DEF Jump
<1>6. QED
  BY <1>3, <1>4, <1>5

(* A jump is no longer than what is kept of the function.                  *)
LEMMA JumpFits ==
  ASSUME CodeLayout, machine \in Machine, NEW s \in Homes, NEW to \in Reached
  PROVE  DOMAIN Jump(s, to) \subseteq 1..Size
<1>1. /\ machine.isa \in {"i386", "x86_64", "arm64"} /\ machine.apple \in BOOLEAN /\ Size \in Nat
      /\ machine.isa = "i386" => Size = 5
      /\ machine.isa = "x86_64" => Size = 12
      /\ machine.isa = "arm64" => Size = IF machine.apple THEN 4 ELSE 16
  BY MachineFacts DEF Size
<1>2. CASE Jump(s, to) = <<>>
  BY <1>2
<1>3. CASE machine.isa # "arm64" /\ Jump(s, to) = Instruction(<<"E9">>, to - s - 5, 4, <<>>)
  <2>1. DOMAIN Jump(s, to) = 1 .. 1 + 4
    BY <1>3, ShortJumpBytes
  <2>2. QED
    BY <1>1, <1>3, <2>1
<1>4. CASE machine.isa = "x86_64" /\ Jump(s, to) = Instruction(<<"48", "B8">>, to, 8, <<"FF", "E0">>)
  <2>1. DOMAIN Jump(s, to) = 1..12
    BY <1>4, FarJumpBytes
  <2>2. QED
    BY <1>1, <1>4, <2>1
<1>5. CASE machine.isa = "arm64" /\ machine.apple /\ Jump(s, to) = [k \in 1..4 |-> Byte("b", to - s, k)]
  BY <1>1, <1>5
<1>6. CASE machine.isa = "arm64" /\ ~machine.apple
           /\ Jump(s, to) = [k \in 1..16 |-> IF k <= 4 THEN Byte("ldr_x17", 8, k)
                                             ELSE IF k <= 8 THEN Byte("br_x17", 0, k - 4) ELSE Byte("value", to, k - 8)]
  BY <1>1, <1>6
<1>7. QED
  BY <1>2, <1>3, <1>4, <1>5, <1>6, JumpCases

(* A jump written over a function leads where it is to.                    *)
LEMMA WrittenLeads ==
  ASSUME CodeLayout, machine \in Machine, DOMAIN code = Memory, NEW s \in Homes, NEW to \in Reached,
         Stands(Bytes(s), s, to)
  PROVE  GoesTo(code, s) = to
<1> DEFINE b == Jump(s, to)
<1>1. s \in Nat /\ to \in Nat /\ Size \in Nat
  BY HomeFacts DEF CodeLayout, Reached
<1>2. \A k \in DOMAIN b : k \in 1..Size /\ s + k - 1 \in DOMAIN code /\ code[s + k - 1] = b[k]
  <2> TAKE k \in DOMAIN b
  <2>1. k \in 1..Size
    BY JumpFits
  <2>2. s + k - 1 \in DOMAIN code
    BY <2>1, HomeFacts
  <2>3. Bytes(s)[k] = code[s + k - 1]
    BY <2>1 DEF Bytes
  <2>4. QED
    BY <2>1, <2>2, <2>3 DEF Stands
<1> HIDE DEF b
<1>3. CASE machine.isa # "arm64" /\ b = Instruction(<<"E9">>, to - s - 5, 4, <<>>)
  <2>1. DOMAIN b = 1..5 /\ b[1] = Byte("E9", 0, 1) /\ \A k \in 1..4 : b[1 + k] = Byte("value", to - s - 5, k)
    BY <1>3, ShortJumpBytes
  <2>2. HasOp(code, s, "E9") /\ ~HasOp(code, s, "EB") /\ ~HasOp(code, s, "FF") /\ ~HasOp(code, s, "48")
    <3>1. s + 1 - 1 \in DOMAIN code /\ code[s + 1 - 1] = b[1] /\ s + 1 - 1 = s
      BY <1>1, <1>2, <2>1
    <3>2. QED
      BY <3>1, <2>1 DEF HasOp, Byte
  <2>3. \A k \in 1..4 : (s + 1) + k - 1 \in DOMAIN code /\ code[(s + 1) + k - 1] = Byte("value", to - s - 5, k)
    <3> TAKE k \in 1..4
    <3>1. 1 + k \in DOMAIN b /\ s + (1 + k) - 1 = (s + 1) + k - 1
      BY <1>1, <2>1
    <3>2. QED
      BY <1>2, <2>1, <3>1
  <2>4. ReadIn(code, s + 1, 4) = to - s - 5
    BY <1>1, <2>3, ReadOperand
  <2>5. GoesOnPC(code, s) = to
    BY <1>1, <2>2, <2>4 DEF GoesOnPC
  <2>6. QED
    BY <1>3, <2>5 DEF GoesTo
<1>4. CASE machine.isa = "x86_64" /\ b = Instruction(<<"48", "B8">>, to, 8, <<"FF", "E0">>)
  <2>1. /\ DOMAIN b = 1..12 /\ b[1] = Byte("48", 0, 1) /\ b[2] = Byte("B8", 0, 1)
        /\ b[11] = Byte("FF", 0, 1) /\ b[12] = Byte("E0", 0, 1)
        /\ \A k \in 1..8 : b[2 + k] = Byte("value", to, k)
    BY <1>4, FarJumpBytes
  <2>2. /\ ~HasOp(code, s, "E9") /\ ~HasOp(code, s, "EB") /\ ~HasOp(code, s, "FF") /\ HasOp(code, s, "48")
        /\ ~HasOp(code, s + 1, "FF") /\ HasOp(code, s + 1, "B8") /\ HasOp(code, s + 10, "FF") /\ HasOp(code, s + 11, "E0")
    <3>1. s + 1 - 1 \in DOMAIN code /\ code[s + 1 - 1] = b[1] /\ s + 1 - 1 = s
      BY <1>1, <1>2, <2>1
    <3>2. s + 2 - 1 \in DOMAIN code /\ code[s + 2 - 1] = b[2] /\ s + 2 - 1 = s + 1
      BY <1>1, <1>2, <2>1
    <3>3. s + 11 - 1 \in DOMAIN code /\ code[s + 11 - 1] = b[11] /\ s + 11 - 1 = s + 10
      BY <1>1, <1>2, <2>1
    <3>4. s + 12 - 1 \in DOMAIN code /\ code[s + 12 - 1] = b[12] /\ s + 12 - 1 = s + 11
      BY <1>1, <1>2, <2>1
    <3>5. QED
      BY <3>1, <3>2, <3>3, <3>4, <2>1 DEF HasOp, Byte
  <2>3. \A k \in 1..8 : (s + 2) + k - 1 \in DOMAIN code /\ code[(s + 2) + k - 1] = Byte("value", to, k)
    <3> TAKE k \in 1..8
    <3>1. 2 + k \in DOMAIN b /\ s + (2 + k) - 1 = (s + 2) + k - 1
      BY <1>1, <2>1
    <3>2. QED
      BY <1>2, <2>1, <3>1
  <2>4. ReadIn(code, s + 2, 8) = to
    BY <1>1, <2>3, ReadOperand
  <2>5. GoesOnPC(code, s) = to
    BY <1>1, <2>2, <2>4 DEF GoesOnPC
  <2>6. QED
    BY <1>4, <2>5 DEF GoesTo
<1>5. CASE machine.isa = "arm64" /\ machine.apple /\ b = [k \in 1..4 |-> Byte("b", to - s, k)]
  <2>1. code[s] = Byte("b", to - s, 1) /\ s \in DOMAIN code
    <3>1. s + 1 - 1 \in DOMAIN code /\ code[s + 1 - 1] = b[1] /\ s + 1 - 1 = s /\ b[1] = Byte("b", to - s, 1)
      BY <1>1, <1>2, <1>5
    <3>2. QED
      BY <3>1
  <2>2. HasOp(code, s, "b") /\ ~HasOp(code, s, "ldr_x17") /\ code[s].value = to - s
    BY <2>1 DEF HasOp, Byte
  <2>3. GoesOnArm(code, s) = to
    BY <1>1, <2>2 DEF GoesOnArm
  <2>4. QED
    BY <1>5, <2>3 DEF GoesTo
<1>6. CASE machine.isa = "arm64" /\ ~machine.apple
           /\ b = [k \in 1..16 |-> IF k <= 4 THEN Byte("ldr_x17", 8, k)
                                   ELSE IF k <= 8 THEN Byte("br_x17", 0, k - 4) ELSE Byte("value", to, k - 8)]
  <2>1. /\ DOMAIN b = 1..16 /\ b[1] = Byte("ldr_x17", 8, 1) /\ b[5] = Byte("br_x17", 0, 1)
        /\ \A k \in 1..8 : b[8 + k] = Byte("value", to, k)
    BY <1>6
  <2>2. HasOp(code, s, "ldr_x17") /\ ~HasOp(code, s, "b") /\ HasOp(code, s + 4, "br_x17")
    <3>1. s + 1 - 1 \in DOMAIN code /\ code[s + 1 - 1] = b[1] /\ s + 1 - 1 = s
      BY <1>1, <1>2, <2>1
    <3>2. s + 5 - 1 \in DOMAIN code /\ code[s + 5 - 1] = b[5] /\ s + 5 - 1 = s + 4
      BY <1>1, <1>2, <2>1
    <3>3. QED
      BY <3>1, <3>2, <2>1 DEF HasOp, Byte
  <2>3. \A k \in 1..8 : (s + 8) + k - 1 \in DOMAIN code /\ code[(s + 8) + k - 1] = Byte("value", to, k)
    <3> TAKE k \in 1..8
    <3>1. 8 + k \in DOMAIN b /\ s + (8 + k) - 1 = (s + 8) + k - 1
      BY <1>1, <2>1
    <3>2. QED
      BY <1>2, <2>1, <3>1
  <2>4. ReadIn(code, s + 8, 8) = to
    BY <1>1, <2>3, ReadOperand
  <2>5. GoesOnArm(code, s) = to
    BY <1>1, <2>2, <2>4 DEF GoesOnArm
  <2>6. QED
    BY <1>6, <2>5 DEF GoesTo
<1>7. QED
  BY <1>3, <1>4, <1>5, <1>6, JumpCases DEF b, Stands

---------------------------------------------------------------------------
(* What the invariant says of the addresses a test may name.               *)
LEMMA OutsideStands ==
  ASSUME CodeLayout, CodeInv
  PROVE  DOMAIN code = Memory /\ machine \in Machine /\ \A x \in Memory : x \notin Areas(machine) => code[x] = Compiled[x]
<1>1. DOMAIN code = Memory /\ machine \in Machine
  BY DEF CodeInv, InMemory
<1>2. ASSUME NEW x \in Memory, x \notin Areas(machine) PROVE code[x] = Compiled[x]
  <2>1. \A s \in DOMAIN kept : x \notin Area(s)
    BY <1>1, <1>2, HomeFacts DEF CodeInv, Sources
  <2>2. QED
    BY <2>1 DEF CodeInv, Untouched
<1>3. QED
  BY <1>1, <1>2

(* A function not patched has its own bytes.                               *)
LEMMA UnpatchedStands ==
  ASSUME CodeLayout, CodeInv, NEW s \in Homes, s \notin DOMAIN kept
  PROVE  Bytes(s) = Original(s)
<1>1. machine \in Machine /\ DOMAIN kept \subseteq Homes
  BY DEF CodeInv, InMemory, Sources
<1>2. ASSUME NEW k \in 1..Size PROVE code[s + k - 1] = Compiled[s + k - 1]
  <2>1. s + k - 1 \in Area(s) /\ s + k - 1 \in Memory
    BY <1>1, HomeFacts
  <2>2. \A t \in DOMAIN kept : s + k - 1 \notin Area(t)
    <3> TAKE t \in DOMAIN kept
    <3>1. t \in Homes /\ t # s
      BY <1>1
    <3>2. Area(s) \cap Area(t) = {}
      BY <1>1, <3>1, HomeFacts
    <3>3. QED
      BY <2>1, <3>2
  <2>3. QED
    BY <2>1, <2>2 DEF CodeInv, Untouched
<1>3. QED
  BY <1>2 DEF Bytes, Original

(* The bytes a function was compiled to are its body.                      *)
LEMMA OriginalLeads ==
  ASSUME CodeLayout, machine \in Machine, NEW s \in Homes, Bytes(s) = Original(s)
  PROVE  FollowJmp(s) = s /\ GoesTo(code, s) = s
<1>1. 1 \in 1..Size /\ s + 1 - 1 = s /\ s \in Areas(machine)
  BY HomeFacts
<1>2. Bytes(s)[1] = code[s] /\ Original(s)[1] = Compiled[s]
  BY <1>1 DEF Bytes, Original
<1>3. code[s] = Byte("body", s, 1)
  BY <1>1, <1>2, BodyByte
<1>4. QED
  BY <1>3, BodyLeads

(* The addresses named are functions or jumps, and no jump is a source.    *)
LEMMA EntryFacts ==
  ASSUME CodeLayout, CodeInv, NEW a \in Entries
  PROVE  /\ HomeOf(a) \in Homes /\ (a \notin Jumps => a \in Homes /\ HomeOf(a) = a)
         /\ a \in Jumps => HomeOf(a) = First /\ a \notin DOMAIN kept
<1>1. machine \in Machine /\ DOMAIN kept \subseteq Homes
  BY DEF CodeInv, InMemory, Sources
<1>2. ASSUME a \in Jumps PROVE a \notin Homes
  <2>1. a \in JumpArea(a)
    BY <1>1, <1>2, JumpFacts
  <2>2. \A s \in Homes : s \in Areas(machine)
    <3> TAKE s \in Homes
    <3>1. s \in Area(s) /\ Area(s) \subseteq Areas(machine)
      BY <1>1, HomeFacts
    <3>2. QED
      BY <3>1
  <2>3. QED
    BY <1>1, <1>2, <2>1, <2>2, BodyByte
<1>3. QED
  BY <1>1, <1>2 DEF Entries, Homes, HomeOf

(* Whichever address is named, the source is that of its function.         *)
LEMMA FollowHome ==
  ASSUME CodeLayout, CodeInv, NEW a \in Entries
  PROVE  Follow(a) = HomeOf(a) /\ HomeOf(a) \in Homes
<1>1. machine \in Machine
  BY DEF CodeInv, InMemory
<1>2. CASE a \in Jumps
  <2>1. machine.isa # "arm64" /\ a \notin DOMAIN kept
    BY <1>1, <1>2, JumpFacts, EntryFacts
  <2>2. FollowJmp(a) = First
    BY <1>2, OutsideStands, JumpLeads
  <2>3. QED
    BY <1>2, <2>1, <2>2, EntryFacts DEF Follow
<1>3. CASE a \notin Jumps /\ a \in DOMAIN kept
  BY <1>3, EntryFacts DEF Follow
<1>4. CASE a \notin Jumps /\ a \notin DOMAIN kept
  <2>1. a \in Homes /\ HomeOf(a) = a
    BY <1>4, EntryFacts
  <2>2. FollowJmp(a) = a
    BY <1>1, <1>4, <2>1, UnpatchedStands, OriginalLeads
  <2>3. QED
    BY <2>1, <2>2 DEF Follow
<1>5. QED
  BY <1>2, <1>3, <1>4

(* Where a function goes, and that it goes no further.                     *)
Goal(s) == IF s \in DOMAIN kept \ DOMAIN passing THEN meant[s] ELSE s
LEMMA HomeLeads ==
  ASSUME CodeLayout, CodeInv, NEW s \in Homes
  PROVE  GoesTo(code, s) = Goal(s) /\ GoesTo(code, Goal(s)) = Goal(s)
<1>1. machine \in Machine /\ DOMAIN code = Memory
  BY DEF CodeInv, InMemory
<1>2. CASE s \notin DOMAIN kept \ DOMAIN passing
  <2>1. Bytes(s) = Original(s)
    BY <1>2, UnpatchedStands DEF CodeInv, Led
  <2>2. QED
    BY <1>1, <1>2, <2>1, OriginalLeads DEF Goal
<1>3. CASE s \in DOMAIN kept \ DOMAIN passing
  <2>1. Goal(s) = meant[s] /\ Guiding(Bytes(s), s, meant[s])
    BY <1>3 DEF Goal, CodeInv, Led
  <2>2. CASE meant[s] = s /\ Bytes(s) = Original(s)
    BY <1>1, <2>1, <2>2, OriginalLeads
  <2>3. CASE meant[s] \in Reached /\ Stands(Bytes(s), s, meant[s])
    <3>1. GoesTo(code, s) = meant[s]
      BY <1>1, <2>3, WrittenLeads
    <3>2. meant[s] \notin DOMAIN code
      BY <1>1, <2>3 DEF Reached, CodeLayout
    <3>3. GoesTo(code, meant[s]) = meant[s]
      BY <3>2, BodyLeads
    <3>4. QED
      BY <2>1, <3>1, <3>3
  <2>4. QED
    BY <2>1, <2>2, <2>3 DEF Guiding
<1>4. QED
  BY <1>2, <1>3

(* The property follows.                                                   *)
LEMMA PatchesFollow ==
  ASSUME CodeLayout, CodeInv
  PROVE  PatchesLead
<1>1. ASSUME NEW a \in Entries
      PROVE  Follow(a) = HomeOf(a) /\ Leads(code, a) = Goal(HomeOf(a))
  <2>1. Follow(a) = HomeOf(a) /\ HomeOf(a) \in Homes
    BY FollowHome
  <2>2. GoesTo(code, HomeOf(a)) = Goal(HomeOf(a)) /\ GoesTo(code, Goal(HomeOf(a))) = Goal(HomeOf(a))
    BY <2>1, HomeLeads
  <2>3. CASE a \in Jumps
    <3>1. GoesTo(code, a) = HomeOf(a)
      BY <2>3, OutsideStands, JumpLeads, EntryFacts
    <3>2. QED
      BY <2>1, <2>2, <3>1 DEF Leads
  <2>4. CASE a \notin Jumps
    <3>1. HomeOf(a) = a
      BY <2>4, EntryFacts
    <3>2. QED
      BY <2>1, <2>2, <3>1 DEF Leads
  <2>5. QED
    BY <2>3, <2>4
<1>2. QED
  BY <1>1 DEF PatchesLead, Goal, CodeInv, Untouched, Permitted

---------------------------------------------------------------------------
(* The pages made writable are those of the whole patch.                   *)
LEMMA Quotients ==
  ASSUME NEW n \in Int, NEW p \in Nat \ {0}
  PROVE  n \div p \in Int /\ (n \div p) * p <= n /\ n < (n \div p) * p + p
<1>1. n = p * (n \div p) + (n % p) /\ 0 <= n % p /\ n % p < p /\ n \div p \in Int /\ n % p \in Int
  OBVIOUS
<1>2. p * (n \div p) = (n \div p) * p
  BY <1>1
<1>3. QED
  BY <1>1, <1>2
(* Of multiples, which is greater.                                         *)
LEMMA Multiples ==
  ASSUME NEW i \in Int, NEW j \in Int, NEW p \in Nat \ {0}, i * p < j * p + p
  PROVE  i <= j
<1> SUFFICES ASSUME j + 1 <= i PROVE FALSE
  OBVIOUS
<1>1. PICK d \in Nat : i = j + 1 + d
  <2>1. i - (j + 1) \in Nat /\ i = j + 1 + (i - (j + 1))
    OBVIOUS
  <2>2. QED
    BY <2>1
<1>2. i * p = j * p + p + d * p /\ d * p \in Nat
  BY <1>1
<1>3. QED
  BY <1>2
(* The page of every byte of a function is among them.                     *)
LEMMA PagesCover ==
  ASSUME CodeLayout, machine \in Machine, NEW s \in Homes, NEW x \in Area(s)
  PROVE  x \div PageSize \in Pages \cap PagesOf(s)
<1>1. /\ s \in Nat /\ Size \in Nat /\ PageSize \in Nat \ {0} /\ x \in Nat /\ s <= x /\ x <= s + Size - 1 /\ x \in Memory
  BY HomeFacts DEF CodeLayout
<1> DEFINE start == s \div PageSize
           length == s + Size - start * PageSize
           q == x \div PageSize
           l == (length + PageSize - 1) \div PageSize
<1>2. start \in Int /\ start * PageSize <= s /\ s < start * PageSize + PageSize
  BY <1>1, Quotients
<1>3. q \in Int /\ q * PageSize <= x /\ x < q * PageSize + PageSize
  BY <1>1, Quotients
<1>4. start * PageSize \in Int /\ length \in Int /\ length + PageSize - 1 \in Int
  BY <1>1, <1>2
<1>5. l \in Int /\ l * PageSize <= length + PageSize - 1 /\ length + PageSize - 1 < l * PageSize + PageSize
  BY <1>1, <1>4, Quotients
<1> HIDE DEF start, q, l
<1>6. start <= q
  <2>1. start * PageSize < q * PageSize + PageSize
    BY <1>1, <1>2, <1>3
  <2>2. QED
    BY <1>1, <1>2, <1>3, <2>1, Multiples
<1>7. q - start + 1 <= l
  <2>1. (q - start + 1) * PageSize = q * PageSize - start * PageSize + PageSize
    BY <1>1, <1>2, <1>3
  <2>2. (q - start + 1) * PageSize < l * PageSize + PageSize
    BY <1>1, <1>2, <1>3, <1>4, <1>5, <2>1
  <2>3. q - start + 1 \in Int
    BY <1>2, <1>3
  <2>4. QED
    BY <1>1, <1>5, <2>2, <2>3, Multiples
<1>8. q \in PagesOf(s)
  BY <1>2, <1>3, <1>5, <1>6, <1>7 DEF PagesOf, start, length, l
<1>9. QED
  BY <1>1, <1>8 DEF Pages, q

---------------------------------------------------------------------------
(* The program stays the one that was built.                               *)
LEMMA MachineStays ==
  ASSUME machine' = machine
  PROVE  /\ Size' = Size /\ Compiled' = Compiled /\ Reached' = Reached /\ Homes' = Homes
         /\ \A s : Area(s)' = Area(s) /\ Original(s)' = Original(s)
         /\ \A s, to : Jump(s, to)' = Jump(s, to)
<1>1. Size' = Size /\ Compiled' = Compiled /\ Reached' = Reached
  BY DEF Size, Compiled, Reached
<1>2. Homes' = Homes
  BY <1>1 DEF Homes
<1>3. ASSUME NEW s PROVE Area(s)' = Area(s) /\ Original(s)' = Original(s)
  BY <1>1 DEF Area, Original
<1>4. ASSUME NEW s, NEW to PROVE Jump(s, to)' = Jump(s, to)
  BY DEF Jump
<1>5. QED
  BY <1>1, <1>2, <1>3, <1>4

(* What a page permits after a change.                                     *)
LEMMA PermitFacts ==
  ASSUME NEW m \in [Pages -> SUBSET {"r", "w", "x"}], NEW s, NEW what \in SUBSET {"r", "w", "x"}
  PROVE  /\ Permit(m, s, what) \in [Pages -> SUBSET {"r", "w", "x"}]
         /\ \A p \in Pages : Permit(m, s, what)[p] = IF p \in PagesOf(s) THEN what ELSE m[p]
BY DEF Permit

(* What writing changes, and that it is permitted.                         *)
LEMMA OverwriteFacts ==
  ASSUME CodeLayout, CodeInv, NEW s \in DOMAIN kept, NEW bytes, DOMAIN bytes \subseteq 1..Size,
         Overwrite(s, bytes), machine' = machine
  PROVE  /\ InMemory'
         /\ \A k \in DOMAIN bytes : code'[s + k - 1] = bytes[k]
         /\ \A k \in (1..Size) \ DOMAIN bytes : code'[s + k - 1] = code[s + k - 1]
         /\ \A x \in Memory : x \notin Area(s) => code'[x] = code[x]
         /\ fault' = FALSE /\ \A p \in Pages : "x" \in mode'[p]
         /\ ~machine.apple => mode' = mode
<1>1. /\ machine \in Machine /\ DOMAIN code = Memory /\ mode \in [Pages -> SUBSET {"r", "w", "x"}]
      /\ s \in Homes /\ fault = FALSE /\ \A p \in Pages : "x" \in mode[p]
  BY DEF CodeInv, InMemory, Sources, Permitted
<1>2. /\ s \in Nat /\ Size \in Nat /\ Area(s) = s .. s + Size - 1 /\ Area(s) \subseteq Memory
      /\ \A k \in 1..Size : s + k - 1 \in Area(s)
  BY <1>1, HomeFacts
<1>3. code' = [x \in Memory |-> IF x - s + 1 \in DOMAIN bytes THEN bytes[x - s + 1] ELSE code[x]]
  BY <1>1 DEF Overwrite, Overlay
<1>4. ASSUME NEW k \in 1..Size
      PROVE  code'[s + k - 1] = IF k \in DOMAIN bytes THEN bytes[k] ELSE code[s + k - 1]
  <2>1. s + k - 1 \in Memory /\ (s + k - 1) - s + 1 = k
    BY <1>2
  <2>2. QED
    BY <1>3, <2>1
<1>5. ASSUME NEW x \in Memory, x \notin Area(s) PROVE code'[x] = code[x]
  <2>1. x \in Nat
    BY DEF CodeLayout
  <2>2. x - s + 1 \notin 1..Size
    BY <1>2, <1>5, <2>1
  <2>3. QED
    BY <1>3, <2>2
<1>6. Writable \in SUBSET {"r", "w", "x"} /\ Executable \in SUBSET {"r", "w", "x"} /\ "w" \in Writable /\ "x" \in Executable
  BY DEF Writable, Executable
<1> DEFINE at == IF machine.apple THEN Permit(mode, s, Writable) ELSE mode
<1>7. \A x \in Area(s) : "w" \in at[x \div PageSize]
  <2> TAKE x \in Area(s)
  <2>1. x \div PageSize \in Pages /\ x \div PageSize \in PagesOf(s)
    BY <1>1, PagesCover
  <2>2. CASE machine.apple
    BY <1>1, <1>6, <2>1, <2>2, PermitFacts
  <2>3. CASE ~machine.apple
    BY <2>3 DEF CodeInv, Permitted
  <2>4. QED
    BY <2>2, <2>3
<1>8. fault' = FALSE
  <2>1. fault' = (fault \/ \E k \in DOMAIN bytes : "w" \notin at[(s + k - 1) \div PageSize])
    BY DEF Overwrite
  <2>2. \A k \in DOMAIN bytes : "w" \in at[(s + k - 1) \div PageSize]
    BY <1>2, <1>7
  <2>3. QED
    BY <1>1, <2>1, <2>2
<1>9. mode' = IF machine.apple THEN Permit(mode, s, Executable) ELSE mode
  BY DEF Overwrite
<1>10. mode' \in [Pages -> SUBSET {"r", "w", "x"}] /\ \A p \in Pages : "x" \in mode'[p]
  <2>1. CASE machine.apple
    <3>1. /\ mode' \in [Pages -> SUBSET {"r", "w", "x"}]
          /\ \A p \in Pages : mode'[p] = IF p \in PagesOf(s) THEN Executable ELSE mode[p]
      BY <1>1, <1>6, <1>9, <2>1, PermitFacts
    <3>2. QED
      BY <1>1, <1>6, <3>1
  <2>2. CASE ~machine.apple
    BY <1>1, <1>9, <2>2
  <2>3. QED
    BY <2>1, <2>2
<1>11. InMemory'
  BY <1>1, <1>3, <1>10 DEF InMemory
<1>12. QED
  BY <1>4, <1>5, <1>8, <1>9, <1>10, <1>11

(* What the other function is made of.                                     *)
LEMMA OthersStay ==
  ASSUME CodeLayout, machine \in Machine, machine' = machine, NEW s \in Homes,
         \A x \in Memory : x \notin Area(s) => code'[x] = code[x]
  PROVE  \A t \in Homes : t # s => Bytes(t)' = Bytes(t)
<1> SUFFICES ASSUME NEW t \in Homes, t # s PROVE Bytes(t)' = Bytes(t)
  OBVIOUS
<1>1. \A k \in 1..Size : code'[t + k - 1] = code[t + k - 1]
  <2> TAKE k \in 1..Size
  <2>1. t + k - 1 \in Area(t) /\ t + k - 1 \in Memory
    BY HomeFacts
  <2>2. Area(t) \cap Area(s) = {}
    BY HomeFacts
  <2>3. QED
    BY <2>1, <2>2
<1>2. QED
  BY <1>1, MachineStays DEF Bytes

(* What leads somewhere still does in the next state.                      *)
LEMMA StillLed ==
  ASSUME machine' = machine, NEW s, Guiding(Bytes(s), s, meant[s]), Bytes(s)' = Bytes(s), meant'[s] = meant[s]
  PROVE  Guiding(Bytes(s), s, meant[s])'
<1>1. CASE meant[s] = s /\ Bytes(s) = Original(s)
  BY <1>1, MachineStays DEF Guiding
<1>2. CASE \E there \in Reached : meant[s] = there /\ Stands(Bytes(s), s, there)
  <2>1. PICK there \in Reached : meant[s] = there /\ Stands(Bytes(s), s, there)
    BY <1>2
  <2>2. there \in Reached' /\ Jump(s, there)' = Jump(s, there)
    BY MachineStays
  <2>3. Stands(Bytes(s), s, there)'
    BY <2>1, <2>2 DEF Stands
  <2>4. QED
    BY <2>1, <2>2, <2>3 DEF Guiding
<1>3. QED
  BY <1>1, <1>2 DEF Guiding
(* And what is put by while it passes.                                     *)
LEMMA StillPassing ==
  ASSUME machine' = machine, NEW s, Bytes(s) = Original(s) /\ Guiding(passing[s], s, meant[s]),
         Bytes(s)' = Bytes(s), meant'[s] = meant[s], passing'[s] = passing[s]
  PROVE  Bytes(s)' = Original(s)' /\ Guiding(passing[s], s, meant[s])'
<1>0. Bytes(s)' = Original(s)'
  BY MachineStays
<1>1. CASE meant[s] = s /\ passing[s] = Original(s)
  BY <1>0, <1>1, MachineStays DEF Guiding
<1>2. CASE \E there \in Reached : meant[s] = there /\ Stands(passing[s], s, there)
  <2>1. PICK there \in Reached : meant[s] = there /\ Stands(passing[s], s, there)
    BY <1>2
  <2>2. there \in Reached' /\ Jump(s, there)' = Jump(s, there)
    BY MachineStays
  <2>3. Stands(passing[s], s, there)'
    BY <2>1, <2>2 DEF Stands
  <2>4. QED
    BY <1>0, <2>1, <2>2, <2>3 DEF Guiding
<1>3. QED
  BY <1>1, <1>2 DEF Guiding

(* A step that leaves a function alone leaves it led as it was.            *)
LEMMA OthersLed ==
  ASSUME CodeInv, machine' = machine, NEW t \in DOMAIN kept, Bytes(t)' = Bytes(t), meant'[t] = meant[t],
         t \in DOMAIN passing <=> t \in DOMAIN passing', t \in DOMAIN passing => passing'[t] = passing[t]
  PROVE  /\ t \notin DOMAIN passing' => Guiding(Bytes(t), t, meant[t])'
         /\ t \in DOMAIN passing' => Bytes(t)' = Original(t)' /\ Guiding(passing[t], t, meant[t])'
<1>1. CASE t \notin DOMAIN passing
  <2>1. Guiding(Bytes(t), t, meant[t])
    BY <1>1 DEF CodeInv, Led
  <2>2. QED
    BY <1>1, <2>1, StillLed
<1>2. CASE t \in DOMAIN passing
  <2>1. Bytes(t) = Original(t) /\ Guiding(passing[t], t, meant[t])
    BY <1>2 DEF CodeInv, Led
  <2>2. QED
    BY <1>2, <2>1, StillPassing
<1>3. QED
  BY <1>1, <1>2

(* A jump is written, or none when it is out of reach.                     *)
LEMMA SetKeeps ==
  ASSUME CodeLayout, CodeInv, NEW a \in Entries, NEW to \in Reached, Set(a, to)
  PROVE  CodeInv'
<1>1. PICK s \in Homes : s = Follow(a)
  BY FollowHome
<1>2. /\ s \in DOMAIN kept \ DOMAIN passing /\ Overwrite(s, Jump(s, to))
      /\ meant' = IF Jump(s, to) = <<>> THEN meant ELSE [meant EXCEPT ![s] = to]
      /\ machine' = machine /\ kept' = kept /\ passing' = passing
  BY <1>1 DEF Set
<1>3. /\ machine \in Machine /\ DOMAIN kept \subseteq Homes /\ DOMAIN passing \subseteq DOMAIN kept
      /\ meant = [t \in DOMAIN kept |-> meant[t]] /\ DOMAIN meant = DOMAIN kept
  BY DEF CodeInv, InMemory, Sources
<1>4. DOMAIN Jump(s, to) \subseteq 1..Size
  BY <1>3, JumpFits
<1>5. /\ InMemory'
      /\ \A k \in DOMAIN Jump(s, to) : code'[s + k - 1] = Jump(s, to)[k]
      /\ \A k \in (1..Size) \ DOMAIN Jump(s, to) : code'[s + k - 1] = code[s + k - 1]
      /\ \A x \in Memory : x \notin Area(s) => code'[x] = code[x]
      /\ fault' = FALSE /\ \A p \in Pages : "x" \in mode'[p]
      /\ ~machine.apple => mode' = mode
  BY <1>2, <1>4, OverwriteFacts
<1>6. \A t \in Homes : t # s => Bytes(t)' = Bytes(t)
  BY <1>3, <1>2, <1>5, OthersStay
<1>7. Sources'
  <2>1. meant' = [t \in DOMAIN kept |-> meant'[t]]
    BY <1>2, <1>3
  <2>2. kept = [t \in DOMAIN kept |-> Original(t)'] /\ Homes' = Homes /\ Size' = Size
    BY <1>2, MachineStays DEF CodeInv, Sources
  <2>3. QED
    BY <1>2, <2>1, <2>2 DEF CodeInv, Sources
<1>8. Untouched'
  <2>1. Compiled' = Compiled /\ \A t : Area(t)' = Area(t)
    BY <1>2, MachineStays
  <2>2. QED
    BY <1>2, <1>5, <2>1 DEF CodeInv, Untouched
<1>9. Bytes(s)' = [k \in 1..Size |-> code'[s + k - 1]]
  BY <1>2, MachineStays DEF Bytes
<1>10. Guiding(Bytes(s), s, meant[s])'
  <2>1. CASE Jump(s, to) = <<>>
    <3>1. DOMAIN Jump(s, to) = {}
      BY <2>1
    <3>2. Bytes(s)' = Bytes(s)
      BY <1>5, <1>9, <3>1 DEF Bytes
    <3>3. Guiding(Bytes(s), s, meant[s])
      BY <1>2 DEF CodeInv, Led
    <3>4. QED
      BY <1>2, <2>1, <3>2, <3>3, StillLed
  <2>2. CASE Jump(s, to) # <<>>
    <3>1. meant'[s] = to
      BY <1>2, <1>3, <2>2
    <3>2. Jump(s, to)' = Jump(s, to) /\ to \in Reached'
      BY <1>2, MachineStays
    <3>3. \A k \in DOMAIN Jump(s, to) : Bytes(s)'[k] = Jump(s, to)[k]
      BY <1>4, <1>5, <1>9
    <3>4. QED
      BY <2>2, <3>1, <3>2, <3>3 DEF Guiding, Stands
  <2>3. QED
    BY <2>1, <2>2
<1>11. Led'
  <2>1. ASSUME NEW t \in DOMAIN kept' \ DOMAIN passing' PROVE Guiding(Bytes(t), t, meant[t])'
    <3>1. CASE t = s
      BY <1>10, <3>1
    <3>2. CASE t # s
      <4>1. t \in Homes /\ Bytes(t)' = Bytes(t) /\ meant'[t] = meant[t] /\ t \in DOMAIN kept \ DOMAIN passing
        BY <1>2, <1>3, <1>6, <2>1, <3>2
      <4>2. QED
        BY <1>2, <4>1, OthersLed
    <3>3. QED
      BY <3>1, <3>2
  <2>2. ASSUME NEW t \in DOMAIN passing' PROVE Bytes(t)' = Original(t)' /\ Guiding(passing[t], t, meant[t])'
    <3>1. t \in Homes /\ t # s /\ t \in DOMAIN passing
      BY <1>2, <1>3, <2>2
    <3>2. Bytes(t)' = Bytes(t) /\ meant'[t] = meant[t] /\ passing'[t] = passing[t] /\ Original(t)' = Original(t)
      BY <1>2, <1>3, <1>6, <3>1, MachineStays
    <3>3. QED
      BY <1>2, <1>3, <3>1, <3>2, OthersLed
  <2>3. QED
    BY <2>1, <2>2 DEF Led
<1>12. Permitted'
  <2>1. \A t : Area(t)' = Area(t)
    BY <1>2, MachineStays
  <2>2. QED
    BY <1>2, <1>5, <2>1 DEF CodeInv, Permitted
<1>13. QED
  BY <1>5, <1>7, <1>8, <1>11, <1>12 DEF CodeInv

(* The jump is put by and the original bytes written.                      *)
LEMMA PassKeeps ==
  ASSUME CodeLayout, CodeInv, NEW a \in Entries, Pass(a)
  PROVE  CodeInv'
<1>1. PICK s \in Homes : s = Follow(a)
  BY FollowHome
<1>2. /\ s \in DOMAIN kept \ DOMAIN passing /\ Overwrite(s, kept[s])
      /\ passing' = Plus(passing, s, Bytes(s))
      /\ machine' = machine /\ kept' = kept /\ meant' = meant
  BY <1>1 DEF Pass
<1>3. /\ machine \in Machine /\ DOMAIN kept \subseteq Homes /\ DOMAIN passing \subseteq DOMAIN kept
      /\ kept[s] = Original(s)
  BY <1>2 DEF CodeInv, InMemory, Sources
<1>4. DOMAIN kept[s] = 1..Size /\ \A k \in 1..Size : kept[s][k] = Compiled[s + k - 1]
  BY <1>3 DEF Original
<1>5. /\ InMemory'
      /\ \A k \in 1..Size : code'[s + k - 1] = kept[s][k]
      /\ \A x \in Memory : x \notin Area(s) => code'[x] = code[x]
      /\ fault' = FALSE /\ \A p \in Pages : "x" \in mode'[p]
      /\ ~machine.apple => mode' = mode
  <2>1. DOMAIN kept[s] \subseteq 1..Size /\ s \in DOMAIN kept
    BY <1>2, <1>3, <1>4
  <2> DEFINE b == kept[s]
  <2>2. DOMAIN b \subseteq 1..Size /\ Overwrite(s, b) /\ DOMAIN b = 1..Size /\ machine' = machine /\ s \in DOMAIN kept
    BY <1>2, <1>4, <2>1
  <2> HIDE DEF b
  <2>3. /\ InMemory'
        /\ \A k \in DOMAIN b : code'[s + k - 1] = b[k]
        /\ \A x \in Memory : x \notin Area(s) => code'[x] = code[x]
        /\ fault' = FALSE /\ \A p \in Pages : "x" \in mode'[p]
        /\ ~machine.apple => mode' = mode
    BY <2>2, OverwriteFacts
  <2>4. QED
    BY <2>2, <2>3 DEF b
<1>6. \A t \in Homes : t # s => Bytes(t)' = Bytes(t)
  BY <1>3, <1>2, <1>5, OthersStay
<1>7. /\ DOMAIN passing' = DOMAIN passing \cup {s} /\ passing'[s] = Bytes(s)
      /\ \A t \in DOMAIN passing : passing'[t] = passing[t]
      /\ passing' = [t \in DOMAIN passing' |-> passing'[t]]
  BY <1>2 DEF Plus
<1>8. Sources'
  <2>1. kept = [t \in DOMAIN kept |-> Original(t)'] /\ Homes' = Homes /\ Size' = Size
    BY <1>2, MachineStays DEF CodeInv, Sources
  <2>2. \A t \in DOMAIN passing' : passing'[t] = [k \in 1..Size |-> passing'[t][k]]
    BY <1>7 DEF CodeInv, Sources, Bytes
  <2>3. QED
    BY <1>2, <1>3, <1>7, <2>1, <2>2 DEF CodeInv, Sources
<1>9. Untouched'
  <2>1. Compiled' = Compiled /\ \A t : Area(t)' = Area(t)
    BY <1>2, MachineStays
  <2>2. QED
    BY <1>2, <1>5, <2>1 DEF CodeInv, Untouched
<1>10. Bytes(s)' = Original(s)' /\ Guiding(passing[s], s, meant[s])'
  <2>1. Size' = Size /\ Compiled' = Compiled
    BY <1>2, MachineStays
  <2>2. Bytes(s)' = Original(s)'
    BY <1>4, <1>5, <2>1 DEF Bytes, Original
  <2>3. Guiding(Bytes(s), s, meant[s])
    BY <1>2 DEF CodeInv, Led
  <2>4. CASE meant[s] = s /\ Bytes(s) = Original(s)
    BY <1>2, <1>7, <2>2, <2>4, MachineStays DEF Guiding
  <2>5. CASE \E there \in Reached : meant[s] = there /\ Stands(Bytes(s), s, there)
    <3>1. PICK there \in Reached : meant[s] = there /\ Stands(Bytes(s), s, there)
      BY <2>5
    <3>2. there \in Reached' /\ Jump(s, there)' = Jump(s, there)
      BY <1>2, MachineStays
    <3>3. Stands(passing[s], s, there)'
      BY <1>7, <3>1, <3>2 DEF Stands
    <3>4. QED
      BY <1>2, <2>2, <3>1, <3>2, <3>3 DEF Guiding
  <2>6. QED
    BY <2>3, <2>4, <2>5 DEF Guiding
<1>11. Led'
  <2>1. ASSUME NEW t \in DOMAIN kept', t # s
        PROVE  /\ t \notin DOMAIN passing' => Guiding(Bytes(t), t, meant[t])'
               /\ t \in DOMAIN passing' => Bytes(t)' = Original(t)' /\ Guiding(passing[t], t, meant[t])'
    BY <1>2, <1>3, <1>6, <1>7, <2>1, OthersLed
  <2>2. s \in DOMAIN passing' /\ DOMAIN passing' \subseteq DOMAIN kept'
    BY <1>2, <1>3, <1>7
  <2>3. QED
    BY <1>10, <2>1, <2>2 DEF Led
<1>12. Permitted'
  <2>1. \A t : Area(t)' = Area(t)
    BY <1>2, MachineStays
  <2>2. QED
    BY <1>2, <1>5, <2>1 DEF CodeInv, Permitted
<1>13. QED
  BY <1>5, <1>8, <1>9, <1>11, <1>12 DEF CodeInv

(* What was put by is written again.                                       *)
LEMMA ReturnKeeps ==
  ASSUME CodeLayout, CodeInv, NEW a \in Entries, Return(a)
  PROVE  CodeInv'
<1>1. PICK s \in Homes : s = Follow(a)
  BY FollowHome
<1>2. /\ s \in DOMAIN passing /\ Overwrite(s, passing[s])
      /\ passing' = Restrict(passing, DOMAIN passing \ {s})
      /\ machine' = machine /\ kept' = kept /\ meant' = meant
  BY <1>1 DEF Return
<1>3. /\ machine \in Machine /\ DOMAIN kept \subseteq Homes /\ DOMAIN passing \subseteq DOMAIN kept
      /\ s \in DOMAIN kept /\ passing[s] = [k \in 1..Size |-> passing[s][k]]
  BY <1>2 DEF CodeInv, InMemory, Sources
<1>4. DOMAIN passing[s] = 1..Size
  BY <1>3
<1>5. /\ InMemory'
      /\ \A k \in 1..Size : code'[s + k - 1] = passing[s][k]
      /\ \A x \in Memory : x \notin Area(s) => code'[x] = code[x]
      /\ fault' = FALSE /\ \A p \in Pages : "x" \in mode'[p]
      /\ ~machine.apple => mode' = mode
  <2>1. DOMAIN passing[s] \subseteq 1..Size /\ s \in DOMAIN kept
    BY <1>2, <1>3, <1>4
  <2> DEFINE b == passing[s]
  <2>2. DOMAIN b \subseteq 1..Size /\ Overwrite(s, b) /\ DOMAIN b = 1..Size /\ machine' = machine /\ s \in DOMAIN kept
    BY <1>2, <1>4, <2>1
  <2> HIDE DEF b
  <2>3. /\ InMemory'
        /\ \A k \in DOMAIN b : code'[s + k - 1] = b[k]
        /\ \A x \in Memory : x \notin Area(s) => code'[x] = code[x]
        /\ fault' = FALSE /\ \A p \in Pages : "x" \in mode'[p]
        /\ ~machine.apple => mode' = mode
    BY <2>2, OverwriteFacts
  <2>4. QED
    BY <2>2, <2>3 DEF b
<1>6. \A t \in Homes : t # s => Bytes(t)' = Bytes(t)
  BY <1>3, <1>2, <1>5, OthersStay
<1>7. /\ DOMAIN passing' = DOMAIN passing \ {s}
      /\ \A t \in DOMAIN passing' : passing'[t] = passing[t]
      /\ passing' = [t \in DOMAIN passing' |-> passing'[t]]
  BY <1>2 DEF Restrict
<1>8. Sources'
  <2>1. kept = [t \in DOMAIN kept |-> Original(t)'] /\ Homes' = Homes /\ Size' = Size
    BY <1>2, MachineStays DEF CodeInv, Sources
  <2>2. \A t \in DOMAIN passing' : passing'[t] = [k \in 1..Size |-> passing'[t][k]]
    BY <1>7 DEF CodeInv, Sources
  <2>3. meant' = [t \in DOMAIN kept' |-> meant'[t]] /\ DOMAIN passing' \subseteq DOMAIN kept' /\ DOMAIN kept' \subseteq Homes
    BY <1>2, <1>3, <1>7 DEF CodeInv, Sources
  <2>4. QED
    BY <1>2, <1>7, <2>1, <2>2, <2>3 DEF Sources
<1>9. Untouched'
  <2>1. Compiled' = Compiled /\ \A t : Area(t)' = Area(t)
    BY <1>2, MachineStays
  <2>2. QED
    BY <1>2, <1>5, <2>1, <1>3 DEF CodeInv, Untouched
<1>10. Guiding(Bytes(s), s, meant[s])'
  <2>1. Size' = Size
    BY <1>2, MachineStays
  <2>2. Bytes(s)' = passing[s]
    BY <1>3, <1>5, <2>1 DEF Bytes
  <2>3. Guiding(passing[s], s, meant[s])
    BY <1>2 DEF CodeInv, Led
  <2>4. CASE meant[s] = s /\ passing[s] = Original(s)
    BY <1>2, <2>2, <2>4, MachineStays DEF Guiding
  <2>5. CASE \E there \in Reached : meant[s] = there /\ Stands(passing[s], s, there)
    <3>1. PICK there \in Reached : meant[s] = there /\ Stands(passing[s], s, there)
      BY <2>5
    <3>2. there \in Reached' /\ Jump(s, there)' = Jump(s, there)
      BY <1>2, MachineStays
    <3>3. Stands(Bytes(s), s, there)'
      BY <2>2, <3>1, <3>2 DEF Stands
    <3>4. QED
      BY <1>2, <2>2, <3>1, <3>2, <3>3 DEF Guiding
  <2>6. QED
    BY <2>3, <2>4, <2>5 DEF Guiding
<1>11. Led'
  <2>1. ASSUME NEW t \in DOMAIN kept', t # s
        PROVE  /\ t \notin DOMAIN passing' => Guiding(Bytes(t), t, meant[t])'
               /\ t \in DOMAIN passing' => Bytes(t)' = Original(t)' /\ Guiding(passing[t], t, meant[t])'
    BY <1>2, <1>3, <1>6, <1>7, <2>1, OthersLed
  <2>2. s \notin DOMAIN passing' /\ DOMAIN passing' \subseteq DOMAIN kept'
    BY <1>2, <1>3, <1>7
  <2>3. QED
    BY <1>10, <2>1, <2>2 DEF Led
<1>12. Permitted'
  <2>1. \A t : Area(t)' = Area(t)
    BY <1>2, MachineStays
  <2>2. QED
    BY <1>2, <1>5, <2>1 DEF CodeInv, Permitted
<1>13. QED
  BY <1>5, <1>8, <1>9, <1>11, <1>12 DEF CodeInv

(* The original bytes are written, and the source is gone.                 *)
LEMMA DeleteKeeps ==
  ASSUME CodeLayout, CodeInv, NEW a \in Entries, Delete(a)
  PROVE  CodeInv'
<1>1. PICK s \in Homes : s = Follow(a)
  BY FollowHome
<1>2. /\ s \in DOMAIN kept \ DOMAIN passing /\ Overwrite(s, kept[s])
      /\ kept' = Restrict(kept, DOMAIN kept \ {s}) /\ meant' = Restrict(meant, DOMAIN kept \ {s})
      /\ machine' = machine /\ passing' = passing
  BY <1>1 DEF Delete
<1>3. /\ machine \in Machine /\ DOMAIN kept \subseteq Homes /\ DOMAIN passing \subseteq DOMAIN kept
      /\ DOMAIN meant = DOMAIN kept /\ kept[s] = Original(s)
  BY <1>2 DEF CodeInv, InMemory, Sources
<1>4. DOMAIN kept[s] = 1..Size /\ \A k \in 1..Size : kept[s][k] = Compiled[s + k - 1]
  BY <1>3 DEF Original
<1>5. /\ InMemory'
      /\ \A k \in 1..Size : code'[s + k - 1] = kept[s][k]
      /\ \A x \in Memory : x \notin Area(s) => code'[x] = code[x]
      /\ fault' = FALSE /\ \A p \in Pages : "x" \in mode'[p]
      /\ ~machine.apple => mode' = mode
  <2>1. DOMAIN kept[s] \subseteq 1..Size /\ s \in DOMAIN kept
    BY <1>2, <1>3, <1>4
  <2> DEFINE b == kept[s]
  <2>2. DOMAIN b \subseteq 1..Size /\ Overwrite(s, b) /\ DOMAIN b = 1..Size /\ machine' = machine /\ s \in DOMAIN kept
    BY <1>2, <1>4, <2>1
  <2> HIDE DEF b
  <2>3. /\ InMemory'
        /\ \A k \in DOMAIN b : code'[s + k - 1] = b[k]
        /\ \A x \in Memory : x \notin Area(s) => code'[x] = code[x]
        /\ fault' = FALSE /\ \A p \in Pages : "x" \in mode'[p]
        /\ ~machine.apple => mode' = mode
    BY <2>2, OverwriteFacts
  <2>4. QED
    BY <2>2, <2>3 DEF b
<1>6. \A t \in Homes : t # s => Bytes(t)' = Bytes(t)
  BY <1>3, <1>2, <1>5, OthersStay
<1>7. /\ DOMAIN kept' = DOMAIN kept \ {s} /\ DOMAIN meant' = DOMAIN kept'
      /\ \A t \in DOMAIN kept' : kept'[t] = kept[t] /\ meant'[t] = meant[t]
      /\ kept' = [t \in DOMAIN kept' |-> kept'[t]] /\ meant' = [t \in DOMAIN kept' |-> meant'[t]]
  BY <1>2, <1>3 DEF Restrict
<1>8. Sources'
  <2>1. \A t \in DOMAIN kept : kept[t] = Original(t)'
    BY <1>2, MachineStays DEF CodeInv, Sources
  <2>2. Homes' = Homes /\ Size' = Size
    BY <1>2, MachineStays
  <2>3. kept' = [t \in DOMAIN kept' |-> Original(t)']
    BY <1>7, <2>1
  <2>4. \A t \in DOMAIN passing' : passing'[t] = [k \in 1..Size |-> passing'[t][k]]
    BY <1>2 DEF CodeInv, Sources
  <2>5. /\ DOMAIN passing' \subseteq DOMAIN kept' /\ DOMAIN kept' \subseteq Homes
        /\ passing' = [t \in DOMAIN passing' |-> passing'[t]]
    <3>1. passing = [t \in DOMAIN passing |-> passing[t]]
      BY DEF CodeInv, Sources
    <3>2. \A t \in DOMAIN passing : t \in DOMAIN kept /\ t # s
      BY <1>2, <1>3
    <3>3. QED
      BY <1>2, <1>3, <1>7, <3>1, <3>2
  <2>6. QED
    BY <1>7, <2>2, <2>3, <2>4, <2>5 DEF Sources
<1>9. Untouched'
  <2>1. Compiled' = Compiled /\ \A t : Area(t)' = Area(t)
    BY <1>2, MachineStays
  <2> SUFFICES ASSUME NEW x \in Memory, \A t \in DOMAIN kept' : x \notin Area(t) PROVE code'[x] = Compiled[x]
    BY <2>1 DEF Untouched
  <2>2. CASE x \in Area(s)
    <3>1. s \in Nat /\ Size \in Nat /\ Area(s) = s .. s + Size - 1
      BY <1>3, HomeFacts
    <3>2. x - s + 1 \in 1..Size /\ s + (x - s + 1) - 1 = x
      BY <2>2, <3>1
    <3>3. QED
      BY <1>4, <1>5, <3>2
  <2>3. CASE x \notin Area(s)
    BY <1>5, <1>7, <2>3 DEF CodeInv, Untouched
  <2>4. QED
    BY <2>2, <2>3
<1>11. Led'
  <2>1. ASSUME NEW t \in DOMAIN kept'
        PROVE  /\ t \notin DOMAIN passing' => Guiding(Bytes(t), t, meant[t])'
               /\ t \in DOMAIN passing' => Bytes(t)' = Original(t)' /\ Guiding(passing[t], t, meant[t])'
    <3>1. t \in DOMAIN kept /\ t \in Homes /\ t # s
      BY <1>3, <1>7
    <3>2. QED
      BY <1>2, <1>6, <1>7, <3>1, OthersLed
  <2>2. DOMAIN passing' \subseteq DOMAIN kept'
    BY <1>2, <1>3, <1>7
  <2>3. QED
    BY <2>1, <2>2 DEF Led
<1>12. Permitted'
  <2>1. \A t : Area(t)' = Area(t)
    BY <1>2, MachineStays
  <2>2. QED
    BY <1>2, <1>5, <1>7, <2>1 DEF CodeInv, Permitted
<1>13. QED
  BY <1>5, <1>8, <1>9, <1>11, <1>12 DEF CodeInv

(* The bytes that are there are those of the function.                     *)
LEMMA CreateKeeps ==
  ASSUME CodeLayout, CodeInv, NEW a \in Entries, Create(a)
  PROVE  CodeInv'
<1>1. PICK s \in Homes : s = Follow(a)
  BY FollowHome
<1>2. /\ s \notin DOMAIN kept /\ kept' = Plus(kept, s, Bytes(s)) /\ meant' = Plus(meant, s, s)
      /\ mode' = SavedMode(s)
      /\ machine' = machine /\ code' = code /\ passing' = passing /\ fault' = fault
  BY <1>1 DEF Create
<1>3. /\ machine \in Machine /\ DOMAIN kept \subseteq Homes /\ DOMAIN passing \subseteq DOMAIN kept
      /\ DOMAIN meant = DOMAIN kept /\ Bytes(s) = Original(s)
      /\ mode \in [Pages -> SUBSET {"r", "w", "x"}]
  BY <1>2, UnpatchedStands DEF CodeInv, InMemory, Sources
<1>4. /\ DOMAIN kept' = DOMAIN kept \cup {s} /\ DOMAIN meant' = DOMAIN kept'
      /\ kept'[s] = Original(s) /\ meant'[s] = s
      /\ \A t \in DOMAIN kept : kept'[t] = kept[t] /\ meant'[t] = meant[t]
      /\ kept' = [t \in DOMAIN kept' |-> kept'[t]] /\ meant' = [t \in DOMAIN kept' |-> meant'[t]]
  <2>1. /\ DOMAIN kept' = DOMAIN kept \cup {s} /\ kept'[s] = Bytes(s) /\ \A t \in DOMAIN kept : kept'[t] = kept[t]
        /\ kept' = [t \in DOMAIN kept' |-> kept'[t]]
    BY <1>2 DEF Plus
  <2>2. /\ DOMAIN meant' = DOMAIN kept \cup {s} /\ meant'[s] = s /\ \A t \in DOMAIN kept : meant'[t] = meant[t]
        /\ meant' = [t \in DOMAIN meant' |-> meant'[t]]
    BY <1>2, <1>3 DEF Plus
  <2>3. QED
    BY <1>3, <2>1, <2>2
<1>5. \A t \in Homes : Bytes(t)' = Bytes(t)
  BY <1>2, MachineStays DEF Bytes
<1>6. /\ Writable \in SUBSET {"r", "w", "x"} /\ Executable \in SUBSET {"r", "w", "x"} /\ "x" \in Executable
      /\ "w" \in Writable /\ (~machine.apple => "x" \in Writable)
  BY DEF Writable, Executable
<1>7. /\ mode' \in [Pages -> SUBSET {"r", "w", "x"}]
      /\ \A p \in Pages : mode'[p] = IF p \in PagesOf(s) THEN IF machine.apple THEN Executable ELSE Writable ELSE mode[p]
  <2>1. CASE machine.apple
    BY <1>2, <1>3, <1>6, <2>1, PermitFacts DEF SavedMode
  <2>2. CASE ~machine.apple
    BY <1>2, <1>3, <1>6, <2>2, PermitFacts DEF SavedMode
  <2>3. QED
    BY <2>1, <2>2
<1>8. InMemory'
  BY <1>2, <1>7 DEF CodeInv, InMemory
<1>9. Sources'
  <2>1. \A t \in DOMAIN kept : kept[t] = Original(t)
    BY DEF CodeInv, Sources
  <2>2. Homes' = Homes /\ Size' = Size /\ \A t : Original(t)' = Original(t)
    BY <1>2, MachineStays
  <2>3. kept' = [t \in DOMAIN kept' |-> Original(t)']
    BY <1>4, <2>1, <2>2
  <2>4. QED
    BY <1>2, <1>3, <1>4, <2>2, <2>3 DEF CodeInv, Sources
<1>10. Untouched'
  <2>1. Compiled' = Compiled /\ \A t : Area(t)' = Area(t)
    BY <1>2, MachineStays
  <2>2. QED
    BY <1>2, <1>4, <2>1 DEF CodeInv, Untouched
<1>11. Led'
  <2>1. ASSUME NEW t \in DOMAIN kept
        PROVE  /\ t \notin DOMAIN passing' => Guiding(Bytes(t), t, meant[t])'
               /\ t \in DOMAIN passing' => Bytes(t)' = Original(t)' /\ Guiding(passing[t], t, meant[t])'
    BY <1>2, <1>3, <1>4, <1>5, OthersLed
  <2>2. s \notin DOMAIN passing' /\ DOMAIN passing' \subseteq DOMAIN kept
    BY <1>2, <1>3
  <2>3. Guiding(Bytes(s), s, meant[s])'
    BY <1>2, <1>3, <1>4, <1>5, MachineStays DEF Guiding
  <2>4. QED
    BY <1>4, <2>1, <2>2, <2>3 DEF Led
<1>12. Permitted'
  <2>1. \A t : Area(t)' = Area(t)
    BY <1>2, MachineStays
  <2>2. fault' = FALSE /\ \A p \in Pages : "x" \in mode'[p]
    BY <1>2, <1>6, <1>7 DEF CodeInv, Permitted
  <2>3. ASSUME ~machine.apple, NEW t \in DOMAIN kept', NEW x \in Area(t) PROVE "w" \in mode'[x \div PageSize]
    <3>1. t \in Homes
      BY <1>3, <1>4
    <3>2. x \div PageSize \in Pages \cap PagesOf(t)
      BY <1>3, <3>1, PagesCover
    <3>3. CASE t = s
      BY <1>6, <1>7, <2>3, <3>2, <3>3
    <3>4. CASE t # s
      <4>1. "w" \in mode[x \div PageSize]
        BY <1>4, <2>3, <3>4 DEF CodeInv, Permitted
      <4>2. QED
        BY <1>6, <1>7, <2>3, <3>2, <4>1
    <3>5. QED
      BY <3>3, <3>4
  <2>4. QED
    BY <1>2, <2>1, <2>2, <2>3 DEF Permitted
<1>13. QED
  BY <1>8, <1>9, <1>10, <1>11, <1>12 DEF CodeInv

(* Nothing is patched at the start.                                        *)
LEMMA CodeInitHolds ==
  ASSUME CodeLayout, CodeInit
  PROVE  CodeInv
<1>1. machine \in Machine /\ code = Compiled /\ mode = [p \in Pages |-> Executable]
      /\ kept = <<>> /\ passing = <<>> /\ meant = <<>> /\ fault = FALSE
  BY DEF CodeInit
<1>2. DOMAIN kept = {} /\ DOMAIN passing = {} /\ DOMAIN meant = {}
  BY <1>1
<1>3. DOMAIN Compiled = Memory
  BY <1>1, CompiledIs
<1>4. Sources
  <2>1. kept = [s \in DOMAIN kept |-> Original(s)] /\ meant = [s \in DOMAIN kept |-> meant[s]]
        /\ passing = [s \in DOMAIN passing |-> passing[s]]
    BY <1>1, <1>2
  <2>2. QED
    BY <1>2, <2>1 DEF Sources
<1>5. QED
  BY <1>1, <1>2, <1>3, <1>4 DEF CodeInv, InMemory, Untouched, Led, Permitted, Executable

(* The invariant holds: of what is patched, the bytes in place or put by   *)
(* lead where they are meant to, the rest is what was compiled, and the    *)
(* pages permit what is done to them (h2_e9.cpp, h2_source.cpp).           *)
THEOREM CodeInvHolds == CodeSpec => []CodeInv
<1> USE CodeLayout
<1>1. CodeInit => CodeInv
  BY CodeInitHolds
<1>2. CodeInv /\ [CodeNext]_codeVars => CodeInv'
  <2> SUFFICES ASSUME CodeInv, [CodeNext]_codeVars PROVE CodeInv'
    OBVIOUS
  <2>1. CASE UNCHANGED codeVars
    <3>1. /\ machine' = machine /\ code' = code /\ mode' = mode /\ kept' = kept /\ passing' = passing /\ meant' = meant
          /\ fault' = fault
      BY <2>1 DEF codeVars
    <3>2. /\ Size' = Size /\ Compiled' = Compiled /\ Homes' = Homes
          /\ \A s : Area(s)' = Area(s) /\ Original(s)' = Original(s)
      BY <3>1, MachineStays
    <3>3. \A s : Bytes(s)' = Bytes(s)
      BY <3>1, <3>2 DEF Bytes
    <3>4. InMemory' /\ Sources' /\ Untouched' /\ Permitted'
      BY <3>1, <3>2 DEF CodeInv, InMemory, Sources, Untouched, Permitted
    <3>5. Led'
      <4>1. ASSUME NEW t \in DOMAIN kept
            PROVE  /\ t \notin DOMAIN passing' => Guiding(Bytes(t), t, meant[t])'
                   /\ t \in DOMAIN passing' => Bytes(t)' = Original(t)' /\ Guiding(passing[t], t, meant[t])'
        BY <3>1, <3>3, OthersLed
      <4>2. DOMAIN passing \subseteq DOMAIN kept
        BY DEF CodeInv, Sources
      <4>3. QED
        BY <3>1, <4>1, <4>2 DEF Led
    <3>6. QED
      BY <3>4, <3>5 DEF CodeInv
  <2>2. CASE CodeNext
    <3>1. PICK a \in Entries : Create(a) \/ Pass(a) \/ Return(a) \/ Delete(a) \/ \E to \in Reached : Set(a, to)
      BY <2>2 DEF CodeNext
    <3>2. QED
      BY <3>1, CreateKeeps, PassKeeps, ReturnKeeps, DeleteKeeps, SetKeeps
  <2>3. QED
    BY <2>1, <2>2
<1>3. QED
  BY <1>1, <1>2, PTL DEF CodeSpec

(* A function leads where it was last set to while it is patched and to    *)
(* its own body otherwise, however it is called; one function is one       *)
(* source; no byte beside a patch changes; no page is written without      *)
(* permission or left unexecutable: on every machine, for every layout of  *)
(* the code that CodeLayout admits (h2_e9.cpp, h2_source.cpp, h2_cxa.cpp). *)
THEOREM PatchesLeadAlways == CodeSpec => []PatchesLead
<1> USE CodeLayout
<1>1. CodeInv => PatchesLead
  BY PatchesFollow
<1>2. QED
  BY <1>1, CodeInvHolds, PTL
=============================================================================
