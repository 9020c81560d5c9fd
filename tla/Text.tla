-------------------------------- MODULE Text --------------------------------
(***************************************************************************)
(* The algorithms of src/source/utils on texts and lists: the edit         *)
(* distance, the common subsequence a difference is coloured by, wildcard  *)
(* patterns, the rings h2unit keeps its objects in and their sort, bytes   *)
(* written in hex or binary digits, and the grouping of leaks.  A text is  *)
(* a sequence of characters.                                               *)
(***************************************************************************)
EXTENDS Integers, FiniteSets, SequencesExt

(* Mutant of NextColumn: a deletion is not considered. *)
NextColumnInserts(prevCol, ch, s2) ==
  FoldLeftDomain(LAMBDA col, j :
                   LET change == prevCol[j] + (IF s2[j] = ch THEN 0 ELSE 1)
                   IN Append(col, IF change < 1 + col[j] THEN change ELSE 1 + col[j]),
                 <<prevCol[1] + 1>>, s2)

(* One row of the table of h2_similarity::levenshtein from the row before. *)
NextColumn(prevCol, ch, s2) ==
  FoldLeftDomain(LAMBDA col, j :
                   LET change == prevCol[j] + (IF s2[j] = ch THEN 0 ELSE 1)
                       insert == IF col[j] < prevCol[j + 1] THEN 1 + col[j] ELSE 1 + prevCol[j + 1]
                   IN Append(col, IF change < insert THEN change ELSE insert),
                 <<prevCol[1] + 1>>, s2)

Levenshtein(s1, s2) ==
  Last(FoldLeft(LAMBDA prevCol, ch : NextColumn(prevCol, ch, s2), [j \in 1..Len(s2) + 1 |-> j - 1], s1))

---------------------------------------------------------------------------
(* The lengths of h2_LCS::LCS_cacluate. *)
Lengths(s1, s2) ==
  LET c[i \in 0..Len(s1), j \in 0..Len(s2)] ==
        IF i = 0 \/ j = 0 THEN 0
        ELSE IF s1[i] = s2[j] THEN c[i - 1, j - 1] + 1
        ELSE IF c[i - 1, j] > c[i, j - 1] THEN c[i - 1, j] ELSE c[i, j - 1]
  IN c

(* Mutant of Step: upwards whatever the lengths. *)
StepUp(s1, s2, c, i, j) == IF s1[i] = s2[j] THEN "upper left" ELSE "upper"

(* Where LCS_traceback goes from (i, j): straight on where nothing is lost. *)
Step(s1, s2, c, i, j) ==
  IF s1[i] = s2[j] \/ (c[i - 1, j - 1] >= c[i - 1, j] /\ c[i - 1, j - 1] >= c[i, j - 1]) THEN "upper left"
  ELSE IF c[i - 1, j] > c[i, j - 1] THEN "upper" ELSE "left"

(* The marked pairs of places, backwards. *)
RECURSIVE Traceback(_, _, _, _, _)
Traceback(s1, s2, c, i, j) ==
  IF i = 0 \/ j = 0 THEN <<>>
  ELSE LET d == Step(s1, s2, c, i, j) IN
       (IF d = "upper left" /\ s1[i] = s2[j] THEN << <<i, j>> >> ELSE <<>>)
         \o Traceback(s1, s2, c, IF d = "left" THEN i ELSE i - 1, IF d = "upper" THEN j ELSE j - 1)

Lcs(s1, s2) == Reverse(Traceback(s1, s2, Lengths(s1, s2), Len(s1), Len(s2)))

---------------------------------------------------------------------------
(* h2_pattern::wildcard_match of Windows and Cygwin: scur and pcur walk,   *)
(* a mismatch goes back to the last star, which then takes one more.       *)
At(s, i) == IF i <= Len(s) THEN s[i] ELSE "end"
WildcardEnds(pattern, pcur) == \A i \in pcur..Len(pattern) : pattern[i] = "*"

(* Mutant of Again: the star takes no more than it had. *)
AgainNever(pstar, sstar) == 0

(* Where the star begins to take once more after a mismatch, 0 for none.   *)
Again(pstar, sstar) == IF pstar = 0 THEN 0 ELSE sstar + 1

RECURSIVE Wildcard(_, _, _, _, _, _)
Wildcard(pattern, subject, pcur, scur, pstar, sstar) ==
  CASE scur > Len(subject) -> WildcardEnds(pattern, pcur)
    [] At(pattern, pcur) = "?" -> Wildcard(pattern, subject, pcur + 1, scur + 1, pstar, sstar)
    [] At(pattern, pcur) = "*" -> Wildcard(pattern, subject, pcur + 1, scur, pcur, scur)
    [] At(pattern, pcur) = subject[scur] -> Wildcard(pattern, subject, pcur + 1, scur + 1, pstar, sstar)
    [] OTHER -> LET again == Again(pstar, sstar) IN
         again # 0 /\ Wildcard(pattern, subject, pstar + 1, again, pstar, again)

(* h2_test::tagged: by the same letters or, with a mark of a pattern in    *)
(* it, as a pattern.                                                       *)
Lowercase(s) == [i \in DOMAIN s |-> IF s[i] = "A" THEN "a" ELSE s[i]]
TaggedAs(tags, pattern) ==
  \E tag \in Range(tags) :
    \/ Lowercase(tag) = Lowercase(pattern)
    \/ {"?", "*", "[", "]"} \cap Range(pattern) # {} /\ Wildcard(Lowercase(pattern), Lowercase(tag), 1, 1, 0, 0)

---------------------------------------------------------------------------
(* Mutant of Greater: in front of an equal one. *)
GreaterOrEqual(a, b) == a.key >= b.key

(* h2_list::sort: each element in front of the first that is greater.      *)
Greater(a, b) == a.key > b.key

InFrontOfGreater(sorted, p) ==
  LET behind == {i \in DOMAIN sorted : Greater(sorted[i], p)}
      q == IF behind = {} THEN Len(sorted) + 1 ELSE CHOOSE i \in behind : \A j \in behind : i <= j
  IN InsertAt(sorted, q, p)
ListSort(list) == FoldLeft(InFrontOfGreater, <<>>, list)

---------------------------------------------------------------------------
(* h2_list: a ring of entries that point to the next and the previous one, *)
(* one of them the list itself.                                            *)
Ring(entries) == [next |-> [e \in entries |-> e], prev |-> [e \in entries |-> e]]
AddBetween(ring, entry, prev, next) ==
  [next |-> [ring.next EXCEPT ![entry] = next, ![prev] = entry], prev |-> [ring.prev EXCEPT ![next] = entry, ![entry] = prev]]
AddHead(ring, list, entry) == AddBetween(ring, entry, list, ring.next[list])
AddTail(ring, list, entry) == AddBetween(ring, entry, ring.prev[list], list)
AddBefore(ring, at, entry) == AddTail(ring, at, entry)
AddAfter(ring, at, entry) == AddHead(ring, at, entry)

OutStill(ring, entry) ==                            \* mutant: what is out still points to its neighbours
  [next |-> [ring.next EXCEPT ![ring.prev[entry]] = ring.next[entry]], prev |-> [ring.prev EXCEPT ![ring.next[entry]] = ring.prev[entry]]]
Out(ring, entry) ==
  [next |-> [ring.next EXCEPT ![ring.prev[entry]] = ring.next[entry], ![entry] = entry],
   prev |-> [ring.prev EXCEPT ![ring.next[entry]] = ring.prev[entry], ![entry] = entry]]
Pop(ring, list) == Out(ring, ring.next[list])
PopBack(ring, list) == Out(ring, ring.prev[list])

Empty(ring, list) == ring.next[list] = list
IsFirst(ring, list, entry) == ring.next[list] = entry
IsLast(ring, list, entry) == ring.prev[list] = entry
(* count goes along next until it is back; more steps than there are       *)
(* entries are left out, they would never end.                             *)
Count(ring, list) ==
  FoldLeft(LAMBDA walk, n : IF walk.at = list THEN walk ELSE [at |-> ring.next[walk.at], count |-> walk.count + 1],
           [at |-> ring.next[list], count |-> 0], [n \in 1..2 * Cardinality(DOMAIN ring.next) |-> n]).count

(* h2_list_for_each_entry: the entry behind the current one is known       *)
(* before the body runs, which takes out `removed` of it.                  *)
VisitedLive(walk, step, removed) ==                 \* mutant: the next entry is asked of the current one
  LET ring == FoldLeft(Out, walk.ring, removed[walk.p])
  IN [ring |-> ring, seen |-> Append(walk.seen, walk.p), p |-> ring[step][walk.p], t |-> ring[step][walk.t]]
Visited(walk, step, removed) ==
  LET ring == FoldLeft(Out, walk.ring, removed[walk.p])
  IN [ring |-> ring, seen |-> Append(walk.seen, walk.p), p |-> walk.t, t |-> ring[step][walk.t]]
ForEach(ring, list, step, removed) ==
  FoldLeft(LAMBDA walk, n : IF walk.p = list THEN walk ELSE Visited(walk, step, removed),
           [ring |-> ring, seen |-> <<>>, p |-> ring[step][list], t |-> ring[step][ring[step][list]]],
           [n \in 1..2 * Cardinality(DOMAIN removed) |-> n])

---------------------------------------------------------------------------
(* hex2bytes: an odd number of digits has a 0 in front; anything but a     *)
(* digit ends it.  A digit is its number, another character is -1.         *)
Leading(s, digits) ==
  LET ends == {i \in DOMAIN s : s[i] \notin digits} IN
  IF ends = {} THEN s ELSE SubSeq(s, 1, (CHOOSE i \in ends : \A j \in ends : i <= j) - 1)

(* Mutant of HexToBytes: the half byte is the last one. *)
HexToBytesPadded(hex) ==
  LET digits == Leading(hex, 0..15)
      even == IF Len(digits) % 2 = 0 THEN digits ELSE Append(digits, 0)
  IN [i \in 1..Len(even) \div 2 |-> 16 * even[2 * i - 1] + even[2 * i]]

HexToBytes(hex) ==
  LET digits == Leading(hex, 0..15)
      even == IF Len(digits) % 2 = 0 THEN digits ELSE <<0>> \o digits
  IN [i \in 1..Len(even) \div 2 |-> 16 * even[2 * i - 1] + even[2 * i]]

(* Mutant of Bit: from the lowest bit on. *)
BitLow(bytes, n) == (bytes[n \div 8 + 1] \div 2 ^ (n % 8)) % 2

(* h2_memcmp_util::bits_equal, from the highest bit of the first byte on. *)
Bit(bytes, n) == (bytes[n \div 8 + 1] \div (2 ^ (7 - (n % 8)))) % 2

BitsEqual(b1, b2, nbits) == \A n \in 0..nbits - 1 : Bit(b1, n) = Bit(b2, n)

---------------------------------------------------------------------------
(* Mutant of AddSize: a size that is there is not counted again. *)
AddSizeOnce(sizes, size) ==
  IF \E i \in DOMAIN sizes : sizes[i].size = size THEN sizes ELSE Append(sizes, [size |-> size, count |-> 1])

(* h2_leaky: the pieces of one backtrace together, with a count per size.  *)
AddSize(sizes, size) ==
  IF \E i \in DOMAIN sizes : sizes[i].size = size
  THEN [i \in DOMAIN sizes |-> IF sizes[i].size = size THEN [sizes[i] EXCEPT !.count = @ + 1] ELSE sizes[i]]
  ELSE Append(sizes, [size |-> size, count |-> 1])

AddLeak(leaks, piece) ==
  IF \E i \in DOMAIN leaks : leaks[i].bt = piece.bt
  THEN [i \in DOMAIN leaks |-> IF leaks[i].bt = piece.bt
                               THEN [leaks[i] EXCEPT !.sizes = AddSize(@, piece.size)] ELSE leaks[i]]
  ELSE Append(leaks, [bt |-> piece.bt, sizes |-> AddSize(<<>>, piece.size)])
Leaky(pieces) == FoldLeft(AddLeak, <<>>, pieces)
LeakTotal(leak) == FoldLeft(LAMBDA sum, p : sum + p.size * p.count, 0, leak.sizes)
---------------------------------------------------------------------------
(* h2_shared_ptr: each holds an object, with a count the holders of it     *)
(* share, or neither; an object goes with its count.  0 is no object.      *)
Pointers(names) == [px |-> [p \in names |-> 0], pn |-> [p \in names |-> 0], counts |-> <<>>, deleted |-> <<>>]

(* Mutant of Release: the last holder lets it be. *)
ReleaseKeeps(ptrs, p) ==
  [ptrs EXCEPT !.counts = IF ptrs.pn[p] = 0 THEN @ ELSE [@ EXCEPT ![ptrs.pn[p]] = @ - 1], !.px[p] = 0, !.pn[p] = 0]

Release(ptrs, p) ==
  LET n == ptrs.pn[p] last == n # 0 /\ ptrs.counts[n] = 1 IN
  [ptrs EXCEPT !.counts = IF n = 0 THEN @ ELSE [@ EXCEPT ![n] = @ - 1],
               !.deleted = IF last THEN Append(@, ptrs.px[p]) ELSE @, !.px[p] = 0, !.pn[p] = 0]

(* acquire(px, pn): of a new object the count is new and one.              *)
Acquire(ptrs, p, x, n) ==
  CASE x = 0 -> [ptrs EXCEPT !.pn[p] = n, !.px[p] = x]
    [] x # 0 /\ n # 0 -> [ptrs EXCEPT !.pn[p] = n, !.px[p] = x, !.counts[n] = @ + 1]
    [] OTHER -> [ptrs EXCEPT !.pn[p] = Len(ptrs.counts) + 1, !.px[p] = x, !.counts = Append(@, 1)]

(* operator=: the copy is made, the two are exchanged, and what p held     *)
(* goes with the copy.                                                     *)
Exchange(ptrs, p, q) == [ptrs EXCEPT !.px = [@ EXCEPT ![p] = ptrs.px[q], ![q] = ptrs.px[p]], !.pn = [@ EXCEPT ![p] = ptrs.pn[q], ![q] = ptrs.pn[p]]]
Assign(ptrs, p, q, copy) == Release(Exchange(Acquire(ptrs, copy, ptrs.px[q], ptrs.pn[q]), p, copy), copy)
New(ptrs, p, x, copy) == Release(Exchange(Acquire(ptrs, copy, x, 0), p, copy), copy)
Holding(ptrs, p) == ptrs.pn[p] # 0 /\ ptrs.counts[ptrs.pn[p]] > 0
=============================================================================
