---------------------------- MODULE MemoryProofs ----------------------------
(***************************************************************************)
(* Theorems about the memory check (Memory), for any pieces, sizes, blocks *)
(* and bounds: its state keeps its type, in particular a piece never names *)
(* a block that is gone and control is never in a BLOCK that is not on the *)
(* stack; no piece escapes the check in a case without UNMEM; the verdict  *)
(* of a case on its memory is right both ways; and, where no sum of sizes  *)
(* wraps round, the account of a block is what its pieces hold.            *)
(***************************************************************************)
EXTENDS Memory, SequenceTheorems, FiniteSetTheorems, TLAPS

(* The hooks: off in a case only since its own UNMEM, on between cases.    *)
HooksOK ==
  /\ phase = "ready" => hooked
  /\ Running /\ ~hooked => unmem

MemoryIInv == MemoryTypeOK /\ HooksOK /\ UnmemStaysInCase

(* A piece in a block has been freed as often as the program freed it or a *)
(* realloc took it; before it is given nothing is told of it.              *)
ReturnedInv ==
  phase # "dead" =>
    \A p \in Piece :
      /\ piece[p].place = "none" =>
           /\ p \notin returned \cup taken
           /\ \A how \in Wrongs : <<p, how>> \notin wrong
      /\ piece[p].home # 0 =>
           /\ p \in returned => piece[p].free_times > 0
           /\ piece[p].free_times > 0 \/ piece[p].forbidden \in {"all", "writes"}
                => p \in returned \cup taken

(* While the case has not failed, what was done wrong with a piece it      *)
(* answers for is still to be seen at it.                                  *)
Evident(p) ==
  /\ piece[p].home # 0 =>
       /\ piece[p].home >= Len(blocks) - Len(open)
       /\ \/ piece[p].violated
          \/ piece[p].forbidden = IF piece[p].free_times > 0 THEN "all" ELSE "guard"
  /\ \A how \in {"leak", "again", "mismatch"} : <<p, how>> \notin wrong
  /\ <<p, "gap">> \in wrong =>
       piece[p].free_times = 0 /\ (piece[p].home # 0 => piece[p].dirty)
  /\ \A how \in {"guard", "late"} :
       <<p, how>> \in wrong => piece[p].home # 0 /\ piece[p].violated
EvidenceInv == Running /\ ~failed => \A p \in Piece : Watched(p) => Evident(p)

(* Every complaint has a cause. *)
BlameInv ==
  /\ \A p \in Piece : piece[p].dirty \/ piece[p].violated => wrong # {} \/ taken # {}
  /\ failed => wrong # {} \/ taken # {} \/ asserted

VerdictInv == ReturnedInv /\ EvidenceInv /\ BlameInv /\ PassMeansClean

(* The parts of the type invariant the steps are proved for one by one.    *)
PiecesHome ==
  \A p \in Piece :
    /\ piece[p].home \in {0} \cup DOMAIN blocks
    /\ piece[p].home # 0 => piece[p].place = "mapped"
    /\ piece[p].born <= cases

FlowTyped ==
  /\ hooked \in BOOLEAN /\ failed \in BOOLEAN /\ continue_assert \in BOOLEAN
  /\ open \in Seq(Attribute) /\ Len(open) <= MaxNest
  /\ phase \in {"ready", "body", "cleanup", "ended", "done", "dead"}
  /\ phase \in {"ready", "ended", "done"} => open = <<>>
  /\ Running => Len(blocks) >= Len(open) + 3
  /\ phase \in {"ready", "ended"} => Len(blocks) >= 2
  /\ phase \in {"done", "dead"} => Len(blocks) >= Len(open) + 1
  /\ cases \in 0..MaxCase

HistoryTyped ==
  /\ returned \subseteq Piece /\ taken \subseteq Piece
  /\ asserted \in BOOLEAN /\ unmem \in BOOLEAN
  /\ wrong \subseteq Piece \X Wrongs

LEMMA TypeParts ==
  MemoryTypeOK <=>
    /\ blocks \in Seq(Block) /\ piece \in [Piece -> State]
    /\ PiecesHome /\ FlowTyped /\ HistoryTyped
BY DEF MemoryTypeOK, PiecesHome, FlowTyped, HistoryTyped, Running

LEMMA Modulus ==
  ASSUME NEW a \in Int PROVE a % Wrap \in 0..(Wrap - 1)
BY MemoryAssumption

LEMMA SizeNat == \A size \in Size \cup {0} : size \in Nat
<1>1. \A size \in Size : size \in Nat
  BY MemoryAssumption
<1>2. QED
  BY <1>1

(* The block that gives a piece keeps its type, and so do the others.      *)
LEMMA GrownType ==
  ASSUME blocks \in Seq(Block), NEW b \in DOMAIN blocks, NEW size \in Nat
  PROVE  Grown(b, size) \in Seq(Block) /\ Len(Grown(b, size)) = Len(blocks)
<1> DEFINE allocated == (blocks[b].allocated + size) % Wrap
           highest == Max({blocks[b].footprint, allocated})
<1>1. blocks[b] \in Block
  OBVIOUS
<1>2. allocated \in 0..(Wrap - 1)
  <2>1. blocks[b].allocated + size \in Int
    BY <1>1, MemoryAssumption DEF Block
  <2>2. QED
    BY <2>1, Modulus
<1>3. highest \in {blocks[b].footprint, allocated}
  <2> DEFINE S == {blocks[b].footprint, allocated}
           old == blocks[b].footprint
  <2>1. old \in Int /\ allocated \in Int
    BY <1>1, <1>2, MemoryAssumption DEF Block
  <2> HIDE DEF allocated
  <2>2. \E x \in S : \A y \in S : x >= y
    <3>1. CASE old >= allocated
      BY <2>1, <3>1
    <3>2. CASE ~(old >= allocated)
      BY <2>1, <3>2
    <3>3. QED
      BY <3>1, <3>2
  <2>3. QED
    BY <2>2 DEF Max
<1>4. highest \in 0..(Wrap - 1)
  BY <1>1, <1>2, <1>3 DEF Block
<1> DEFINE new == [[blocks[b] EXCEPT !.allocated = allocated] EXCEPT !.footprint = highest]
<1>5. Grown(b, size) = [blocks EXCEPT ![b] = new]
  BY DEF Grown
<1> HIDE DEF allocated, highest
<1>6. new \in Block
  BY <1>1, <1>2, <1>4 DEF Block
<1> HIDE DEF new
<1>7. QED
  BY <1>5, <1>6

LEMMA ShrunkType ==
  ASSUME NEW bs \in Seq(Block), NEW p \in Piece, piece \in [Piece -> State],
         piece[p].home \in DOMAIN bs
  PROVE  Shrunk(bs, p) \in Seq(Block) /\ Len(Shrunk(bs, p)) = Len(bs)
<1> DEFINE b == piece[p].home
           allocated == (bs[b].allocated - piece[p].size) % Wrap
           new == [bs[b] EXCEPT !.allocated = allocated]
<1>1. bs[b] \in Block
  OBVIOUS
<1>2. allocated \in 0..(Wrap - 1)
  <2>0. piece[p] \in State
    OBVIOUS
  <2>1. piece[p].size \in Int
    <3>1. piece[p].size \in Size \cup {0}
      BY <2>0 DEF State
    <3>2. QED
      BY <3>1, SizeNat
  <2>2. bs[b].allocated \in Int
    BY <1>1, MemoryAssumption DEF Block
  <2>3. bs[b].allocated - piece[p].size \in Int
    BY <2>1, <2>2
  <2>4. QED
    BY <2>3, Modulus
<1>3. Shrunk(bs, p) = [bs EXCEPT ![b] = new]
  BY DEF Shrunk
<1> HIDE DEF allocated
<1>4. new \in Block
  BY <1>1, <1>2 DEF Block
<1> HIDE DEF new, b
<1>5. b \in DOMAIN bs
  BY DEF b
<1>6. QED
  BY <1>3, <1>4, <1>5

(* A free changes neither where a piece is nor whose it is.                *)
LEMMA ReleasedType ==
  ASSUME NEW pieces \in [Piece -> State], NEW p \in Piece, NEW who \in Who,
         pieces[p].free_times < MaxFree
  PROVE  /\ Released(pieces, p, who) \in [Piece -> State]
         /\ \A q \in Piece : /\ Released(pieces, p, who)[q].place = pieces[q].place
                             /\ Released(pieces, p, who)[q].home = pieces[q].home
                             /\ Released(pieces, p, who)[q].born = pieces[q].born
<1> DEFINE n == pieces[p].free_times + 1
           pages == IF Complains(p, who) THEN pieces[p].forbidden ELSE "all"
           new == [[pieces[p] EXCEPT !.free_times = n] EXCEPT !.forbidden = pages]
<1>1. pieces[p] \in State
  OBVIOUS
<1>2. n \in 0..MaxFree
  BY <1>1, MemoryAssumption DEF State
<1>3. pages \in {"guard", "all", "writes", "none"}
  BY <1>1 DEF State
<1>4. Released(pieces, p, who) = [pieces EXCEPT ![p] = new]
  BY DEF Released
<1> HIDE DEF n, pages
<1>5. /\ new \in State /\ new.place = pieces[p].place
      /\ new.home = pieces[p].home /\ new.born = pieces[p].born
  BY <1>1, <1>2, <1>3 DEF State
<1> HIDE DEF new
<1>6. QED
  BY <1>4, <1>5

(* A piece just given.                                                     *)
LEMMA NewType ==
  ASSUME NEW place \in {"mapped", "libc"}, NEW home \in Nat, NEW who \in Who,
         NEW size \in Size \cup {0}, cases \in 0..MaxCase
  PROVE  /\ NewPiece(place, home, who, size) \in State
         /\ NewPiece(place, home, who, size).place = place
         /\ NewPiece(place, home, who, size).home = home
         /\ NewPiece(place, home, who, size).born = cases
<1> DEFINE r1 == [NoPiece EXCEPT !.place = place]
           r2 == [r1 EXCEPT !.home = home]
           r3 == [r2 EXCEPT !.who = who]
           r4 == [r3 EXCEPT !.size = size]
           r5 == [r4 EXCEPT !.born = cases]
<1>0. NewPiece(place, home, who, size) = r5
  BY DEF NewPiece
<1>1. r1 \in State /\ r1.place = place
  <2>1. NoPiece \in State
    BY MemoryAssumption DEF NoPiece, State, Who
  <2>2. QED
    BY <2>1 DEF State
<1> HIDE DEF r1
<1>2. r2 \in State /\ r2.place = place /\ r2.home = home
  BY <1>1 DEF State
<1> HIDE DEF r2
<1>3. r3 \in State /\ r3.place = place /\ r3.home = home
  BY <1>2 DEF State
<1> HIDE DEF r3
<1>4. r4 \in State /\ r4.place = place /\ r4.home = home
  BY <1>3 DEF State
<1> HIDE DEF r4
<1>5. r5 \in State /\ r5.place = place /\ r5.home = home /\ r5.born = cases
  BY <1>4 DEF State
<1>6. QED
  BY <1>0, <1>5

(* Where pieces and the stack stay where they are, so does what is said    *)
(* of them.                                                                *)
LEMMA PiecesStay ==
  ASSUME PiecesHome, UnmemStaysInCase, Len(blocks') >= Len(blocks),
         blocks \in Seq(Block), blocks' \in Seq(Block),
         cases' = cases, unmem => unmem',
         \A p \in Piece : /\ piece'[p].place = piece[p].place
                         /\ piece'[p].home = piece[p].home
                         /\ piece'[p].born = piece[p].born
  PROVE  PiecesHome' /\ UnmemStaysInCase'
<1>1. DOMAIN blocks \subseteq DOMAIN blocks'
  OBVIOUS
<1>2. PiecesHome'
  BY <1>1 DEF PiecesHome
<1>3. UnmemStaysInCase'
  BY DEF UnmemStaysInCase
<1>4. QED
  BY <1>2, <1>3

(* A complaint or none: control stays in the case, in no more BLOCKs.      *)
LEMMA FailingStep ==
  ASSUME FlowTyped, HooksOK, Running, NEW fails \in BOOLEAN, NEW rest \in Seq(Attribute),
         Len(rest) <= Len(open), Failing(fails, rest),
         blocks' \in Seq(Block), Len(blocks') >= Len(rest) + 3,
         hooked' \in BOOLEAN, hooked => hooked', unmem' = unmem,
         continue_assert' = continue_assert, cases' = cases
  PROVE  FlowTyped' /\ HooksOK'
<1>1. phase' \in {"body", "cleanup"} /\ failed' \in BOOLEAN
  BY DEF Failing, Running, FlowTyped
<1>2. open' \in Seq(Attribute) /\ Len(open') <= Len(rest)
  <2>1. open' = <<>> \/ open' = rest
    BY DEF Failing
  <2>2. CASE open' = <<>>
    BY <2>2
  <2>3. CASE open' = rest
    BY <2>3
  <2>4. QED
    BY <2>1, <2>2, <2>3
<1>3. FlowTyped'
  <2>1. Len(open) <= MaxNest /\ Len(open) \in Nat /\ Len(rest) \in Nat /\ Len(open') \in Nat
    BY <1>2 DEF FlowTyped
  <2>2. Len(open') <= MaxNest /\ Len(blocks') >= Len(open') + 3
    <3>1. Len(blocks') \in Nat
      OBVIOUS
    <3>2. QED
      BY <1>2, <2>1, <3>1, MemoryAssumption
  <2>3. QED
    BY <1>1, <1>2, <2>2 DEF FlowTyped, Running
<1>4. HooksOK'
  BY <1>1 DEF HooksOK, FlowTyped
<1>5. QED
  BY <1>3, <1>4

LEMMA TouchedType ==
  ASSUME piece \in [Piece -> State], NEW p \in Piece, NEW faults \in BOOLEAN,
         NEW left \in {"writes", "none"}
  PROVE  /\ Touched(p, faults, left) \in [Piece -> State]
         /\ \A q \in Piece : /\ Touched(p, faults, left)[q].place = piece[q].place
                             /\ Touched(p, faults, left)[q].home = piece[q].home
                             /\ Touched(p, faults, left)[q].born = piece[q].born
                             /\ Touched(p, faults, left)[q].free_times = piece[q].free_times
<1> DEFINE seen == piece[p].violated \/ faults
           pages == IF faults THEN left ELSE piece[p].forbidden
           r == [piece[p] EXCEPT !.violated = seen]
           new == [r EXCEPT !.forbidden = pages]
<1>1. piece[p] \in State
  OBVIOUS
<1>2. seen \in BOOLEAN /\ pages \in {"guard", "all", "writes", "none"}
  BY <1>1 DEF State
<1>3. Touched(p, faults, left) = [piece EXCEPT ![p] = new]
  BY DEF Touched
<1> HIDE DEF seen, pages
<1>4. /\ r \in State /\ r.place = piece[p].place /\ r.home = piece[p].home
      /\ r.born = piece[p].born /\ r.free_times = piece[p].free_times
  BY <1>1, <1>2 DEF State
<1> HIDE DEF r
<1>5. /\ new \in State /\ new.place = piece[p].place /\ new.home = piece[p].home
      /\ new.born = piece[p].born /\ new.free_times = piece[p].free_times
  BY <1>2, <1>4 DEF State
<1> HIDE DEF new
<1>6. QED
  BY <1>3, <1>5

LEMMA FrontType ==
  ASSUME NEW S, NEW s \in Seq(S), Len(s) >= 1
  PROVE  Front(s) \in Seq(S) /\ Len(Front(s)) = Len(s) - 1
<1> DEFINE n == Len(s) - 1
<1>1. n \in Nat /\ n < Len(s) /\ DOMAIN s = 1..Len(s)
  OBVIOUS
<1>2. \A i \in 1..n : s[i] \in S
  BY <1>1
<1>3. SubSeq(s, 1, n) \in Seq(S) /\ Len(SubSeq(s, 1, n)) = IF 1 <= n THEN n - 1 + 1 ELSE 0
  <2> HIDE DEF n
  <2>1. 1 \in Int /\ n \in Int
    BY <1>1
  <2>2. QED
    BY <1>2, <2>1, SubSeqProperties
<1>4. QED
  BY <1>1, <1>3 DEF Front

(* The end of a block leaves the stack without it and no piece in it, and  *)
(* no piece that was not checked before.                                   *)
LEMMA PopStep ==
  ASSUME MemoryTypeOK, UnmemStaysInCase, Pop, Len(blocks) >= 1,
         cases' = cases, unmem' = unmem
  PROVE  /\ blocks' \in Seq(Block) /\ Len(blocks') = Len(blocks) - 1
         /\ piece' \in [Piece -> State]
         /\ PiecesHome' /\ UnmemStaysInCase'
         /\ wrong' \subseteq Piece \X Wrongs
<1>1. /\ blocks \in Seq(Block) /\ piece \in [Piece -> State]
      /\ PiecesHome /\ wrong \subseteq Piece \X Wrongs
  BY TypeParts DEF HistoryTyped
<1>2. blocks' \in Seq(Block) /\ Len(blocks') = Len(blocks) - 1
  <2>1. blocks' = Front(blocks)
    BY DEF Pop
  <2>2. QED
    BY <1>1, <2>1, FrontType
<1>3. DOMAIN blocks' = DOMAIN blocks \ {Len(blocks)}
  <2>1. /\ DOMAIN blocks' = 1..Len(blocks') /\ DOMAIN blocks = 1..Len(blocks)
        /\ Len(blocks) \in Nat
    BY <1>1, <1>2
  <2>2. QED
    BY <1>2, <2>1
<1> DEFINE place == IF Faulty THEN "mapped" ELSE "unmapped"
           pages(p) == IF Faulty THEN piece[p].forbidden ELSE "guard"
           n(p) == Min({piece[p].free_times, 1})
           r1(p) == [NoPiece EXCEPT !.place = place]
           r2(p) == [r1(p) EXCEPT !.born = piece[p].born]
           r3(p) == [r2(p) EXCEPT !.forbidden = pages(p)]
           r4(p) == [r3(p) EXCEPT !.free_times = n(p)]
<1>4. piece' = [p \in Piece |-> IF p \in InTop THEN r4(p) ELSE piece[p]]
  BY DEF Pop
<1>5. ASSUME NEW p \in Piece
      PROVE  r4(p) \in State /\ r4(p).home = 0 /\ r4(p).place # "libc" /\ r4(p).born = piece[p].born
  <2>1. piece[p] \in State
    BY <1>1
  <2>2. n(p) \in 0..MaxFree
    <3> DEFINE t == piece[p].free_times
               S == {t, 1}
    <3>1. t \in 0..MaxFree /\ MaxFree \in Nat
      BY <2>1, MemoryAssumption DEF State
    <3>2. \E x \in S : (\A y \in S : x =< y) /\ x \in 0..MaxFree
      <4>1. CASE t = 0
        BY <3>1, <4>1
      <4>2. CASE t # 0
        BY <3>1, <4>2
      <4>3. QED
        BY <4>1, <4>2
    <3>3. n(p) \in S /\ \A y \in S : n(p) =< y
      BY <3>2 DEF Min
    <3>4. QED
      BY <3>1, <3>2, <3>3
  <2>3. pages(p) \in {"guard", "all", "writes", "none"} /\ place \in {"mapped", "unmapped"}
    BY <2>1 DEF State
  <2>4. NoPiece \in State /\ NoPiece.home = 0
    BY MemoryAssumption DEF NoPiece, State, Who
  <2> HIDE DEF n, pages, place
  <2>5. r1(p) \in State /\ r1(p).home = 0 /\ r1(p).place = place
    BY <2>3, <2>4 DEF State
  <2> HIDE DEF r1
  <2>6. r2(p) \in State /\ r2(p).home = 0 /\ r2(p).place = place /\ r2(p).born = piece[p].born
    BY <2>1, <2>5 DEF State
  <2> HIDE DEF r2
  <2>7. r3(p) \in State /\ r3(p).home = 0 /\ r3(p).place = place /\ r3(p).born = piece[p].born
    BY <2>3, <2>6 DEF State
  <2> HIDE DEF r3
  <2>8. r4(p) \in State /\ r4(p).home = 0 /\ r4(p).place = place /\ r4(p).born = piece[p].born
    BY <2>2, <2>7 DEF State
  <2> HIDE DEF r4
  <2>9. QED
    BY <2>3, <2>8
<1> HIDE DEF r4
<1>6. piece' \in [Piece -> State]
  BY <1>1, <1>4, <1>5
<1>7. PiecesHome'
  <2> SUFFICES ASSUME NEW p \in Piece
               PROVE  /\ piece'[p].home \in {0} \cup DOMAIN blocks'
                      /\ piece'[p].home # 0 => piece'[p].place = "mapped"
                      /\ piece'[p].born <= cases'
    BY DEF PiecesHome
  <2>1. CASE p \in InTop
    BY <1>1, <1>4, <1>5, <2>1 DEF PiecesHome
  <2>2. CASE p \notin InTop
    <3>1. piece[p].home # Len(blocks) /\ piece'[p] = piece[p]
      BY <1>4, <2>2 DEF InTop, Top
    <3>2. QED
      BY <1>1, <1>3, <3>1 DEF PiecesHome
  <2>3. QED
    BY <2>1, <2>2
<1>8. UnmemStaysInCase'
  BY <1>4, <1>5 DEF UnmemStaysInCase
<1>9. wrong' \subseteq Piece \X Wrongs
  <2> DEFINE L == {q \in InTop : ~blocks[Top].noleak /\ q \notin returned}
  <2>1. wrong' = wrong \cup {<<p, "leak">> : p \in L} /\ L \subseteq Piece
    BY DEF Pop, InTop
  <2> HIDE DEF L
  <2>2. {<<p, "leak">> : p \in L} \subseteq Piece \X Wrongs
    BY <2>1 DEF Wrongs
  <2>3. QED
    BY <1>1, <2>1, <2>2
<1>10. QED
  BY <1>2, <1>6, <1>7, <1>8, <1>9

---------------------------------------------------------------------------
LEMMA Known ==
  ASSUME MemoryIInv
  PROVE  /\ blocks \in Seq(Block) /\ piece \in [Piece -> State]
         /\ PiecesHome /\ FlowTyped /\ HistoryTyped /\ HooksOK /\ UnmemStaysInCase
BY TypeParts DEF MemoryIInv

LEMMA Shown ==
  ASSUME blocks' \in Seq(Block), piece' \in [Piece -> State],
         PiecesHome', FlowTyped', HistoryTyped', HooksOK', UnmemStaysInCase'
  PROVE  MemoryIInv'
BY DEF MemoryIInv, MemoryTypeOK, PiecesHome, FlowTyped, HistoryTyped, Running

LEMMA InitStep == MemoryInit => MemoryIInv
<1> SUFFICES ASSUME MemoryInit PROVE MemoryIInv
  OBVIOUS
<1>1. PlainBlock \in Block
  BY MemoryAssumption DEF PlainBlock, NewBlock, Block
<1>2. blocks \in Seq(Block) /\ Len(blocks) = 2
  BY <1>1 DEF MemoryInit
<1>3. NoPiece \in State /\ NoPiece.home = 0 /\ NoPiece.place = "none" /\ NoPiece.born = 0
  BY MemoryAssumption DEF NoPiece, State, Who
<1>4. piece \in [Piece -> State] /\ \A p \in Piece : piece[p] = NoPiece
  BY <1>3 DEF MemoryInit
<1>5. PiecesHome
  BY <1>3, <1>4 DEF PiecesHome, MemoryInit
<1>6. FlowTyped
  <2>1. open = <<>> /\ open \in Seq(Attribute) /\ Len(open) = 0
    BY DEF MemoryInit
  <2>2. /\ hooked \in BOOLEAN /\ failed \in BOOLEAN /\ continue_assert \in BOOLEAN
        /\ phase = "ready" /\ cases = 0
    BY DEF MemoryInit
  <2>3. cases \in 0..MaxCase /\ Len(open) <= MaxNest
    BY <2>1, <2>2, MemoryAssumption
  <2>4. QED
    BY <1>2, <2>1, <2>2, <2>3 DEF FlowTyped, Running
<1>7. HistoryTyped
  BY DEF HistoryTyped, MemoryInit
<1>8. HooksOK
  BY DEF HooksOK, MemoryInit
<1>9. UnmemStaysInCase
  BY <1>3, <1>4 DEF UnmemStaysInCase
<1>10. QED
  BY <1>2, <1>4, <1>5, <1>6, <1>7, <1>8, <1>9, TypeParts DEF MemoryIInv

(* What is noted of a free or an access is of the kinds there are.         *)
LEMMA FreedWronglyType ==
  ASSUME NEW p \in Piece, NEW who \in Who
  PROVE  FreedWrongly(p, who) \subseteq Piece \X Wrongs
BY DEF FreedWrongly, Wrongs

LEMMA AccessType ==
  ASSUME NEW p \in Piece, NEW spot \in Spot
  PROVE  Access(p, spot) \subseteq Piece \X Wrongs
BY DEF Access, Wrongs, Spot

LEMMA ComplainsType ==
  ASSUME piece \in [Piece -> State], NEW p \in Piece, NEW who \in Who
  PROVE  Complains(p, who) \in BOOLEAN
<1>1. piece[p] \in State
  OBVIOUS
<1>2. QED
  BY <1>1 DEF Complains, State

(* A free, and a realloc that gives nothing for what it frees.             *)
LEMMA FreeStep ==
  ASSUME MemoryIInv, NEW p \in Piece, NEW who \in Who,
         \/ Free(p, who)
         \/ who = "malloc" /\ \E size \in Size : ReallocRefused(p, size)
  PROVE  MemoryIInv'
<1>1. /\ blocks \in Seq(Block) /\ piece \in [Piece -> State]
      /\ PiecesHome /\ FlowTyped /\ HistoryTyped /\ HooksOK /\ UnmemStaysInCase
  BY Known
<1>2. /\ Running /\ piece[p].home # 0 /\ piece[p].free_times < MaxFree
      /\ blocks' = Shrunk(blocks, p) /\ piece' = Released(piece, p, who)
      /\ Failing(Complains(p, who), open)
      /\ wrong' = wrong \cup FreedWrongly(p, who)
      /\ returned' \subseteq returned \cup {p} /\ taken' \subseteq taken \cup {p}
      /\ hooked' = hooked /\ continue_assert' = continue_assert /\ cases' = cases
      /\ asserted' = asserted /\ unmem' = unmem
  BY DEF Free, ReallocRefused, Does
<1>3. piece[p].home \in DOMAIN blocks
  BY <1>1, <1>2 DEF PiecesHome
<1>4. blocks' \in Seq(Block) /\ Len(blocks') = Len(blocks)
  BY <1>1, <1>2, <1>3, ShrunkType
<1>5. /\ piece' \in [Piece -> State]
      /\ \A q \in Piece : /\ piece'[q].place = piece[q].place
                          /\ piece'[q].home = piece[q].home
                          /\ piece'[q].born = piece[q].born
  BY <1>1, <1>2, ReleasedType
<1>6. PiecesHome' /\ UnmemStaysInCase'
  <2>1. Len(blocks') >= Len(blocks)
    BY <1>1, <1>4
  <2>2. QED
    BY <1>1, <1>2, <1>4, <1>5, <2>1, PiecesStay
<1>7. FlowTyped' /\ HooksOK'
  <2>1. Complains(p, who) \in BOOLEAN
    BY <1>1, ComplainsType
  <2>2. open \in Seq(Attribute) /\ Len(open) <= Len(open) /\ Len(blocks') >= Len(open) + 3
    BY <1>1, <1>2, <1>4 DEF FlowTyped
  <2>3. hooked' \in BOOLEAN
    BY <1>1, <1>2 DEF FlowTyped
  <2>4. QED
    BY <1>1, <1>2, <1>4, <2>1, <2>2, <2>3, FailingStep
<1>8. HistoryTyped'
  BY <1>1, <1>2, FreedWronglyType DEF HistoryTyped
<1>9. QED
  BY <1>4, <1>5, <1>6, <1>7, <1>8, Shown

(* The steps that move no piece and end no block.                          *)
LEMMA BeginStep ==
  ASSUME MemoryIInv, Begin PROVE MemoryIInv'
<1>1. /\ blocks \in Seq(Block) /\ piece \in [Piece -> State]
      /\ PiecesHome /\ FlowTyped /\ HistoryTyped /\ HooksOK /\ UnmemStaysInCase
  BY Known
<1>2. /\ phase = "ready" /\ cases < MaxCase /\ blocks' = Append(blocks, PlainBlock)
      /\ phase' = "body" /\ failed' = FALSE /\ cases' = cases + 1
      /\ asserted' = FALSE /\ unmem' = FALSE
      /\ piece' = piece /\ hooked' = hooked /\ open' = open
      /\ continue_assert' = continue_assert /\ returned' = returned
      /\ taken' = taken /\ wrong' = wrong
  BY DEF Begin
<1>3. PlainBlock \in Block
  BY MemoryAssumption DEF PlainBlock, NewBlock, Block
<1>4. blocks' \in Seq(Block) /\ Len(blocks') = Len(blocks) + 1
  BY <1>1, <1>2, <1>3
<1>5. cases \in Nat /\ cases' \in 0..MaxCase
  BY <1>1, <1>2, MemoryAssumption DEF FlowTyped
<1>6. \A p \in Piece : piece[p].born \in Nat /\ piece[p].born <= cases
  <2> TAKE p \in Piece
  <2>1. piece[p] \in State
    BY <1>1
  <2>2. QED
    BY <1>1, <2>1 DEF PiecesHome, State
<1>7. PiecesHome'
  <2>1. DOMAIN blocks \subseteq DOMAIN blocks'
    BY <1>1, <1>4
  <2>2. \A p \in Piece : piece[p].born <= cases'
    BY <1>2, <1>5, <1>6
  <2>3. QED
    BY <1>1, <1>2, <2>1, <2>2 DEF PiecesHome
<1>8. UnmemStaysInCase'
  <2>1. \A p \in Piece : piece[p].born # cases'
    BY <1>2, <1>5, <1>6
  <2>2. QED
    BY <1>2, <2>1 DEF UnmemStaysInCase
<1>9. FlowTyped'
  <2>1. open = <<>> /\ Len(blocks) >= 2 /\ Len(open) = 0
    BY <1>1, <1>2 DEF FlowTyped
  <2>2. Len(blocks') >= Len(open') + 3
    BY <1>1, <1>2, <1>4, <2>1
  <2>3. QED
    BY <1>1, <1>2, <1>5, <2>2 DEF FlowTyped, Running
<1>10. HooksOK'
  BY <1>1, <1>2 DEF HooksOK
<1>11. HistoryTyped'
  BY <1>1, <1>2 DEF HistoryTyped
<1>12. QED
  BY <1>1, <1>2, <1>4, <1>7, <1>8, <1>9, <1>10, <1>11, Shown

LEMMA OpenBlockStep ==
  ASSUME MemoryIInv, NEW a \in Attribute, OpenBlock(a) PROVE MemoryIInv'
<1>1. /\ blocks \in Seq(Block) /\ piece \in [Piece -> State]
      /\ PiecesHome /\ FlowTyped /\ HistoryTyped /\ HooksOK /\ UnmemStaysInCase
  BY Known
<1> DEFINE b == NewBlock(a.limit, a.noleak)
<1>2. /\ Running /\ Len(blocks) < 3 + MaxNest
      /\ hooked' = (hooked /\ ~a.unmem) /\ unmem' = (unmem \/ a.unmem)
      /\ blocks' = Append(blocks, b) /\ open' = Append(open, a)
      /\ piece' = piece /\ phase' = phase /\ failed' = failed /\ cases' = cases
      /\ continue_assert' = continue_assert /\ returned' = returned
      /\ taken' = taken /\ wrong' = wrong /\ asserted' = asserted
  BY DEF OpenBlock
<1>3. a \in [limit : 0..NoLimit, noleak : BOOLEAN, unmem : BOOLEAN]
  BY MemoryAssumption
<1>4. b \in Block
  BY <1>3, MemoryAssumption DEF NewBlock, Block
<1> HIDE DEF b
<1>5. blocks' \in Seq(Block) /\ Len(blocks') = Len(blocks) + 1
  BY <1>1, <1>2, <1>4
<1>6. PiecesHome' /\ UnmemStaysInCase'
  <2>1. Len(blocks') >= Len(blocks)
    BY <1>1, <1>5
  <2>2. QED
    BY <1>1, <1>2, <1>5, <2>1, PiecesStay
<1>7. FlowTyped'
  <2>1. open \in Seq(Attribute) /\ Len(blocks) >= Len(open) + 3
    BY <1>1, <1>2 DEF FlowTyped
  <2>2. open' \in Seq(Attribute) /\ Len(open') = Len(open) + 1
    BY <1>2, <2>1
  <2>3. Len(blocks') >= Len(open') + 3 /\ Len(open') <= MaxNest
    <3>1. Len(open) \in Nat /\ Len(blocks) \in Nat /\ MaxNest \in Nat
      BY <1>1, <2>1, MemoryAssumption
    <3>2. QED
      BY <1>2, <1>5, <2>1, <2>2, <3>1
  <2>4. hooked' \in BOOLEAN
    BY <1>2
  <2>5. QED
    BY <1>1, <1>2, <2>2, <2>3, <2>4 DEF FlowTyped, Running
<1>8. HooksOK'
  BY <1>1, <1>2 DEF HooksOK, Running
<1>9. HistoryTyped'
  BY <1>1, <1>2, <1>3 DEF HistoryTyped
<1>10. QED
  BY <1>1, <1>2, <1>5, <1>6, <1>7, <1>8, <1>9, Shown

LEMMA AssertFailsStep ==
  ASSUME MemoryIInv, AssertFails PROVE MemoryIInv'
<1>1. /\ blocks \in Seq(Block) /\ piece \in [Piece -> State]
      /\ PiecesHome /\ FlowTyped /\ HistoryTyped /\ HooksOK /\ UnmemStaysInCase
  BY Known
<1>2. /\ Running /\ Failing(TRUE, open) /\ asserted' = TRUE
      /\ blocks' = blocks /\ piece' = piece /\ hooked' = hooked /\ cases' = cases
      /\ continue_assert' = continue_assert /\ returned' = returned
      /\ taken' = taken /\ wrong' = wrong /\ unmem' = unmem
  BY DEF AssertFails
<1>3. PiecesHome' /\ UnmemStaysInCase'
  BY <1>1, <1>2 DEF PiecesHome, UnmemStaysInCase
<1>4. FlowTyped' /\ HooksOK'
  <2>1. /\ open \in Seq(Attribute) /\ Len(open) <= Len(open)
        /\ Len(blocks') >= Len(open) + 3 /\ hooked' \in BOOLEAN
    BY <1>1, <1>2 DEF FlowTyped
  <2>2. QED
    BY <1>1, <1>2, <2>1, FailingStep
<1>5. HistoryTyped'
  BY <1>1, <1>2 DEF HistoryTyped
<1>6. QED
  BY <1>1, <1>2, <1>3, <1>4, <1>5, Shown

LEMMA ClearStep ==
  ASSUME MemoryIInv, Clear PROVE MemoryIInv'
<1>1. /\ blocks \in Seq(Block) /\ piece \in [Piece -> State]
      /\ PiecesHome /\ FlowTyped /\ HistoryTyped /\ HooksOK /\ UnmemStaysInCase
  BY Known
<1>2. /\ phase = "ended" /\ hooked' = TRUE /\ phase' = "ready"
      /\ blocks' = blocks /\ piece' = piece /\ open' = open /\ failed' = failed
      /\ continue_assert' = continue_assert /\ cases' = cases
      /\ returned' = returned /\ taken' = taken /\ wrong' = wrong
      /\ asserted' = asserted /\ unmem' = unmem
  BY DEF Clear, told
<1>3. PiecesHome' /\ UnmemStaysInCase'
  BY <1>1, <1>2 DEF PiecesHome, UnmemStaysInCase
<1>4. FlowTyped'
  BY <1>1, <1>2 DEF FlowTyped, Running
<1>5. HooksOK' /\ HistoryTyped'
  BY <1>1, <1>2 DEF HooksOK, HistoryTyped, Running
<1>6. QED
  BY <1>1, <1>2, <1>3, <1>4, <1>5, Shown

(* The steps that end a block.                                             *)
LEMMA CloseBlockStep ==
  ASSUME MemoryIInv, CloseBlock PROVE MemoryIInv'
<1>1. /\ blocks \in Seq(Block) /\ piece \in [Piece -> State]
      /\ PiecesHome /\ FlowTyped /\ HistoryTyped /\ HooksOK /\ UnmemStaysInCase
  BY Known
<1>2. /\ Running /\ open # <<>> /\ Pop /\ Failing(Faulty, Front(open))
      /\ hooked' \in BOOLEAN /\ (hooked => hooked')
      /\ continue_assert' = continue_assert /\ cases' = cases
      /\ returned' = returned /\ taken' = taken
      /\ asserted' = asserted /\ unmem' = unmem
  BY DEF CloseBlock
<1>3. open \in Seq(Attribute) /\ Len(open) >= 1 /\ Len(blocks) >= Len(open) + 3
  <2>1. open \in Seq(Attribute) /\ Len(blocks) >= Len(open) + 3
    BY <1>1, <1>2 DEF FlowTyped
  <2>2. QED
    BY <1>2, <2>1
<1>4. Front(open) \in Seq(Attribute) /\ Len(Front(open)) = Len(open) - 1
  BY <1>3, FrontType
<1>5. /\ blocks' \in Seq(Block) /\ Len(blocks') = Len(blocks) - 1
      /\ piece' \in [Piece -> State] /\ PiecesHome' /\ UnmemStaysInCase'
      /\ wrong' \subseteq Piece \X Wrongs
  <2>1. Len(blocks) >= 1
    BY <1>1, <1>3
  <2>2. QED
    BY <1>1, <1>2, <2>1, PopStep DEF MemoryIInv
<1>6. FlowTyped' /\ HooksOK'
  <2>1. Faulty \in BOOLEAN
    BY DEF Faulty
  <2>2. Len(Front(open)) <= Len(open) /\ Len(blocks') >= Len(Front(open)) + 3
    BY <1>1, <1>3, <1>4, <1>5
  <2> DEFINE rest == Front(open)
  <2> HIDE DEF rest
  <2>3. /\ rest \in Seq(Attribute) /\ Len(rest) <= Len(open)
        /\ Len(blocks') >= Len(rest) + 3 /\ Failing(Faulty, rest)
    BY <1>2, <1>4, <2>2 DEF rest
  <2>4. QED
    BY <1>1, <1>2, <1>5, <2>1, <2>3, FailingStep
<1>7. HistoryTyped'
  BY <1>1, <1>2, <1>5 DEF HistoryTyped
<1>8. QED
  BY <1>5, <1>6, <1>7, Shown

LEMMA TeardownStep ==
  ASSUME MemoryIInv, Teardown \/ EndSuite PROVE MemoryIInv'
<1>1. /\ blocks \in Seq(Block) /\ piece \in [Piece -> State]
      /\ PiecesHome /\ FlowTyped /\ HistoryTyped /\ HooksOK /\ UnmemStaysInCase
  BY Known
<1>2. /\ Pop /\ hooked' = hooked /\ open' = open /\ failed' \in BOOLEAN
      /\ continue_assert' = continue_assert /\ cases' = cases
      /\ returned' = returned /\ taken' = taken
      /\ asserted' = asserted /\ unmem' = unmem
  BY <1>1 DEF Teardown, EndSuite, FlowTyped
<1>3. \/ phase' = "ended" /\ Len(blocks) >= Len(open) + 3
      \/ phase' = "done" /\ Len(blocks) >= 2
  BY <1>1 DEF Teardown, EndSuite, FlowTyped
<1>4. open = <<>> /\ Len(open) = 0
  BY <1>1 DEF Teardown, EndSuite, FlowTyped
<1>5. /\ blocks' \in Seq(Block) /\ Len(blocks') = Len(blocks) - 1
      /\ piece' \in [Piece -> State] /\ PiecesHome' /\ UnmemStaysInCase'
      /\ wrong' \subseteq Piece \X Wrongs
  <2>1. Len(blocks) >= 1
    BY <1>1, <1>3, <1>4
  <2>2. QED
    BY <1>1, <1>2, <2>1, PopStep DEF MemoryIInv
<1>6. FlowTyped'
  <2>1. open' = <<>> /\ Len(open') = 0 /\ open' \in Seq(Attribute) /\ Len(open') <= MaxNest
    BY <1>1, <1>2, <1>4 DEF FlowTyped
  <2>2. phase' = "ended" => Len(blocks') >= 2
    BY <1>1, <1>3, <1>4, <1>5
  <2>3. phase' = "done" => Len(blocks') >= Len(open') + 1
    BY <1>1, <1>3, <1>5, <2>1
  <2>4. QED
    BY <1>1, <1>2, <1>3, <2>1, <2>2, <2>3 DEF FlowTyped, Running
<1>7. HooksOK'
  BY <1>3 DEF HooksOK, Running
<1>8. HistoryTyped'
  BY <1>1, <1>2, <1>5 DEF HistoryTyped
<1>9. QED
  BY <1>5, <1>6, <1>7, <1>8, Shown

(* The steps that give a piece.                                            *)
LEMMA GivenStep ==
  ASSUME MemoryIInv, Running, NEW p \in Piece, NEW place \in {"mapped", "libc"},
         NEW home \in {0} \cup DOMAIN blocks, NEW who \in Who, NEW size \in Size \cup {0},
         home # 0 => place = "mapped", place = "libc" => unmem,
         Given(p, place, home, who, size),
         blocks' \in Seq(Block), Len(blocks') = Len(blocks),
         UNCHANGED <<hooked, flow, continue_assert, cases, told>>
  PROVE  MemoryIInv'
<1>1. /\ blocks \in Seq(Block) /\ piece \in [Piece -> State]
      /\ PiecesHome /\ FlowTyped /\ HistoryTyped /\ HooksOK /\ UnmemStaysInCase
  BY Known
<1>2. /\ hooked' = hooked /\ open' = open /\ phase' = phase /\ failed' = failed
      /\ continue_assert' = continue_assert /\ cases' = cases
      /\ returned' = returned /\ taken' = taken /\ wrong' = wrong
      /\ asserted' = asserted /\ unmem' = unmem
  BY DEF flow, told
<1> DEFINE new == NewPiece(place, home, who, size)
<1>3. /\ new \in State /\ new.place = place /\ new.home = home /\ new.born = cases
  <2>1. home \in Nat
    BY <1>1
  <2>2. cases \in 0..MaxCase
    BY <1>1 DEF FlowTyped
  <2>3. QED
    BY <2>1, <2>2, NewType
<1>4. piece' = [piece EXCEPT ![p] = new]
  BY DEF Given
<1> HIDE DEF new
<1>5. piece' \in [Piece -> State] /\ piece'[p] = new /\ \A q \in Piece : q # p => piece'[q] = piece[q]
  BY <1>1, <1>3, <1>4
<1>6. DOMAIN blocks' = DOMAIN blocks
  BY <1>1
<1>7. PiecesHome'
  <2> SUFFICES ASSUME NEW q \in Piece
               PROVE  /\ piece'[q].home \in {0} \cup DOMAIN blocks'
                      /\ piece'[q].home # 0 => piece'[q].place = "mapped"
                      /\ piece'[q].born <= cases'
    BY DEF PiecesHome
  <2>1. CASE q = p
    <3>1. cases \in Nat
      BY <1>1, MemoryAssumption DEF FlowTyped
    <3>2. QED
      BY <1>2, <1>3, <1>5, <1>6, <2>1, <3>1
  <2>2. CASE q # p
    BY <1>1, <1>2, <1>5, <1>6, <2>2 DEF PiecesHome
  <2>3. QED
    BY <2>1, <2>2
<1>8. UnmemStaysInCase'
  BY <1>1, <1>2, <1>3, <1>5 DEF UnmemStaysInCase
<1>9. FlowTyped'
  BY <1>1, <1>2 DEF FlowTyped, Running
<1>10. HooksOK' /\ HistoryTyped'
  BY <1>1, <1>2 DEF HooksOK, HistoryTyped, Running
<1>11. QED
  BY <1>5, <1>7, <1>8, <1>9, <1>10, Shown

LEMMA MallocStep ==
  ASSUME MemoryIInv, NEW p \in Piece, NEW who \in Who, NEW size \in Size,
         NEW b \in {Root, Top}, Malloc(p, who, size, b)
  PROVE  MemoryIInv'
<1>1. blocks \in Seq(Block) /\ FlowTyped
  BY Known
<1>2. /\ Running /\ blocks' = Grown(b, size) /\ Given(p, "mapped", b, who, size)
      /\ UNCHANGED <<hooked, flow, continue_assert, cases, told>>
  BY DEF Malloc
<1>3. b \in DOMAIN blocks
  <2>1. Len(blocks) >= 3 /\ DOMAIN blocks = 1..Len(blocks)
    <3>1. Len(open) \in Nat /\ Len(blocks) >= Len(open) + 3
      BY <1>1, <1>2 DEF FlowTyped
    <3>2. QED
      BY <1>1, <3>1
  <2>2. b = 1 \/ b = Len(blocks)
    BY DEF Root, Top
  <2>3. Len(blocks) \in Nat
    BY <1>1
  <2>4. QED
    BY <2>1, <2>2, <2>3
<1>4. blocks' \in Seq(Block) /\ Len(blocks') = Len(blocks)
  BY <1>1, <1>2, <1>3, SizeNat, GrownType
<1>5. QED
  BY <1>2, <1>3, <1>4, GivenStep

LEMMA MallocUnhookedStep ==
  ASSUME MemoryIInv, NEW p \in Piece, MallocUnhooked(p) PROVE MemoryIInv'
<1>1. blocks \in Seq(Block) /\ HooksOK
  BY Known
<1>2. /\ Running /\ ~hooked /\ blocks' = blocks /\ Given(p, "libc", 0, "malloc", 0)
      /\ UNCHANGED <<hooked, flow, continue_assert, cases, told>>
  BY DEF MallocUnhooked
<1>3. unmem
  BY <1>1, <1>2 DEF HooksOK
<1>4. "malloc" \in Who
  BY DEF Who
<1>5. blocks' \in Seq(Block) /\ Len(blocks') = Len(blocks)
  BY <1>1, <1>2
<1>6. QED
  BY <1>2, <1>3, <1>4, <1>5, GivenStep

(* A realloc gives and frees.                                              *)
LEMMA ReallocStep ==
  ASSUME MemoryIInv, NEW p \in Piece, NEW q \in Piece, NEW size \in Size, Realloc(p, q, size)
  PROVE  MemoryIInv'
<1>1. /\ blocks \in Seq(Block) /\ piece \in [Piece -> State]
      /\ PiecesHome /\ FlowTyped /\ HistoryTyped /\ HooksOK /\ UnmemStaysInCase
  BY Known
<1> DEFINE faults == piece[p].forbidden = "all"
           read == Touched(p, faults, "writes")
           new == NewPiece("mapped", Top, "malloc", size)
           given == [read EXCEPT ![q] = new]
<1>2. /\ Running /\ piece[p].home # 0 /\ piece[q].place = "none" /\ piece[p].free_times < MaxFree
      /\ blocks' = Shrunk(Grown(Top, size), p)
      /\ piece' = Released(given, p, "malloc")
      /\ Failing(Complains(p, "malloc"), open)
      /\ wrong' = wrong \cup FreedWrongly(p, "malloc")
      /\ returned' = returned \cup {p}
      /\ hooked' = hooked /\ continue_assert' = continue_assert /\ cases' = cases
      /\ taken' = taken /\ asserted' = asserted /\ unmem' = unmem
  BY DEF Realloc, Does
<1>3. Top \in DOMAIN blocks /\ Top \in Nat /\ Len(blocks) \in Nat
  <2>1. Len(open) \in Nat /\ Len(blocks) >= Len(open) + 3 /\ DOMAIN blocks = 1..Len(blocks)
    BY <1>1, <1>2 DEF FlowTyped
  <2>2. QED
    BY <1>1, <2>1 DEF Top
<1>4. "malloc" \in Who /\ size \in Nat
  BY SizeNat DEF Who
<1>5. p # q
  BY <1>1, <1>2 DEF PiecesHome
<1>6. blocks' \in Seq(Block) /\ Len(blocks') = Len(blocks)
  <2> DEFINE bs == Grown(Top, size)
  <2>1. bs \in Seq(Block) /\ Len(bs) = Len(blocks)
    BY <1>1, <1>3, <1>4, GrownType
  <2>2. piece[p].home \in DOMAIN bs
    <3>1. DOMAIN bs = DOMAIN blocks
      BY <1>1, <2>1
    <3>2. QED
      BY <1>1, <1>2, <3>1 DEF PiecesHome
  <2> HIDE DEF bs
  <2>3. Shrunk(bs, p) \in Seq(Block) /\ Len(Shrunk(bs, p)) = Len(bs)
    BY <1>1, <2>1, <2>2, ShrunkType
  <2>4. QED
    BY <1>2, <2>1, <2>3 DEF bs
<1>7. /\ new \in State /\ new.place = "mapped" /\ new.home = Top /\ new.born = cases
  <2>1. cases \in 0..MaxCase
    BY <1>1 DEF FlowTyped
  <2>2. QED
    BY <1>3, <1>4, <2>1, NewType
<1>8. /\ read \in [Piece -> State]
      /\ \A r \in Piece : /\ read[r].place = piece[r].place /\ read[r].home = piece[r].home
                          /\ read[r].born = piece[r].born
                          /\ read[r].free_times = piece[r].free_times
  <2>1. faults \in BOOLEAN
    OBVIOUS
  <2>2. "writes" \in {"writes", "none"}
    OBVIOUS
  <2> HIDE DEF faults
  <2>3. QED
    BY <1>1, <2>1, <2>2, TouchedType
<1> HIDE DEF read, new
<1>9. /\ given \in [Piece -> State] /\ given[q] = new
      /\ \A r \in Piece : r # q => given[r] = read[r]
  BY <1>7, <1>8
<1> HIDE DEF given
<1>10. /\ piece' \in [Piece -> State]
       /\ \A r \in Piece : /\ piece'[r].place = given[r].place
                           /\ piece'[r].home = given[r].home
                           /\ piece'[r].born = given[r].born
  <2>1. given[p].free_times < MaxFree
    BY <1>2, <1>5, <1>8, <1>9
  <2>2. QED
    BY <1>2, <1>4, <1>9, <2>1, ReleasedType
<1>11. PiecesHome'
  <2> SUFFICES ASSUME NEW r \in Piece
               PROVE  /\ piece'[r].home \in {0} \cup DOMAIN blocks'
                      /\ piece'[r].home # 0 => piece'[r].place = "mapped"
                      /\ piece'[r].born <= cases'
    BY DEF PiecesHome
  <2>1. DOMAIN blocks' = DOMAIN blocks
    BY <1>1, <1>6
  <2>2. CASE r = q
    <3>1. cases \in Nat
      BY <1>1, MemoryAssumption DEF FlowTyped
    <3>2. QED
      BY <1>2, <1>3, <1>7, <1>9, <1>10, <2>1, <2>2, <3>1
  <2>3. CASE r # q
    <3>1. /\ piece'[r].home = piece[r].home /\ piece'[r].place = piece[r].place
          /\ piece'[r].born = piece[r].born
      BY <1>8, <1>9, <1>10, <2>3
    <3>2. QED
      BY <1>1, <1>2, <2>1, <3>1 DEF PiecesHome
  <2>4. QED
    BY <2>2, <2>3
<1>12. UnmemStaysInCase'
  <2> SUFFICES ASSUME NEW r \in Piece, piece'[r].place = "libc", piece'[r].born = cases'
               PROVE  unmem'
    BY DEF UnmemStaysInCase
  <2>1. r # q
    BY <1>7, <1>9, <1>10
  <2>2. piece[r].place = "libc" /\ piece[r].born = cases
    BY <1>2, <1>8, <1>9, <1>10, <2>1
  <2>3. QED
    BY <1>1, <1>2, <2>2 DEF UnmemStaysInCase
<1>13. FlowTyped' /\ HooksOK'
  <2>1. Complains(p, "malloc") \in BOOLEAN
    BY <1>1, <1>4, ComplainsType
  <2>2. open \in Seq(Attribute) /\ Len(open) <= Len(open) /\ Len(blocks') >= Len(open) + 3
    BY <1>1, <1>2, <1>6 DEF FlowTyped
  <2>3. hooked' \in BOOLEAN
    BY <1>1, <1>2 DEF FlowTyped
  <2>4. QED
    BY <1>1, <1>2, <1>6, <2>1, <2>2, <2>3, FailingStep
<1>14. HistoryTyped'
  BY <1>1, <1>2, <1>4, FreedWronglyType DEF HistoryTyped
<1>15. QED
  BY <1>6, <1>10, <1>11, <1>12, <1>13, <1>14, Shown

(* The steps no block hears of.                                            *)
LEMMA WriteStep ==
  ASSUME MemoryIInv, NEW p \in Piece, NEW spot \in Spot, Write(p, spot) PROVE MemoryIInv'
<1>1. /\ blocks \in Seq(Block) /\ piece \in [Piece -> State]
      /\ PiecesHome /\ FlowTyped /\ HistoryTyped /\ HooksOK /\ UnmemStaysInCase
  BY Known
<1> DEFINE touched == Touched(p, Faults(p, spot), "none")
           gap == touched[p].dirty \/ spot = "gap"
           new == [touched[p] EXCEPT !.dirty = gap]
<1>2. /\ wrong' = wrong \cup Access(p, spot)
      /\ piece' = [touched EXCEPT ![p] = new]
      /\ blocks' = blocks /\ hooked' = hooked /\ open' = open /\ phase' = phase
      /\ failed' = failed /\ continue_assert' = continue_assert /\ cases' = cases
      /\ returned' = returned /\ taken' = taken /\ asserted' = asserted /\ unmem' = unmem
  BY DEF Write, Does, flow
<1>3. /\ touched \in [Piece -> State]
      /\ \A q \in Piece : /\ touched[q].place = piece[q].place /\ touched[q].home = piece[q].home
                          /\ touched[q].born = piece[q].born
  <2>1. Faults(p, spot) \in BOOLEAN
    BY DEF Faults
  <2>2. QED
    BY <1>1, <2>1, TouchedType
<1> HIDE DEF touched
<1>4. /\ new \in State /\ new.place = touched[p].place
      /\ new.home = touched[p].home /\ new.born = touched[p].born
  <2>1. touched[p] \in State /\ gap \in BOOLEAN
    BY <1>3 DEF State
  <2> HIDE DEF gap
  <2>2. QED
    BY <2>1 DEF State
<1> HIDE DEF new
<1>5. /\ piece' \in [Piece -> State]
      /\ \A q \in Piece : /\ piece'[q].place = piece[q].place /\ piece'[q].home = piece[q].home
                          /\ piece'[q].born = piece[q].born
  BY <1>2, <1>3, <1>4
<1>6. PiecesHome' /\ UnmemStaysInCase'
  BY <1>1, <1>2, <1>5 DEF PiecesHome, UnmemStaysInCase
<1>7. FlowTyped' /\ HooksOK'
  BY <1>1, <1>2 DEF FlowTyped, HooksOK, Running
<1>8. HistoryTyped'
  BY <1>1, <1>2, AccessType DEF HistoryTyped
<1>9. QED
  BY <1>1, <1>2, <1>5, <1>6, <1>7, <1>8, Shown

(* A pointer no block knows, and what aborts.                              *)
LEMMA UnknownStep ==
  ASSUME MemoryIInv, NEW p \in Piece,
         \/ FreeUnknown(p) \/ FreeUnhooked(p)
         \/ \E spot \in Spot : WriteAborts(p, spot)
  PROVE  MemoryIInv'
<1>1. /\ blocks \in Seq(Block) /\ piece \in [Piece -> State]
      /\ PiecesHome /\ FlowTyped /\ HistoryTyped /\ HooksOK /\ UnmemStaysInCase
  BY Known
<1>2. /\ Running /\ phase' \in {phase, "dead"} /\ returned' \subseteq returned \cup {p}
      /\ blocks' = blocks /\ piece' = piece /\ hooked' = hooked /\ open' = open
      /\ failed' = failed /\ continue_assert' = continue_assert /\ cases' = cases
      /\ taken' = taken /\ wrong' = wrong /\ asserted' = asserted /\ unmem' = unmem
  BY DEF FreeUnknown, FreeUnhooked, WriteAborts, flow, told
<1>3. PiecesHome' /\ UnmemStaysInCase'
  BY <1>1, <1>2 DEF PiecesHome, UnmemStaysInCase
<1>4. FlowTyped'
  <2>1. CASE phase' = phase
    BY <1>1, <1>2, <2>1 DEF FlowTyped, Running
  <2>2. CASE phase' = "dead"
    <3>1. Len(open) \in Nat /\ Len(blocks) \in Nat /\ Len(blocks) >= Len(open) + 3
      BY <1>1, <1>2 DEF FlowTyped
    <3>2. Len(blocks') >= Len(open') + 1
      BY <1>2, <3>1
    <3>3. QED
      BY <1>1, <1>2, <2>2, <3>2 DEF FlowTyped, Running
  <2>3. QED
    BY <1>2, <2>1, <2>2
<1>5. HooksOK' /\ HistoryTyped'
  BY <1>1, <1>2 DEF HooksOK, HistoryTyped, Running
<1>6. QED
  BY <1>1, <1>2, <1>3, <1>4, <1>5, Shown

---------------------------------------------------------------------------
LEMMA NextStep == MemoryIInv /\ [MemoryNext]_memoryVars => MemoryIInv'
<1> SUFFICES ASSUME MemoryIInv, [MemoryNext]_memoryVars PROVE MemoryIInv'
  OBVIOUS
<1>1. CASE Begin
  BY <1>1, BeginStep
<1>2. CASE CloseBlock
  BY <1>2, CloseBlockStep
<1>3. CASE AssertFails
  BY <1>3, AssertFailsStep
<1>4. CASE Teardown \/ EndSuite
  BY <1>4, TeardownStep
<1>5. CASE Clear
  BY <1>5, ClearStep
<1>6. CASE \E a \in Attribute : OpenBlock(a)
  BY <1>6, OpenBlockStep
<1>7. ASSUME NEW p \in Piece, NEW who \in Who, NEW size \in Size, NEW b \in {Root, Top},
             Malloc(p, who, size, b)
      PROVE  MemoryIInv'
  BY <1>7, MallocStep
<1>8. ASSUME NEW p \in Piece, NEW who \in Who, Free(p, who) PROVE MemoryIInv'
  BY <1>8, FreeStep
<1>9. ASSUME NEW p \in Piece, MallocUnhooked(p) PROVE MemoryIInv'
  BY <1>9, MallocUnhookedStep
<1>10. ASSUME NEW p \in Piece,
              FreeUnknown(p) \/ FreeUnhooked(p) \/ \E spot \in Spot : WriteAborts(p, spot)
       PROVE  MemoryIInv'
  BY <1>10, UnknownStep
<1>11. ASSUME NEW p \in Piece, NEW spot \in Spot, Write(p, spot) PROVE MemoryIInv'
  BY <1>11, WriteStep
<1>12. ASSUME NEW p \in Piece, NEW q \in Piece, NEW size \in Size, Realloc(p, q, size)
       PROVE  MemoryIInv'
  BY <1>12, ReallocStep
<1>13. ASSUME NEW p \in Piece, NEW size \in Size, ReallocRefused(p, size) PROVE MemoryIInv'
  <2>1. "malloc" \in Who
    BY DEF Who
  <2>2. QED
    BY <1>13, <2>1, FreeStep
<1>14. CASE UNCHANGED memoryVars
  BY <1>14 DEF memoryVars, flow, told, MemoryIInv, MemoryTypeOK, HooksOK, UnmemStaysInCase, Running
<1>15. QED
  BY <1>1, <1>2, <1>3, <1>4, <1>5, <1>6, <1>7, <1>8, <1>9, <1>10, <1>11, <1>12, <1>13, <1>14
     DEF MemoryNext

(* The type, the hooks and the pieces of libc together are inductive.      *)
THEOREM MemoryInductive == MemorySpec => []MemoryIInv
<1>1. MemoryInit => MemoryIInv
  BY InitStep
<1>2. MemoryIInv /\ [MemoryNext]_memoryVars => MemoryIInv'
  BY NextStep
<1>3. QED
  BY <1>1, <1>2, PTL DEF MemorySpec

(* The state of the memory check keeps its type: `allocated` within its    *)
(* width, every piece in a block of the stack or in none, as many blocks   *)
(* on the stack as the BLOCKs control is in ask for.                       *)
THEOREM MemoryTypeCorrect == MemorySpec => []MemoryTypeOK
<1>1. MemoryIInv => MemoryTypeOK
  BY DEF MemoryIInv
<1>2. QED
  BY <1>1, MemoryInductive, PTL

(* Whatever jumps out of an UNMEM, with the hooks off, leave behind: no    *)
(* piece escapes the check in a later case that has no UNMEM of its own,   *)
(* for h2_case::clear puts the hooks back (h2_case.cpp).                   *)
THEOREM MemoryUnmemCorrect == MemorySpec => []UnmemStaysInCase
<1>1. MemoryIInv => UnmemStaysInCase
  BY DEF MemoryIInv
<1>2. QED
  BY <1>1, MemoryInductive, PTL

---------------------------------------------------------------------------
(* What the helpers leave of a piece.                                      *)
LEMMA ReleasedFacts ==
  ASSUME NEW pieces \in [Piece -> State], NEW p \in Piece, NEW who \in Who
  PROVE  LET r == Released(pieces, p, who)
         IN  /\ \A q \in Piece : q # p => r[q] = pieces[q]
             /\ r[p].home = pieces[p].home /\ r[p].place = pieces[p].place
             /\ r[p].born = pieces[p].born /\ r[p].size = pieces[p].size
             /\ r[p].dirty = pieces[p].dirty /\ r[p].violated = pieces[p].violated
             /\ r[p].free_times = pieces[p].free_times + 1
             /\ r[p].forbidden = IF Complains(p, who) THEN pieces[p].forbidden ELSE "all"
<1> DEFINE n == pieces[p].free_times + 1
           pages == IF Complains(p, who) THEN pieces[p].forbidden ELSE "all"
           r1 == [pieces[p] EXCEPT !.free_times = n]
           new == [r1 EXCEPT !.forbidden = pages]
<1>1. pieces[p] \in State
  OBVIOUS
<1>2. Released(pieces, p, who) = [pieces EXCEPT ![p] = new]
  BY DEF Released
<1> HIDE DEF n, pages
<1>3. /\ new.free_times = n /\ new.forbidden = pages
      /\ new.home = pieces[p].home /\ new.place = pieces[p].place
      /\ new.born = pieces[p].born /\ new.size = pieces[p].size
      /\ new.dirty = pieces[p].dirty /\ new.violated = pieces[p].violated
  BY <1>1 DEF State
<1> HIDE DEF new
<1>4. [pieces EXCEPT ![p] = new][p] = new
      /\ \A q \in Piece : q # p => [pieces EXCEPT ![p] = new][q] = pieces[q]
  OBVIOUS
<1>5. QED
  BY <1>2, <1>3, <1>4 DEF n, pages

LEMMA TouchedFacts ==
  ASSUME piece \in [Piece -> State], NEW p \in Piece, NEW faults \in BOOLEAN,
         NEW left \in {"writes", "none"}
  PROVE  LET r == Touched(p, faults, left)
         IN  /\ \A q \in Piece : q # p => r[q] = piece[q]
             /\ r[p].home = piece[p].home /\ r[p].place = piece[p].place
             /\ r[p].born = piece[p].born /\ r[p].size = piece[p].size
             /\ r[p].free_times = piece[p].free_times
             /\ r[p].dirty = piece[p].dirty
             /\ r[p].violated = (piece[p].violated \/ faults)
             /\ r[p].forbidden = IF faults THEN left ELSE piece[p].forbidden
<1> DEFINE seen == piece[p].violated \/ faults
           pages == IF faults THEN left ELSE piece[p].forbidden
           r1 == [piece[p] EXCEPT !.violated = seen]
           new == [r1 EXCEPT !.forbidden = pages]
<1>1. piece[p] \in State
  OBVIOUS
<1>2. Touched(p, faults, left) = [piece EXCEPT ![p] = new]
  BY DEF Touched
<1> HIDE DEF seen, pages
<1>3. /\ new.violated = seen /\ new.forbidden = pages
      /\ new.home = piece[p].home /\ new.place = piece[p].place
      /\ new.born = piece[p].born /\ new.size = piece[p].size
      /\ new.dirty = piece[p].dirty /\ new.free_times = piece[p].free_times
  BY <1>1 DEF State
<1> HIDE DEF new
<1>4. [piece EXCEPT ![p] = new][p] = new
      /\ \A q \in Piece : q # p => [piece EXCEPT ![p] = new][q] = piece[q]
  OBVIOUS
<1>5. QED
  BY <1>2, <1>3, <1>4 DEF seen, pages

LEMMA NewFacts ==
  ASSUME NEW place, NEW home, NEW who, NEW size
  PROVE  LET new == NewPiece(place, home, who, size)
         IN  /\ new.place = place /\ new.home = home /\ new.size = size /\ new.born = cases
             /\ new.free_times = 0 /\ new.dirty = FALSE /\ new.violated = FALSE
             /\ new.forbidden = "guard"
BY DEF NewPiece, NoPiece

LEMMA PopFacts ==
  ASSUME piece \in [Piece -> State], Pop, NEW p \in Piece
  PROVE  /\ p \notin InTop => piece'[p] = piece[p]
         /\ p \in InTop => /\ piece'[p].home = 0 /\ piece'[p].place # "none"
                           /\ piece'[p].born = piece[p].born
                           /\ piece'[p].dirty = FALSE /\ piece'[p].violated = FALSE
                           /\ piece[p].free_times = 0 => piece'[p].free_times = 0
<1> DEFINE place == IF Faulty THEN "mapped" ELSE "unmapped"
           pages == IF Faulty THEN piece[p].forbidden ELSE "guard"
           n == Min({piece[p].free_times, 1})
           b == piece[p].born
           new == [NoPiece EXCEPT !.place = place, !.born = b, !.forbidden = pages, !.free_times = n]
<1>1. piece'[p] = IF p \in InTop THEN new ELSE piece[p]
  BY DEF Pop
<1>2. piece[p].free_times = 0 => n = 0
  <2> SUFFICES ASSUME piece[p].free_times = 0 PROVE n = 0
    OBVIOUS
  <2>1. n = Min({0, 1})
    OBVIOUS
  <2>2. Min({0, 1}) = 0
    BY DEF Min
  <2>3. QED
    BY <2>1, <2>2
<1>3. place # "none"
  OBVIOUS
<1> HIDE DEF place, pages, n, b
<1>4. /\ new.home = 0 /\ new.place = place /\ new.born = b /\ new.free_times = n
      /\ new.dirty = FALSE /\ new.violated = FALSE
  BY DEF NoPiece
<1>5. QED
  BY <1>1, <1>2, <1>3, <1>4 DEF b

---------------------------------------------------------------------------
(* A piece that a step leaves alone is as much in evidence as before.      *)
LEMMA EvidentStays ==
  ASSUME MemoryTypeOK, MemoryTypeOK', EvidenceInv, Running, ~failed,
         cases' = cases, taken \subseteq taken',
         Len(blocks') - Len(open') <= Len(blocks) - Len(open),
         NEW q \in Piece, piece'[q] = piece[q],
         \A how \in Wrongs : <<q, how>> \in wrong' => <<q, how>> \in wrong,
         Watched(q)'
  PROVE  Evident(q)'
<1>1. Watched(q)
  BY DEF Watched
<1>2. Evident(q)
  BY <1>1 DEF EvidenceInv
<1>3. /\ Len(blocks) \in Nat /\ Len(open) \in Nat /\ Len(blocks') \in Nat /\ Len(open') \in Nat
      /\ piece[q].home \in Nat
  <2>1. piece[q] \in State
    BY DEF MemoryTypeOK
  <2>2. QED
    BY <2>1 DEF MemoryTypeOK, State
<1>4. piece[q].home # 0 => piece'[q].home >= Len(blocks') - Len(open')
  BY <1>2, <1>3 DEF Evident
<1>5. QED
  BY <1>2, <1>4 DEF Evident, Wrongs

(* A free, and a realloc that gives nothing for what it frees: what is     *)
(* said of the piece freed.                                                *)
LEMMA FreeVerdict ==
  ASSUME MemoryIInv, MemoryIInv', ReturnedInv, EvidenceInv, BlameInv, NEW p \in Piece, NEW who \in Who,
         \/ Free(p, who)
         \/ who = "malloc" /\ \E size \in Size : ReallocRefused(p, size)
  PROVE  ReturnedInv' /\ EvidenceInv' /\ BlameInv'
<1>1. /\ MemoryTypeOK /\ MemoryTypeOK'
      /\ blocks \in Seq(Block) /\ piece \in [Piece -> State]
      /\ PiecesHome /\ FlowTyped /\ HistoryTyped
  BY Known DEF MemoryIInv
<1>2. /\ Running /\ piece[p].home # 0 /\ piece[p].free_times < MaxFree
      /\ blocks' = Shrunk(blocks, p) /\ piece' = Released(piece, p, who)
      /\ Failing(Complains(p, who), open)
      /\ wrong' = wrong \cup FreedWrongly(p, who)
      /\ \/ returned' = returned \cup {p} /\ taken' = taken
         \/ returned' = returned /\ taken' = taken \cup {p}
      /\ cases' = cases /\ asserted' = asserted
  BY DEF Free, ReallocRefused, Does
<1>3. /\ \A q \in Piece : q # p => piece'[q] = piece[q]
      /\ piece'[p].home = piece[p].home /\ piece'[p].place = piece[p].place
      /\ piece'[p].born = piece[p].born
      /\ piece'[p].dirty = piece[p].dirty /\ piece'[p].violated = piece[p].violated
      /\ piece'[p].free_times = piece[p].free_times + 1
      /\ piece'[p].forbidden = IF Complains(p, who) THEN piece[p].forbidden ELSE "all"
  BY <1>1, <1>2, ReleasedFacts
<1>4. piece[p].free_times \in Nat /\ piece[p].place = "mapped"
  <2>1. piece[p] \in State
    BY <1>1
  <2>2. QED
    BY <1>1, <1>2, <2>1, MemoryAssumption DEF State, PiecesHome
<1>5. phase # "dead" /\ phase' # "dead"
  BY <1>2 DEF Running, Failing
<1>6. \A q \in Piece, how \in Wrongs : q # p /\ <<q, how>> \in wrong' => <<q, how>> \in wrong
  BY <1>2 DEF FreedWrongly
<1>7. Len(blocks') = Len(blocks)
  BY <1>1, <1>2, ShrunkType DEF PiecesHome
<1>8. ReturnedInv'
  <2> SUFFICES ASSUME NEW q \in Piece
               PROVE  /\ piece'[q].place = "none" =>
                           /\ q \notin returned' \cup taken'
                           /\ \A how \in Wrongs : <<q, how>> \notin wrong'
                      /\ piece'[q].home # 0 =>
                           /\ q \in returned' => piece'[q].free_times > 0
                           /\ piece'[q].free_times > 0 \/ piece'[q].forbidden \in {"all", "writes"}
                                => q \in returned' \cup taken'
    BY DEF ReturnedInv
  <2>1. CASE q = p
    BY <1>2, <1>3, <1>4, <2>1
  <2>2. CASE q # p
    BY <1>2, <1>3, <1>5, <1>6, <2>2 DEF ReturnedInv
  <2>3. QED
    BY <2>1, <2>2
<1>9. EvidenceInv'
  <2> SUFFICES ASSUME ~failed', NEW q \in Piece, Watched(q)'
               PROVE  Evident(q)'
    BY DEF EvidenceInv
  <2>1. ~failed /\ ~Complains(p, who) /\ open' = open
    BY <1>2 DEF Failing
  <2>2. CASE q # p
    <3>1. Len(blocks') - Len(open') <= Len(blocks) - Len(open)
      BY <1>1, <1>7, <2>1 DEF FlowTyped
    <3>2. QED
      BY <1>1, <1>2, <1>3, <1>6, <2>1, <2>2, <3>1, EvidentStays
  <2>3. CASE q = p
    <3>1. Watched(p)
      BY <1>2, <1>3, <2>3 DEF Watched
    <3>2. Evident(p)
      BY <1>2, <2>1, <3>1 DEF EvidenceInv
    <3>3. piece[p].free_times = 0 /\ ~piece[p].dirty /\ who = piece[p].who
      BY <1>4, <2>1, <3>1 DEF Complains, Watched
    <3>4. p \notin returned
      BY <1>2, <1>5, <3>3 DEF ReturnedInv
    <3>5. FreedWrongly(p, who) = {}
      BY <3>3, <3>4 DEF FreedWrongly
    <3>6. wrong' = wrong
      BY <1>2, <3>5
    <3>7. /\ piece'[p].free_times = 1 /\ piece'[p].forbidden = "all"
      BY <1>3, <2>1, <3>3
    <3>8. <<p, "gap">> \notin wrong
      BY <1>2, <3>2, <3>3 DEF Evident
    <3>9. QED
      BY <1>2, <1>3, <1>7, <2>1, <2>3, <3>2, <3>6, <3>7, <3>8 DEF Evident
  <2>4. QED
    BY <2>2, <2>3
<1>10. BlameInv'
  <2>1. wrong \subseteq wrong' /\ taken \subseteq taken'
    BY <1>2
  <2>2. \A q \in Piece : (piece'[q].dirty => piece[q].dirty) /\ (piece'[q].violated => piece[q].violated)
    BY <1>3
  <2>3. failed' => wrong' # {} \/ taken' # {} \/ asserted'
    <3>1. CASE failed
      BY <1>2, <2>1, <3>1 DEF BlameInv
    <3>2. CASE Complains(p, who)
      <4>1. CASE piece[p].free_times > 0
        <5>1. p \in returned \/ p \in taken
          BY <1>2, <1>5, <4>1 DEF ReturnedInv
        <5>2. CASE p \in returned
          <6>1. <<p, "again">> \in FreedWrongly(p, who)
            BY <5>2 DEF FreedWrongly
          <6>2. QED
            BY <1>2, <6>1
        <5>3. QED
          BY <2>1, <5>1, <5>2
      <4>2. CASE who # piece[p].who
        <5>1. <<p, "mismatch">> \in FreedWrongly(p, who)
          BY <4>2 DEF FreedWrongly
        <5>2. QED
          BY <1>2, <5>1
      <4>3. CASE piece[p].dirty
        BY <2>1, <4>3 DEF BlameInv
      <4>4. QED
        BY <3>2, <4>1, <4>2, <4>3 DEF Complains
    <3>3. QED
      BY <1>2, <3>1, <3>2 DEF Failing
  <2>4. QED
    BY <2>1, <2>2, <2>3 DEF BlameInv
<1>11. QED
  BY <1>8, <1>9, <1>10

(* A piece given, outside the blocks or in one.                            *)
LEMMA MallocVerdict ==
  ASSUME MemoryIInv, MemoryIInv', ReturnedInv, EvidenceInv, BlameInv, NEW p \in Piece,
         \/ MallocUnhooked(p)
         \/ \E who \in Who, size \in Size, b \in {Root, Top} : Malloc(p, who, size, b)
  PROVE  ReturnedInv' /\ EvidenceInv' /\ BlameInv'
<1>1. /\ MemoryTypeOK /\ MemoryTypeOK'
      /\ blocks \in Seq(Block) /\ piece \in [Piece -> State]
      /\ PiecesHome /\ FlowTyped /\ HistoryTyped
  BY Known DEF MemoryIInv
<1>2. /\ Running /\ piece[p].place = "none"
      /\ phase' = phase /\ failed' = failed /\ open' = open /\ cases' = cases
      /\ returned' = returned /\ taken' = taken /\ wrong' = wrong /\ asserted' = asserted
  BY DEF MallocUnhooked, Malloc, flow, told
<1>3. PICK place \in {"mapped", "libc"}, home \in {0, Root, Top}, who \in Who, size \in Size \cup {0} :
        piece' = [piece EXCEPT ![p] = NewPiece(place, home, who, size)]
  <2>1. CASE MallocUnhooked(p)
    <3>1. "malloc" \in Who
      BY DEF Who
    <3>2. QED
      BY <2>1, <3>1 DEF MallocUnhooked, Given
  <2>2. ASSUME NEW who \in Who, NEW size \in Size, NEW b \in {Root, Top}, Malloc(p, who, size, b)
        PROVE  piece' = [piece EXCEPT ![p] = NewPiece("mapped", b, who, size)]
    BY <2>2 DEF Malloc, Given
  <2>3. QED
    BY <2>1, <2>2
<1> DEFINE new == NewPiece(place, home, who, size)
<1>4. /\ new.home = home /\ new.place # "none"
      /\ new.free_times = 0 /\ new.dirty = FALSE /\ new.violated = FALSE /\ new.forbidden = "guard"
  <2>1. /\ new.home = home /\ new.place = place
        /\ new.free_times = 0 /\ new.dirty = FALSE /\ new.violated = FALSE /\ new.forbidden = "guard"
    BY DEF NewPiece, NoPiece
  <2> HIDE DEF new
  <2>2. QED
    BY <2>1
<1> HIDE DEF new
<1>5. piece'[p] = new /\ \A q \in Piece : q # p => piece'[q] = piece[q]
  BY <1>1, <1>3 DEF new
<1>6. p \notin returned \cup taken /\ \A how \in Wrongs : <<p, how>> \notin wrong
  BY <1>2 DEF ReturnedInv, Running
<1>7. Len(blocks') = Len(blocks) /\ Len(blocks) \in Nat /\ Len(open) \in Nat
  <2>1. CASE MallocUnhooked(p)
    BY <1>1, <2>1 DEF MallocUnhooked, FlowTyped
  <2>2. ASSUME NEW w \in Who, NEW s \in Size, NEW b \in {Root, Top}, Malloc(p, w, s, b)
        PROVE  Len(blocks') = Len(blocks) /\ Len(blocks) \in Nat /\ Len(open) \in Nat
    <3>1. blocks' = Grown(b, s) /\ s \in Nat
      BY <2>2, SizeNat DEF Malloc
    <3>2. b \in DOMAIN blocks
      <4>1. Len(blocks) \in Nat /\ Len(open) \in Nat /\ Len(blocks) >= Len(open) + 3
            /\ DOMAIN blocks = 1..Len(blocks)
        BY <1>1, <1>2 DEF FlowTyped
      <4>2. b = 1 \/ b = Len(blocks)
        BY <2>2 DEF Root, Top
      <4>3. QED
        BY <4>1, <4>2
    <3>3. QED
      BY <1>1, <3>1, <3>2, GrownType DEF FlowTyped
  <2>3. QED
    BY <2>1, <2>2
<1>8. ReturnedInv'
  <2> SUFFICES ASSUME NEW q \in Piece
               PROVE  /\ piece'[q].place = "none" =>
                           /\ q \notin returned' \cup taken'
                           /\ \A how \in Wrongs : <<q, how>> \notin wrong'
                      /\ piece'[q].home # 0 =>
                           /\ q \in returned' => piece'[q].free_times > 0
                           /\ piece'[q].free_times > 0 \/ piece'[q].forbidden \in {"all", "writes"}
                                => q \in returned' \cup taken'
    BY DEF ReturnedInv
  <2>1. CASE q = p
    BY <1>2, <1>4, <1>5, <1>6, <2>1
  <2>2. CASE q # p
    BY <1>2, <1>5, <2>2 DEF ReturnedInv, Running
  <2>3. QED
    BY <2>1, <2>2
<1>9. EvidenceInv'
  <2> SUFFICES ASSUME ~failed', NEW q \in Piece, Watched(q)'
               PROVE  Evident(q)'
    BY DEF EvidenceInv
  <2>1. CASE q # p
    BY <1>1, <1>2, <1>5, <1>7, <2>1, EvidentStays
  <2>2. CASE q = p
    <3>1. home # Root
      BY <1>4, <1>5, <2>2 DEF Watched
    <3>2. home # 0 => home >= Len(blocks') - Len(open')
      BY <1>2, <1>7, <3>1 DEF Top
    <3>3. QED
      BY <1>2, <1>4, <1>5, <1>6, <2>2, <3>2 DEF Evident, Wrongs
  <2>3. QED
    BY <2>1, <2>2
<1>10. BlameInv'
  BY <1>2, <1>4, <1>5 DEF BlameInv
<1>11. QED
  BY <1>8, <1>9, <1>10

LEMMA WriteVerdict ==
  ASSUME MemoryIInv, MemoryIInv', ReturnedInv, EvidenceInv, BlameInv,
         NEW p \in Piece, NEW spot \in Spot, Write(p, spot)
  PROVE  ReturnedInv' /\ EvidenceInv' /\ BlameInv'
<1> DEFINE touched == Touched(p, Faults(p, spot), "none")
           gap == touched[p].dirty \/ spot = "gap"
           new == [touched[p] EXCEPT !.dirty = gap]
<1>1. /\ MemoryTypeOK /\ MemoryTypeOK'
      /\ blocks \in Seq(Block) /\ piece \in [Piece -> State]
      /\ PiecesHome /\ FlowTyped /\ HistoryTyped
  BY Known DEF MemoryIInv
<1>2. /\ Running /\ piece[p].home # 0
      /\ wrong' = wrong \cup Access(p, spot)
      /\ piece' = [touched EXCEPT ![p] = new]
      /\ blocks' = blocks /\ open' = open /\ phase' = phase
      /\ failed' = failed /\ cases' = cases
      /\ returned' = returned /\ taken' = taken /\ asserted' = asserted
  BY DEF Write, Does, flow
<1>3. Faults(p, spot) \in BOOLEAN
  BY DEF Faults
<1>4. /\ \A q \in Piece : q # p => touched[q] = piece[q]
      /\ touched[p].home = piece[p].home /\ touched[p].place = piece[p].place
      /\ touched[p].born = piece[p].born
      /\ touched[p].free_times = piece[p].free_times
      /\ touched[p].dirty = piece[p].dirty
      /\ touched[p].violated = (piece[p].violated \/ Faults(p, spot))
      /\ touched[p].forbidden = IF Faults(p, spot) THEN "none" ELSE piece[p].forbidden
  BY <1>1, <1>3, TouchedFacts
<1>5. touched \in [Piece -> State]
  BY <1>1, <1>3, TouchedType
<1> HIDE DEF touched
<1>6. /\ new.home = touched[p].home /\ new.place = touched[p].place /\ new.born = touched[p].born
      /\ new.free_times = touched[p].free_times /\ new.violated = touched[p].violated
      /\ new.forbidden = touched[p].forbidden /\ new.dirty = gap
  <2>1. touched[p] \in State
    BY <1>5
  <2> HIDE DEF gap
  <2>2. QED
    BY <2>1 DEF State
<1> HIDE DEF new
<1>7. piece'[p] = new /\ \A q \in Piece : q # p => piece'[q] = piece[q]
  BY <1>2, <1>4, <1>5
<1>8. /\ piece'[p].home = piece[p].home /\ piece'[p].place = piece[p].place
      /\ piece'[p].born = piece[p].born /\ piece'[p].free_times = piece[p].free_times
      /\ piece'[p].forbidden = IF Faults(p, spot) THEN "none" ELSE piece[p].forbidden
  BY <1>4, <1>6, <1>7
<1>9. piece'[p].violated = (piece[p].violated \/ Faults(p, spot))
  BY <1>4, <1>6, <1>7
<1>10. piece'[p].dirty = (piece[p].dirty \/ spot = "gap")
  BY <1>4, <1>6, <1>7
<1>11. piece[p].free_times \in Nat /\ piece[p].place = "mapped" /\ phase # "dead"
       /\ piece[p].forbidden \in {"guard", "all", "writes", "none"}
  <2>1. piece[p] \in State
    BY <1>1
  <2>2. QED
    BY <1>1, <1>2, <2>1, MemoryAssumption DEF State, PiecesHome, Running
<1>12. \A q \in Piece, how \in Wrongs : q # p /\ <<q, how>> \in wrong' => <<q, how>> \in wrong
  BY <1>2 DEF Access
<1>13. ReturnedInv'
  <2> SUFFICES ASSUME NEW q \in Piece
               PROVE  /\ piece'[q].place = "none" =>
                           /\ q \notin returned' \cup taken'
                           /\ \A how \in Wrongs : <<q, how>> \notin wrong'
                      /\ piece'[q].home # 0 =>
                           /\ q \in returned' => piece'[q].free_times > 0
                           /\ piece'[q].free_times > 0 \/ piece'[q].forbidden \in {"all", "writes"}
                                => q \in returned' \cup taken'
    BY DEF ReturnedInv
  <2>1. CASE q = p
    BY <1>2, <1>8, <1>11, <2>1 DEF ReturnedInv
  <2>2. CASE q # p
    BY <1>2, <1>7, <1>11, <1>12, <2>2 DEF ReturnedInv
  <2>3. QED
    BY <2>1, <2>2
<1>14. EvidenceInv'
  <2> SUFFICES ASSUME ~failed', NEW q \in Piece, Watched(q)'
               PROVE  Evident(q)'
    BY DEF EvidenceInv
  <2>1. CASE q # p
    <3>1. Len(blocks') - Len(open') <= Len(blocks) - Len(open)
      BY <1>1, <1>2 DEF FlowTyped
    <3>2. QED
      BY <1>1, <1>2, <1>7, <1>12, <2>1, <3>1, EvidentStays
  <2>2. CASE q = p
    <3>1. Watched(p)
      BY <1>2, <1>8, <2>2 DEF Watched
    <3>2. Evident(p)
      BY <1>2, <3>1 DEF EvidenceInv
    <3>3. Access(p, spot) = IF p \in returned THEN {<<p, "late">>}
                            ELSE IF spot = "inside" THEN {} ELSE {<<p, spot>>}
      BY DEF Access
    <3>4. p \notin returned => piece[p].free_times = 0
      BY <1>2, <1>11, <3>1 DEF ReturnedInv, Watched
    <3>5. p \in returned => piece[p].free_times > 0
      BY <1>2, <1>11 DEF ReturnedInv
    <3>6. p \in returned \/ spot = "guard" => piece'[p].violated
      BY <1>2, <1>9, <1>11, <3>2, <3>4, <3>5 DEF Evident, Faults
    <3>7. /\ piece'[p].home >= Len(blocks') - Len(open')
          /\ \/ piece'[p].violated
             \/ piece'[p].forbidden = IF piece'[p].free_times > 0 THEN "all" ELSE "guard"
      BY <1>2, <1>8, <1>9, <3>2 DEF Evident
    <3>8. \A how \in {"leak", "again", "mismatch"} : <<p, how>> \notin wrong'
      BY <1>2, <3>2, <3>3 DEF Evident, Spot
    <3>9. <<p, "gap">> \in wrong' => piece'[p].free_times = 0 /\ piece'[p].dirty
      <4>1. CASE <<p, "gap">> \in wrong
        BY <1>2, <1>8, <1>10, <3>2, <4>1 DEF Evident
      <4>2. CASE <<p, "gap">> \in Access(p, spot)
        <5>1. p \notin returned /\ spot = "gap"
          BY <3>3, <4>2
        <5>2. piece'[p].dirty
          BY <1>10, <5>1
        <5>3. QED
          BY <1>8, <3>4, <5>1, <5>2
      <4>3. QED
        BY <1>2, <4>1, <4>2
    <3>10. \A how \in {"guard", "late"} :
             <<p, how>> \in wrong' => piece'[p].home # 0 /\ piece'[p].violated
      <4> TAKE how \in {"guard", "late"}
      <4>1. CASE <<p, how>> \in wrong
        BY <1>2, <1>8, <1>9, <3>2, <4>1 DEF Evident
      <4>2. CASE <<p, how>> \in Access(p, spot)
        <5>1. p \in returned \/ spot = "guard"
          BY <3>3, <4>2 DEF Spot
        <5>2. QED
          BY <1>2, <1>8, <3>6, <5>1
      <4>3. QED
        BY <1>2, <4>1, <4>2
    <3>11. QED
      BY <2>2, <3>7, <3>8, <3>9, <3>10 DEF Evident
  <2>3. QED
    BY <2>1, <2>2
<1>15. BlameInv'
  <2>1. wrong \subseteq wrong' /\ taken' = taken
    BY <1>2
  <2>2. spot = "gap" => wrong' # {}
    BY <1>2 DEF Access
  <2>3. Faults(p, spot) => wrong' # {} \/ taken # {} \/ piece[p].violated
    <3>1. ASSUME piece[p].forbidden \in {"all", "writes"}
          PROVE  wrong' # {} \/ taken # {}
      <4>1. p \in returned \/ p \in taken
        BY <1>2, <1>11, <3>1 DEF ReturnedInv
      <4>2. QED
        BY <1>2, <4>1 DEF Access
    <3>2. ASSUME spot = "guard" PROVE wrong' # {}
      BY <1>2, <3>2 DEF Access
    <3>3. QED
      BY <1>11, <3>1, <3>2 DEF Faults
  <2>4. \A q \in Piece : piece'[q].dirty \/ piece'[q].violated => wrong' # {} \/ taken' # {}
    BY <1>7, <1>9, <1>10, <2>1, <2>2, <2>3 DEF BlameInv
  <2>5. QED
    BY <1>2, <2>1, <2>4 DEF BlameInv
<1>16. QED
  BY <1>13, <1>14, <1>15

LEMMA ReallocVerdict ==
  ASSUME MemoryIInv, MemoryIInv', ReturnedInv, EvidenceInv, BlameInv,
         NEW p \in Piece, NEW q \in Piece, NEW size \in Size, Realloc(p, q, size)
  PROVE  ReturnedInv' /\ EvidenceInv' /\ BlameInv'
<1> DEFINE faults == piece[p].forbidden = "all"
           read == Touched(p, faults, "writes")
           new == NewPiece("mapped", Top, "malloc", size)
           given == [read EXCEPT ![q] = new]
<1>1. /\ MemoryTypeOK /\ MemoryTypeOK'
      /\ blocks \in Seq(Block) /\ piece \in [Piece -> State]
      /\ PiecesHome /\ FlowTyped /\ HistoryTyped
  BY Known DEF MemoryIInv
<1>2. /\ Running /\ piece[p].home # 0 /\ piece[q].place = "none"
      /\ blocks' = Shrunk(Grown(Top, size), p)
      /\ piece' = Released(given, p, "malloc")
      /\ Failing(Complains(p, "malloc"), open)
      /\ wrong' = wrong \cup FreedWrongly(p, "malloc")
      /\ returned' = returned \cup {p} /\ taken' = taken
      /\ cases' = cases /\ asserted' = asserted
  BY DEF Realloc, Does
<1>3. p # q
  BY <1>1, <1>2 DEF PiecesHome
<1>4. /\ read \in [Piece -> State]
      /\ \A r \in Piece : r # p => read[r] = piece[r]
      /\ read[p].home = piece[p].home /\ read[p].place = piece[p].place
      /\ read[p].born = piece[p].born /\ read[p].free_times = piece[p].free_times
      /\ read[p].dirty = piece[p].dirty
      /\ read[p].violated = (piece[p].violated \/ faults)
      /\ read[p].forbidden = IF faults THEN "writes" ELSE piece[p].forbidden
  <2>1. faults \in BOOLEAN /\ "writes" \in {"writes", "none"}
    OBVIOUS
  <2> HIDE DEF faults
  <2>2. QED
    BY <1>1, <2>1, TouchedFacts, TouchedType
<1>5. /\ new.home = Top /\ new.place = "mapped"
      /\ new.free_times = 0 /\ new.dirty = FALSE /\ new.violated = FALSE /\ new.forbidden = "guard"
  BY DEF NewPiece, NoPiece
<1>6. new \in State /\ "malloc" \in Who
  <2>1. Top \in Nat /\ cases \in 0..MaxCase /\ "malloc" \in Who
    BY <1>1 DEF FlowTyped, Top, Who
  <2>2. QED
    BY <2>1, NewType
<1> HIDE DEF read, new
<1>7. /\ given \in [Piece -> State] /\ given[q] = new
      /\ \A r \in Piece : r # q => given[r] = read[r]
  BY <1>4, <1>6
<1> HIDE DEF given
<1>8. /\ \A r \in Piece : r # p => piece'[r] = given[r]
      /\ piece'[p].home = given[p].home /\ piece'[p].place = given[p].place
      /\ piece'[p].born = given[p].born
      /\ piece'[p].dirty = given[p].dirty /\ piece'[p].violated = given[p].violated
      /\ piece'[p].free_times = given[p].free_times + 1
      /\ piece'[p].forbidden = IF Complains(p, "malloc") THEN given[p].forbidden ELSE "all"
  BY <1>2, <1>6, <1>7, ReleasedFacts
<1>9. /\ \A r \in Piece : r # p /\ r # q => piece'[r] = piece[r]
      /\ piece'[q] = new
      /\ piece'[p].home = piece[p].home /\ piece'[p].place = piece[p].place
      /\ piece'[p].born = piece[p].born
      /\ piece'[p].free_times = piece[p].free_times + 1
  BY <1>3, <1>4, <1>7, <1>8
<1>10. /\ piece'[p].dirty = piece[p].dirty
       /\ piece'[p].violated = (piece[p].violated \/ faults)
       /\ ~Complains(p, "malloc") => piece'[p].forbidden = "all"
  BY <1>3, <1>4, <1>7, <1>8
<1>11. piece[p].free_times \in Nat /\ piece[p].place = "mapped"
  <2>1. piece[p] \in State
    BY <1>1
  <2>2. QED
    BY <1>1, <1>2, <2>1, MemoryAssumption DEF State, PiecesHome
<1>12. phase # "dead" /\ phase' # "dead"
  BY <1>2 DEF Running, Failing
<1>13. \A r \in Piece, how \in Wrongs : r # p /\ <<r, how>> \in wrong' => <<r, how>> \in wrong
  BY <1>2 DEF FreedWrongly
<1>14. Len(blocks') = Len(blocks) /\ Len(blocks) \in Nat /\ Len(open) \in Nat
  <2> DEFINE bs == Grown(Top, size)
  <2>0. Top \in DOMAIN blocks /\ size \in Nat /\ Len(blocks) \in Nat /\ Len(open) \in Nat
    <3>1. Len(open) \in Nat /\ Len(blocks) \in Nat /\ Len(blocks) >= Len(open) + 3
          /\ DOMAIN blocks = 1..Len(blocks)
      BY <1>1, <1>2 DEF FlowTyped
    <3>2. QED
      BY <3>1, SizeNat DEF Top
  <2>1. bs \in Seq(Block) /\ Len(bs) = Len(blocks)
    BY <1>1, <2>0, GrownType
  <2>2. piece[p].home \in DOMAIN bs
    <3>1. DOMAIN bs = DOMAIN blocks
      BY <1>1, <2>1
    <3>2. QED
      BY <1>1, <1>2, <3>1 DEF PiecesHome
  <2> HIDE DEF bs
  <2>3. Len(Shrunk(bs, p)) = Len(bs)
    BY <1>1, <2>1, <2>2, ShrunkType
  <2>4. QED
    BY <1>2, <2>0, <2>1, <2>3 DEF bs
<1>15. q \notin returned \cup taken /\ \A how \in Wrongs : <<q, how>> \notin wrong'
  BY <1>2, <1>3, <1>12, <1>13 DEF ReturnedInv
<1>16. ReturnedInv'
  <2> SUFFICES ASSUME NEW r \in Piece
               PROVE  /\ piece'[r].place = "none" =>
                           /\ r \notin returned' \cup taken'
                           /\ \A how \in Wrongs : <<r, how>> \notin wrong'
                      /\ piece'[r].home # 0 =>
                           /\ r \in returned' => piece'[r].free_times > 0
                           /\ piece'[r].free_times > 0 \/ piece'[r].forbidden \in {"all", "writes"}
                                => r \in returned' \cup taken'
    BY DEF ReturnedInv
  <2>1. CASE r = p
    BY <1>2, <1>9, <1>11, <2>1
  <2>2. CASE r = q
    BY <1>2, <1>3, <1>5, <1>9, <1>15, <2>2
  <2>3. CASE r # p /\ r # q
    BY <1>2, <1>9, <1>12, <1>13, <2>3 DEF ReturnedInv
  <2>4. QED
    BY <2>1, <2>2, <2>3
<1>17. EvidenceInv'
  <2> SUFFICES ASSUME ~failed', NEW r \in Piece, Watched(r)'
               PROVE  Evident(r)'
    BY DEF EvidenceInv
  <2>1. ~failed /\ ~Complains(p, "malloc") /\ open' = open
    BY <1>2 DEF Failing
  <2>2. CASE r # p /\ r # q
    <3>1. Len(blocks') - Len(open') <= Len(blocks) - Len(open)
      BY <1>14, <2>1
    <3>2. QED
      BY <1>1, <1>2, <1>9, <1>13, <2>1, <2>2, <3>1, EvidentStays
  <2>3. CASE r = q
    <3>1. Top >= Len(blocks') - Len(open')
      BY <1>14, <2>1 DEF Top
    <3>2. QED
      BY <1>5, <1>9, <1>15, <2>3, <3>1 DEF Evident, Wrongs
  <2>4. CASE r = p
    <3>1. Watched(p)
      BY <1>2, <1>9, <2>4 DEF Watched
    <3>2. Evident(p)
      BY <1>2, <2>1, <3>1 DEF EvidenceInv
    <3>3. piece[p].free_times = 0 /\ ~piece[p].dirty /\ "malloc" = piece[p].who
      BY <1>11, <2>1, <3>1 DEF Complains, Watched
    <3>4. p \notin returned
      BY <1>2, <1>12, <3>3 DEF ReturnedInv
    <3>5. FreedWrongly(p, "malloc") = {}
      BY <3>3, <3>4 DEF FreedWrongly
    <3>6. wrong' = wrong
      BY <1>2, <3>5
    <3>7. piece'[p].free_times = 1 /\ piece'[p].forbidden = "all"
      BY <1>9, <1>10, <2>1, <3>3
    <3>8. <<p, "gap">> \notin wrong
      BY <1>2, <3>2, <3>3 DEF Evident
    <3>9. piece[p].violated => piece'[p].violated
      BY <1>10
    <3>10. QED
      BY <1>2, <1>9, <1>14, <2>1, <2>4, <3>2, <3>6, <3>7, <3>8, <3>9 DEF Evident
  <2>5. QED
    BY <2>2, <2>3, <2>4
<1>18. BlameInv'
  <2>1. wrong \subseteq wrong' /\ taken' = taken
    BY <1>2
  <2>2. piece[p].free_times > 0 \/ faults => wrong' # {} \/ taken # {}
    <3>1. SUFFICES ASSUME piece[p].free_times > 0 \/ faults PROVE wrong' # {} \/ taken # {}
      OBVIOUS
    <3>2. p \in returned \/ p \in taken
      BY <1>2, <1>12, <3>1 DEF ReturnedInv
    <3>3. p \in returned => <<p, "again">> \in FreedWrongly(p, "malloc")
      BY DEF FreedWrongly
    <3>4. QED
      BY <1>2, <3>2, <3>3
  <2>3. failed' => wrong' # {} \/ taken' # {} \/ asserted'
    <3>1. CASE failed
      BY <1>2, <2>1, <3>1 DEF BlameInv
    <3>2. CASE Complains(p, "malloc")
      <4>1. CASE "malloc" # piece[p].who
        <5>1. <<p, "mismatch">> \in FreedWrongly(p, "malloc")
          BY <4>1 DEF FreedWrongly
        <5>2. QED
          BY <1>2, <5>1
      <4>2. CASE piece[p].dirty
        BY <2>1, <4>2 DEF BlameInv
      <4>3. QED
        BY <2>1, <2>2, <3>2, <4>1, <4>2 DEF Complains
    <3>3. QED
      BY <1>2, <3>1, <3>2 DEF Failing
  <2>4. ASSUME NEW r \in Piece, piece'[r].dirty \/ piece'[r].violated
        PROVE  wrong' # {} \/ taken' # {}
    <3>1. CASE r = p
      BY <1>10, <2>1, <2>2, <2>4, <3>1 DEF BlameInv
    <3>2. CASE r = q
      BY <1>5, <1>9, <2>4, <3>2
    <3>3. CASE r # p /\ r # q
      BY <1>9, <2>1, <2>4, <3>3 DEF BlameInv
    <3>4. QED
      BY <3>1, <3>2, <3>3
  <2>5. QED
    BY <2>3, <2>4 DEF BlameInv
<1>19. QED
  BY <1>16, <1>17, <1>18

LEMMA UnknownVerdict ==
  ASSUME MemoryIInv, MemoryIInv', ReturnedInv, EvidenceInv, BlameInv, NEW p \in Piece,
         \/ FreeUnknown(p) \/ FreeUnhooked(p)
         \/ \E spot \in Spot : WriteAborts(p, spot)
  PROVE  ReturnedInv' /\ EvidenceInv' /\ BlameInv'
<1>1. /\ MemoryTypeOK /\ MemoryTypeOK' /\ PiecesHome /\ FlowTyped /\ HistoryTyped
  BY Known DEF MemoryIInv
<1>2. /\ Running /\ returned' \in {returned, returned \cup {p}}
      /\ blocks' = blocks /\ piece' = piece /\ open' = open /\ failed' = failed
      /\ cases' = cases /\ taken' = taken /\ wrong' = wrong /\ asserted' = asserted
  BY DEF FreeUnknown, FreeUnhooked, WriteAborts, flow, told
<1>3. phase' # "dead" => phase' = phase /\ piece[p].home = 0 /\ piece[p].place # "none"
  BY <1>1 DEF FreeUnknown, FreeUnhooked, WriteAborts, flow, PiecesHome
<1>4. BlameInv'
  BY <1>2 DEF BlameInv
<1>5. CASE phase' = "dead"
  BY <1>4, <1>5 DEF ReturnedInv, EvidenceInv, Running
<1>6. CASE phase' # "dead"
  <2>1. ReturnedInv'
    <3> SUFFICES ASSUME NEW q \in Piece
                 PROVE  /\ piece'[q].place = "none" =>
                             /\ q \notin returned' \cup taken'
                             /\ \A how \in Wrongs : <<q, how>> \notin wrong'
                        /\ piece'[q].home # 0 =>
                             /\ q \in returned' => piece'[q].free_times > 0
                             /\ piece'[q].free_times > 0 \/ piece'[q].forbidden \in {"all", "writes"}
                                  => q \in returned' \cup taken'
      BY DEF ReturnedInv
    <3>1. CASE q = p
      BY <1>2, <1>3, <1>6, <3>1
    <3>2. CASE q # p
      BY <1>2, <1>3, <1>6, <3>2 DEF ReturnedInv
    <3>3. QED
      BY <3>1, <3>2
  <2>2. EvidenceInv'
    <3> SUFFICES ASSUME ~failed', NEW q \in Piece, Watched(q)' PROVE Evident(q)'
      BY DEF EvidenceInv
    <3>1. Watched(q)
      BY <1>2 DEF Watched
    <3>2. Evident(q)
      BY <1>2, <3>1 DEF EvidenceInv
    <3>3. QED
      BY <1>2, <3>2 DEF Evident
  <2>3. QED
    BY <1>4, <2>1, <2>2
<1>7. QED
  BY <1>5, <1>6

(* The steps that leave the pieces and what is told of them alone.         *)
LEMMA FlowVerdict ==
  ASSUME MemoryIInv, MemoryIInv', ReturnedInv, EvidenceInv, BlameInv,
         \/ Begin \/ Clear \/ AssertFails \/ UNCHANGED memoryVars
         \/ \E a \in Attribute : OpenBlock(a)
  PROVE  ReturnedInv' /\ EvidenceInv' /\ BlameInv'
<1>1. /\ MemoryTypeOK /\ MemoryTypeOK' /\ PiecesHome /\ FlowTyped /\ HistoryTyped
      /\ blocks \in Seq(Block)
  BY Known DEF MemoryIInv
<1>2. piece' = piece /\ returned' = returned /\ taken' = taken /\ wrong' = wrong
      /\ (phase' # "dead" => phase # "dead")
  BY DEF Begin, Clear, AssertFails, OpenBlock, memoryVars, flow, told, Failing, Running
<1>3. ReturnedInv'
  BY <1>2 DEF ReturnedInv
<1>4. BlameInv'
  <2>1. failed' => wrong # {} \/ taken # {} \/ asserted'
    BY DEF BlameInv, Begin, Clear, AssertFails, OpenBlock, memoryVars, flow, told, Failing
  <2>2. QED
    BY <1>2, <2>1 DEF BlameInv
<1>5. EvidenceInv'
  <2>1. CASE Begin
    <3>1. ASSUME NEW q \in Piece PROVE ~Watched(q)'
      <4>1. piece[q].born <= cases /\ cases' = cases + 1 /\ cases \in Nat
        BY <1>1, <2>1, MemoryAssumption DEF PiecesHome, FlowTyped, Begin
      <4>2. piece[q].born \in Nat
        <5>1. piece[q] \in State
          BY <1>1 DEF MemoryTypeOK
        <5>2. QED
          BY <5>1, MemoryAssumption DEF State
      <4>3. QED
        BY <1>2, <4>1, <4>2 DEF Watched
    <3>2. QED
      BY <3>1 DEF EvidenceInv
  <2>2. CASE Clear
    BY <2>2 DEF EvidenceInv, Clear, Running
  <2>3. CASE AssertFails
    BY <2>3 DEF EvidenceInv, AssertFails, Failing
  <2>4. ASSUME \/ UNCHANGED memoryVars
               \/ \E a \in Attribute : OpenBlock(a)
        PROVE  EvidenceInv'
    <3> SUFFICES ASSUME Running', ~failed', NEW q \in Piece, Watched(q)'
                 PROVE  Evident(q)'
      BY DEF EvidenceInv
    <3>1. Running /\ ~failed /\ cases' = cases
      BY <2>4 DEF OpenBlock, memoryVars, flow, Running
    <3>2. Len(blocks') - Len(open') <= Len(blocks) - Len(open)
      <4>1. CASE UNCHANGED memoryVars
        BY <1>1, <4>1 DEF memoryVars, flow, FlowTyped
      <4>2. ASSUME NEW a \in Attribute, OpenBlock(a)
            PROVE  Len(blocks') - Len(open') <= Len(blocks) - Len(open)
        <5>1. blocks' = Append(blocks, NewBlock(a.limit, a.noleak)) /\ open' = Append(open, a)
          BY <4>2 DEF OpenBlock
        <5>2. open \in Seq(Attribute) /\ blocks \in Seq(Block)
              /\ NewBlock(a.limit, a.noleak) \in Block
          BY <1>1, MemoryAssumption DEF FlowTyped, NewBlock, Block
        <5>3. Len(blocks') = Len(blocks) + 1 /\ Len(open') = Len(open) + 1
              /\ Len(blocks) \in Nat /\ Len(open) \in Nat
          BY <5>1, <5>2
        <5>4. QED
          BY <5>3
      <4>3. QED
        BY <2>4, <4>1, <4>2
    <3>3. QED
      BY <1>1, <1>2, <3>1, <3>2, EvidentStays
  <2>5. QED
    BY <2>1, <2>2, <2>3, <2>4
<1>6. QED
  BY <1>3, <1>4, <1>5

(* The end of a block: it tells, or there was nothing wrong in it.         *)
LEMMA PopVerdict ==
  ASSUME MemoryIInv, MemoryIInv', ReturnedInv, EvidenceInv, BlameInv, Pop,
         phase # "dead", cases' = cases, returned' = returned, taken' = taken,
         Top \in Nat, Top # Root, Top # 0,
         Running /\ ~failed /\ ~Faulty => Len(blocks') - Len(open') <= Len(blocks) - Len(open)
  PROVE  /\ ReturnedInv'
         /\ \A q \in Piece : piece'[q].dirty \/ piece'[q].violated => wrong' # {} \/ taken' # {}
         /\ wrong \subseteq wrong'
         /\ Faulty => wrong' # {} \/ taken' # {}
         /\ Running /\ ~failed /\ ~Faulty =>
              \A q \in Piece : Watched(q)' => Watched(q) /\ Evident(q)'
<1>1. /\ MemoryTypeOK /\ MemoryTypeOK'
      /\ blocks \in Seq(Block) /\ piece \in [Piece -> State]
      /\ PiecesHome /\ FlowTyped /\ HistoryTyped
  BY Known DEF MemoryIInv
<1> DEFINE L == {q \in InTop : ~blocks[Top].noleak /\ q \notin returned}
<1>2. wrong' = wrong \cup {<<p, "leak">> : p \in L}
  BY DEF Pop
<1>3. ASSUME NEW q \in Piece
      PROVE  /\ q \notin InTop => piece'[q] = piece[q]
             /\ q \in InTop => /\ piece'[q].home = 0 /\ piece'[q].place # "none"
                               /\ piece'[q].born = piece[q].born
                               /\ piece'[q].dirty = FALSE /\ piece'[q].violated = FALSE
                               /\ piece[q].free_times = 0 => piece'[q].free_times = 0
  BY <1>1, PopFacts
<1>4. Top \in Nat /\ Top # Root /\ Top # 0
  OBVIOUS
<1>5. \A q \in Piece : q \in InTop <=> piece[q].home = Top
  BY DEF InTop
<1>6. \A q \in Piece : /\ piece[q].free_times \in Nat /\ piece[q].home \in Nat
  <2> TAKE q \in Piece
  <2>1. piece[q] \in State
    BY <1>1
  <2>2. QED
    BY <2>1, MemoryAssumption DEF State
<1>7. \A q \in Piece : q \in InTop => piece[q].place = "mapped"
  BY <1>1, <1>4, <1>5 DEF PiecesHome
<1>8. \A q \in Piece, how \in Wrongs : <<q, how>> \in wrong' /\ <<q, how>> \notin wrong
        => how = "leak" /\ q \in L
  BY <1>2
<1> HIDE DEF L
<1>9. \A q \in L : q \in Piece /\ q \in InTop /\ q \notin returned /\ ~blocks[Top].noleak
  BY DEF L, InTop
<1>10. ReturnedInv'
  <2> SUFFICES ASSUME NEW q \in Piece
               PROVE  /\ piece'[q].place = "none" =>
                           /\ q \notin returned' \cup taken'
                           /\ \A how \in Wrongs : <<q, how>> \notin wrong'
                      /\ piece'[q].home # 0 =>
                           /\ q \in returned' => piece'[q].free_times > 0
                           /\ piece'[q].free_times > 0 \/ piece'[q].forbidden \in {"all", "writes"}
                                => q \in returned' \cup taken'
    BY DEF ReturnedInv
  <2>1. CASE q \in InTop
    BY <1>3, <2>1
  <2>2. CASE q \notin InTop
    BY <1>3, <1>8, <1>9, <2>2 DEF ReturnedInv
  <2>3. QED
    BY <2>1, <2>2
<1>11. wrong \subseteq wrong'
  BY <1>2
<1>12. ASSUME NEW q \in Piece, piece'[q].dirty \/ piece'[q].violated
       PROVE  wrong' # {} \/ taken' # {}
  <2>1. q \notin InTop
    BY <1>3, <1>12
  <2>2. QED
    BY <1>3, <1>11, <1>12, <2>1 DEF BlameInv
<1>13. ASSUME NEW q \in InTop, piece[q].free_times = 0, ~blocks[Top].noleak
       PROVE  q \in L
  <2>1. q \in Piece /\ piece[q].home # 0
    BY <1>4 DEF InTop
  <2>2. q \notin returned
    BY <1>6, <1>13, <2>1 DEF ReturnedInv
  <2>3. QED
    BY <1>13, <2>2 DEF L
<1>14. Faulty => wrong' # {} \/ taken' # {}
  <2>1. ASSUME NEW q \in InTop, piece[q].violated PROVE wrong' # {} \/ taken' # {}
    BY <1>11, <2>1 DEF BlameInv, InTop
  <2>2. ASSUME NEW q \in Leaked PROVE wrong' # {}
    <3>1. q \in L
      BY <1>13, <2>2 DEF Leaked
    <3>2. QED
      BY <1>2, <3>1
  <2>3. QED
    BY <2>1, <2>2 DEF Faulty
<1>15. ASSUME Running, ~failed, ~Faulty, NEW q \in Piece, Watched(q)'
       PROVE  Watched(q) /\ Evident(q)'
  <2>1. Watched(q)
    BY <1>3, <1>4, <1>5, <1>15 DEF Watched
  <2>2. Evident(q)
    BY <1>15, <2>1 DEF EvidenceInv
  <2>3. CASE q \notin InTop
    <3>1. \A how \in Wrongs : <<q, how>> \in wrong' => <<q, how>> \in wrong
      BY <1>8, <1>9, <2>3
    <3>2. piece'[q] = piece[q]
      BY <1>3, <2>3
    <3>3. Evident(q)'
      BY <1>1, <1>15, <3>1, <3>2, EvidentStays
    <3>4. QED
      BY <2>1, <3>3
  <2>4. CASE q \in InTop
    <3>1. ~piece[q].violated
      BY <1>15, <2>4 DEF Faulty
    <3>2. q \notin L
      <4>1. ASSUME q \in L PROVE FALSE
        <5>1. q \notin returned /\ q \notin taken /\ ~blocks[Top].noleak
          BY <1>9, <2>1, <4>1 DEF Watched
        <5>2. piece[q].free_times = 0
          BY <1>4, <1>5, <1>6, <2>4, <5>1 DEF ReturnedInv
        <5>3. q \in Leaked
          BY <2>4, <5>1, <5>2 DEF Leaked
        <5>4. QED
          BY <1>15, <5>3 DEF Faulty
      <4>2. QED
        BY <4>1
    <3>3. \A how \in Wrongs : <<q, how>> \in wrong' => <<q, how>> \in wrong
      BY <1>8, <3>2
    <3>4. \A how \in {"guard", "late"} : <<q, how>> \notin wrong
      BY <2>2, <3>1 DEF Evident
    <3>5. <<q, "gap">> \in wrong' => piece'[q].free_times = 0
      BY <1>3, <2>2, <2>4, <3>3 DEF Evident, Wrongs
    <3>6. Evident(q)'
      BY <1>3, <2>2, <2>4, <3>3, <3>4, <3>5 DEF Evident, Wrongs
    <3>7. QED
      BY <2>1, <3>6
  <2>5. QED
    BY <2>3, <2>4
<1>16. QED
  BY <1>10, <1>11, <1>12, <1>14, <1>15

LEMMA EndVerdict ==
  ASSUME MemoryIInv, MemoryIInv', ReturnedInv, EvidenceInv, BlameInv,
         CloseBlock \/ Teardown \/ EndSuite
  PROVE  /\ ReturnedInv' /\ EvidenceInv' /\ BlameInv'
         /\ Teardown => PassMeansClean'
<1>1. /\ MemoryTypeOK /\ MemoryTypeOK' /\ PiecesHome /\ FlowTyped /\ HistoryTyped
      /\ blocks \in Seq(Block)
  BY Known DEF MemoryIInv
<1>2. /\ Pop /\ cases' = cases /\ returned' = returned /\ taken' = taken /\ asserted' = asserted
      /\ unmem' = unmem /\ phase # "dead"
  BY DEF CloseBlock, Teardown, EndSuite, Running
<1>3. Len(blocks) \in Nat /\ Len(open) \in Nat /\ Len(blocks) >= 2
  <2>1. Len(blocks) \in Nat /\ Len(open) \in Nat
    BY <1>1 DEF FlowTyped
  <2>2. Len(blocks) >= 2
    BY <1>1, <2>1 DEF FlowTyped, CloseBlock, Teardown, EndSuite, Running
  <2>3. QED
    BY <2>1, <2>2
<1>4. Len(blocks') = Len(blocks) - 1 /\ PiecesHome' /\ blocks' \in Seq(Block)
  <2>1. Len(blocks) >= 1
    BY <1>3
  <2>2. QED
    BY <1>2, <2>1, PopStep DEF MemoryIInv
<1>5. CloseBlock \/ Teardown => Running /\ failed' = (failed \/ Faulty)
  BY DEF CloseBlock, Teardown, Failing
<1>6. EndSuite => ~Running /\ phase' = "done" /\ failed' = failed
  BY DEF EndSuite, Running
<1>8. Running /\ ~failed /\ ~Faulty => Len(blocks') - Len(open') <= Len(blocks) - Len(open)
  <2> SUFFICES ASSUME Running, ~failed, ~Faulty
               PROVE  Len(blocks') - Len(open') <= Len(blocks) - Len(open)
    OBVIOUS
  <2>1. CASE CloseBlock
    <3>1. open' = Front(open)
      BY <2>1 DEF CloseBlock, Failing
    <3>2. open # <<>> /\ open \in Seq(Attribute)
      BY <1>1, <2>1 DEF CloseBlock, FlowTyped
    <3>3. Len(open') = Len(open) - 1
      BY <3>1, <3>2, FrontType
    <3>4. QED
      BY <1>3, <1>4, <3>3
  <2>2. CASE Teardown \/ EndSuite
    <3>1. open' = open
      BY <2>2 DEF Teardown, EndSuite
    <3>2. QED
      BY <1>3, <1>4, <3>1
  <2>3. QED
    BY <2>1, <2>2
<1>9. /\ ReturnedInv'
      /\ \A q \in Piece : piece'[q].dirty \/ piece'[q].violated => wrong' # {} \/ taken' # {}
      /\ wrong \subseteq wrong'
      /\ Faulty => wrong' # {} \/ taken' # {}
      /\ Running /\ ~failed /\ ~Faulty =>
           \A q \in Piece : Watched(q)' => Watched(q) /\ Evident(q)'
  <2>1. Top \in Nat /\ Top # Root /\ Top # 0
    <3> DEFINE n == Len(blocks)
    <3>1. n \in Nat /\ n >= 2
      BY <1>3
    <3> HIDE DEF n
    <3>2. n # 1 /\ n # 0
      BY <3>1
    <3>3. QED
      BY <3>1, <3>2 DEF Top, Root, n
  <2>2. QED
    BY <1>2, <1>8, <2>1, PopVerdict
<1>10. BlameInv'
  <2>1. failed' => failed \/ Faulty
    BY <1>5, <1>6
  <2>2. failed' => wrong' # {} \/ taken' # {} \/ asserted'
    BY <1>2, <1>9, <2>1 DEF BlameInv
  <2>3. QED
    BY <1>9, <2>2 DEF BlameInv
<1>11. EvidenceInv'
  <2> SUFFICES ASSUME Running', ~failed', NEW q \in Piece, Watched(q)' PROVE Evident(q)'
    BY DEF EvidenceInv
  <2>1. CloseBlock
    BY DEF Teardown, EndSuite, Running
  <2>2. Running /\ ~failed /\ ~Faulty
    BY <1>5, <2>1
  <2>3. QED
    BY <1>9, <2>2
<1>12. ASSUME Teardown PROVE PassMeansClean'
  <2> SUFFICES ASSUME ~failed', NEW w \in wrong', Watched(w[1])'
               PROVE  w[2] = "gap" /\ piece'[w[1]].free_times = 0
    BY DEF PassMeansClean
  <2>1. PICK q \in Piece, how \in Wrongs : w = <<q, how>>
    BY <1>1 DEF MemoryTypeOK
  <2>2. Running /\ ~failed /\ ~Faulty /\ open' = <<>> /\ Len(open') = 0
    BY <1>5, <1>12 DEF Teardown
  <2>3. Watched(q) /\ Evident(q)'
    BY <1>9, <2>1, <2>2
  <2>4. piece'[q].home = 0
    <3>1. SUFFICES ASSUME piece'[q].home # 0 PROVE FALSE
      OBVIOUS
    <3>2. piece'[q] = piece[q] /\ piece[q].home # 0
      BY <1>1, <1>2, <3>1, PopFacts DEF MemoryTypeOK
    <3>3. piece[q].home >= Len(blocks) - Len(open) /\ Len(open) = 0
      BY <1>12, <2>2, <2>3, <3>2 DEF EvidenceInv, Evident, Teardown
    <3>4. piece'[q].home \in DOMAIN blocks' /\ DOMAIN blocks' = 1..(Len(blocks) - 1)
      BY <1>4, <3>1 DEF PiecesHome
    <3>5. QED
      BY <1>3, <3>2, <3>3, <3>4
  <2>5. how = "gap" /\ piece'[q].free_times = 0
    BY <2>1, <2>3, <2>4 DEF Evident, Wrongs
  <2>6. QED
    BY <2>1, <2>5
<1>13. QED
  BY <1>9, <1>10, <1>11, <1>12

LEMMA VerdictStart == MemoryInit => ReturnedInv /\ EvidenceInv /\ BlameInv /\ PassMeansClean
<1> SUFFICES ASSUME MemoryInit
             PROVE  ReturnedInv /\ EvidenceInv /\ BlameInv /\ PassMeansClean
  OBVIOUS
<1>1. /\ phase = "ready" /\ ~failed /\ returned = {} /\ taken = {} /\ wrong = {}
      /\ \A p \in Piece : piece[p] = NoPiece
  BY DEF MemoryInit
<1>2. NoPiece.home = 0 /\ ~NoPiece.dirty /\ ~NoPiece.violated
  BY DEF NoPiece
<1>3. ReturnedInv /\ EvidenceInv /\ PassMeansClean
  BY <1>1, <1>2 DEF ReturnedInv, EvidenceInv, PassMeansClean, Running
<1>4. BlameInv
  BY <1>1, <1>2 DEF BlameInv
<1>5. QED
  BY <1>3, <1>4

LEMMA VerdictStep ==
  ASSUME MemoryIInv, MemoryIInv', VerdictInv, [MemoryNext]_memoryVars
  PROVE  VerdictInv'
<1>1. ReturnedInv /\ EvidenceInv /\ BlameInv
  BY DEF VerdictInv
<1>2. ReturnedInv' /\ EvidenceInv' /\ BlameInv'
  <2>1. CASE \/ Begin \/ Clear \/ AssertFails \/ UNCHANGED memoryVars
             \/ \E a \in Attribute : OpenBlock(a)
    BY <1>1, <2>1, FlowVerdict
  <2>2. CASE CloseBlock \/ Teardown \/ EndSuite
    BY <1>1, <2>2, EndVerdict
  <2>3. ASSUME NEW p \in Piece, NEW who \in Who, NEW size \in Size, NEW b \in {Root, Top},
               Malloc(p, who, size, b)
        PROVE  ReturnedInv' /\ EvidenceInv' /\ BlameInv'
    BY <1>1, <2>3, MallocVerdict
  <2>4. ASSUME NEW p \in Piece, NEW who \in Who, Free(p, who)
        PROVE  ReturnedInv' /\ EvidenceInv' /\ BlameInv'
    BY <1>1, <2>4, FreeVerdict
  <2>5. ASSUME NEW p \in Piece, MallocUnhooked(p)
        PROVE  ReturnedInv' /\ EvidenceInv' /\ BlameInv'
    BY <1>1, <2>5, MallocVerdict
  <2>6. ASSUME NEW p \in Piece,
               FreeUnknown(p) \/ FreeUnhooked(p) \/ \E spot \in Spot : WriteAborts(p, spot)
        PROVE  ReturnedInv' /\ EvidenceInv' /\ BlameInv'
    BY <1>1, <2>6, UnknownVerdict
  <2>7. ASSUME NEW p \in Piece, NEW spot \in Spot, Write(p, spot)
        PROVE  ReturnedInv' /\ EvidenceInv' /\ BlameInv'
    BY <1>1, <2>7, WriteVerdict
  <2>8. ASSUME NEW p \in Piece, NEW q \in Piece, NEW size \in Size, Realloc(p, q, size)
        PROVE  ReturnedInv' /\ EvidenceInv' /\ BlameInv'
    BY <1>1, <2>8, ReallocVerdict
  <2>9. ASSUME NEW p \in Piece, NEW size \in Size, ReallocRefused(p, size)
        PROVE  ReturnedInv' /\ EvidenceInv' /\ BlameInv'
    <3>1. "malloc" \in Who
      BY DEF Who
    <3>2. QED
      BY <1>1, <2>9, <3>1, FreeVerdict
  <2>10. QED
    BY <2>1, <2>2, <2>3, <2>4, <2>5, <2>6, <2>7, <2>8, <2>9 DEF MemoryNext
<1>3. PassMeansClean'
  <2>1. CASE Teardown
    BY <1>1, <2>1, EndVerdict
  <2>2. CASE UNCHANGED memoryVars
    BY <2>2 DEF memoryVars, flow, told, VerdictInv, PassMeansClean, Watched
  <2>3. CASE phase' # "ended"
    BY <2>3 DEF PassMeansClean
  <2>4. MemoryNext /\ ~Teardown => phase' # "ended"
    BY DEF MemoryNext, Begin, CloseBlock, AssertFails, Clear, EndSuite, OpenBlock, Malloc, Free,
           MallocUnhooked, FreeUnknown, FreeUnhooked, Write, WriteAborts, Realloc, ReallocRefused,
           flow, Failing, Running
  <2>5. QED
    BY <2>1, <2>2, <2>3, <2>4
<1>4. QED
  BY <1>2, <1>3 DEF VerdictInv

(* The verdict of a case on its memory is right both ways, in whatever     *)
(* order blocks, frees, reallocs and faults come: a case that passes has   *)
(* done nothing wrong that its blocks could see, and one that does nothing *)
(* wrong passes.                                                           *)
THEOREM MemoryVerdictRight == MemorySpec => []PassIffClean
<1>1. MemoryInit => VerdictInv
  BY VerdictStart DEF VerdictInv
<1>2. MemoryIInv /\ MemoryIInv' /\ VerdictInv /\ [MemoryNext]_memoryVars => VerdictInv'
  BY VerdictStep
<1>3. VerdictInv => PassIffClean
  <2>1. BlameInv => CleanPasses
    BY DEF BlameInv, CleanPasses
  <2>2. QED
    BY <2>1 DEF VerdictInv, PassIffClean
<1>4. QED
  BY <1>1, <1>2, <1>3, MemoryInductive, PTL DEF MemorySpec

---------------------------------------------------------------------------
(* No address is as high as the width of `allocated`: 48 bits of 64.       *)
Mappable == \A size \in Size : NoLimit + size < Wrap

HoldingOf(pieces, b) == {p \in Piece : pieces[p].home = b /\ pieces[p].free_times = 0}
HeldOf(pieces, b) == UNION {{p} \X (1..pieces[p].size) : p \in HoldingOf(pieces, b)}

(* What the accounts of block b are in a stack and with pieces that need   *)
(* not be those of a state: a realloc gives before it frees.               *)
Sound(bs, pieces, b) ==
  /\ IsFiniteSet(HeldOf(pieces, b))
  /\ (\A p \in Piece : pieces[p].home = b => pieces[p].free_times < 2) =>
       /\ bs[b].allocated = Cardinality(HeldOf(pieces, b))
       /\ bs[b].allocated <= bs[b].footprint
       /\ bs[b].footprint <= bs[b].limit

AccountsInv == \A b \in DOMAIN blocks : Sound(blocks, piece, b)

LEMMA SoundBalances == AccountsInv => AccountsBalance
<1>1. \A b : HoldingOf(piece, b) = Holding(b)
  BY DEF HoldingOf, Holding
<1>2. \A b : HeldOf(piece, b) = Held(b)
  BY <1>1 DEF HeldOf, Held
<1>3. QED
  BY <1>2 DEF AccountsInv, AccountsBalance, Sound, Balanced

---------------------------------------------------------------------------
(* Bytes added and bytes taken away.                                       *)
LEMMA Bytes ==
  ASSUME NEW p, NEW n \in Nat
  PROVE  IsFiniteSet({p} \X (1..n)) /\ Cardinality({p} \X (1..n)) = n
<1>1. IsFiniteSet(1..n) /\ Cardinality(1..n) = n
  <2>1. IsFiniteSet(1..n) /\ Cardinality(1..n) = IF 1 > n THEN 0 ELSE n - 1 + 1
    BY FS_Interval
  <2>2. QED
    BY <2>1
<1>2. IsFiniteSet({p}) /\ Cardinality({p}) = 1
  BY FS_Singleton
<1>3. IsFiniteSet({p} \X (1..n)) /\ Cardinality({p} \X (1..n)) = Cardinality({p}) * Cardinality(1..n)
  BY <1>1, <1>2, FS_Product
<1>4. QED
  BY <1>1, <1>2, <1>3

LEMMA AddBytes ==
  ASSUME NEW S, IsFiniteSet(S), NEW p, NEW n \in Nat, S \cap ({p} \X (1..n)) = {}
  PROVE  /\ IsFiniteSet(S \cup ({p} \X (1..n)))
         /\ Cardinality(S \cup ({p} \X (1..n))) = Cardinality(S) + n
<1> DEFINE T == {p} \X (1..n)
<1>1. IsFiniteSet(T) /\ Cardinality(T) = n
  BY Bytes
<1>2. S \cap T = {}
  OBVIOUS
<1> HIDE DEF T
<1>3. /\ IsFiniteSet(S \cup T)
      /\ Cardinality(S \cup T) = Cardinality(S) + Cardinality(T) - Cardinality(S \cap T)
  BY <1>1, FS_Union
<1>4. Cardinality(S \cap T) = 0
  BY <1>2, FS_EmptySet
<1>5. Cardinality(S) \in Nat
  BY FS_CardinalityType
<1>6. Cardinality(S \cup T) = Cardinality(S) + n
  BY <1>1, <1>3, <1>4, <1>5
<1>7. QED
  BY <1>3, <1>6 DEF T

LEMMA RemoveBytes ==
  ASSUME NEW S, IsFiniteSet(S), NEW p, NEW n \in Nat, {p} \X (1..n) \subseteq S
  PROVE  /\ IsFiniteSet(S \ ({p} \X (1..n)))
         /\ Cardinality(S \ ({p} \X (1..n))) = Cardinality(S) - n
         /\ n <= Cardinality(S)
<1> DEFINE T == {p} \X (1..n)
<1>1. IsFiniteSet(T) /\ Cardinality(T) = n
  BY Bytes
<1>2. S \cap T = T /\ T \in SUBSET S
  OBVIOUS
<1> HIDE DEF T
<1>3. IsFiniteSet(S \ T) /\ Cardinality(S \ T) = Cardinality(S) - Cardinality(S \cap T)
  BY FS_Difference
<1>4. Cardinality(T) <= Cardinality(S)
  BY <1>2, FS_Subset
<1>5. QED
  BY <1>1, <1>2, <1>3, <1>4 DEF T

---------------------------------------------------------------------------
(* A block neither whose account nor whose pieces change.                  *)
LEMMA SoundStays ==
  ASSUME NEW bs, NEW cs, NEW pieces, NEW others, NEW b,
         cs[b] = bs[b], Sound(bs, pieces, b),
         \A p \in Piece : (pieces[p].home = b) <=> (others[p].home = b),
         \A p \in Piece : pieces[p].home = b =>
           others[p].free_times = pieces[p].free_times /\ others[p].size = pieces[p].size
  PROVE  Sound(cs, others, b)
<1>1. HoldingOf(others, b) = HoldingOf(pieces, b)
  BY DEF HoldingOf
<1>2. \A p \in HoldingOf(pieces, b) : others[p].size = pieces[p].size
  BY DEF HoldingOf
<1>3. HeldOf(others, b) = HeldOf(pieces, b)
  BY <1>1, <1>2 DEF HeldOf
<1>4. (\A p \in Piece : others[p].home = b => others[p].free_times < 2) <=>
      (\A p \in Piece : pieces[p].home = b => pieces[p].free_times < 2)
  OBVIOUS
<1>5. QED
  BY <1>3, <1>4 DEF Sound

(* From the first stack and pieces to the others, block b has given piece  *)
(* q of `size` bytes, within its limit.                                    *)
Gives(bs, cs, pieces, others, b, q, size, sum) ==
  /\ pieces \in [Piece -> State] /\ others \in [Piece -> State]
  /\ b \in Nat /\ q \in Piece /\ size \in Size
  /\ sum = (bs[b].allocated + size) % Wrap
  /\ bs[b] \in Block /\ bs[b].limit >= sum
  /\ cs[b].allocated = sum
  /\ cs[b].footprint = Max({bs[b].footprint, sum})
  /\ cs[b].limit = bs[b].limit
  /\ pieces[q].home # b
  /\ others[q].home = b /\ others[q].size = size /\ others[q].free_times = 0
  /\ \A p \in Piece : p # q => others[p] = pieces[p]

LEMMA SoundGiven ==
  ASSUME Mappable, NEW bs, NEW cs, NEW pieces, NEW others, NEW b, NEW q, NEW size, NEW sum,
         Gives(bs, cs, pieces, others, b, q, size, sum), Sound(bs, pieces, b)
  PROVE  Sound(cs, others, b)
<1> USE DEF Gives
<1> DEFINE bytes == {q} \X (1..size)
           held == HeldOf(pieces, b)
<1>1. size \in Nat
  BY SizeNat
<1>2. HoldingOf(others, b) = HoldingOf(pieces, b) \cup {q}
  BY DEF HoldingOf
<1>3. q \notin HoldingOf(pieces, b)
  BY DEF HoldingOf
<1>4. \A p \in HoldingOf(pieces, b) : others[p] = pieces[p]
  BY <1>3 DEF HoldingOf
<1>5. HeldOf(others, b) = held \cup bytes
  BY <1>2, <1>4 DEF HeldOf
<1>6. held \cap bytes = {}
  BY <1>3 DEF HeldOf
<1>7. IsFiniteSet(held)
  BY DEF Sound
<1>8. /\ IsFiniteSet(HeldOf(others, b))
      /\ Cardinality(HeldOf(others, b)) = Cardinality(held) + size
  <2> HIDE DEF held
  <2>1. /\ IsFiniteSet(held \cup ({q} \X (1..size)))
        /\ Cardinality(held \cup ({q} \X (1..size))) = Cardinality(held) + size
    <3>1. held \cap ({q} \X (1..size)) = {}
      BY <1>6
    <3>2. ASSUME NEW S, IsFiniteSet(S), NEW n \in Nat, S \cap ({q} \X (1..n)) = {}
          PROVE  /\ IsFiniteSet(S \cup ({q} \X (1..n)))
                 /\ Cardinality(S \cup ({q} \X (1..n))) = Cardinality(S) + n
      BY <3>2, AddBytes
    <3> HIDE DEF bytes
    <3>3. QED
      BY <1>1, <1>7, <3>1, <3>2
  <2>2. QED
    BY <1>5, <2>1
<1>9. ASSUME \A p \in Piece : others[p].home = b => others[p].free_times < 2
      PROVE  /\ cs[b].allocated = Cardinality(HeldOf(others, b))
             /\ cs[b].allocated <= cs[b].footprint
             /\ cs[b].footprint <= cs[b].limit
  <2>1. \A p \in Piece : pieces[p].home = b => pieces[p].free_times < 2
    BY <1>9
  <2>2. /\ bs[b].allocated = Cardinality(held)
        /\ bs[b].allocated <= bs[b].footprint
        /\ bs[b].footprint <= bs[b].limit
    BY <2>1 DEF Sound
  <2> DEFINE a == bs[b].allocated
             f == bs[b].footprint
             l == bs[b].limit
             n == a + size
  <2>3. a \in Nat /\ f \in Nat /\ l \in Nat /\ l <= NoLimit /\ NoLimit \in Nat /\ Wrap \in Nat
    BY MemoryAssumption DEF Block
  <2>4. a <= f /\ f <= l
    BY <2>2
  <2> HIDE DEF a, f, l
  <2>5. n \in 0..(Wrap - 1)
    <3>1. NoLimit + size < Wrap
      BY DEF Mappable
    <3>2. QED
      BY <1>1, <2>3, <2>4, <3>1
  <2> HIDE DEF n
  <2>6. n % Wrap = n
    BY <2>3, <2>5
  <2>7. cs[b].allocated = n /\ cs[b].footprint = Max({f, n}) /\ cs[b].limit = l /\ n <= l
    BY <2>6, <2>3 DEF a, f, l, n
  <2>8. Max({f, n}) \in {f, n} /\ f <= Max({f, n}) /\ n <= Max({f, n})
    <3> DEFINE S == {f, n}
    <3>1. n \in Int /\ f \in Int
      BY <2>3, <2>5
    <3>2. \E x \in S : \A y \in S : x >= y
      <4>1. CASE f >= n
        BY <3>1, <4>1
      <4>2. CASE ~(f >= n)
        BY <3>1, <4>2
      <4>3. QED
        BY <4>1, <4>2
    <3>3. Max(S) \in S /\ \A y \in S : Max(S) >= y
      BY <3>2 DEF Max
    <3>4. QED
      BY <3>1, <3>3
  <2>9. n = Cardinality(held) + size
    BY <2>2 DEF n, a
  <2>10. QED
    BY <1>8, <2>4, <2>7, <2>8, <2>9
<1>10. QED
  BY <1>8, <1>9 DEF Sound

(* The block of a piece that is freed.                                     *)
LEMMA SoundFreed ==
  ASSUME NEW bs, NEW cs, NEW pieces \in [Piece -> State], NEW others \in [Piece -> State], NEW p \in Piece,
         bs[pieces[p].home] \in Block,
         cs[pieces[p].home].allocated = (bs[pieces[p].home].allocated - pieces[p].size) % Wrap,
         cs[pieces[p].home].footprint = bs[pieces[p].home].footprint,
         cs[pieces[p].home].limit = bs[pieces[p].home].limit,
         others[p].home = pieces[p].home, others[p].size = pieces[p].size,
         others[p].free_times = pieces[p].free_times + 1,
         \A q \in Piece : q # p => others[q] = pieces[q],
         Sound(bs, pieces, pieces[p].home)
  PROVE  Sound(cs, others, pieces[p].home)
<1> DEFINE b == pieces[p].home
           size == pieces[p].size
           bytes == {p} \X (1..size)
           held == HeldOf(pieces, b)
<1>1. size \in Nat /\ pieces[p].free_times \in Nat
  <2>1. pieces[p] \in State
    OBVIOUS
  <2>2. size \in Size \cup {0}
    BY <2>1 DEF State
  <2>3. pieces[p].free_times \in Nat
    BY <2>1, MemoryAssumption DEF State
  <2>4. QED
    BY <2>2, <2>3, SizeNat
<1>2. HoldingOf(others, b) = HoldingOf(pieces, b) \ {p}
  BY <1>1 DEF HoldingOf
<1>3. \A q \in HoldingOf(pieces, b) \ {p} : others[q] = pieces[q]
  BY DEF HoldingOf
<1>4. HeldOf(others, b) = held \ bytes
  BY <1>2, <1>3 DEF HeldOf
<1>5. IsFiniteSet(held)
  BY DEF Sound
<1>6. IsFiniteSet(HeldOf(others, b))
  <2>1. HeldOf(others, b) \in SUBSET held
    BY <1>4
  <2>2. QED
    BY <1>5, <2>1, FS_Subset
<1>7. ASSUME \A q \in Piece : others[q].home = b => others[q].free_times < 2
      PROVE  /\ cs[b].allocated = Cardinality(HeldOf(others, b))
             /\ cs[b].allocated <= cs[b].footprint
             /\ cs[b].footprint <= cs[b].limit
  <2>1. pieces[p].free_times = 0
    <3>1. pieces[p].free_times + 1 < 2
      BY <1>7
    <3>2. QED
      BY <1>1, <3>1
  <2>2. \A q \in Piece : pieces[q].home = b => pieces[q].free_times < 2
    BY <1>7, <2>1
  <2>3. /\ bs[b].allocated = Cardinality(held)
        /\ bs[b].allocated <= bs[b].footprint
        /\ bs[b].footprint <= bs[b].limit
    BY <2>2 DEF Sound
  <2>4. bytes \subseteq held
    BY <2>1 DEF HeldOf, HoldingOf
  <2>5. /\ Cardinality(HeldOf(others, b)) = Cardinality(held) - size
        /\ size <= Cardinality(held)
    <3> HIDE DEF held, size
    <3>1. /\ Cardinality(held \ ({p} \X (1..size))) = Cardinality(held) - size
          /\ size <= Cardinality(held)
      BY <1>1, <1>5, <2>4, RemoveBytes
    <3>2. QED
      BY <1>4, <3>1
  <2> DEFINE a == bs[b].allocated
             n == a - size
  <2>6. a \in 0..(Wrap - 1) /\ Wrap \in Nat /\ bs[b].footprint \in Nat
    BY MemoryAssumption DEF Block
  <2>7. size <= a
    BY <2>3, <2>5
  <2> HIDE DEF a
  <2>8. n \in 0..(Wrap - 1) /\ n <= a
    BY <1>1, <2>6, <2>7
  <2>9. n % Wrap = n
    BY <2>6, <2>8
  <2>10. cs[b].allocated = n
    BY <2>9 DEF a
  <2>11. n <= bs[b].footprint
    BY <1>1, <2>3, <2>6, <2>8 DEF a
  <2>12. n = Cardinality(HeldOf(others, b))
    BY <2>3, <2>5 DEF a
  <2>13. QED
    BY <2>3, <2>10, <2>11, <2>12
<1>8. QED
  BY <1>6, <1>7 DEF Sound

(* What the helpers leave of a block.                                      *)
LEMMA GrownFacts ==
  ASSUME blocks \in Seq(Block), NEW b \in DOMAIN blocks, NEW size \in Nat
  PROVE  LET cs == Grown(b, size)
         IN  /\ cs[b].allocated = (blocks[b].allocated + size) % Wrap
             /\ cs[b].footprint = Max({blocks[b].footprint, (blocks[b].allocated + size) % Wrap})
             /\ cs[b].limit = blocks[b].limit
             /\ \A c \in DOMAIN blocks : c # b => cs[c] = blocks[c]
<1> DEFINE allocated == (blocks[b].allocated + size) % Wrap
           highest == Max({blocks[b].footprint, allocated})
           new == [[blocks[b] EXCEPT !.allocated = allocated] EXCEPT !.footprint = highest]
<1>1. blocks[b] \in Block
  OBVIOUS
<1>2. Grown(b, size) = [blocks EXCEPT ![b] = new]
  BY DEF Grown
<1> HIDE DEF allocated, highest
<1>3. new.allocated = allocated /\ new.footprint = highest /\ new.limit = blocks[b].limit
  BY <1>1 DEF Block
<1> HIDE DEF new
<1>4. /\ [blocks EXCEPT ![b] = new][b] = new
      /\ \A c \in DOMAIN blocks : c # b => [blocks EXCEPT ![b] = new][c] = blocks[c]
  OBVIOUS
<1>5. QED
  BY <1>2, <1>3, <1>4 DEF allocated, highest

LEMMA ShrunkFacts ==
  ASSUME NEW bs \in Seq(Block), NEW p \in Piece, piece[p].home \in DOMAIN bs
  PROVE  LET cs == Shrunk(bs, p)
             b  == piece[p].home
         IN  /\ cs[b].allocated = (bs[b].allocated - piece[p].size) % Wrap
             /\ cs[b].footprint = bs[b].footprint
             /\ cs[b].limit = bs[b].limit
             /\ \A c \in DOMAIN bs : c # b => cs[c] = bs[c]
<1> DEFINE b == piece[p].home
           allocated == (bs[b].allocated - piece[p].size) % Wrap
           new == [bs[b] EXCEPT !.allocated = allocated]
<1>1. bs[b] \in Block
  OBVIOUS
<1>2. Shrunk(bs, p) = [bs EXCEPT ![b] = new]
  BY DEF Shrunk
<1> HIDE DEF allocated
<1>3. new.allocated = allocated /\ new.footprint = bs[b].footprint /\ new.limit = bs[b].limit
  BY <1>1 DEF Block
<1> HIDE DEF new, b
<1>4. b \in DOMAIN bs
  BY DEF b
<1>5. /\ [bs EXCEPT ![b] = new][b] = new
      /\ \A c \in DOMAIN bs : c # b => [bs EXCEPT ![b] = new][c] = bs[c]
  BY <1>4
<1>6. QED
  BY <1>2, <1>3, <1>5 DEF allocated, b

---------------------------------------------------------------------------
LEMMA MallocAccounts ==
  ASSUME Mappable, MemoryIInv, MemoryIInv', AccountsInv, NEW p \in Piece, NEW who \in Who, NEW size \in Size,
         NEW b \in {Root, Top}, Malloc(p, who, size, b)
  PROVE  AccountsInv'
<1>1. /\ blocks \in Seq(Block) /\ blocks' \in Seq(Block)
      /\ piece \in [Piece -> State] /\ piece' \in [Piece -> State]
      /\ PiecesHome /\ FlowTyped
  BY Known DEF MemoryIInv, MemoryTypeOK
<1> DEFINE new == NewPiece("mapped", b, who, size)
<1>2. /\ Running /\ piece[p].place = "none" /\ ~Refuses(b, size)
      /\ blocks' = Grown(b, size) /\ piece' = [piece EXCEPT ![p] = new]
  BY DEF Malloc, Given
<1>3. new.home = b /\ new.size = size /\ new.free_times = 0
  BY DEF NewPiece, NoPiece
<1> HIDE DEF new
<1>4. piece'[p] = new /\ \A q \in Piece : q # p => piece'[q] = piece[q]
  BY <1>1, <1>2
<1>5. piece[p].home = 0
  BY <1>1, <1>2 DEF PiecesHome
<1>6. b \in DOMAIN blocks /\ b \in Nat /\ b # 0
  <2>1. Len(open) \in Nat /\ Len(blocks) >= Len(open) + 3 /\ DOMAIN blocks = 1..Len(blocks)
        /\ Len(blocks) \in Nat
    BY <1>1, <1>2 DEF FlowTyped
  <2>2. b = 1 \/ b = Len(blocks)
    BY DEF Root, Top
  <2>3. QED
    BY <2>1, <2>2
<1>7. Len(blocks') = Len(blocks) /\ DOMAIN blocks' = DOMAIN blocks
  <2>1. Len(blocks') = Len(blocks)
    BY <1>1, <1>2, <1>6, SizeNat, GrownType
  <2>2. QED
    BY <1>1, <2>1
<1>8. /\ blocks'[b].allocated = (blocks[b].allocated + size) % Wrap
      /\ blocks'[b].footprint = Max({blocks[b].footprint, (blocks[b].allocated + size) % Wrap})
      /\ blocks'[b].limit = blocks[b].limit
      /\ \A c \in DOMAIN blocks : c # b => blocks'[c] = blocks[c]
  BY <1>1, <1>2, <1>6, SizeNat, GrownFacts
<1>9. Sound(blocks', piece', b)
  <2>1. blocks[b] \in Block
    BY <1>1, <1>6
  <2> DEFINE sum == (blocks[b].allocated + size) % Wrap
  <2>2. blocks[b].limit >= sum
    <3>1. blocks[b].allocated + size \in Int
      BY <2>1, SizeNat, MemoryAssumption DEF Block
    <3>2. sum \in Int /\ blocks[b].limit \in Int
      BY <2>1, <3>1, Modulus DEF Block
    <3>3. ~(blocks[b].limit < sum)
      BY <1>2 DEF Refuses
    <3> HIDE DEF sum
    <3>4. QED
      BY <3>2, <3>3
  <2>3. Sound(blocks, piece, b)
    BY <1>6 DEF AccountsInv
  <2>4. piece[p].home # b
    BY <1>5, <1>6
  <2>5. piece'[p].home = b /\ piece'[p].size = size /\ piece'[p].free_times = 0
    BY <1>3, <1>4
  <2>6. /\ sum = (blocks[b].allocated + size) % Wrap
        /\ blocks'[b].allocated = sum
        /\ blocks'[b].footprint = Max({blocks[b].footprint, sum})
        /\ blocks'[b].limit = blocks[b].limit
    BY <1>8
  <2> HIDE DEF sum
  <2>7. QED
    <3>1. Gives(blocks, blocks', piece, piece', b, p, size, sum)
      BY <1>1, <1>4, <1>6, <2>1, <2>2, <2>4, <2>5, <2>6 DEF Gives
    <3>2. QED
      BY <2>3, <3>1, SoundGiven
<1>10. ASSUME NEW c \in DOMAIN blocks, c # b PROVE Sound(blocks', piece', c)
  <2>1. Sound(blocks, piece, c) /\ blocks'[c] = blocks[c] /\ c # 0
    BY <1>1, <1>8, <1>10 DEF AccountsInv
  <2>2. \A q \in Piece : (piece[q].home = c) <=> (piece'[q].home = c)
    BY <1>3, <1>4, <1>5, <1>10, <2>1
  <2>3. \A q \in Piece : piece[q].home = c =>
          piece'[q].free_times = piece[q].free_times /\ piece'[q].size = piece[q].size
    BY <1>4, <1>5, <2>1
  <2>4. QED
    BY <2>1, <2>2, <2>3, SoundStays
<1>11. QED
  BY <1>7, <1>9, <1>10 DEF AccountsInv

LEMMA FreeAccounts ==
  ASSUME MemoryIInv, MemoryIInv', AccountsInv, NEW p \in Piece, NEW who \in Who,
         \/ Free(p, who)
         \/ who = "malloc" /\ \E size \in Size : ReallocRefused(p, size)
  PROVE  AccountsInv'
<1>1. /\ blocks \in Seq(Block) /\ blocks' \in Seq(Block)
      /\ piece \in [Piece -> State] /\ piece' \in [Piece -> State]
      /\ PiecesHome /\ FlowTyped
  BY Known DEF MemoryIInv, MemoryTypeOK
<1>2. /\ piece[p].home # 0
      /\ blocks' = Shrunk(blocks, p) /\ piece' = Released(piece, p, who)
  BY DEF Free, ReallocRefused
<1>3. piece[p].home \in DOMAIN blocks
  BY <1>1, <1>2 DEF PiecesHome
<1>4. /\ \A q \in Piece : q # p => piece'[q] = piece[q]
      /\ piece'[p].home = piece[p].home /\ piece'[p].size = piece[p].size
      /\ piece'[p].free_times = piece[p].free_times + 1
  BY <1>1, <1>2, ReleasedFacts
<1>5. DOMAIN blocks' = DOMAIN blocks
  <2>1. Len(blocks') = Len(blocks)
    BY <1>1, <1>2, <1>3, ShrunkType
  <2>2. QED
    BY <1>1, <2>1
<1>6. /\ blocks'[piece[p].home].allocated = (blocks[piece[p].home].allocated - piece[p].size) % Wrap
      /\ blocks'[piece[p].home].footprint = blocks[piece[p].home].footprint
      /\ blocks'[piece[p].home].limit = blocks[piece[p].home].limit
      /\ \A c \in DOMAIN blocks : c # piece[p].home => blocks'[c] = blocks[c]
  BY <1>1, <1>2, <1>3, ShrunkFacts
<1>7. Sound(blocks', piece', piece[p].home)
  <2>1. blocks[piece[p].home] \in Block
    BY <1>1, <1>3
  <2>2. Sound(blocks, piece, piece[p].home)
    BY <1>3 DEF AccountsInv
  <2>3. QED
    BY <1>1, <1>4, <1>6, <2>1, <2>2, SoundFreed
<1>8. ASSUME NEW c \in DOMAIN blocks, c # piece[p].home PROVE Sound(blocks', piece', c)
  <2>1. Sound(blocks, piece, c) /\ blocks'[c] = blocks[c]
    BY <1>6, <1>8 DEF AccountsInv
  <2>2. \A q \in Piece : (piece[q].home = c) <=> (piece'[q].home = c)
    BY <1>4
  <2>3. \A q \in Piece : piece[q].home = c =>
          piece'[q].free_times = piece[q].free_times /\ piece'[q].size = piece[q].size
    BY <1>4, <1>8
  <2>4. QED
    BY <2>1, <2>2, <2>3, SoundStays
<1>9. QED
  BY <1>5, <1>7, <1>8 DEF AccountsInv

(* A realloc: the block on top gives, then the one of the piece is told of *)
(* the free, which may be the same.                                        *)
LEMMA ReallocAccounts ==
  ASSUME Mappable, MemoryIInv, MemoryIInv', AccountsInv, NEW p \in Piece, NEW q \in Piece, NEW size \in Size,
         Realloc(p, q, size)
  PROVE  AccountsInv'
<1>1. /\ blocks \in Seq(Block) /\ blocks' \in Seq(Block)
      /\ piece \in [Piece -> State] /\ piece' \in [Piece -> State]
      /\ PiecesHome /\ FlowTyped
  BY Known DEF MemoryIInv, MemoryTypeOK
<1> DEFINE faults == piece[p].forbidden = "all"
           read == Touched(p, faults, "writes")
           new == NewPiece("mapped", Top, "malloc", size)
           given == [read EXCEPT ![q] = new]
           bs == Grown(Top, size)
           b == piece[p].home
<1>2. /\ Running /\ b # 0 /\ piece[q].place = "none" /\ ~Refuses(Top, size)
      /\ blocks' = Shrunk(bs, p)
      /\ piece' = Released(given, p, "malloc")
  BY DEF Realloc
<1>3. Top \in DOMAIN blocks /\ Top \in Nat /\ Top # 0
  <2>1. Len(open) \in Nat /\ Len(blocks) >= Len(open) + 3 /\ DOMAIN blocks = 1..Len(blocks)
        /\ Len(blocks) \in Nat
    BY <1>1, <1>2 DEF FlowTyped
  <2>2. QED
    BY <2>1 DEF Top
<1>4. size \in Nat /\ "malloc" \in Who /\ "writes" \in {"writes", "none"} /\ faults \in BOOLEAN
  BY SizeNat DEF Who
<1>5. b \in DOMAIN blocks /\ piece[q].home = 0 /\ p # q
  BY <1>1, <1>2 DEF PiecesHome
<1>6. /\ new \in State /\ new.home = Top /\ new.size = size /\ new.free_times = 0
  <2>1. cases \in 0..MaxCase
    BY <1>1 DEF FlowTyped
  <2>2. new \in State
    BY <1>3, <1>4, <2>1, NewType
  <2>3. new.home = Top /\ new.size = size /\ new.free_times = 0
    BY DEF NewPiece, NoPiece
  <2>4. QED
    BY <2>2, <2>3
<1>7. /\ read \in [Piece -> State]
      /\ \A r \in Piece : r # p => read[r] = piece[r]
      /\ read[p].home = b /\ read[p].size = piece[p].size
      /\ read[p].free_times = piece[p].free_times
  <2> HIDE DEF faults, b
  <2>1. read \in [Piece -> State]
    BY <1>1, <1>4, TouchedType
  <2>2. /\ \A r \in Piece : r # p => read[r] = piece[r]
        /\ read[p].home = piece[p].home /\ read[p].size = piece[p].size
        /\ read[p].free_times = piece[p].free_times
    BY <1>1, <1>4, TouchedFacts
  <2>3. QED
    BY <2>1, <2>2 DEF b
<1> HIDE DEF read, new
<1>8. /\ given \in [Piece -> State] /\ given[q] = new
      /\ \A r \in Piece : r # q => given[r] = read[r]
  BY <1>6, <1>7
<1> HIDE DEF given
<1>9. /\ \A r \in Piece : r # p => piece'[r] = given[r]
      /\ piece'[p].home = given[p].home /\ piece'[p].size = given[p].size
      /\ piece'[p].free_times = given[p].free_times + 1
  BY <1>2, <1>4, <1>8, ReleasedFacts
<1>10. bs \in Seq(Block) /\ DOMAIN bs = DOMAIN blocks /\ DOMAIN blocks' = DOMAIN blocks
  <2>1. bs \in Seq(Block) /\ Len(bs) = Len(blocks)
    BY <1>1, <1>3, <1>4, GrownType
  <2>2. DOMAIN bs = DOMAIN blocks
    BY <1>1, <2>1
  <2> HIDE DEF bs
  <2>3. Len(blocks') = Len(bs)
    BY <1>1, <1>2, <1>5, <2>1, <2>2, ShrunkType
  <2>4. QED
    BY <1>1, <2>1, <2>2, <2>3
<1> DEFINE sum == (blocks[Top].allocated + size) % Wrap
<1>11. /\ bs[Top].allocated = sum
       /\ bs[Top].footprint = Max({blocks[Top].footprint, sum})
       /\ bs[Top].limit = blocks[Top].limit
       /\ \A c \in DOMAIN blocks : c # Top => bs[c] = blocks[c]
  BY <1>1, <1>3, <1>4, GrownFacts
<1>12. blocks[Top] \in Block
  BY <1>1, <1>3
<1>13. blocks[Top].limit >= sum
  <2>1. blocks[Top].allocated + size \in Int
    BY <1>4, <1>12, MemoryAssumption DEF Block
  <2>2. sum \in Int /\ blocks[Top].limit \in Int
    BY <1>12, <2>1, Modulus DEF Block
  <2>3. ~(blocks[Top].limit < sum)
    BY <1>2 DEF Refuses
  <2> HIDE DEF sum
  <2>4. QED
    BY <2>2, <2>3
<1>14. sum = (blocks[Top].allocated + size) % Wrap
  OBVIOUS
<1> HIDE DEF bs, sum
<1>15. given[q].home = Top /\ given[q].size = size /\ given[q].free_times = 0
  BY <1>6, <1>8
<1>16. \A r \in Piece : r # q => /\ given[r].home = piece[r].home /\ given[r].size = piece[r].size
                                /\ given[r].free_times = piece[r].free_times
  BY <1>7, <1>8 DEF b
(* After the new piece is given: as if every other piece were as it was.   *)
<1> DEFINE mid == [piece EXCEPT ![q] = new]
<1>17. /\ mid \in [Piece -> State] /\ mid[q] = new
       /\ \A r \in Piece : r # q => mid[r] = piece[r]
  BY <1>1, <1>6
<1> HIDE DEF mid
<1>18. \A r \in Piece : /\ given[r].home = mid[r].home /\ given[r].size = mid[r].size
                        /\ given[r].free_times = mid[r].free_times
  BY <1>8, <1>16, <1>17
<1>19. ASSUME NEW c \in DOMAIN blocks PROVE Sound(bs, given, c)
  <2>1. Sound(bs, mid, c)
    <3>1. CASE c = Top
      <4>1. piece[q].home # Top
        BY <1>3, <1>5
      <4>2. mid[q].home = Top /\ mid[q].size = size /\ mid[q].free_times = 0
        BY <1>6, <1>17
      <4>3. Gives(blocks, bs, piece, mid, Top, q, size, sum)
        BY <1>1, <1>3, <1>11, <1>12, <1>13, <1>14, <1>17, <4>1, <4>2 DEF Gives
      <4>4. Sound(blocks, piece, Top)
        BY <1>3 DEF AccountsInv
      <4>5. QED
        BY <3>1, <4>3, <4>4, SoundGiven
    <3>2. CASE c # Top
      <4>1. Sound(blocks, piece, c) /\ bs[c] = blocks[c] /\ c # 0
        BY <1>1, <1>11, <3>2 DEF AccountsInv
      <4>2. \A r \in Piece : (piece[r].home = c) <=> (mid[r].home = c)
        BY <1>5, <1>6, <1>17, <3>2, <4>1
      <4>3. \A r \in Piece : piece[r].home = c =>
              mid[r].free_times = piece[r].free_times /\ mid[r].size = piece[r].size
        BY <1>5, <1>17, <4>1
      <4>4. QED
        BY <4>1, <4>2, <4>3, SoundStays
    <3>3. QED
      BY <3>1, <3>2
  <2>2. \A r \in Piece : (mid[r].home = c) <=> (given[r].home = c)
    BY <1>18
  <2>3. \A r \in Piece : mid[r].home = c =>
          given[r].free_times = mid[r].free_times /\ given[r].size = mid[r].size
    BY <1>18
  <2>4. QED
    BY <2>1, <2>2, <2>3, SoundStays
<1>20. given[p].home = b /\ given[p].size = piece[p].size
  BY <1>5, <1>7, <1>8
<1>21. /\ blocks'[b].allocated = (bs[b].allocated - given[p].size) % Wrap
       /\ blocks'[b].footprint = bs[b].footprint
       /\ blocks'[b].limit = bs[b].limit
       /\ \A c \in DOMAIN bs : c # b => blocks'[c] = bs[c]
  <2>1. piece[p].home \in DOMAIN bs
    BY <1>5, <1>10
  <2>2. QED
    BY <1>2, <1>10, <1>20, <2>1, ShrunkFacts
<1> HIDE DEF b
<1>22. Sound(blocks', piece', b)
  <2>1. bs[b] \in Block
    BY <1>5, <1>10
  <2>2. Sound(bs, given, b)
    BY <1>5, <1>19
  <2>3. piece'[p].home = given[p].home /\ piece'[p].size = given[p].size
        /\ piece'[p].free_times = given[p].free_times + 1
    BY <1>9
  <2>4. QED
    BY <1>1, <1>8, <1>9, <1>20, <1>21, <2>1, <2>2, <2>3, SoundFreed
<1>23. ASSUME NEW c \in DOMAIN blocks, c # b PROVE Sound(blocks', piece', c)
  <2>1. Sound(bs, given, c) /\ blocks'[c] = bs[c]
    BY <1>10, <1>19, <1>21, <1>23
  <2>2. \A r \in Piece : (given[r].home = c) <=> (piece'[r].home = c)
    BY <1>9
  <2>3. \A r \in Piece : given[r].home = c =>
          piece'[r].free_times = given[r].free_times /\ piece'[r].size = given[r].size
    BY <1>9, <1>20, <1>23
  <2>4. QED
    BY <2>1, <2>2, <2>3, SoundStays
<1>24. QED
  BY <1>10, <1>22, <1>23 DEF AccountsInv

(* The end of a block: those below keep account and pieces.                *)
LEMMA PopAccounts ==
  ASSUME MemoryIInv, MemoryIInv', AccountsInv, Pop, Len(blocks) >= 1 PROVE AccountsInv'
<1>1. /\ blocks \in Seq(Block) /\ blocks' \in Seq(Block) /\ piece \in [Piece -> State] /\ PiecesHome
  BY Known DEF MemoryIInv, MemoryTypeOK
<1>2. blocks' = Front(blocks) /\ Len(blocks') = Len(blocks) - 1
  BY <1>1, FrontType DEF Pop
<1> DEFINE n == Len(blocks) - 1
<1>3. n \in Nat /\ DOMAIN blocks = 1..(n + 1) /\ DOMAIN blocks' = 1..n
  BY <1>1, <1>2
<1>4. \A c \in 1..n : blocks'[c] = blocks[c]
  BY <1>1, <1>2, <1>3 DEF Front
<1>5. ASSUME NEW c \in 1..n PROVE Sound(blocks', piece', c)
  <2>1. Sound(blocks, piece, c) /\ blocks'[c] = blocks[c] /\ c # 0 /\ c # Top
    BY <1>1, <1>3, <1>4 DEF AccountsInv, Top
  <2>2. \A p \in Piece : (piece[p].home = c) <=> (piece'[p].home = c)
    <3> TAKE p \in Piece
    <3>1. CASE p \in InTop
      BY <1>1, <2>1, <3>1, PopFacts DEF InTop
    <3>2. CASE p \notin InTop
      BY <1>1, <3>2, PopFacts
    <3>3. QED
      BY <3>1, <3>2
  <2>3. \A p \in Piece : piece[p].home = c =>
          piece'[p].free_times = piece[p].free_times /\ piece'[p].size = piece[p].size
    <3> SUFFICES ASSUME NEW p \in Piece, piece[p].home = c PROVE piece'[p] = piece[p]
      OBVIOUS
    <3>1. p \notin InTop
      BY <2>1 DEF InTop
    <3>2. QED
      BY <1>1, <3>1, PopFacts
  <2>4. QED
    BY <2>1, <2>2, <2>3, SoundStays
<1>6. QED
  BY <1>3, <1>5 DEF AccountsInv

(* A new block on top has given nothing.                                   *)
LEMMA OpenAccounts ==
  ASSUME MemoryIInv, MemoryIInv', AccountsInv, NEW limit \in 0..NoLimit, NEW noleak \in BOOLEAN,
         blocks' = Append(blocks, NewBlock(limit, noleak)), piece' = piece
  PROVE  AccountsInv'
<1>1. /\ blocks \in Seq(Block) /\ blocks' \in Seq(Block) /\ piece \in [Piece -> State] /\ PiecesHome
  BY Known DEF MemoryIInv, MemoryTypeOK
<1> DEFINE n == Len(blocks)
           b == NewBlock(limit, noleak)
<1>2. /\ n \in Nat /\ DOMAIN blocks = 1..n /\ DOMAIN blocks' = 1..(n + 1)
      /\ blocks'[n + 1] = b /\ \A c \in 1..n : blocks'[c] = blocks[c]
  BY <1>1
<1>3. ASSUME NEW c \in 1..n PROVE Sound(blocks', piece', c)
  <2>1. Sound(blocks, piece, c) /\ blocks'[c] = blocks[c]
    BY <1>2 DEF AccountsInv
  <2>2. QED
    BY <2>1, SoundStays
<1>4. Sound(blocks', piece', n + 1)
  <2>1. HoldingOf(piece', n + 1) = {}
    <3>1. \A p \in Piece : piece[p].home # n + 1
      BY <1>1, <1>2 DEF PiecesHome
    <3>2. QED
      BY <3>1 DEF HoldingOf
  <2>2. HeldOf(piece', n + 1) = {}
    BY <2>1 DEF HeldOf
  <2>3. IsFiniteSet(HeldOf(piece', n + 1)) /\ Cardinality(HeldOf(piece', n + 1)) = 0
    BY <2>2, FS_EmptySet
  <2>4. b.allocated = 0 /\ b.footprint = 0 /\ b.limit = limit
    BY DEF NewBlock
  <2>5. 0 <= limit
    BY MemoryAssumption
  <2>6. QED
    BY <1>2, <2>3, <2>4, <2>5 DEF Sound
<1>5. QED
  <2>1. DOMAIN blocks' = (1..n) \cup {n + 1}
    BY <1>2
  <2>2. QED
    BY <1>3, <1>4, <2>1 DEF AccountsInv

(* The steps that change no block and no size, home or free of a piece.    *)
LEMMA OtherAccounts ==
  ASSUME AccountsInv, blocks' = blocks,
         \A p \in Piece : /\ piece'[p].home = piece[p].home
                          /\ piece[p].home # 0 =>
                               piece'[p].size = piece[p].size /\ piece'[p].free_times = piece[p].free_times,
         0 \notin DOMAIN blocks
  PROVE  AccountsInv'
<1> SUFFICES ASSUME NEW c \in DOMAIN blocks PROVE Sound(blocks', piece', c)
  BY DEF AccountsInv
<1>1. Sound(blocks, piece, c) /\ blocks'[c] = blocks[c] /\ c # 0
  BY DEF AccountsInv
<1>2. \A p \in Piece : (piece[p].home = c) <=> (piece'[p].home = c)
  OBVIOUS
<1>3. \A p \in Piece : piece[p].home = c =>
        piece'[p].free_times = piece[p].free_times /\ piece'[p].size = piece[p].size
  BY <1>1
<1>4. QED
  BY <1>1, <1>2, <1>3, SoundStays

LEMMA WriteAccounts ==
  ASSUME MemoryIInv, AccountsInv, NEW p \in Piece, NEW spot \in Spot, Write(p, spot) PROVE AccountsInv'
<1>1. blocks \in Seq(Block) /\ piece \in [Piece -> State]
  BY Known
<1> DEFINE touched == Touched(p, Faults(p, spot), "none")
           gap == touched[p].dirty \/ spot = "gap"
           new == [touched[p] EXCEPT !.dirty = gap]
<1>2. blocks' = blocks /\ piece' = [touched EXCEPT ![p] = new]
  BY DEF Write
<1>3. Faults(p, spot) \in BOOLEAN /\ "none" \in {"writes", "none"}
  BY DEF Faults
<1>4. touched \in [Piece -> State]
  BY <1>1, <1>3, TouchedType
<1>5. /\ \A r \in Piece : r # p => touched[r] = piece[r]
      /\ touched[p].home = piece[p].home /\ touched[p].size = piece[p].size
      /\ touched[p].free_times = piece[p].free_times
  BY <1>1, <1>3, TouchedFacts
<1> HIDE DEF touched, gap
<1>6. new.home = touched[p].home /\ new.size = touched[p].size /\ new.free_times = touched[p].free_times
  BY <1>4 DEF State
<1> HIDE DEF new
<1>7. \A r \in Piece : /\ piece'[r].home = piece[r].home /\ piece'[r].size = piece[r].size
                       /\ piece'[r].free_times = piece[r].free_times
  BY <1>2, <1>4, <1>5, <1>6
<1>8. 0 \notin DOMAIN blocks
  BY <1>1
<1>9. QED
  BY <1>2, <1>7, <1>8, OtherAccounts

LEMMA AccountsStart == MemoryInit => AccountsInv
<1> SUFFICES ASSUME MemoryInit, NEW b \in DOMAIN blocks PROVE Sound(blocks, piece, b)
  BY DEF AccountsInv
<1>1. blocks = <<PlainBlock, PlainBlock>> /\ b \in 1..2
  BY DEF MemoryInit
<1>2. blocks[b] = PlainBlock
  BY <1>1
<1>3. \A p \in Piece : piece[p].home = 0
  BY DEF MemoryInit, NoPiece
<1>4. HeldOf(piece, b) = {}
  BY <1>1, <1>3 DEF HeldOf, HoldingOf
<1>5. IsFiniteSet(HeldOf(piece, b)) /\ Cardinality(HeldOf(piece, b)) = 0
  BY <1>4, FS_EmptySet
<1>6. PlainBlock.allocated = 0 /\ PlainBlock.footprint = 0 /\ PlainBlock.limit = NoLimit
  BY DEF PlainBlock, NewBlock
<1>7. QED
  BY <1>2, <1>5, <1>6, MemoryAssumption DEF Sound

LEMMA AccountsStep ==
  ASSUME Mappable, MemoryIInv, MemoryIInv', AccountsInv, [MemoryNext]_memoryVars PROVE AccountsInv'
<1>1. /\ blocks \in Seq(Block) /\ piece \in [Piece -> State] /\ PiecesHome /\ FlowTyped
  BY Known
<1>2. 0 \notin DOMAIN blocks
  BY <1>1
<1>3. CASE CloseBlock \/ Teardown \/ EndSuite
  <2>1. Pop
    BY <1>3 DEF CloseBlock, Teardown, EndSuite
  <2>2. Len(blocks) >= 1
    <3>1. Len(open) \in Nat /\ Len(blocks) \in Nat
      BY <1>1 DEF FlowTyped
    <3>2. QED
      BY <1>1, <1>3, <3>1 DEF FlowTyped, CloseBlock, Teardown, EndSuite
  <2>3. QED
    BY <2>1, <2>2, PopAccounts
<1>4. CASE Begin
  <2>1. blocks' = Append(blocks, NewBlock(NoLimit, FALSE)) /\ piece' = piece
    BY <1>4 DEF Begin, PlainBlock
  <2>2. NoLimit \in 0..NoLimit
    BY MemoryAssumption
  <2>3. QED
    BY <2>1, <2>2, OpenAccounts
<1>5. ASSUME NEW a \in Attribute, OpenBlock(a) PROVE AccountsInv'
  <2>1. blocks' = Append(blocks, NewBlock(a.limit, a.noleak)) /\ piece' = piece
    BY <1>5 DEF OpenBlock
  <2>2. a.limit \in 0..NoLimit /\ a.noleak \in BOOLEAN
    BY MemoryAssumption
  <2>3. QED
    BY <2>1, <2>2, OpenAccounts
<1>6. CASE AssertFails \/ Clear
  <2>1. blocks' = blocks /\ piece' = piece
    BY <1>6 DEF AssertFails, Clear
  <2>2. QED
    BY <1>2, <2>1, OtherAccounts
<1>7. ASSUME NEW p \in Piece,
             FreeUnknown(p) \/ FreeUnhooked(p) \/ \E spot \in Spot : WriteAborts(p, spot)
      PROVE  AccountsInv'
  <2>1. blocks' = blocks /\ piece' = piece
    BY <1>7 DEF FreeUnknown, FreeUnhooked, WriteAborts
  <2>2. QED
    BY <1>2, <2>1, OtherAccounts
<1>8. ASSUME NEW p \in Piece, MallocUnhooked(p) PROVE AccountsInv'
  <2> DEFINE new == NewPiece("libc", 0, "malloc", 0)
  <2>1. blocks' = blocks /\ piece' = [piece EXCEPT ![p] = new] /\ piece[p].home = 0
    BY <1>1, <1>8 DEF MallocUnhooked, Given, PiecesHome
  <2>2. new.home = 0
    BY DEF NewPiece, NoPiece
  <2> HIDE DEF new
  <2>3. piece'[p] = new /\ \A q \in Piece : q # p => piece'[q] = piece[q]
    BY <1>1, <2>1
  <2>4. QED
    BY <1>2, <2>1, <2>2, <2>3, OtherAccounts
<1>9. ASSUME NEW p \in Piece, NEW who \in Who, NEW size \in Size, NEW b \in {Root, Top},
             Malloc(p, who, size, b)
      PROVE  AccountsInv'
  BY <1>9, MallocAccounts
<1>10. ASSUME NEW p \in Piece, NEW who \in Who, Free(p, who) PROVE AccountsInv'
  BY <1>10, FreeAccounts
<1>11. ASSUME NEW p \in Piece, NEW size \in Size, ReallocRefused(p, size) PROVE AccountsInv'
  <2>1. "malloc" \in Who
    BY DEF Who
  <2>2. QED
    BY <1>11, <2>1, FreeAccounts
<1>12. ASSUME NEW p \in Piece, NEW q \in Piece, NEW size \in Size, Realloc(p, q, size)
       PROVE  AccountsInv'
  BY <1>12, ReallocAccounts
<1>13. ASSUME NEW p \in Piece, NEW spot \in Spot, Write(p, spot) PROVE AccountsInv'
  BY <1>13, WriteAccounts
<1>14. CASE UNCHANGED memoryVars
  <2>1. blocks' = blocks /\ piece' = piece
    BY <1>14 DEF memoryVars
  <2>2. QED
    BY <1>2, <2>1, OtherAccounts
<1>15. QED
  BY <1>3, <1>4, <1>5, <1>6, <1>7, <1>8, <1>9, <1>10, <1>11, <1>12, <1>13, <1>14 DEF MemoryNext

(* `allocated` of every block is what its pieces hold (h2_block.cpp), over *)
(* any program of mallocs, reallocs and frees, none of them a free of what *)
(* is freed, and its highest value keeps the limit.  The hypothesis is     *)
(* needed: where a size may wrap round the width of `allocated`, more than *)
(* the limit is given.                                                     *)
THEOREM MemoryAccountsBalance ==
  ASSUME Mappable PROVE MemorySpec => []AccountsBalance
<1>1. MemoryInit => AccountsInv
  BY AccountsStart
<1>2. MemoryIInv /\ MemoryIInv' /\ AccountsInv /\ [MemoryNext]_memoryVars => AccountsInv'
  BY AccountsStep
<1>3. AccountsInv => AccountsBalance
  BY SoundBalances
<1>4. QED
  BY <1>1, <1>2, <1>3, MemoryInductive, PTL DEF MemorySpec
=============================================================================
