------------------------------- MODULE Pieces -------------------------------
(***************************************************************************)
(* Where a piece of memory lies in its pages, what is filled into it and   *)
(* how a byte written beside it is found (memory/h2_piece.cpp, h2_block.cpp*)
(* and the arithmetic of utils/h2_misc.cpp).                               *)
(***************************************************************************)
EXTENDS Integers, SequencesExt

CONSTANTS PageBytes,    \* h2_page_size()
          PointerBytes,   \* sizeof(void*)
          ByteValues,   \* values of a byte
          UnsignedBits, \* of an unsigned
          SpotSize      \* bytes shown of what was written

LOCAL B == INSTANCE Bitwise
And(x, y) == B!&(x, y)
Or(x, y) == B!|(x, y)

(* not2n, mask2n                                                           *)
Not2n(x) == And(x, (x + 2 ^ UnsignedBits - 1) % 2 ^ UnsignedBits) # 0

(* Mutant of Mask2n: the last shift is forgotten. *)
Mask2nShort(x) == FoldLeft(LAMBDA m, shift : Or(m, m \div 2 ^ shift), x, SelectSeq(<<1, 2, 4, 8, 16>>, LAMBDA s : 2 * s < UnsignedBits))

Mask2n(x) == FoldLeft(LAMBDA m, shift : Or(m, m \div 2 ^ shift), x, SelectSeq(<<1, 2, 4, 8, 16>>, LAMBDA s : s < UnsignedBits))

(* h2_piece::h2_piece: the piece at the end of its pages, page_ptr is 0.   *)
AlignmentOf(alignment) ==
  LET a == IF Not2n(alignment) THEN Mask2n(alignment) + 1 ELSE alignment IN IF a < PointerBytes THEN PointerBytes ELSE a

(* Mutant of SizePlus: no room for what the address is above the alignment. *)
SizePlusBare(size, a) == ((size + a - 1) \div a) * a

SizePlus(size, a) == ((size + a - 1 + a) \div a) * a
Placed(size, alignment) ==
  LET plus == SizePlus(size, AlignmentOf(alignment))
      pages == (plus + PageBytes - 1) \div PageBytes
  IN [user |-> PageBytes * pages - plus + alignment, size |-> size, end |-> PageBytes * pages]

(* parse_fill and the fill of a new piece                                  *)
LittleEndian(v, n) == [i \in 1..n |-> (v \div ByteValues ^ (i - 1)) % ByteValues]

(* Mutant of ParseFill: the bounds are those of the next width. *)
ParseFillLate(v) == LittleEndian(v, IF v <= ByteValues THEN 1 ELSE IF v <= ByteValues ^ 2 THEN 2 ELSE IF v <= ByteValues ^ 4 THEN 4 ELSE 8)

ParseFill(v) == LittleEndian(v, IF v < ByteValues THEN 1 ELSE IF v < ByteValues ^ 2 THEN 2 ELSE IF v < ByteValues ^ 4 THEN 4 ELSE 8)
Filled(size, fill) == [i \in 1..size |-> fill[((i - 1) % Len(fill)) + 1]]

---------------------------------------------------------------------------
(* check_snowfield: the first byte that is not as it was marked and what   *)
(* was written behind it.                                                  *)
NoOverflow == [at |-> -1, spot |-> 0]

(* Mutant of SpotOf: it ends at the first byte that is as marked. *)
SpotOfFirst(p, end, wrong) ==
  LET n == CHOOSE k \in 1..SpotSize : (k = SpotSize \/ p + k = end \/ p + k \notin wrong) /\ \A j \in 1..k - 1 : p + j \in wrong IN n

SpotOf(p, end, wrong) ==
  LET most == IF end - p < SpotSize THEN end - p ELSE SpotSize
  IN CHOOSE n \in 1..most : p + n - 1 \in wrong /\ \A k \in n + 1..most : p + k - 1 \notin wrong

CheckRange(start, end, wrong) ==
  LET found == {p \in start..end - 1 : p \in wrong} IN
  IF found = {} THEN NoOverflow
  ELSE LET p == CHOOSE q \in found : \A r \in found : q <= r IN [at |-> p, spot |-> SpotOf(p, end, wrong)]
CheckSnowfield(piece, wrong) ==
  LET behind == CheckRange(piece.user + piece.size, piece.end, wrong) IN
  IF behind # NoOverflow THEN behind ELSE CheckRange(0, piece.user, wrong)

(* h2_fail_overflow: how far from the end, or before the beginning.        *)
Offset(piece, at) == IF piece.user < at THEN at - (piece.user + piece.size) ELSE at - piece.user
=============================================================================
