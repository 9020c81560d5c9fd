------------------------------ MODULE MCMemory ------------------------------
(* Two pieces of one size, one block of any kind above the one of the case,*)
(* two cases, one thing done wrong.                                        *)
EXTENDS Memory, TLC

Blocks ==
  {[limit |-> NoLimit, noleak |-> FALSE, unmem |-> FALSE],
   [limit |-> 1, noleak |-> FALSE, unmem |-> FALSE],
   [limit |-> NoLimit, noleak |-> TRUE, unmem |-> FALSE],
   [limit |-> NoLimit, noleak |-> FALSE, unmem |-> TRUE]}

AnyPiece == Permutations(Piece)
===========================================================================
