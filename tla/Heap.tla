-------------------------------- MODULE Heap --------------------------------
(***************************************************************************)
(* What the allocator for the library's own objects promises, however it   *)
(* keeps what is free: a chunk is given that is large enough, out of       *)
(* memory of its own, no word of which is given already; until it is taken *)
(* back nobody else gets any word of it.  A request may be refused only    *)
(* when it fills the areas obtained for it so far that their headers do    *)
(* not fit beside it.                                                      *)
(***************************************************************************)
EXTENDS Naturals

CONSTANTS
  Word,     \* the addresses of words
  Request,  \* the sizes asked, in words, with the word in front of each chunk
  Tight     \* those among them that leave no room for the header

VARIABLES
  mapped,   \* the words obtained from the system
  given     \* the chunks given, each [at, size]

heapVars == <<mapped, given>>

WordsOf(c) == c.at .. c.at + c.size - 1
Taken == UNION {WordsOf(c) : c \in given}

HeapInit == mapped = {} /\ given = {}

Give(n) ==
  \E c \in given' :
    /\ c.size >= n
    /\ WordsOf(c) \subseteq mapped' \ Taken
    /\ given' = given \cup {c}

Refuse(n) == n \in Tight /\ UNCHANGED given

TakeBack == \E c \in given : given' = given \ {c} /\ UNCHANGED mapped

HeapNext ==
  \/ mapped \subseteq mapped' /\ mapped' \subseteq Word /\ \E n \in Request : Give(n) \/ Refuse(n)
  \/ TakeBack

HeapSpec == HeapInit /\ [][HeapNext]_heapVars
=============================================================================
