-------------------------------- MODULE Libc --------------------------------
(***************************************************************************)
(* The allocator for the library's own objects (h2_libc_malloc in          *)
(* utils/h2_libc.cpp), used while the memory of tests is checked since     *)
(* malloc is hooked then.  Areas of whole multiples of Brk are mapped as   *)
(* needed and never given back; each starts with a header that holds the   *)
(* list of its free chunks.  A free chunk is a size and two links, a given *)
(* one the size and the caller's bytes.                                    *)
(*                                                                         *)
(* Counted in words of eight bytes: sizes and addresses are multiples.     *)
(***************************************************************************)
EXTENDS Naturals, Sequences, SequencesExt, FiniteSets

CONSTANTS
  Sizes,       \* bytes callers ask h2_libc::malloc for
  Brk,         \* words of the smallest area (4 MiB)
  BlockWords,  \* sizeof(block)
  SizeWords,   \* sizeof(buddy::size)
  BuddyWords,  \* sizeof(buddy)
  SplitWords,  \* sizeof(buddy) + 64: less is not left behind
  MaxAreas,    \* bound: areas of Brk words the address space has room for
  MaxGiven     \* bound: chunks given at once

ASSUME LibcAssumption ==
  /\ {Brk, BlockWords, SizeWords, BuddyWords, SplitWords, MaxAreas, MaxGiven} \subseteq Nat
  /\ SizeWords < BuddyWords /\ BuddyWords <= SplitWords /\ BlockWords + BuddyWords <= Brk
  /\ Sizes \subseteq Nat
  /\ BuddyWords <= SizeWords + 2   \* the ten bytes added make two words, which hold the links

VARIABLES
  blocks,      \* the areas, newest first: [at, words, buddies], buddies the list of free chunks
  held         \* the chunks given to callers

libcVars == <<blocks, held>>

---------------------------------------------------------------------------
(* The words asked of a block for a size; h2_libc::malloc adds ten bytes.  *)
Wanted(size) == (size + 10 + 7) \div 8

(* block::malloc: of the first chunk that is large enough the end is       *)
(* given, or all of it when too little would be left.                      *)
FirstFit(list, n) == SelectInSeq(list, LAMBDA p : n + SizeWords <= p.size)
Left(p, n) == p.size - (n + SizeWords)
CarvedFront(p, n) == IF SplitWords <= Left(p, n) THEN [p EXCEPT !.size = n + SizeWords] ELSE p  \* mutant: the front
Carved(p, n) == IF SplitWords <= Left(p, n) THEN [at |-> p.at + Left(p, n), size |-> n + SizeWords] ELSE p
Remaining(list, i, n) ==
  IF SplitWords <= Left(list[i], n) THEN [list EXCEPT ![i].size = Left(list[i], n)] ELSE RemoveAt(list, i)

(* block::free: the chunk joins the first neighbour it meets, and only     *)
(* that one, or goes before the first chunk behind it.                     *)
RightOf(b, p) == p.at + p.size = b.at
LeftOf(b, p) == b.at + b.size = p.at
InsertedGrown(list, b) ==                                     \* mutant: a chunk joined from the left keeps its size
  LET i == SelectInSeq(list, LAMBDA p : LeftOf(b, p)) IN
  IF i = 0 THEN Append(list, b) ELSE [list EXCEPT ![i] = b]
Inserted(list, b) ==
  LET i == SelectInSeq(list, LAMBDA p : RightOf(b, p) \/ b.at + b.size <= p.at) IN
  IF i = 0 THEN Append(list, b)
  ELSE IF RightOf(b, list[i]) THEN [list EXCEPT ![i].size = @ + b.size]
  ELSE IF LeftOf(b, list[i]) THEN [list EXCEPT ![i] = [at |-> b.at, size |-> b.size + @.size]]
  ELSE InsertAt(list, i, b)

(* A block turns down a chunk that lies before and behind it: none does,   *)
(* so what is freed goes to the newest block, wherever it came from.       *)
TurnsDown(block, b) == b.at < block.at /\ block.at + block.words <= b.at

---------------------------------------------------------------------------
Fitting(bs, n) == SelectInSeq(bs, LAMBDA p : FirstFit(p.buddies, n) # 0)

(* h2_libc_malloc::alloc *)
Alloc(bs, n) ==
  LET k == Fitting(bs, n) list == bs[k].buddies i == FirstFit(list, n) IN
  IF k = 0 THEN blocks' = bs /\ UNCHANGED held
  ELSE /\ blocks' = [bs EXCEPT ![k].buddies = Remaining(list, i, n)]
       /\ held' = held \cup {Carved(list[i], n)}

Block(at, words) ==
  [at |-> at, words |-> words, buddies |-> <<[at |-> at + BlockWords, size |-> words - BlockWords]>>]

(* h2_libc_malloc::batch: as many Brk as hold the words asked, the header  *)
(* not counted, wherever the system has room.                              *)
BrkCount(n) == (n + Brk - 1) \div Brk
Within(bs, w) == \E k \in DOMAIN bs : w \in bs[k].at .. bs[k].at + bs[k].words - 1
Batch(n) ==
  {<<Block(a * Brk, BrkCount(n) * Brk)>> \o blocks :
     a \in {s \in 0..MaxAreas - BrkCount(n) : \A w \in s * Brk .. (s + BrkCount(n)) * Brk - 1 : ~Within(blocks, w)}}

Malloc(size) ==
  LET n == Wanted(size) IN
  /\ Cardinality(held) < MaxGiven
  /\ IF Fitting(blocks, n) # 0 THEN Alloc(blocks, n) ELSE \E bs \in Batch(n) : Alloc(bs, n)

Free(b) ==
  LET k == SelectInSeq(blocks, LAMBDA p : ~TurnsDown(p, b)) IN
  /\ blocks' = [blocks EXCEPT ![k].buddies = Inserted(@, b)]
  /\ held' = held \ {b}

LibcInit == blocks = <<>> /\ held = {}
LibcNext == (\E size \in Sizes : Malloc(size)) \/ (\E b \in held : Free(b))
LibcSpec == LibcInit /\ [][LibcNext]_libcVars

---------------------------------------------------------------------------
Buddies == UNION {{<<k, i>> : i \in DOMAIN blocks[k].buddies} : k \in DOMAIN blocks}
Buddy(x) == blocks[x[1]].buddies[x[2]]
Covers(c, w) == w \in c.at .. c.at + c.size - 1
Heads(k) == {blocks[k].at + i : i \in 0..BlockWords - 1}

(* Every word of every area is a word of its header or of exactly one      *)
(* chunk, given or free in one list, whichever area's list that is; every  *)
(* chunk has room for the links it holds when free, and a list goes up in  *)
(* addresses, on which finding a neighbour rests (h2_libc.cpp:45-70).      *)
HeapSound ==
  /\ \A k \in DOMAIN blocks, w \in 0..MaxAreas * Brk - 1 :
       Covers([at |-> blocks[k].at, size |-> blocks[k].words], w) =>
         Cardinality({x \in Buddies : Covers(Buddy(x), w)}) + Cardinality({c \in held : Covers(c, w)})
           = (IF w \in Heads(k) THEN 0 ELSE 1)
  /\ \A c \in held \cup {Buddy(x) : x \in Buddies} : c.size >= BuddyWords
  /\ \A k \in DOMAIN blocks : \A i, j \in DOMAIN blocks[k].buddies :
       i < j => blocks[k].buddies[i].at + blocks[k].buddies[i].size <= blocks[k].buddies[j].at

(* What callers see is the heap that is promised to them.  Refused are     *)
(* sizes that fill the Brks they are rounded up to but for the headers.    *)
Promise == INSTANCE Heap WITH
  Word <- 0..MaxAreas * Brk - 1,
  Request <- {Wanted(size) + SizeWords : size \in Sizes},
  Tight <- {Wanted(size) + SizeWords : size \in {s \in Sizes : BrkCount(Wanted(s)) * Brk - BlockWords < Wanted(s) + SizeWords}},
  mapped <- {w \in 0..MaxAreas * Brk - 1 : Within(blocks, w)},
  given <- held
ImplementsHeap == Promise!HeapSpec
=============================================================================
