------------------------------- MODULE Memory -------------------------------
(***************************************************************************)
(* The memory check (src/source/memory): malloc, new and their kin are     *)
(* hooked, each piece they give is mapped for itself between a gap of      *)
(* known bytes and a forbidden page, and belongs to the block on top of a  *)
(* stack: the root, the suite, the case, and the BLOCKs and UNMEMs open in *)
(* it.  A free looks for the piece and complains of what it finds; the end *)
(* of a block complains of what is left.  A complaint fails the case and,  *)
(* without -c, jumps to its Cleanup over the destructors of the open       *)
(* BLOCKs.                                                                 *)
(*                                                                         *)
(* Addresses are not used twice.  A write into the gap is taken to change  *)
(* it (the byte written may be the gap's own).  Alignment, filling and the *)
(* backtraces are left out, and -w, which makes some complaints warnings.  *)
(***************************************************************************)
EXTENDS Integers, Sequences, FiniteSetsExt, SequencesExt

CONSTANTS
  Piece,       \* the pieces the code under test asks for
  Size,        \* their sizes
  Attribute,   \* what BLOCK may be given: records [limit, noleak, unmem]
  NoLimit,     \* 0xffffffffffff, the limit of a block given none
  Wrap,        \* 2^w, w the width of `allocated`
  MaxNest,     \* bound: blocks above the one of the case, open or left behind
  MaxFree,     \* bound: times a piece is freed
  MaxCase,     \* cases of the suite
  MaxWrong     \* bound: what the program does wrong

Who == {"malloc", "new"}            \* each with its own way to free
Spot == {"inside", "gap", "guard"}  \* where a write may go

ASSUME MemoryAssumption ==
  /\ Size \subseteq Nat \ {0} /\ NoLimit \in Nat /\ Wrap \in Nat
  /\ NoLimit < Wrap /\ \A s \in Size : s < Wrap
  /\ Attribute \subseteq [limit : 0..NoLimit, noleak : BOOLEAN, unmem : BOOLEAN]
  /\ MaxNest \in Nat /\ MaxCase \in Nat \ {0} /\ MaxFree \in Nat /\ MaxWrong \in Nat

VARIABLES
  blocks,   \* the stack, from the root to the top
  piece,    \* what is known of each piece
  hooked,   \* the allocation functions are replaced
  open,     \* the BLOCKs control is in
  phase,    \* "ready", "body", "cleanup", "ended", "done", or "dead": aborted
  failed,   \* h2_case::failed
  continue_assert, \* -c: a failing assertion does not leave the body
  cases,    \* how many cases there have been
  returned, \* history: the pieces the program has freed
  taken,    \* history: the pieces a realloc freed that gave nothing for them
  wrong,    \* history: what the program has done wrong: a set of <<piece, how>>
  asserted, \* history: an assertion of the case failed
  unmem     \* history: the case has been in an UNMEM

told == <<returned, taken, wrong, asserted, unmem>>
flow == <<open, phase, failed>>
memoryVars == <<blocks, piece, hooked, flow, continue_assert, cases, told>>

Block == [limit : 0..NoLimit, noleak : BOOLEAN, allocated : 0..(Wrap - 1), footprint : 0..(Wrap - 1)]
State ==
  [place : {"none", "mapped", "unmapped", "libc"}, home : Nat, who : Who, size : Size \cup {0},
   free_times : 0..MaxFree, dirty : BOOLEAN, violated : BOOLEAN, forbidden : {"guard", "all", "writes", "none"},
   born : 0..MaxCase]
Wrongs == {"leak", "again", "mismatch", "gap", "guard", "late"}

MemoryTypeOK ==
  /\ blocks \in Seq(Block)
  /\ piece \in [Piece -> State]
  /\ \A p \in Piece :
       /\ piece[p].home \in {0} \cup DOMAIN blocks
       /\ piece[p].home # 0 => piece[p].place = "mapped"
       /\ piece[p].born <= cases
  /\ hooked \in BOOLEAN /\ failed \in BOOLEAN /\ continue_assert \in BOOLEAN
  /\ open \in Seq(Attribute) /\ Len(open) <= MaxNest
  /\ phase \in {"ready", "body", "cleanup", "ended", "done", "dead"}
  /\ phase \in {"ready", "ended", "done"} => open = <<>>
  /\ phase \in {"body", "cleanup"} => Len(blocks) >= Len(open) + 3
  /\ phase \in {"ready", "ended"} => Len(blocks) >= 2
  /\ phase \in {"done", "dead"} => Len(blocks) >= Len(open) + 1
  /\ cases \in 0..MaxCase
  /\ returned \subseteq Piece /\ taken \subseteq Piece /\ asserted \in BOOLEAN /\ unmem \in BOOLEAN
  /\ wrong \subseteq Piece \X Wrongs

---------------------------------------------------------------------------
NewBlock(limit, noleak) == [limit |-> limit, noleak |-> noleak, allocated |-> 0, footprint |-> 0]
PlainBlock == NewBlock(NoLimit, FALSE)
Top == Len(blocks)
Root == 1   \* here the block of the pieces exempt functions ask for, and only of those

NoPiece ==
  [place |-> "none", home |-> 0, who |-> "malloc", size |-> 0, free_times |-> 0,
   dirty |-> FALSE, violated |-> FALSE, forbidden |-> "guard", born |-> 0]

(* Initialised, and in the first suite. *)
MemoryInit ==
  /\ blocks = <<PlainBlock, PlainBlock>>
  /\ piece = [p \in Piece |-> NoPiece]
  /\ hooked = TRUE /\ open = <<>> /\ phase = "ready" /\ failed = FALSE
  /\ continue_assert \in BOOLEAN
  /\ cases = 0
  /\ returned = {} /\ taken = {} /\ wrong = {} /\ asserted = FALSE /\ unmem = FALSE

Running == phase \in {"body", "cleanup"}

(* h2_runner::failing: the jump ends every open BLOCK without its          *)
(* destructor; what is in the Cleanup starts the Cleanup again.  `rest` is *)
(* open when nothing jumps.                                                *)
Failing(fails, rest) ==
  /\ failed' = (failed \/ fails)
  /\ IF fails /\ ~continue_assert
     THEN phase' = "cleanup" /\ open' = <<>>
     ELSE phase' = phase /\ open' = rest

Does(wrongs) ==
  /\ wrong' = wrong \cup wrongs
  /\ wrongs \subseteq wrong \/ Cardinality(wrong') <= MaxWrong

---------------------------------------------------------------------------
(* new_piece *)
Refuses(b, size) == blocks[b].limit < (blocks[b].allocated + size) % Wrap

(* Mutant of Grown: the highest value is taken before the new one counts. *)
GrownLate(b, size) ==
  [blocks EXCEPT ![b].allocated = (@ + size) % Wrap,
                 ![b].footprint = Max({@, blocks[b].allocated})]

Grown(b, size) ==
  LET allocated == (blocks[b].allocated + size) % Wrap
  IN  [blocks EXCEPT ![b].allocated = allocated,
                     ![b].footprint = Max({@, allocated})]

NewPiece(place, home, who, size) ==
  [NoPiece EXCEPT !.place = place, !.home = home, !.who = who, !.size = size, !.born = cases]
Given(p, place, home, who, size) ==
  piece' = [piece EXCEPT ![p] = NewPiece(place, home, who, size)]

(* malloc, calloc, posix_memalign, ... or a new; of an exempt function the *)
(* root gives it, whatever block is on top.                                *)
Malloc(p, who, size, b) ==
  /\ Running /\ piece[p].place = "none"
  /\ hooked /\ b \in {Root, Top} /\ ~Refuses(b, size)
  /\ blocks' = Grown(b, size)
  /\ Given(p, "mapped", b, who, size)
  /\ UNCHANGED <<hooked, flow, continue_assert, cases, told>>

MallocUnhooked(p) ==
  /\ Running /\ piece[p].place = "none"
  /\ ~hooked
  /\ Given(p, "libc", 0, "malloc", 0)
  /\ UNCHANGED <<blocks, hooked, flow, continue_assert, cases, told>>

---------------------------------------------------------------------------
(* Mutant of Complains: what is around the piece is not looked at. *)
ComplainsNot(p, who) ==
  \/ piece[p].free_times > 0
  \/ who # piece[p].who /\ piece[p].home # Root

(* h2_piece::free: the checks in their order, the first that fails tells.  *)
Complains(p, who) ==
  \/ piece[p].free_times > 0
  \/ who # piece[p].who /\ piece[p].home # Root
  \/ piece[p].dirty

Released(pieces, p, who) ==
  [pieces EXCEPT ![p].free_times = @ + 1,
                 ![p].forbidden = IF Complains(p, who) THEN @ ELSE "all"]

(* Mutant of Shrunk: `allocated` may go below zero. *)
ShrunkSigned(bs, p) ==
  [bs EXCEPT ![piece[p].home].allocated = @ - piece[p].size]

Shrunk(bs, p) ==
  [bs EXCEPT ![piece[p].home].allocated = (@ - piece[p].size) % Wrap]

FreedWrongly(p, who) ==
  {<<p, how>> : how \in {h \in {"again", "mismatch"} :
     (h = "again" /\ p \in returned) \/ (h = "mismatch" /\ who # piece[p].who)}}

Free(p, who) ==
  /\ Running /\ hooked /\ piece[p].home # 0 /\ piece[p].free_times < MaxFree
  /\ blocks' = Shrunk(blocks, p)
  /\ piece' = Released(piece, p, who)
  /\ Failing(Complains(p, who), open)
  /\ Does(FreedWrongly(p, who))
  /\ returned' = returned \cup {p}
  /\ UNCHANGED <<hooked, continue_assert, cases, taken, asserted, unmem>>

(* A pointer no block knows: one of libc's, or of a block that has ended.  *)
FreeUnknown(p) ==
  /\ Running /\ hooked /\ piece[p].home = 0 /\ piece[p].place # "none"
  /\ returned' = returned \cup {p}
  /\ UNCHANGED <<blocks, piece, hooked, flow, continue_assert, cases, taken, wrong, asserted, unmem>>

(* libc gets its own pointer, or one it never gave: it aborts. *)
FreeUnhooked(p) ==
  /\ Running /\ ~hooked /\ piece[p].place # "none"
  /\ piece[p].place = "libc" => p \notin returned
  /\ phase' = IF piece[p].place = "libc" THEN phase ELSE "dead"
  /\ returned' = returned \cup {p}
  /\ UNCHANGED <<blocks, piece, hooked, open, failed, continue_assert, cases, taken, wrong, asserted, unmem>>

(* The fault handler notes the first violation of a piece, opens the page  *)
(* so far that the access can happen, and `left` is what then faults.      *)
Touched(p, faults, left) ==
  [piece EXCEPT ![p].violated = @ \/ faults,
                ![p].forbidden = IF faults THEN left ELSE @]

(* realloc: the new piece, the copy, then the old one is freed.  Reading a *)
(* freed piece is an access like any other.                                *)
Realloc(p, q, size) ==
  /\ Running /\ hooked /\ piece[p].home # 0 /\ piece[q].place = "none"
  /\ piece[p].free_times < MaxFree
  /\ ~Refuses(Top, size)
  /\ blocks' = Shrunk(Grown(Top, size), p)
  /\ LET read == Touched(p, piece[p].forbidden = "all", "writes")
     IN  piece' = Released([read EXCEPT ![q] = NewPiece("mapped", Top, "malloc", size)], p, "malloc")
  /\ Failing(Complains(p, "malloc"), open)
  /\ Does(FreedWrongly(p, "malloc"))
  /\ returned' = returned \cup {p}
  /\ UNCHANGED <<hooked, continue_assert, cases, taken, asserted, unmem>>

(* ... also when there is no new one. *)
ReallocRefused(p, size) ==
  /\ Running /\ hooked /\ piece[p].home # 0 /\ piece[p].free_times < MaxFree
  /\ Refuses(Top, size)
  /\ blocks' = Shrunk(blocks, p)
  /\ piece' = Released(piece, p, "malloc")
  /\ Failing(Complains(p, "malloc"), open)
  /\ Does(FreedWrongly(p, "malloc"))
  /\ taken' = taken \cup {p}
  /\ UNCHANGED <<hooked, continue_assert, cases, returned, asserted, unmem>>

---------------------------------------------------------------------------
(* A write inside the piece, into the gap around it or into the page       *)
(* behind.  A fault whose piece the handler cannot find aborts.            *)
Faults(p, spot) ==
  \/ piece[p].place = "unmapped"
  \/ piece[p].forbidden \in {"all", "writes"}
  \/ piece[p].forbidden = "guard" /\ spot = "guard"

Access(p, spot) ==
  IF p \in returned THEN {<<p, "late">>}
  ELSE IF spot = "inside" THEN {} ELSE {<<p, spot>>}

Write(p, spot) ==
  /\ Running
  /\ piece[p].home # 0 /\ Does(Access(p, spot))
  /\ piece' = [Touched(p, Faults(p, spot), "none") EXCEPT ![p].dirty = @ \/ spot = "gap"]
  /\ UNCHANGED <<blocks, hooked, flow, continue_assert, cases, returned, taken, asserted, unmem>>

WriteAborts(p, spot) ==
  /\ Running /\ piece[p].place \in {"mapped", "unmapped"}
  /\ Faults(p, spot) /\ piece[p].home = 0
  /\ phase' = "dead"
  /\ UNCHANGED <<blocks, piece, hooked, open, failed, continue_assert, cases, told>>

---------------------------------------------------------------------------
(* h2_block::check, at its end: violations are told first, and leaks only  *)
(* when there are none; only a block without complaint unmaps its pieces.  *)
(* Either way no block knows them from then on.                            *)
InTop == {p \in Piece : piece[p].home = Top}

(* Mutant of Leaked: noleak is forgotten. *)
LeakedAlways == {p \in InTop : piece[p].free_times = 0}

Leaked == {p \in InTop : piece[p].free_times = 0 /\ ~blocks[Top].noleak}

Faulty == (\E p \in InTop : piece[p].violated) \/ Leaked # {}

Pop ==
  /\ blocks' = Front(blocks)
  /\ piece' = [p \in Piece |->
       IF p \in InTop
       THEN [NoPiece EXCEPT !.place = IF Faulty THEN "mapped" ELSE "unmapped", !.born = piece[p].born,
                            !.forbidden = IF Faulty THEN piece[p].forbidden ELSE "guard",
                            !.free_times = Min({piece[p].free_times, 1})]
       ELSE piece[p]]
  /\ wrong' = wrong \cup {<<p, "leak">> : p \in {q \in InTop : ~blocks[Top].noleak /\ q \notin returned}}

(* BLOCK(attributes), UNMEM() *)
OpenBlock(a) ==
  /\ Running /\ Len(blocks) < 3 + MaxNest
  /\ hooked' = (hooked /\ ~a.unmem)
  /\ blocks' = Append(blocks, NewBlock(a.limit, a.noleak))
  /\ open' = Append(open, a)
  /\ unmem' = (unmem \/ a.unmem)
  /\ UNCHANGED <<piece, phase, failed, continue_assert, cases, returned, taken, wrong, asserted>>

(* The destructor: a complaint that jumps does not come to the hooks. *)
CloseBlock ==
  /\ Running /\ open # <<>>
  /\ Pop
  /\ Failing(Faulty, Front(open))
  /\ hooked' = (hooked \/ (Last(open).unmem /\ ~(Faulty /\ ~continue_assert)))
  /\ UNCHANGED <<continue_assert, cases, returned, taken, asserted, unmem>>

AssertFails ==
  /\ Running
  /\ Failing(TRUE, open)
  /\ asserted' = TRUE
  /\ UNCHANGED <<blocks, piece, hooked, continue_assert, cases, returned, taken, wrong, unmem>>

---------------------------------------------------------------------------
(* h2_case::prev_setup *)
Begin ==
  /\ phase = "ready" /\ cases < MaxCase
  /\ blocks' = Append(blocks, PlainBlock)
  /\ phase' = "body" /\ failed' = FALSE
  /\ cases' = cases + 1
  /\ asserted' = FALSE /\ unmem' = FALSE
  /\ UNCHANGED <<piece, hooked, open, continue_assert, returned, taken, wrong>>

(* h2_case::post_cleanup *)
Teardown ==
  /\ Running /\ open = <<>>
  /\ Pop
  /\ failed' = (failed \/ Faulty)
  /\ phase' = "ended"
  /\ UNCHANGED <<hooked, open, continue_assert, cases, returned, taken, asserted, unmem>>

(* Mutant of Clear: the hooks stay as they are. *)
ClearOnly ==
  /\ phase = "ended"
  /\ phase' = "ready"
  /\ UNCHANGED <<blocks, piece, hooked, open, failed, continue_assert, cases, told>>

(* h2_case::clear *)
Clear ==
  /\ phase = "ended"
  /\ hooked' = TRUE
  /\ phase' = "ready"
  /\ UNCHANGED <<blocks, piece, open, failed, continue_assert, cases, told>>

(* h2_suite::cleanup: whatever the block finds is dropped. *)
EndSuite ==
  /\ phase = "ready" /\ cases = MaxCase
  /\ Pop
  /\ phase' = "done"
  /\ UNCHANGED <<hooked, open, failed, continue_assert, cases, returned, taken, asserted, unmem>>

MemoryNext ==
  \/ Begin \/ CloseBlock \/ AssertFails \/ Teardown \/ Clear \/ EndSuite
  \/ \E a \in Attribute : OpenBlock(a)
  \/ \E p \in Piece, who \in Who :
       \/ \E size \in Size, b \in {Root, Top} : Malloc(p, who, size, b)
       \/ Free(p, who)
  \/ \E p \in Piece : MallocUnhooked(p) \/ FreeUnknown(p) \/ FreeUnhooked(p)
  \/ \E p \in Piece, spot \in Spot : Write(p, spot) \/ WriteAborts(p, spot)
  \/ \E p, q \in Piece, size \in Size : Realloc(p, q, size)
  \/ \E p \in Piece, size \in Size : ReallocRefused(p, size)

MemorySpec == MemoryInit /\ [][MemoryNext]_memoryVars

---------------------------------------------------------------------------
(* The pieces a case answers for: its own, but for those exempt functions  *)
(* asked for and those a realloc took.                                     *)
Watched(p) == piece[p].born = cases /\ piece[p].home # Root /\ p \notin taken

(* A case that passes has freed each of its pieces once, in the matching   *)
(* way, in the block it asked for it in, and neither written around it nor *)
(* used it afterwards: no order of blocks, frees and faults hides it.  Not *)
(* seen are what is done to a piece after the end of its block, and the    *)
(* gap of a piece not freed before the end of its noleak block.            *)
PassMeansClean ==
  phase = "ended" /\ ~failed =>
    \A w \in wrong :
      Watched(w[1]) => w[2] = "gap" /\ piece[w[1]].free_times = 0

(* A case that does nothing wrong with memory, and none of whose           *)
(* assertions fails, passes: no false alarm, wherever pieces cross blocks. *)
CleanPasses ==
  phase = "ended" /\ wrong = {} /\ ~asserted /\ taken = {} => ~failed

(* The verdict of a case on its memory is right both ways.                 *)
PassIffClean == PassMeansClean /\ CleanPasses

(* The bytes the pieces of a block still hold. *)
Holding(b) == {p \in Piece : piece[p].home = b /\ piece[p].free_times = 0}
Held(b) == UNION {{p} \X (1..piece[p].size) : p \in Holding(b)}

Balanced(b) ==
  (\A p \in Piece : piece[p].home = b => piece[p].free_times < 2) =>
    /\ blocks[b].allocated = Cardinality(Held(b))
    /\ blocks[b].allocated <= blocks[b].footprint
    /\ blocks[b].footprint <= blocks[b].limit

(* `allocated` of a block is what its pieces still hold, and with it its   *)
(* highest value the limit bounds, as long as nothing is freed twice.      *)
AccountsBalance == \A b \in DOMAIN blocks : Balanced(b)

(* Only a case with an UNMEM asks for pieces that are not checked, even    *)
(* where the case before it was left from within one, hooks off.           *)
UnmemStaysInCase ==
  \A p \in Piece : piece[p].place = "libc" /\ piece[p].born = cases => unmem

(* "UNMEM() ... avoid all in following block", "BLOCK ... control the      *)
(* remain memory": outside all of them memory is checked and not limited.  *)
EffectsEndWithBlock ==
  Running /\ open = <<>> => hooked /\ blocks[Top].limit = NoLimit
===========================================================================
