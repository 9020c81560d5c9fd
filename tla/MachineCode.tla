---------------------------- MODULE MachineCode ----------------------------
(***************************************************************************)
(* The bytes under the stub engine (stub/h2_e9.cpp, symbol/h2_cxa.cpp and  *)
(* the h2_source that keeps them): a jump is written over the first bytes  *)
(* of a function, on every processor and system it is built for, and the   *)
(* jumps of the linker are followed to the function behind them.           *)
(*                                                                         *)
(* A byte is part of an instruction: its name, its value, the number of    *)
(* the byte in it.  Addresses and distances are small.                     *)
(***************************************************************************)
EXTENDS Integers, Sequences, Functions

CONSTANTS
  Memory,     \* addresses of code that can be written and read
  PageSize,
  Near,       \* what a relative jump reaches (2^31 - 1, on Apple's arm 2^27)
  First,      \* the address of the first of two functions, as close as their patches permit
  Fakes,      \* where functions are led
  LinkerJump, \* the kinds of the jumps the linker made to the first function, per address
  Pointer,    \* where the pointer of an indirect one lies
  Machine     \* [isa : {"i386", "x86_64", "arm64"}, apple : BOOLEAN]

VARIABLES
  machine,    \* what the program was built for
  code,       \* the byte at each address
  mode,       \* what each page permits
  kept,       \* h2_source::origin_opcode, per source_fp that is patched
  passing,    \* the bytes a temporary restore keeps, per source_fp
  meant,      \* history: where each patched function is to lead
  fault       \* history: a page was written that does not permit it

codeVars == <<machine, code, mode, kept, passing, meant, fault>>

Byte(op, value, nth) == [op |-> op, value |-> value, nth |-> nth]
Operand(value, bytes) == [k \in 1..bytes |-> Byte("value", value, k)]
(* Opcodes around an operand. *)
Instruction(before, value, bytes, after) ==
  [k \in 1 .. Len(before) + bytes + Len(after) |->
     IF k <= Len(before) THEN Byte(before[k], 0, 1)
     ELSE IF k <= Len(before) + bytes THEN Byte("value", value, k - Len(before))
     ELSE Byte(after[k - Len(before) - bytes], 0, 1)]
Garbage == -1

(* The value of the operand that starts at p, when all of it is there.     *)
ReadIn(c, p, bytes) ==
  IF \A k \in 1..bytes : p + k - 1 \in DOMAIN c /\ c[p + k - 1] = Byte("value", c[p].value, k) THEN c[p].value ELSE Garbage
HasOp(c, p, op) == p \in DOMAIN c /\ c[p].op = op

(* h2_e9_size *)
SizeOn(m) == CASE m.isa = "i386" -> 1 + 4
               [] m.isa = "x86_64" -> 2 + 8 + 2
               [] m.isa = "arm64" -> IF m.apple THEN 4 ELSE 4 + 4 + 8
Size == SizeOn(machine)
Areas(m) == First .. First + 2 * SizeOn(m) - 1
(* The jumps are those of a PC, one of them of 64 bits only. *)
JumpsOn(isa) == IF isa = "arm64" THEN {} ELSE {a \in DOMAIN LinkerJump : isa = "i386" => LinkerJump[a] # "48FF25"}
Jumps == JumpsOn(machine.isa)
Entries == {First, First + Size} \cup Jumps
HomeOf(a) == IF a \in Jumps THEN First ELSE a

---------------------------------------------------------------------------
(* What stands in memory before anything is patched.                       *)
LinkerCode(isa, a) ==
  CASE LinkerJump[a] = "E9" -> Instruction(<<"E9">>, First - (a + 5), 4, <<>>)
    [] LinkerJump[a] = "EB" -> Instruction(<<"EB">>, First - (a + 2), 1, <<>>)
    [] LinkerJump[a] = "FF25" ->
         Instruction(<<"FF", "25">>, IF isa = "i386" THEN Pointer[a] ELSE Pointer[a] - (a + 6), 4, <<>>)
    [] LinkerJump[a] = "48FF25" -> Instruction(<<"48", "FF", "25">>, Pointer[a] - (a + 7), 4, <<>>)
JumpBytes(kind) == CASE kind = "E9" -> 5 [] kind = "EB" -> 2 [] kind = "FF25" -> 6 [] kind = "48FF25" -> 7
JumpArea(a) == a .. a + JumpBytes(LinkerJump[a]) - 1
PointerArea(a) == Pointer[a] .. Pointer[a] + 7
LinkedByte(isa, x) ==
  LET jumps == {a \in JumpsOn(isa) : x \in JumpArea(a)}
      pointers == {a \in JumpsOn(isa) \cap DOMAIN Pointer : x \in PointerArea(a)}
  IN IF jumps # {} THEN LET a == CHOOSE b \in jumps : TRUE IN LinkerCode(isa, a)[x - a + 1]
     ELSE IF pointers # {} THEN LET a == CHOOSE b \in pointers : TRUE IN Operand(First, 8)[x - Pointer[a] + 1]
     ELSE Byte("body", x, 1)
Linked(isa) == [x \in Memory |-> LinkedByte(isa, x)]

(* Nothing of what the linker made overlaps another, or a patch; where     *)
(* functions are led is none of it; and 32 bits reach all of it.           *)
ASSUME CodeLayout ==
  /\ PageSize \in Nat \ {0} /\ Near \in Nat /\ First \in Nat
  /\ Memory \subseteq Nat /\ Fakes \subseteq Nat /\ Fakes \cap Memory = {}
  /\ Machine \subseteq [isa : {"i386", "x86_64", "arm64"}, apple : BOOLEAN]
  /\ DOMAIN Pointer = {a \in DOMAIN LinkerJump : LinkerJump[a] \in {"FF25", "48FF25"}}
  /\ \A a \in DOMAIN LinkerJump : a \in Nat /\ LinkerJump[a] \in {"E9", "EB", "FF25", "48FF25"} /\ JumpArea(a) \subseteq Memory
  /\ \A a \in DOMAIN Pointer : Pointer[a] \in Nat /\ PointerArea(a) \subseteq Memory
  /\ \A a, b \in DOMAIN LinkerJump : a # b => JumpArea(a) \cap JumpArea(b) = {}
  /\ \A a \in DOMAIN LinkerJump, b \in DOMAIN Pointer : JumpArea(a) \cap PointerArea(b) = {}
  /\ \A a, b \in DOMAIN Pointer : Pointer[a] = Pointer[b] \/ PointerArea(a) \cap PointerArea(b) = {}
  /\ \A m \in Machine :
       /\ Areas(m) \subseteq Memory
       /\ m.isa # "arm64" => /\ \A a \in DOMAIN LinkerJump : Areas(m) \cap JumpArea(a) = {}
                             /\ \A a \in DOMAIN Pointer : Areas(m) \cap PointerArea(a) = {}
       /\ m.isa = "i386" => \A x \in Memory : x + 5 <= Near

LinkedFor == [isa \in {m.isa : m \in Machine} |-> Linked(isa)]
Compiled == LinkedFor[machine.isa]

(* Where the processor goes from an address, and where it ends.            *)
GoesOnPC(c, p) ==
  CASE HasOp(c, p, "E9") -> p + 5 + ReadIn(c, p + 1, 4)
    [] HasOp(c, p, "EB") -> p + 2 + ReadIn(c, p + 1, 1)
    [] HasOp(c, p, "FF") /\ HasOp(c, p + 1, "25") ->
         ReadIn(c, (IF machine.isa = "i386" THEN 0 ELSE p + 6) + ReadIn(c, p + 2, 4), 8)
    [] HasOp(c, p, "48") /\ HasOp(c, p + 1, "FF") -> ReadIn(c, p + 7 + ReadIn(c, p + 3, 4), 8)
    [] HasOp(c, p, "48") /\ HasOp(c, p + 1, "B8") /\ HasOp(c, p + 10, "FF") /\ HasOp(c, p + 11, "E0") -> ReadIn(c, p + 2, 8)
    [] OTHER -> p
GoesOnArm(c, p) ==
  CASE HasOp(c, p, "ldr_x17") /\ HasOp(c, p + 4, "br_x17") -> ReadIn(c, p + 8, 8)
    [] HasOp(c, p, "b") -> p + c[p].value
    [] OTHER -> p
GoesTo(c, p) == IF machine.isa = "arm64" THEN GoesOnArm(c, p) ELSE GoesOnPC(c, p)
Leads(c, p) == LET once == GoesTo(c, p) twice == GoesTo(c, once) thrice == GoesTo(c, twice) IN GoesTo(c, thrice)

---------------------------------------------------------------------------
(* h2_e9_set_permission: whole pages from the one of the first byte.       *)
Pages == {a \div PageSize : a \in Memory}
PagesFirst(a) == {a \div PageSize}                              \* mutant: the page of the first byte
PagesOf(a) ==
  LET start == a \div PageSize length == a + Size - start * PageSize IN
  start .. start + (length + PageSize - 1) \div PageSize - 1
Permit(m, a, what) == [p \in Pages |-> IF p \in PagesOf(a) THEN what ELSE m[p]]
Writable == IF machine.apple THEN {"r", "w"} ELSE {"r", "w", "x"}
Executable == {"r", "x"}

Area(a) == a .. a + Size - 1

(* h2_e9_save: the bytes are read, and on Apple the page is writable only  *)
(* while it is written.                                                    *)
Bytes(a) == [k \in 1..Size |-> code[a + k - 1]]
SavedMode(a) == IF machine.apple THEN Permit(mode, a, Executable) ELSE Permit(mode, a, Writable)

(* h2_e9_set: the jump to an address, or none when it is out of reach.     *)
Jump(a, to) ==
  LET delta == to - a - 5
      offset == to - a
  IN IF machine.isa # "arm64"
     THEN IF delta < -Near \/ Near < delta
          THEN Instruction(<<"48", "B8">>, to, 8, <<"FF", "E0">>)
          ELSE Instruction(<<"E9">>, delta, 4, <<>>)
     ELSE IF machine.apple
     THEN IF offset % 4 # 0 \/ offset < -Near - 1 \/ Near < offset THEN <<>>
          ELSE [k \in 1..4 |-> Byte("b", offset, k)]
     ELSE [k \in 1..16 |-> IF k <= 4 THEN Byte("ldr_x17", 8, k)
                            ELSE IF k <= 8 THEN Byte("br_x17", 0, k - 4) ELSE Byte("value", to, k - 8)]

Overlay(c, a, bytes) == [x \in DOMAIN c |-> IF x - a + 1 \in DOMAIN bytes THEN bytes[x - a + 1] ELSE c[x]]

(* Writing bytes with the permission of the moment.                        *)
Overwrite(a, bytes) ==
  LET at == IF machine.apple THEN Permit(mode, a, Writable) ELSE mode IN
  /\ code' = Overlay(code, a, bytes)
  /\ fault' = (fault \/ \E k \in DOMAIN bytes : "w" \notin at[(a + k - 1) \div PageSize])
  /\ mode' = IF machine.apple THEN Permit(mode, a, Executable) ELSE mode

(* follow_JMP32ABS: the pointer lies behind the instruction, or where it   *)
(* says on 32 bits.                                                        *)
JMP32ABS(p) ==
  LET pointer == IF machine.isa = "i386" THEN ReadIn(code, p + 2, 4) ELSE p + ReadIn(code, p + 2, 4) + 6
  IN ReadIn(code, pointer, 8)

(* h2_cxa::follow_jmp, of one jump at most on a PC.                        *)
FollowJmp(p) ==
  CASE HasOp(code, p, "E9") -> p + 5 + ReadIn(code, p + 1, 4)
    [] HasOp(code, p, "EB") -> p + 2 + ReadIn(code, p + 1, 1)
    [] HasOp(code, p, "FF") /\ HasOp(code, p + 1, "25") -> JMP32ABS(p)
    [] machine.isa # "i386" /\ HasOp(code, p, "48") /\ HasOp(code, p + 1, "FF") /\ HasOp(code, p + 2, "25") -> JMP32ABS(p + 1)
    [] OTHER -> p

(* h2_sources::__follow: a source is not followed.                         *)
Follow(a) == IF machine.isa = "arm64" \/ a \in DOMAIN kept THEN a ELSE FollowJmp(a)

---------------------------------------------------------------------------
(* An h2_source is made, set, passed for a call to the original, deleted.  *)
Plus(f, s, value) == [t \in DOMAIN f \cup {s} |-> IF t = s THEN value ELSE f[t]]
Create(a) ==
  LET s == Follow(a) IN
  /\ s \notin DOMAIN kept
  /\ kept' = Plus(kept, s, Bytes(s)) /\ meant' = Plus(meant, s, s)
  /\ mode' = SavedMode(s)
  /\ UNCHANGED <<machine, code, passing, fault>>
Set(a, to) ==
  LET s == Follow(a) IN
  /\ s \in DOMAIN kept \ DOMAIN passing
  /\ Overwrite(s, Jump(s, to))
  /\ meant' = IF Jump(s, to) = <<>> THEN meant ELSE [meant EXCEPT ![s] = to]
  /\ UNCHANGED <<machine, kept, passing>>
Pass(a) ==
  LET s == Follow(a) IN
  /\ s \in DOMAIN kept \ DOMAIN passing
  /\ passing' = Plus(passing, s, Bytes(s))
  /\ Overwrite(s, kept[s])
  /\ UNCHANGED <<machine, kept, meant>>
Return(a) ==
  LET s == Follow(a) IN
  /\ s \in DOMAIN passing
  /\ passing' = Restrict(passing, DOMAIN passing \ {s})
  /\ Overwrite(s, passing[s])
  /\ UNCHANGED <<machine, kept, meant>>
Delete(a) ==
  LET s == Follow(a) IN
  /\ s \in DOMAIN kept \ DOMAIN passing
  /\ Overwrite(s, kept[s])
  /\ kept' = Restrict(kept, DOMAIN kept \ {s}) /\ meant' = Restrict(meant, DOMAIN kept \ {s})
  /\ UNCHANGED <<machine, passing>>

CodeInit ==
  /\ machine \in Machine
  /\ code = Compiled /\ mode = [p \in Pages |-> Executable]
  /\ kept = <<>> /\ passing = <<>> /\ meant = <<>> /\ fault = FALSE
(* With addresses of 32 bits every one is near. *)
Reached == IF machine.isa = "i386" THEN {to \in Fakes : to < Near} ELSE Fakes
CodeNext ==
  \E a \in Entries :
    Create(a) \/ Pass(a) \/ Return(a) \/ Delete(a) \/ \E to \in Reached : Set(a, to)
CodeSpec == CodeInit /\ [][CodeNext]_codeVars

(* A function leads where it was last set to while it is patched and to    *)
(* its own body otherwise, called itself or through the linker's jumps;    *)
(* one function is the same source whichever of its addresses is named and *)
(* whatever was written over it; not a byte beside the patched functions   *)
(* has changed; pages are written when they permit it only, and executable *)
(* whenever a test may run (h2_e9.cpp, h2_source.cpp).                     *)
PatchesLead ==
  /\ \A a \in Entries :
       /\ Follow(a) = HomeOf(a)
       /\ Leads(code, a) = IF HomeOf(a) \in DOMAIN kept \ DOMAIN passing THEN meant[HomeOf(a)] ELSE HomeOf(a)
  /\ \A x \in Memory : (\A s \in DOMAIN kept : x \notin Area(s)) => code[x] = Compiled[x]
  /\ ~fault /\ \A p \in Pages : "x" \in mode[p]
=============================================================================
