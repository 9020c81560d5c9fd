------------------------------ MODULE Symbols ------------------------------
(***************************************************************************)
(* Functions by name and by member pointer (symbol/h2_nm.cpp, h2_load.cpp, *)
(* h2_backtrace.cpp, stub/h2_fp.hpp) on systems whose symbols are read     *)
(* from nm.  Names are sequences of characters; the output of nm, the      *)
(* demangler, addr2line and backtrace are external.                        *)
(***************************************************************************)
EXTENDS Integers, Sequences, SequencesExt

CONSTANTS
  WordSize,     \* sizeof(void*)
  VirtualLimit, \* most slots a table of virtual functions is taken to have, by parity of its pointers
  MaxExempt,    \* places for exempt functions, the last of which stays null: 4096
  WordBits, ImmediateBits, PageBits   \* of arm64: 64, 21, 12

NoSymbol == [name |-> <<>>, addr |-> 0]

---------------------------------------------------------------------------
(* __nm: the defined symbols that are no data, in the order of addresses.  *)
Rejected == {"b", "B", "c", "C", "d", "D", "i", "I", "u", "U"}
Nm(lines) ==
  LET accepted == SelectSeq(lines, LAMBDA l : l.type \notin Rejected)
  IN [i \in DOMAIN accepted |-> [name |-> accepted[i].name, addr |-> accepted[i].addr]]

(* Where C names have an underscore in front it is taken off every name.   *)
LeadingUnderscore(symbols) ==
  LET named(name) == \E i \in DOMAIN symbols : symbols[i].name = name
  IN ~named(<<"m", "a", "i", "n">>) /\ named(<<"_", "m", "a", "i", "n">>)
Name(symbol, leading) == IF leading /\ symbol.name # <<>> /\ symbol.name[1] = "_" THEN Tail(symbol.name) ELSE symbol.name

(* Mutant of Named: the characters before the name are not looked at.      *)
NamedAnywhere(full, name) ==
  LET p == SelectInSeq(full, LAMBDA ch : ch = "(") IN p # 0 /\ IsSuffix(name, SubSeq(full, 1, p - 1))
(* Whether a function, which is what has parentheses, has the name behind  *)
(* any namespaces.                                                         *)
Named(full, name) ==
  LET p == SelectInSeq(full, LAMBDA ch : ch = "(")
      func == p - Len(name)
  IN /\ p # 0 /\ func >= 1 /\ SubSeq(full, func, p - 1) = name
     /\ func = 1 \/ (full[func - 1] = ":" /\ func > 2 /\ full[func - 2] = ":")

(* h2_nm::get_by_name: the one of exactly the name, or the first functions *)
(* that have it.                                                           *)
GetByName(symbols, name, n) ==
  LET leading == LeadingUnderscore(symbols)
      exact == SelectInSeq(symbols, LAMBDA s : Name(s, leading) = name)
      functions == SelectSeq(symbols, LAMBDA s : Named(Name(s, leading), name))
  IN IF name = <<>> THEN <<>>
     ELSE IF exact # 0 THEN <<symbols[exact]>>
     ELSE SubSeq(functions, 1, IF Len(functions) < n THEN Len(functions) ELSE n)

GetMangle(symbols, name) ==
  LET exact == SelectInSeq(symbols, LAMBDA s : Name(s, LeadingUnderscore(symbols)) = name)
  IN IF name = <<>> \/ exact = 0 THEN 0 ELSE symbols[exact].addr

(* h2_load: where the program was loaded, from where main is; a program    *)
(* without symbols is taken as loaded where it was linked.                 *)
TextOffset(symbols, main) ==
  LET s == GetByName(symbols, <<"m", "a", "i", "n">>, 16) IN IF s = <<>> THEN 0 ELSE main - s[1].addr
AddrToPtr(addr, offset) == addr + offset
PtrToAddr(ptr, offset) == ptr - offset

(* h2_fp<>::get: the address of the one function of the name; none or      *)
(* several of them fail, with the candidates.                              *)
FpGet(symbols, main, name) ==
  LET found == GetByName(symbols, name, 16) IN
  IF Len(found) = 1 THEN [ptr |-> AddrToPtr(found[1].addr, TextOffset(symbols, main)), fails |-> FALSE, candidates |-> <<>>]
  ELSE [ptr |-> 0, fails |-> TRUE, candidates |-> [i \in DOMAIN found |-> Name(found[i], LeadingUnderscore(symbols))]]

---------------------------------------------------------------------------
(* h2_constructible: how an object is made to read its table of virtual    *)
(* functions: 0 arguments, as many {} as it takes, or an error.            *)
Constructible(class) ==
  IF class.abstract THEN [error |-> 1, arguments |-> 0]
  ELSE IF class.arguments \cap 0..9 = {} THEN [error |-> 2, arguments |-> 0]
  ELSE [error |-> 0, arguments |-> CHOOSE n \in class.arguments : \A m \in class.arguments : n <= m]

(* Member pointers: a function's address, or a slot of the table, told     *)
(* apart by the parity the compiler gives slots (h2_vtable_test).          *)
IsVirtual(f, odd) ==
  IF odd THEN f % 2 = 1 /\ (f - 1) % WordSize = 0 /\ f < VirtualLimit[TRUE] * WordSize
  ELSE f % WordSize = 0 /\ f < VirtualLimit[FALSE] * WordSize
GetVirtual(vtable, f) == vtable[((f \div 2) * 2) \div WordSize]

(* h2_fp<Class>::get1, without an object: one is made, else the table is   *)
(* looked up among the symbols, that of the type when it has no other.     *)
Get1(class, symbols, f, odd) ==
  LET made == Constructible(class)
      at == IF GetMangle(symbols, <<"Z", "T", "V">>) # 0 THEN "vtable"
            ELSE IF GetMangle(symbols, <<"Z", "T", "I">>) # 0 THEN "typeinfo" ELSE "none"
  IN CASE ~IsVirtual(f, odd) -> [from |-> "pointer", fp |-> f]
       [] IsVirtual(f, odd) /\ made.error = 0 -> [from |-> "object", fp |-> GetVirtual(class.vtable, f)]
       [] IsVirtual(f, odd) /\ made.error # 0 /\ at = "vtable" -> [from |-> at, fp |-> GetVirtual(class.vtable, f)]
       [] OTHER -> [from |-> at, fp |-> 0]
(* With an object its own table is read.                                   *)
Get2(object, f, odd) ==
  IF IsVirtual(f, odd) THEN [from |-> "object", fp |-> GetVirtual(object.vtable, f)] ELSE [from |-> "pointer", fp |-> f]

---------------------------------------------------------------------------
(* h2_backtrace: frames from the innermost, of which `shift` are skipped.  *)
(* Of a frame backtrace_symbols says the function and how far in it it is, *)
(* how far in the program when the function is not exported, or neither;   *)
(* what else it may say of an exported one is passed over.                 *)
NoOffset == -1
Extract(text) ==
  [extracted |-> text.plus # NoOffset, mangled |-> IF text.plus = NoOffset THEN "" ELSE text.function, displacement |-> text.plus]
(* addr2line: the place in the source, unless it has none.                 *)
AddrToLine(said) == IF said \in {"", "??:0", "??:?"} THEN "" ELSE said
FrameOf(frame, text, said) == Extract(text) @@ [ptr |-> frame, line |-> AddrToLine(said)]

SameBacktrace(b, c) == b.frames = c.frames
InAny(b, fps) ==
  \E i \in DOMAIN b.frames :
    i > b.shift /\ b.frames[i].extracted /\ b.frames[i].ptr - b.frames[i].displacement \in Range(fps)

(* h2_exempt: functions below which nothing of the program counts, in an   *)
(* array with an end; what its place holds after linker jumps is added.    *)
ExemptFunctions == <<"sscanf", "sprintf", "vsnprintf", "__cxa_demangle", "__cxa_throw", "__cxa_allocate_exception", "regex_match">>
AddByFp(fps, fp, lead) == IF Len(fps) < MaxExempt - 1 THEN Append(fps, lead[fp]) ELSE fps
ExemptSetup(fp, lead) == FoldLeft(LAMBDA fps, name : AddByFp(fps, fp[name], lead), <<>>, ExemptFunctions)
AddOneByName(fps, symbols, offset, lead, name) ==                 \* mutant: the first of the name
  LET found == GetByName(symbols, name, 1) IN IF found = <<>> THEN fps ELSE AddByFp(fps, AddrToPtr(found[1].addr, offset), lead)
AddByName(fps, symbols, offset, lead, name) ==
  FoldLeft(LAMBDA all, s : AddByFp(all, AddrToPtr(s.addr, offset), lead), fps, GetByName(symbols, name, 16))

(* What is printed of a frame: the line, else the demangled name, else     *)
(* what backtrace says.                                                    *)
Printed(frame, detail, mac) ==
  IF frame.line # "" /\ (detail \/ ~mac) THEN frame.line ELSE IF frame.demangled # "" THEN frame.demangled ELSE frame.raw
PrintedFrames(b, detail, mac) ==
  LET shown == SubSeq(b.frames, b.shift + 1, Len(b.frames))
      last == SelectInSeq(shown, LAMBDA f : f.extracted /\ f.mangled \in {"main", "__libc_start_main"})
  IN [i \in 1..(IF last = 0 THEN Len(shown) ELSE last) |-> Printed(shown[i], detail, mac)]

---------------------------------------------------------------------------
(* h2_cxa::follow_jmp on arm64: from the stub of an imported function to   *)
(* the function, through its pointer in a table at a distance in pages.    *)
(* `code` has instructions by address, `data` pointers; what neither has   *)
(* is another instruction, or memory that cannot be read.                  *)
Nowhere == -1
SignExtend(value, bits) ==
  IF value >= 2 ^ (bits - 1) THEN value + 2 ^ WordBits - 2 ^ (WordBits - bits) ELSE value      \* the shift is `left`, not `bits`
TableEntry(fp, pages, slot) ==
  LET page == 2 ^ PageBits IN ((fp \div page) * page + SignExtend(pages, ImmediateBits) * page + slot * WordSize) % 2 ^ WordBits
Op(code, a) == IF a \in DOMAIN code THEN code[a].op ELSE "other"
Pointed(data, a) == IF a \in DOMAIN data THEN data[a] ELSE Nowhere
FollowThird(code, data, fp) ==                                    \* mutant: br is looked for in one place
  IF Op(code, fp) = "adrp" /\ Op(code, fp + 4) = "ldr" /\ Op(code, fp + 8) = "br"
  THEN Pointed(data, TableEntry(fp, code[fp].imm, code[fp + 4].imm))
  ELSE IF Op(code, fp) = "literal" /\ Op(code, fp + 4) = "br" THEN Pointed(data, fp + 4 * code[fp].imm) ELSE fp
FollowOnce(code, data, fp) ==
  IF Op(code, fp) = "adrp" /\ Op(code, fp + 4) = "ldr" /\ "br" \in {Op(code, fp + 8), Op(code, fp + 12)}
  THEN Pointed(data, TableEntry(fp, code[fp].imm, code[fp + 4].imm))
  ELSE IF Op(code, fp) = "literal" /\ Op(code, fp + 4) = "br" THEN Pointed(data, fp + 4 * code[fp].imm) ELSE fp
FollowArm(code, data, fp, n) == FoldLeft(LAMBDA at, hop : FollowOnce(code, data, at), fp, [hop \in 1..n |-> hop])

---------------------------------------------------------------------------
(* On macOS, where code outside of the program cannot be written, an       *)
(* imported function is stubbed through the pointer the program calls it   *)
(* by (stub/h2_e9.cpp).  The image of the program is a list of commands:   *)
(* segments with sections and the two tables of symbols.                   *)
NoPointer == -1
InMainExecutable(image, fp) ==
  LET text == SelectInSeq(image, LAMBDA c : c.cmd = "segment" /\ c.name = "__TEXT")
  IN text # 0 /\ image[text].from <= fp /\ fp < image[text].to

(* The pointers are those of the last segment that has any, the symbol of  *)
(* each is found through the table of indirect symbols.                    *)
PointerSections(segment) == SelectSeq(segment.sections, LAMBDA s : s.name \in {"__got", "__la_symbol_ptr"})
ImportPointer(image, symbol) ==
  LET symtab == SelectLastInSeq(image, LAMBDA c : c.cmd = "symtab")
      dysymtab == SelectLastInSeq(image, LAMBDA c : c.cmd = "dysymtab")
      segment == SelectLastInSeq(image, LAMBDA c : c.cmd = "segment" /\ PointerSections(c) # <<>>)
      pointers == PointerSections(image[segment])[1]
      indirect == image[dysymtab].indirect
      found(i) == /\ pointers.reserved + i <= Len(indirect)
                  /\ indirect[pointers.reserved + i] \in DOMAIN image[symtab].names       \* neither local nor absolute
                  /\ image[symtab].names[indirect[pointers.reserved + i]] = symbol
      slot == SelectInSeq([i \in 1..pointers.count |-> i], found)
  IN IF symtab = 0 \/ dysymtab = 0 \/ segment = 0 THEN NoPointer
     ELSE IF slot = 0 THEN NoPointer ELSE pointers.at + slot - 1

GotSymbols == {"getaddrinfo", "freeaddrinfo", "gethostbyname", "sendto", "recvfrom", "sendmsg", "recvmsg", "send",
               "recv", "accept", "connect"}
(* h2_e9_source_address and what h2_source makes of it.                    *)
SourceAddress(image, fp, name) ==
  IF InMainExecutable(image, fp) \/ name \notin GotSymbols \/ ImportPointer(image, name) = NoPointer THEN fp
  ELSE ImportPointer(image, name)
IsPatchable(image, fp, name) == InMainExecutable(image, fp) \/ SourceAddress(image, fp, name) # fp
PatchesPointer(image, fp, name) == SourceAddress(image, fp, name) # fp
=============================================================================
