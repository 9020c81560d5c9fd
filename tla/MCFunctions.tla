---------------------------- MODULE MCFunctions ----------------------------
(***************************************************************************)
(* Questions about functions found by name, by member pointer, on a stack  *)
(* and behind the pointers of a program.                                   *)
(***************************************************************************)
EXTENDS MCTexts, Symbols

MCVirtualLimit == [odd \in BOOLEAN |-> IF odd THEN 1000 ELSE 100]

(* A function's demangled name is its namespaces, its name and parameters. *)
Written(path) == FoldLeft(LAMBDA s, part : IF s = <<>> THEN part ELSE s \o <<":", ":">> \o part, <<>>, path)
Components == {<<"a">>, <<"b">>, <<"a", "b">>}
Paths == {p \in Texts(Components, 2) : p # <<>>}
Function(path) == Written(path) \o <<"(", "a", ")">>
MainAddress == 100
Listing(lines) ==
  <<[name |-> <<"m", "a", "i", "n">>, addr |-> MainAddress, type |-> "T"]>>
    \o [i \in DOMAIN lines |-> [name |-> IF lines[i].data THEN Written(lines[i].path) ELSE Function(lines[i].path),
                                addr |-> 200 + i, type |-> IF lines[i].data THEN "d" ELSE "t"]]

(* A name finds the function that has it behind whole namespaces, where    *)
(* the program was loaded; of two such functions neither is taken, and     *)
(* data of the name is not found (h2_nm.cpp, h2_fp.hpp).                   *)
NameFindsFunction ==
  Asked("name") =>
    LET fits == {i \in DOMAIN question.lines : ~question.lines[i].data /\ IsSuffix(question.path, question.lines[i].path)}
        found == FpGet(Nm(Listing(question.lines)), question.main, Written(question.path))
    IN /\ found.fails = (Cardinality(fits) # 1)
       /\ ~found.fails => \A i \in fits : found.ptr - question.main = 200 + i - MainAddress
       /\ found.fails => Len(found.candidates) = Cardinality(fits)

(* A pointer to a virtual function finds what an object of the class would *)
(* call, however objects are made and slots are counted; any other pointer *)
(* is the function itself (h2_fp.hpp).                                     *)
PointerOf(slot, odd) == slot * WordSize + IF odd THEN 1 ELSE 0
Vtable == [slot \in 0..3 |-> 1000 + slot]
SlotIsFunction ==
  Asked("member") =>
    LET symbols == [i \in 1..(IF question.symbol = "none" THEN 0 ELSE 1) |->
                      [name |-> IF question.symbol = "vtable" THEN <<"Z", "T", "V">> ELSE <<"Z", "T", "I">>, addr |-> 1]]
        class == [abstract |-> question.abstract, arguments |-> question.arguments, vtable |-> Vtable]
        made == ~question.abstract /\ question.arguments \cap 0..9 # {}
        found == Get1(class, symbols, PointerOf(question.slot, question.odd), question.odd)
        plain == Get1(class, symbols, 16 * 1001 * WordSize, question.odd)
    IN /\ plain = [from |-> "pointer", fp |-> 16 * 1001 * WordSize]
       /\ made \/ question.symbol = "vtable" => found.fp = Vtable[question.slot]
       /\ found.from = "none" => ~made /\ question.symbol = "none"
       /\ Get2([vtable |-> Vtable], PointerOf(question.slot, question.odd), question.odd).fp = Vtable[question.slot]

(* What is printed of a stack starts behind the frames that are skipped    *)
(* and ends at main, all of it shown once where main is not found.         *)
StackEndsAtMain ==
  Asked("stack") =>
    LET frames == [i \in DOMAIN question.frames |->
                     FrameOf(0, [function |-> question.frames[i].function, plus |-> question.frames[i].plus],
                             IF question.frames[i].placed THEN "line" ELSE "??:0")
                       @@ [demangled |-> "", raw |-> "raw"]]
        shown == PrintedFrames([frames |-> frames, shift |-> question.shift], TRUE, FALSE)
        main(i) == question.frames[i].function = "main" /\ question.frames[i].plus # NoOffset
    IN /\ \A i \in DOMAIN shown : shown[i] = IF question.frames[i + question.shift].placed THEN "line" ELSE "raw"
       /\ \A i \in 1..Len(shown) - 1 : ~main(i + question.shift)
       /\ Len(shown) + question.shift < Len(frames) => Len(shown) > 0 /\ main(Len(shown) + question.shift)

(* A stack is exempt when a frame of it that counts is in a function added *)
(* by any of its names while there was place; a function that is not       *)
(* exported never is found on a stack, though it is by name                *)
(* (h2_exempt.cpp, h2_backtrace.cpp).                                      *)
LoadedAt == 400
ExemptByName ==
  Asked("exempt") =>
    LET functions == question.functions
        start(i) == 200 + i
        lead == [p \in 0..1000 |-> p]
        setup == ExemptSetup([name \in Range(ExemptFunctions) |-> 900], lead)
        added == AddByName(setup, Nm(Listing([i \in DOMAIN functions |-> [path |-> functions[i].path, data |-> FALSE]])), LoadedAt,
                           lead, Written(question.path))
        fits == SelectSeq([i \in DOMAIN functions |-> i], LAMBDA i : IsSuffix(question.path, functions[i].path))
        kept == {fits[k] : k \in {k \in DOMAIN fits : k + Len(ExemptFunctions) < MaxExempt}}
        frames == [k \in DOMAIN question.stack |->
                     LET i == question.stack[k] IN
                     FrameOf(LoadedAt + start(i), [function |-> "f", plus |-> IF functions[i].exported THEN 0 ELSE start(i)], "")]
    IN InAny([frames |-> frames, shift |-> question.shift], added)
         = \E k \in DOMAIN question.stack : k > question.shift /\ question.stack[k] \in kept /\ functions[question.stack[k]].exported

(* The stub of an imported function leads to it, through stubs of stubs,   *)
(* when the table of pointers is on a page ahead of the stub               *)
(* (h2_cxa.cpp for arm64).                                                 *)
StubAt(i) == 64 * i + 16
StubCode(stubs) ==
  LET words(stub) ==
        CASE stub.form = "third" -> <<[op |-> "adrp", imm |-> stub.pages], [op |-> "ldr", imm |-> stub.slot], [op |-> "br"]>>
          [] stub.form = "fourth" ->
               <<[op |-> "adrp", imm |-> stub.pages], [op |-> "ldr", imm |-> stub.slot], [op |-> "add"], [op |-> "br"]>>
          [] stub.form = "literal" -> <<[op |-> "literal", imm |-> 2], [op |-> "br"]>>
      at == {<<i, k>> \in (1..Len(stubs)) \X (1..4) : k <= Len(words(stubs[i]))}
  IN [a \in {StubAt(p[1]) + 4 * (p[2] - 1) : p \in at} |-> words(stubs[a \div 64])[(a - StubAt(a \div 64)) \div 4 + 1]]
TableAt(i, stub) ==
  IF stub.form = "literal" THEN StubAt(i) + 8 ELSE (StubAt(i) \div 32) * 32 + 32 * stub.pages + WordSize * stub.slot
ArmTableAhead ==
  Asked("arm") =>
    LET stubs == question.stubs
        tables == {TableAt(i, stubs[i]) : i \in DOMAIN stubs}
        data == [a \in tables |-> StubAt(1 + CHOOSE i \in DOMAIN stubs : TableAt(i, stubs[i]) = a)]
    IN Cardinality(tables) = Len(stubs) =>
         \A n \in 0..3 : FollowArm(StubCode(stubs), data, StubAt(1), n) = StubAt(1 + Min({n, Len(stubs)}))

(* The pointer that is rewritten is one the program calls the function by, *)
(* and code of the program itself is never reached by one (h2_e9.cpp).     *)
Image(segments, indirect) ==
  <<[cmd |-> "segment", name |-> "__TEXT", from |-> 10, to |-> 20, sections |-> <<>>]>> \o segments
    \o <<[cmd |-> "symtab", names |-> <<"send", "recv">>], [cmd |-> "dysymtab", indirect |-> indirect]>>
PointerIsBound ==
  Asked("image") =>
    LET image == Image(question.segments, question.indirect)
        at == SourceAddress(image, question.fp, "send")
        slots == UNION {UNION {{[section |-> s, i |-> i] : i \in 0..s.count - 1} : s \in Range(c.sections)} : c \in Range(question.segments)}
    IN /\ question.fp \in 10..19 => at = question.fp /\ IsPatchable(image, question.fp, "send")
       /\ at # question.fp => \E s \in slots :
            /\ at = s.section.at + s.i /\ s.section.name # "__other"
            /\ s.section.reserved + s.i + 1 <= Len(question.indirect)
            /\ question.indirect[s.section.reserved + s.i + 1] = 1

FunctionsFound == NameFindsFunction /\ SlotIsFunction /\ StackEndsAtMain /\ PointerIsBound /\ ExemptByName /\ ArmTableAhead

---------------------------------------------------------------------------
Sections == {[name |-> n, at |-> 100, reserved |-> r, count |-> c] : n \in {"__got", "__other"}, r \in 0..1, c \in 1..2}
Constants == {[cmd |-> "segment", name |-> "__DATA_CONST", sections |-> <<s>>] : s \in Sections}
Segments == {[cmd |-> "segment", name |-> "__DATA", sections |-> <<[s EXCEPT !.name = "__other", !.at = 50], t>>] : s, t \in Sections}
  \cup Constants
Namesakes == {<<<<"a">>>>, <<<<"b">>, <<"a">>>>, <<<<"a", "b">>>>}
Frames == [placed : BOOLEAN, function : {"main", "f"}, plus : {NoOffset, 1}]
Stubs == [form : {"third", "fourth"}, pages : {0, 4, 31}, slot : 0..1] \cup [form : {"literal"}, pages : {0}, slot : {0}]
FunctionKinds == {"name", "member", "stack", "image", "exempt", "arm"}
AskFunctions ==
  \/ About("name") /\ \E l \in Texts([path : Paths, data : BOOLEAN], 2), p \in Paths, m \in {100, 500} :
        Ask([kind |-> "name", lines |-> l, path |-> p, main |-> m])
  \/ About("member") /\ \E abstract, odd \in BOOLEAN, arguments \in SUBSET {0, 1, 3, 10}, slot \in 0..3, s \in {"vtable", "typeinfo", "none"} :
        Ask([kind |-> "member", abstract |-> abstract, odd |-> odd, arguments |-> arguments, slot |-> slot, symbol |-> s])
  \/ About("stack") /\ \E f \in Texts(Frames, 3), shift \in 0..2 :
        shift <= Len(f) /\ Ask([kind |-> "stack", frames |-> f, shift |-> shift])
  \/ About("image") /\ \E s \in Texts(Segments, 1) \cup (Constants \X Constants), i \in Texts(1..3, 3), fp \in {15, 30} :
        Ask([kind |-> "image", segments |-> s, indirect |-> i, fp |-> fp])
  \/ About("exempt") /\ \E f \in Texts([path : Namesakes, exported : BOOLEAN], 3), p \in {<<<<"a">>>>, <<<<"b">>, <<"a">>>>}, shift \in 0..1 :
        \E stack \in Texts(DOMAIN f, 2) :
          Ask([kind |-> "exempt", functions |-> f, path |-> p, stack |-> stack, shift |-> shift])
  \/ About("arm") /\ \E stubs \in Texts(Stubs, 3) : Ask([kind |-> "arm", stubs |-> stubs])
===========================================================================
