----------------------------- MODULE MCTexts ------------------------------
(***************************************************************************)
(* Questions to algorithms without state of their own: a behaviour chooses *)
(* a kind, then a question of the kind; properties are about the question. *)
(* Here questions about texts, values written as texts, pieces of memory   *)
(* and the arguments of macros.                                            *)
(***************************************************************************)
EXTENDS Strings, Text, Pieces, Json, Macros, FiniteSets, SequencesExt

VARIABLE question

About(kind) == question = [kind |-> "none", about |-> kind]
Asked(kind) == question.kind = kind
Ask(q) == question' = q

Texts(chars, n) == BoundedSeq(chars, n)
Least(S) == CHOOSE n \in S : \A s \in S : n <= s


(* A text that was written with escapes is read back as it was, unless it  *)
(* holds a backslash in front of a letter an escape ends with; and the     *)
(* quotes around it go, but a lone quote ends with an exception            *)
(* (h2_string.cpp, h2_syntax.cpp).                                         *)
Escaped(s) ==
  FlattenSeq([i \in DOMAIN s |-> CASE s[i] = "\\" -> <<"\\", "\\">> [] s[i] = "\"" -> <<"\\", "\"">>
                                   [] s[i] = Control("n") -> <<"\\", "n">> [] OTHER -> <<s[i]>>])
EscapesReadBack ==
  Asked("escapes") => LET s == question.text IN
    /\ (Unescape(Escaped(s)) = s) = ~(\E i \in 1..Len(s) - 1 : s[i] = "\\" /\ s[i + 1] = "n")
    /\ Unenclose(<<"\"">> \o s \o <<"\"">>, "\"", "\"") = s
    /\ Unenclose(s, "\"", "\"") = TooLong <=> s = <<"\"">>

(* What a text starts with, ends with and contains agree: it starts with a *)
(* part and ends with the rest, and every place of a part is a start of    *)
(* what follows there; and the name of a file is all behind the last       *)
(* separator (h2_string.cpp, h2_misc.cpp).                                 *)
PartsAgree ==
  /\ Asked("escapes") => LET s == question.text f == Basefile(s) IN
       /\ IsSuffix(f, s) /\ "\\" \notin Range(f)
       /\ f # s => s[Len(s) - Len(f)] = "\\"
  /\ Asked("parts") => LET s == question.text p == question.part IN
    /\ StartsWith(s, p) = \E k \in 0..Len(s) : s = p \o SubSeq(s, k + 1, Len(s))
    /\ EndsWith(s, p) = \E k \in 0..Len(s) : s = SubSeq(s, 1, k) \o p
    /\ (FindText(s, p) # 0) = \E k \in 0..Len(s) : EndsWith(SubSeq(s, 1, k), p)
    /\ Replaced(Replaced(s, p, <<"x">>), <<"x">>, p) = s

(* Characters stay whole, and put beside each other texts take the room of *)
(* both; a text in the middle has as much room on its left, or one less.   *)
Utf8 == {<<97>>, <<195, 164>>, <<226, 148, 130>>, <<240, 159, 152, 128>>}
CharactersWhole ==
  Asked("utf8") => LET chars == question.chars s == FlattenSeq(chars) IN
    /\ Disperse(s) = chars
    /\ \A k \in 0..Len(chars) :
         TextWidth(s, 2) = TextWidth(FlattenSeq(SubSeq(chars, 1, k)), 2) + TextWidth(FlattenSeq(SubSeq(chars, k + 1, Len(chars))), 2)
    /\ \A w \in 0..6 : LET c == Centre(s, w, 32) left == FindText(c, s) - 1 IN
         /\ Len(c) = (IF Len(s) > w THEN Len(s) ELSE w)
         /\ s # <<>> => (Len(c) - Len(s)) - 2 * left \in 0..1

(* An attribute has the value it was written with, whatever blanks stand   *)
(* around its = and before or after it, when no key is a part of another   *)
(* (h2_misc.cpp).                                                          *)
Attribute(a) == a.key \o (IF a.value = <<>> THEN <<>> ELSE a.blanks \o <<"=">> \o a.blanks \o a.value)
AttributesRead ==
  Asked("attributes") =>
    LET as == question.attributes
        s == FoldLeft(LAMBDA t, a : t \o (IF t = <<>> THEN <<>> ELSE <<",", " ">>) \o Attribute(a), <<>>, as)
    IN \A key \in {<<"k">>, <<"l", "m">>} :
         LET has == {i \in DOMAIN as : as[i].key = key} IN
         IF has = {} THEN KeyValue(s, key) = <<"nullptr">>
         ELSE LET a == as[Least(has)] IN IF a.value = <<>> THEN KeyValue(s, key) = <<>> ELSE IsPrefix(a.value, KeyValue(s, key))

(* Where values are shown with their quotes, two that are shown alike are  *)
(* the same value, but for containers too long to be shown, characters     *)
(* beyond a byte and quotes within texts (h2_stringify.hpp).               *)
RECURSIVE Plainly0(_)
Plainly0(v) ==
  CASE v.type \in {"tuple", "container"} -> (v.type = "container" => Len(v.of) <= Many) /\ \A i \in DOMAIN v.of : Plainly0(v.of[i])
    [] v.type = "wstring" -> "wide" \notin Range(v.of)
    [] OTHER -> "\"" \notin Range(v.of)
Amount(digits) == FoldLeft(LAMBDA n, d : IF d = "." THEN n ELSE 10 * n + (IF d = "1" THEN 1 ELSE IF d = "5" THEN 5 ELSE 0), 0, digits)
RECURSIVE Same(_, _)
Same(v, w) ==
  IF v.type = "number" THEN Amount(v.of) = Amount(w.of)
  ELSE IF v.type \in {"tuple", "container"} THEN Len(v.of) = Len(w.of) /\ \A i \in DOMAIN v.of : Same(v.of[i], w.of[i])
  ELSE v.of = w.of
ShownApart ==
  Asked("values") => LET v == question.v w == question.w IN
    /\ Same(v, w) => Stringify(v, TRUE) = Stringify(w, TRUE)
    /\ Plainly0(v) /\ Plainly0(w) /\ ~Same(v, w) => Stringify(v, TRUE) # Stringify(w, TRUE)

---------------------------------------------------------------------------
(* The mask is that of the least power of two above, and the number needs  *)
(* none when it is one.                                                    *)
MaskIsAbove ==
  Asked("mask") => LET x == question.x IN
    IF Not2n(x) THEN Mask2n(x) + 1 = Least({2 ^ k : k \in {j \in 0..UnsignedBits : 2 ^ j >= x}})
    ELSE x = 0 \/ \E k \in 0..UnsignedBits : 2 ^ k = x

(* A piece lies within its pages and close to their end, so that nothing   *)
(* but what aligns it is between it and the page that may not be touched;  *)
(* an address of a power of two up to a page is a multiple of it, any      *)
(* other is that much above one (h2_piece.cpp).                            *)
PieceAtTheEnd ==
  Asked("piece") => LET a == AlignmentOf(question.alignment) p == Placed(question.size, question.alignment) IN
    /\ 0 <= p.user /\ p.user + p.size <= p.end
    /\ p.end - (p.user + p.size) < (IF a = question.alignment THEN a ELSE 2 * a)
    /\ a <= PageBytes => p.user % a = question.alignment % a

(* A fill is its number, in the least of the widths that holds it.         *)
FillIsItsNumber ==
  Asked("fill") => LET fill == ParseFill(question.value) n == Len(fill) IN
    /\ FoldLeft(LAMBDA v, k : ByteValues * v + fill[n + 1 - k], 0, [k \in 1..n |-> k]) = question.value
    /\ n = 1 \/ \E i \in n \div 2 + 1..n : fill[i] # 0
    /\ LET m == Filled(2 * n + 1, fill) IN \A i \in DOMAIN m : m[i] = m[((i - 1) % n) + 1] /\ (i <= n => m[i] = fill[i])

(* Whatever bytes beside the piece were written, the first behind it, or   *)
(* before it when there is none, is found, with all that was written among *)
(* those shown, and what is told leads back to it (h2_piece.cpp,           *)
(* h2_failure.cpp).                                                        *)
OverflowFound ==
  Asked("overflow") => LET p == question.piece wrong == question.wrong f == CheckSnowfield(p, wrong) o == Offset(p, f.at) IN
    /\ f = NoOverflow <=> wrong = {}
    /\ f # NoOverflow =>
         /\ f.at \in wrong /\ f.at + f.spot - 1 \in wrong
         /\ \A w \in wrong : w < f.at \/ w < f.at + f.spot \/ w >= f.at + SpotSize \/ (w < p.user) # (f.at < p.user)
         /\ \A w \in wrong : w < f.at => w < p.user /\ f.at >= p.user
         /\ f.at = (IF o >= 0 THEN p.user + p.size + o ELSE p.user + o)

(* A ring is a sequence whatever was put in and taken out: both ways round *)
(* it has the same entries, the ends are the ends, and what is out is a    *)
(* ring of its own (h2_list.cpp).                                          *)
RingEntries == 0..4
Operated(ring, op) ==
  CASE op.op = "head" -> AddHead(ring, 0, op.entry) [] op.op = "tail" -> AddTail(ring, 0, op.entry)
    [] op.op = "before" -> AddBefore(ring, op.at, op.entry) [] op.op = "after" -> AddAfter(ring, op.at, op.entry)
    [] op.op = "out" -> Out(ring, op.entry) [] op.op = "pop" -> Pop(ring, 0) [] op.op = "pop back" -> PopBack(ring, 0)
PlaceOf(list, entry) == SelectInSeq(list, LAMBDA e : e = entry)
OperatedSeq(list, op) ==
  CASE op.op = "head" -> <<op.entry>> \o list [] op.op = "tail" -> Append(list, op.entry)
    [] op.op = "before" -> InsertAt(list, PlaceOf(list, op.at), op.entry) [] op.op = "after" -> InsertAt(list, PlaceOf(list, op.at) + 1, op.entry)
    [] op.op = "out" -> SelectSeq(list, LAMBDA e : e # op.entry)
    [] op.op = "pop" -> IF list = <<>> THEN list ELSE Tail(list) [] op.op = "pop back" -> IF list = <<>> THEN list ELSE Front(list)
RingOf(list) == FoldLeft(LAMBDA ring, entry : AddTail(ring, 0, entry), Ring(RingEntries), list)
KeepAll == [e \in RingEntries |-> <<>>]
RingIsSequence ==
  Asked("ring") =>
    \A ring \in {FoldLeft(Operated, RingOf(question.list), question.ops)}, list \in {FoldLeft(OperatedSeq, question.list, question.ops)} :
      /\ ForEach(ring, 0, "next", KeepAll).seen = list /\ ForEach(ring, 0, "prev", KeepAll).seen = Reverse(list)
      /\ Count(ring, 0) = Len(list) /\ (Empty(ring, 0) = (list = <<>>))
      /\ \A e \in Range(list) : (IsFirst(ring, 0, e) = (e = list[1])) /\ (IsLast(ring, 0, e) = (e = Last(list)))
      /\ \A e \in RingEntries \ (Range(list) \cup {0}) : Empty(ring, e)

(* A loop sees each entry once and in order while its body takes out the   *)
(* entry it is at or those before it; it never ends when the entry behind  *)
(* is taken out (h2_list.hpp).                                             *)
LoopSeesAll ==
  Asked("loop") =>
    LET list == IF question.step = "next" THEN question.list ELSE Reverse(question.list)
        removed == [e \in RingEntries |->
                      LET i == PlaceOf(list, e) IN
                      CASE i = 0 \/ question.body[IF i = 0 THEN 1 ELSE i] = "keep" -> <<>>
                        [] question.body[i] = "out" -> <<e>>
                        [] question.body[i] = "before" -> IF i = 1 THEN <<>> ELSE <<list[i - 1]>>
                        [] question.body[i] = "behind" -> IF i = Len(list) THEN <<>> ELSE <<list[i + 1]>>]
        stuck == \E i \in 1..Len(list) - 1 : question.body[i] = "behind"
    IN \A walk \in {ForEach(RingOf(question.list), 0, question.step, removed)} :
         IF stuck THEN walk.p # 0 ELSE walk.seen = list /\ walk.p = 0

(* However pointers that share objects are made, copied over each other    *)
(* and reset: an object is deleted once, when no pointer holds it any more *)
(* and not before; its count is the number that hold it                    *)
(* (h2_shared_ptr.hpp).                                                    *)
Names0 == {"p", "q"}
Pointing(ptrs, op) ==
  CASE op.op = "new" -> New(ptrs, op.p, IF op.q = "null" THEN 0 ELSE Len(ptrs.counts) + 1, "copy")
    [] op.op = "assign" -> Assign(ptrs, op.p, op.q, "copy") [] op.op = "reset" -> Release(ptrs, op.p)
SharedDeletedOnce ==
  Asked("pointers") =>
    \A ptrs \in {FoldLeft(Pointing, Pointers(Names0 \cup {"copy"}), question.ops)} :
      \A x \in DOMAIN ptrs.counts :
        LET holders == {p \in DOMAIN ptrs.px : ptrs.px[p] = x} IN
        /\ Len(SelectSeq(ptrs.deleted, LAMBDA d : d = x)) = (IF holders = {} THEN 1 ELSE 0)
        /\ ptrs.counts[x] = Cardinality(holders) /\ \A p \in holders : Holding(ptrs, p)
        /\ \A p \in Names0 : Holding(ptrs, p) = (ptrs.px[p] # 0)

(* A description is its name, wherever its tags stand in it, and its tags; *)
(* brackets within quotes are part of the name (h2_test.cpp).              *)
DescriptionRead ==
  Asked("description") =>
    LET q == question
        tags == FoldLeftDomain(LAMBDA s, i : s \o (IF i = 1 THEN <<>> ELSE q.between) \o q.tags[i], <<>>, q.tags)
        d == Described(q.before \o (IF q.bracketed THEN <<"[">> \o tags \o <<"]">> ELSE <<>>) \o q.behind)
    IN /\ d.name = StripLeft(q.before \o q.behind)
       /\ d.tags = (IF q.bracketed THEN q.tags ELSE <<>>)

(* Texts that are shown with pictures are apart when they differ, without  *)
(* pictures but for the zeros in them, when no backslash is in them        *)
(* (h2_string.cpp).                                                        *)
EscapeTellsApart ==
  Asked("pictures") =>
    LET q == question Bare(s) == SelectSeq(s, LAMBDA ch : ch # "zero") IN
    /\ (Escape0(q.s, TRUE) = Escape0(q.t, TRUE)) = (q.s = q.t)
    /\ (Escape0(q.s, FALSE) = Escape0(q.t, FALSE)) = (Bare(q.s) = Bare(q.t))
    /\ Len(Escape0(q.s, TRUE)) = Len(q.s)

(* Every value of a list has its case, in order and once, and each value   *)
(* of one list one with each of the other; the values take the type of the *)
(* first of them, whatever casts and brackets they are written with; and a *)
(* list is the same without its brackets, where it may stand without them  *)
(* (h2_macro.hpp, h2_core.hpp).                                            *)
Bare0(argument) == argument # <<>> /\ "group" \notin DOMAIN argument[1]
EachValueHasItsCase ==
  Asked("values of lists") =>
    LET one == question.one other == question.other
        listed == << <<Group(one)>> >> crossed == << <<Group(one)>>, <<Group(other)>> >>
        made == Casess(crossed).made
        values == [i \in 1..NARG(one) |-> [i |-> i - 1, x |-> one[i]]]
    IN /\ Cases(listed).made = values
       /\ Expands(one) /\ ~(Len(one) = 1 /\ IS_PARENTHESIS(one)) => Cases(one) = Cases(listed)
       /\ Bare0(one[1]) => /\ Cases(listed).type = one[1] /\ Casess(crossed).xtype = one[1]
                            /\ other = Nothing => Casess(crossed).ytype = Zero
       /\ ~IS_PARENTHESIS(<<Cases(listed).type>>) /\ Todos(listed).type = Cases(listed).type
       /\ Len(made) = NARG(one) * NARG(other)
       /\ \A i \in 1..NARG(one), j \in 1..NARG(other) :
            \E k \in DOMAIN made : /\ made[k] = [i |-> i - 1, j |-> j - 1, x |-> one[i], y |-> other[j]]
                                  /\ \A l \in 1..k - 1 : made[l].i < i - 1 \/ (made[l].i = i - 1 /\ made[l].j < j - 1)
       /\ Casess(listed) = Casess(listed \o listed)
       /\ NARG(one) > 0 => one = <<HEAD(one)>> \o (IF NARG(one) = 1 THEN <<>> ELSE TAIL(one))
       /\ one[1] # <<>> => LAST(Reverse(one)) = HEAD(one)
       /\ NARG(MemberParameters(<<Atom("object")>>, <<Group(one)>>)) = NARG(one) + 1
       /\ Range(REPEAT(NARG(one))) = {made0.i : made0 \in Range(values)}

(* What unstubs a function, or mocks it, names the one that was stubbed,   *)
(* with its signature in one part or two and brackets around any of them   *)
(* (h2_stub.hpp, h2_mock.hpp).                                             *)
SameFunctionNamed ==
  Asked("named") =>
    LET q == question
        Around(argument, here) == IF here THEN <<Group(<<argument>>)>> ELSE argument
        names(here) == [i \in DOMAIN q.names |-> Around(q.names[i], here)]
        one(here) == names(here) \o << Around(q.result \o q.parameters, here) >>
        two(here) == names(here) \o << Around(q.result, here), q.parameters >>
        own == << <<Atom("own")>> >>
        all == UNION {{Fp("STUB", one(here) \o own), Fp("UNSTUB", one(here)), Fp("MOCK", one(here)), Fp("STUBS", two(here)),
                       Fp("UNSTUBS", two(here)), Fp("MOCKS", two(here) \o own)} : here \in BOOLEAN}
    IN /\ all = {[names |-> [i \in DOMAIN q.names |-> <<q.names[i]>>], signature |-> << q.result \o q.parameters >>]}
       /\ Len(q.names) = 1 => Fp("STUB", q.names \o own) = Fp("UNSTUB", q.names) /\ Fp("UNSTUB", q.names) = Fp("UNSTUBS", q.names)

(* Texts, values, arguments and the bytes of pieces are what they are     *)
(* taken for.                                                              *)
PartsAsMeant ==
  /\ EscapesReadBack /\ PartsAgree /\ CharactersWhole /\ AttributesRead /\ ShownApart
  /\ MaskIsAbove /\ PieceAtTheEnd /\ FillIsItsNumber /\ OverflowFound /\ RingIsSequence /\ LoopSeesAll
  /\ SharedDeletedOnce /\ DescriptionRead /\ EscapeTellsApart /\ EachValueHasItsCase /\ SameFunctionNamed

---------------------------------------------------------------------------
Numbers0 == {[type |-> "number", of |-> w \o f] : w \in {<<"0">>, <<"1">>, <<"1", "0">>, <<"1", "0", "0">>},
                                                 f \in {<<".", "0", "0">>, <<".", "0", "5">>, <<".", "5", "0">>}}
Wholes == {[type |-> "number", of |-> w] : w \in {<<"0">>, <<"1">>, <<"1", "0">>, <<"1", "0", "0">>}}
TextsOf(type) == {[type |-> type, of |-> s] : s \in Texts({"a", ",", " ", "\"", "]"}, 2)}
Lists0(vs, n) == {[type |-> "container", of |-> s] : s \in Texts(vs, n)}
Tuples(vs) == {[type |-> "tuple", of |-> <<v, w>>] : v, w \in vs}
FewTexts == {[type |-> "text", of |-> s] : s \in {<<>>, <<"a">>, <<",">>, <<"]">>, <<"a", ",">>}}
SomeLists == Lists0(Wholes \ {[type |-> "number", of |-> <<"1">>]}, 2)
Types == <<Numbers0, Wholes, TextsOf("text"), {[type |-> "wstring", of |-> s] : s \in Texts({"a", "?", "wide"}, 2)},
           Lists0(FewTexts, 3), Lists0({[type |-> "number", of |-> <<"1">>], [type |-> "number", of |-> <<"1", "0">>]}, 3),
           Tuples(FewTexts), Tuples(SomeLists), Lists0(SomeLists, 1), {[type |-> "char", of |-> <<c>>] : c \in {"a", "b"}},
           {[type |-> "word", of |-> w] : w \in {<<"true">>, <<"false">>}}>>
(* Values in a list, and lists that end in one.                            *)
Values0 == {<<Atom("a")>>, <<Atom("0")>>, <<Group(<< <<Atom("int")>> >>), Atom("a")>>, <<Group(<< <<Atom("a")>>, <<Atom("b")>> >>)>>, <<Group(Nothing)>>}
Few1 == {<<>>, <<Atom("a")>>, <<Group(<< <<Atom("int")>> >>), Atom("a")>>}
Lists1(n) == {Nothing} \cup {s \in Texts(Values0 \cup {<<>>}, n) : s # <<>> /\ Last(s) # <<>>}
Arrangements == {<<>>, <<1>>, <<2, 1>>, <<1, 2, 3>>, <<4, 2, 3, 1>>}
Operations == [op : {"head", "tail", "out"}, entry : 1..4] \cup [op : {"before", "after"}, at : 1..4, entry : 1..4] \cup [op : {"pop", "pop back"}]
Legal(list, ops) ==
  \A i \in DOMAIN ops : \A now \in {FoldLeft(OperatedSeq, list, SubSeq(ops, 1, i - 1))} :
    /\ ops[i].op \in {"head", "tail", "before", "after"} => ops[i].entry \notin Range(now)
    /\ ops[i].op \in {"before", "after"} => ops[i].at \in Range(now)
TextKinds == {"escapes", "parts", "utf8", "attributes", "values", "mask", "piece", "fill", "overflow", "ring", "loop", "pointers", "description", "pictures", "values of lists", "named"}
AskTexts ==
  \/ About("escapes") /\ \E s \in Texts({"a", "n", "\\", "\"", Control("n")}, 4) : Ask([kind |-> "escapes", text |-> s])
  \/ About("parts") /\ \E s \in Texts({"a", "b"}, 5), p \in Texts({"a", "b"}, 3) \ {<<>>} : Ask([kind |-> "parts", text |-> s, part |-> p])
  \/ About("utf8") /\ \E s \in Texts(Utf8, 3) : Ask([kind |-> "utf8", chars |-> s])
  \/ About("attributes") /\
       \E s \in Texts([key : {<<"k">>, <<"l", "m">>}, blanks : {<<>>, <<" ">>}, value : {<<>>, <<"1">>, <<"1", "2">>}], 2) :
          Ask([kind |-> "attributes", attributes |-> s])
  \/ About("values") /\ \E t \in DOMAIN Types : \E v, w \in Types[t] : Ask([kind |-> "values", v |-> v, w |-> w])
  \/ About("mask") /\ \E x \in 0..2 ^ UnsignedBits - 1 : Ask([kind |-> "mask", x |-> x])
  \/ About("piece") /\ \E size \in 0..2 * PageBytes, a \in 0..2 * PageBytes : Ask([kind |-> "piece", size |-> size, alignment |-> a])
  \/ About("fill") /\ \E v \in 0..ByteValues ^ 5 : Ask([kind |-> "fill", value |-> v])
  \/ About("overflow") /\ \E size \in 1..2, before \in 0..3, behind \in 0..5 :
        \E wrong \in SUBSET ((0..before - 1) \cup (before + size..before + size + behind - 1)) :
           Ask([kind |-> "overflow", piece |-> [user |-> before, size |-> size, end |-> before + size + behind], wrong |-> wrong])
  \/ About("pointers") /\ \E ops \in Texts([op : {"new"}, p : Names0, q : {"null", "x"}] \cup [op : {"assign"}, p : Names0, q : Names0] \cup [op : {"reset"}, p : Names0], 4) :
        Ask([kind |-> "pointers", ops |-> ops])
  \/ About("description") /\
       \E before, behind \in Texts({<<"a">>, <<" ">>, <<"\"", "[", "\"">>, <<"\"", "]", "\"">>}, 2),
         tags \in {<< >>, << <<"t">> >>, << <<"t">>, <<"u", "v">> >>}, between \in {<<" ">>, <<",">>, <<",", " ">>}, b \in BOOLEAN :
           Ask([kind |-> "description", before |-> FlattenSeq(before), behind |-> FlattenSeq(behind), tags |-> tags, between |-> between, bracketed |-> b])
  \/ About("pictures") /\ \E s, t \in Texts({"a", "n", Control("n"), Control("t"), "zero"}, 2) : Ask([kind |-> "pictures", s |-> s, t |-> t])
  \/ About("named") /\ \E names \in Texts({<<Atom("a")>>, <<Atom("b")>>}, 3),
                          result \in {<<Atom("int")>>, <<Atom("char"), Atom("*")>>}, l \in {Nothing, << <<Atom("int")>> >>, << <<Atom("int")>>, <<Atom("char")>> >>} :
        names # <<>> /\ Ask([kind |-> "named", names |-> names, result |-> result, parameters |-> <<Group(l)>>])
  \/ About("values of lists") /\ \E s \in Lists1(3), t \in {l \in Lists1(2) : Range(l) \subseteq Few1} :
        Ask([kind |-> "values of lists", one |-> s, other |-> t])
  \/ About("ring") /\ \E l \in Arrangements, ops \in Texts(Operations, 2) : Legal(l, ops) /\ Ask([kind |-> "ring", list |-> l, ops |-> ops])
  \/ About("loop") /\ \E l \in Arrangements, step \in {"next", "prev"} : \E body \in [DOMAIN l -> {"keep", "out", "before", "behind"}] :
        l # <<>> /\ Ask([kind |-> "loop", list |-> l, step |-> step, body |-> body])

---------------------------------------------------------------------------
(***************************************************************************)
(* Questions about documents as they are written.                          *)
(***************************************************************************)
(* The tokens a document is written with.                                  *)
RECURSIVE TokensOf(_), Reordered(_, _)
Comma0(s) == FlattenSeq([i \in DOMAIN s |-> IF i = 1 THEN s[i] ELSE << <<",">> >> \o s[i]])
TokensOf(node) ==
  (IF HasKey(node) THEN <<KeyWord(node, <<"\"">>), <<":">> >> ELSE <<>>)
    \o (IF IsBranch(node) THEN <<Opening(node)>> \o Comma0([i \in DOMAIN node.kids |-> TokensOf(node.kids[i])]) \o << <<Closing(node.type)>> >>
        ELSE <<FormatValue(node, <<"\"">>)>>)

(* The same documents, with the members of those types in any order.       *)
Reordered(node, types) ==
  IF ~IsBranch(node) THEN {node}
  ELSE LET orders == IF node.type \in types THEN Permutations(DOMAIN node.kids) ELSE {[i \in DOMAIN node.kids |-> i]}
           same == [i \in DOMAIN node.kids |-> Reordered(node.kids[i], types)]
           kids == {f \in [DOMAIN node.kids -> UNION Range(same)] : \A i \in DOMAIN node.kids : f[i] \in same[i]}
       IN {[node EXCEPT !.kids = [i \in DOMAIN node.kids |-> k[p[i]]]] : k \in kids, p \in orders}
TextOf(lines) == FlattenSeq([i \in DOMAIN lines |-> FlattenSeq([k \in DOMAIN lines[i] |-> lines[i][k].text]) \o <<Space>>])

(* A document is written as it was read, on however many lines, and for    *)
(* source code each line but the last ends in a backslash of one column    *)
(* (h2_node.cpp, h2_json.cpp).                                             *)
WrittenReadsBack ==
  Asked("document") =>
    LET q == question
        without(line) == SelectSeq(line, LAMBDA word : ~IsBlank(word) /\ word.text \notin {<<"\"">>, <<Escape>>})
    IN \A lines \in {Format(q.doc, q.fold, <<"\"">>, 0, 0)} :
       \A dump \in {Sourced(lines, <<"\"">>)}, words \in {Folds(lines)} :
         /\ Lexical(TextOf(lines)) = TokensOf(q.doc)
         /\ Sourced(lines, <<>>) = lines
         /\ FlattenSeq([i \in DOMAIN dump |-> without(dump[i])]) = words
         /\ \A i \in 1..Len(dump) - 1 : Last(dump[i]).text = <<Escape>> /\ LineWidth(dump[i]) = LineWidth(dump[1])
         /\ Last(Folds(dump)).text = <<"\"">> /\ Folds(dump)[1].text = <<"\"">>
         /\ q.fold = 0 \/ Len(lines) = 1 \/ ~Foldable(SubSeq(lines, 2, Len(lines) - 1))

(* Documents beside each other have as many lines, and what is not folded  *)
(* away reads as the documents themselves, the actual's members in another *)
(* order - the elements, too, of an array beside an object; nothing of     *)
(* what matches is coloured on the expected's side, and where nothing at   *)
(* all is coloured the documents match but for their brackets              *)
(* (h2_dual.cpp).                                                          *)
Brackets(lines) == SelectSeq(Folds(lines), LAMBDA word : word.text \in {<<"[">>, <<"]">>, <<"{">>, <<"}">>})
ColumnsRead ==
  Asked("beside") =>
    LET q == question
        orders == IF q.e.type = "object" THEN {"object", "array"} ELSE {"object"}
        Reads(lines, docs) == Lexical(TextOf(lines)) \in {TokensOf(doc) : doc \in docs}
    IN \A both \in {Diff(q.e, q.a, [caseless |-> q.caseless, fold |-> q.fold])} :
       \A ew \in {FlattenSeq(both.e)}, aw \in {FlattenSeq(both.a)}, matches \in {Match(q.e, q.a, q.caseless)} :
         LET Plain0(words) == \A word \in Range(words) : ~word.colored
             Cut(words) == Dots[1] \in Range(words)
         IN /\ Len(both.e) = Len(both.a)
            /\ Cut(ew) \/ Reads(both.e, {q.e})
            /\ Cut(aw) \/ Reads(both.a, Reordered(q.a, orders))
            /\ matches => Plain0(ew)
            /\ Plain0(ew) /\ Plain0(aw) /\ ~matches => Brackets(both.e) # Brackets(both.a)
            /\ q.fold < FoldSame => ~Cut(ew) /\ ~Cut(aw)

(* Nothing is more similar to a node than the node itself, and as similar  *)
(* only what is written like it but for the order of its members, so the   *)
(* member that shows no difference is never passed over (h2_match.cpp);    *)
(* so for the documents and for what they are made of.                     *)
RECURSIVE Alike0(_, _)
Alike0(e, a) ==
  /\ e.type = a.type /\ e.key = a.key /\ e.value = a.value /\ Len(e.kids) = Len(a.kids)
  /\ \A i \in DOMAIN e.kids : IF e.type = "array" THEN Alike0(e.kids[i], a.kids[i]) ELSE \E j \in DOMAIN a.kids : Alike0(e.kids[i], a.kids[j])
MostSimilarToItself ==
  Asked("beside") => \A e \in {question.e} \cup Range(question.e.kids), a \in {question.a} \cup Range(question.a.kids) :
    /\ Similarity(e, a, FALSE) <= Similarity(e, e, FALSE)
    /\ (Similarity(e, a, FALSE) = Similarity(e, e, FALSE)) = Alike0(e, a)

DocumentsShown == WrittenReadsBack /\ ColumnsRead /\ MostSimilarToItself

---------------------------------------------------------------------------
Node(type, key, value) == [type |-> type, key |-> key, value |-> value, kids |-> <<>>]
Many0(type, key, kids) == [type |-> type, key |-> key, value |-> "", kids |-> kids]
Scalars(key) == {Node("string", key, v) : v \in {"a", "A"}} \cup {Node("number", key, "1")}
Apart(s) == \A i, j \in DOMAIN s : Equal(s[i].key, s[j].key, TRUE) => i = j
ObjectsOf(key, members, n) == {Many0("object", key, kids) : kids \in {s \in Texts(members, n) : Apart(s)}}
Small == ObjectsOf("", Scalars("k") \cup {Node("string", "K", "a"), Node("null", "b", "null")}, 2)
Nested == {Many0("object", "", <<[d EXCEPT !.key = "n"], m>>) :
             d \in {x \in Small : Len(x.kids) = 2 /\ x.kids[2].key = "b"}, m \in {Node("number", "b", "1"), Many0("array", "b", <<>>)}}
Arrays == {Many0("array", "", kids) : kids \in {<<>>} \cup [1..2 -> {Node("string", "", "a"), Node("number", "", "1"), Many0("object", "", <<Node("number", "k", "1")>>)}]}
ToWrite == Scalars("") \cup Small \cup Nested \cup Arrays
JsonKinds == {"document", "beside"}
AskJson ==
  \/ About("document") /\ \E d \in ToWrite, f \in {0, 1} : Ask([kind |-> "document", doc |-> d, fold |-> f])
  \/ About("beside") /\ \E e, a \in ToWrite, c \in BOOLEAN : Ask([kind |-> "beside", e |-> e, a |-> a, caseless |-> c, fold |-> IF c THEN 3 ELSE 0])
===========================================================================
