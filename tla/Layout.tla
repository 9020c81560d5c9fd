------------------------------- MODULE Layout -------------------------------
(***************************************************************************)
(* Lines of styled text (src/source/utils/h2_line.cpp, h2_string.cpp,      *)
(* h2_color.cpp) and their layout in columns (report/h2_layout.cpp).  A    *)
(* line is a sequence of characters and of styles, which take no room.     *)
(***************************************************************************)
EXTENDS Integers, SequencesExt

CONSTANTS Style,   \* the words that switch a style on, "reset" among them
          Wide     \* the characters that take two places

Blank == " "
Width(ch) == IF ch \in Style THEN 0 ELSE IF ch \in Wide THEN 2 ELSE 1
WidthOf(line) == FoldLeft(LAMBDA w, ch : w + Width(ch), 0, line)
Blanks(n) == [i \in 1..n |-> Blank]
Smaller(a, b) == IF a < b THEN a ELSE b

(* Mutant of Wrapped: the style is not taken over to the next row. *)
WrappedPlain(wrap, width) ==
  [wrap EXCEPT !.rows = Append(@, wrap.row \o Blanks(width - WidthOf(wrap.row))), !.row = <<>>]

(* A row that is full, filled up with blanks, and the next one. *)
Wrapped(wrap, width) ==
  [wrap EXCEPT !.rows = Append(@, wrap.row \o Blanks(width - WidthOf(wrap.row))), !.row = wrap.style]

(* h2_layout::line_break *)
LineBreak(line, width) ==
  Wrapped(FoldLeft(LAMBDA wrap, ch :
                     IF ch \in Style THEN [wrap EXCEPT !.row = Append(@, ch), !.style = <<ch>>]
                     ELSE LET next == IF width < WidthOf(wrap.row) + Width(ch) THEN Wrapped(wrap, width) ELSE wrap
                          IN [next EXCEPT !.row = Append(@, ch)],
                   [rows |-> <<>>, row |-> <<>>, style |-> <<>>], line), width).rows

(* Mutant of Columns: the right one has what the left one would like to leave. *)
ColumnsLoose(left, right, valid) ==
  IF left < valid \div 2 THEN [left |-> left, right |-> right]
  ELSE IF right < valid \div 2 THEN [left |-> Smaller(valid - right, left), right |-> right]
  ELSE [left |-> valid \div 2, right |-> valid \div 2]

(* h2_layout::split: the widths of the two columns. *)
Columns(left, right, valid) ==
  IF left < valid \div 2 THEN [left |-> left, right |-> Smaller(valid - left, right)]
  ELSE IF right < valid \div 2 THEN [left |-> Smaller(valid - right, left), right |-> right]
  ELSE [left |-> valid \div 2, right |-> valid \div 2]

(* Mutant of Abbreviate: the tail is one more. *)
AbbreviateMore(line, width, tail) ==
  IF WidthOf(line) <= width THEN line
  ELSE SubSeq(line, 1, width - 3 - tail) \o <<".", ".", ".">> \o SubSeq(line, Len(line) - tail, Len(line))

(* h2_line::abbreviate of characters of one place: a head, three dots, a tail. *)
Abbreviate(line, width, tail) ==
  IF WidthOf(line) <= width THEN line
  ELSE SubSeq(line, 1, width - 3 - tail) \o <<".", ".", ".">> \o SubSeq(line, Len(line) - tail + 1, Len(line))

---------------------------------------------------------------------------
(* Lines beside each other: a row shows a part of a line of both sides and *)
(* whether it goes on in the next one, the first row of a line its number. *)
Larger(a, b) == IF a > b THEN a ELSE b
WidestOf(lines) == FoldLeft(LAMBDA w, line : Larger(w, WidthOf(line)), 0, lines)
NumberLength(number, base) == CHOOSE n \in 1..number + 1 : number < base ^ n /\ (n = 1 \/ base ^ (n - 1) <= number)

GoesOn(rows, j) == j < Len(rows)

PartOf(rows, j, width) == IF j <= Len(rows) THEN rows[j] ELSE Blanks(width)
RowsOf(l, r, columns, label) ==
  [j \in 1..Larger(Len(l), Len(r)) |->
     [label |-> IF j = 1 THEN label ELSE -1,
      left |-> PartOf(l, j, columns.left), leftOn |-> GoesOn(l, j), right |-> PartOf(r, j, columns.right), rightOn |-> GoesOn(r, j)]]
LineOrBlanks(lines, i, width) == IF i <= Len(lines) THEN lines[i] ELSE Blanks(width)
LinesMerge(left, right, columns, step) ==
  FlattenSeq([i \in 1..Larger(Len(left), Len(right)) |->
                RowsOf(LineBreak(LineOrBlanks(left, i, columns.left), columns.left),
                       LineBreak(LineOrBlanks(right, i, columns.right), columns.right),
                       columns, IF step > 0 THEN step * (i - 1) ELSE -1)])

(* Mutant of Valid: the room between the columns is forgotten. *)
ValidAll(width, seq) == width - (seq + 1) - 1

(* h2_layout::split with a title of six characters over either side.       *)
Valid(width, seq) == width - (seq + 1) - 1 - 4
SplitIn(left, right, step, seq, columns) ==
  [seq |-> seq, columns |-> columns, rows |-> LinesMerge(left, right, columns, step)]
SplitBy(left, right, step, seq, valid) ==
  SplitIn(left, right, step, seq, Columns(Larger(WidestOf(left), 6), Larger(WidestOf(right), 6), valid))
SplitWith(left, right, step, seq, width) == SplitBy(left, right, step, seq, Valid(width, seq))
Split(left, right, step, base, width) ==
  SplitWith(left, right, step, NumberLength(step * Larger(Len(left), Len(right)), base), width)

(* What a row of a table takes: the label, both columns and what is between *)
RowWidth(row, step, seq) == (IF step > 0 THEN seq + 2 ELSE 0) + WidthOf(row.left) + 3 + WidthOf(row.right) + 1

(* unified: the rows of both lines in turn, each with its title; seperate: *)
(* one after the other, the title in front of the first row.               *)
Titled(title, text) == [title |-> title, text |-> text]
TitleWidth == 8

(* Mutant of Unified: rows in pairs, as long as there are both. *)
UnifiedPaired(up, down, width) ==
  LET u == LineBreak(up, width - TitleWidth) d == LineBreak(down, width - TitleWidth)
  IN FlattenSeq([i \in 1..Smaller(Len(u), Len(d)) |-> <<Titled("expect", u[i]), Titled("actual", d[i])>>])

TitledPart(title, rows, i) == IF i <= Len(rows) THEN <<Titled(title, rows[i])>> ELSE <<>>
InTurn(u, d) == FlattenSeq([i \in 1..Larger(Len(u), Len(d)) |-> TitledPart("expect", u, i) \o TitledPart("actual", d, i)])
Unified(up, down, width) == InTurn(LineBreak(up, width - TitleWidth), LineBreak(down, width - TitleWidth))
TitledRows(rows, title) == [i \in DOMAIN rows |-> Titled(IF i = 1 THEN title ELSE "", rows[i])]
PrefixBreak(line, title, width) == TitledRows(LineBreak(line, width - TitleWidth), title)
Seperate(up, down, width) == PrefixBreak(up, "expect", width) \o PrefixBreak(down, "actual", width)

---------------------------------------------------------------------------
(* h2_color keeps what is on in eight slots, "" when free.  A mark has a   *)
(* sign and a style.                                                       *)
Slots == 1..8
Off == [i \in Slots |-> ""]

Pushed(current, style) ==
  LET free == {i \in Slots : current[i] = ""} IN
  IF free = {} THEN current ELSE [current EXCEPT ![CHOOSE i \in free : \A j \in free : i <= j] = style]

(* Mutant of Popped: one of them is taken out. *)
PoppedFirst(current, style) ==
  LET on == {i \in Slots : current[i] = style} IN
  IF on = {} THEN current ELSE [current EXCEPT ![CHOOSE i \in on : \A j \in on : i <= j] = ""]

Popped(current, style) == [i \in Slots |-> IF current[i] = style THEN "" ELSE current[i]]

Changed(current, mark) ==
  CASE mark.style = "reset" -> Off
    [] mark.sign = "-" -> Popped(current, mark.style)
    [] OTHER -> Pushed(current, mark.style)
Colored(marks) == Range(FoldLeft(Changed, Off, marks)) \ {""}

(* What a terminal is told: first to reset, then what is on.               *)
Attributes == [reset |-> 0, bold |-> 1, italics |-> 3, underline |-> 4, inverse |-> 7, strikethrough |-> 9, default |-> 39]
Colours == <<"black", "red", "green", "yellow", "blue", "purple", "cyan", "gray">>
Lights == <<"dark gray", "light red", "light green", "light yellow", "light blue", "light purple", "light cyan", "white">>
Grounds == <<"bg_black", "bg_red", "bg_green", "bg_yellow", "bg_blue", "bg_purple", "bg_cyan", "bg_white">>
StyleValue(style) ==
  LET Nth(names) == CHOOSE i \in DOMAIN names : names[i] = style IN
  CASE style \in DOMAIN Attributes -> Attributes[style]
    [] style \in Range(Colours) -> 29 + Nth(Colours)
    [] style \in Range(Lights) -> 89 + Nth(Lights)
    [] style \in Range(Grounds) -> 39 + Nth(Grounds)
    [] OTHER -> 0
Change(on) == FoldLeft(LAMBDA told, style : IF style = "" THEN told ELSE Append(told, StyleValue(style)), <<StyleValue("reset")>>, on)

(* h2_console::prints: the text in the styles, all of which are reset      *)
(* behind it, with what was on before; without a style nothing is.         *)
Inked(on, text) == [i \in DOMAIN text |-> [ch |-> text[i], told |-> Change(on)]]

(* Mutant of Prints: only what was put on is taken off again. *)
PrintsPop(printed, styles, text) ==
  LET on == FoldLeft(Pushed, printed.on, styles) IN
  [on |-> FoldLeft(LAMBDA now, i : IF i = 1 THEN Popped(now, styles[i]) ELSE now, on, [i \in DOMAIN styles |-> i]),
   seen |-> printed.seen \o Inked(on, text)]

Prints(printed, styles, text) ==
  LET on == FoldLeft(Pushed, printed.on, styles) IN
  [on |-> IF styles = <<>> THEN on ELSE Changed(on, [sign |-> "+", style |-> "reset"]), seen |-> printed.seen \o Inked(on, text)]

---------------------------------------------------------------------------
(* The text of a line, whether it has a quote at both ends, and the same   *)
(* line with those quotes in grey (h2_line::string, enclosed, gray_quote). *)
TextOf0(line) == SelectSeq(line, LAMBDA ch : ch \notin Style)
EnclosedBy(line, quote) == LET s == TextOf0(line) IN s # <<>> /\ s[1] = quote /\ Last(s) = quote
Delta(ch, grey) == [ch |-> ch, grey |-> grey]
Greyed(line, Is(_)) == [i \in DOMAIN line |-> Delta(line[i], (EnclosedBy(line, "\"") \/ EnclosedBy(line, "'")) /\ Is(i))]

(* Mutant of GrayQuote: quotes within are grey as well. *)
GrayQuoteAll(line) == Greyed(line, LAMBDA i : line[i] \in {"\"", "'"})

GrayQuote(line) ==
  Greyed(line, LAMBDA i : line[i] \notin Style /\ WidthOf(SubSeq(line, 1, i - 1)) \in {0, WidthOf(line) - 1})

(* h2_lines::samesizify with h2_line::samesizify of lines beside each other *)
SameSize(lines, n) == lines \o [i \in 1..n - Len(lines) |-> <<>>]
Padded(line, width) == line \o Blanks(width - WidthOf(line))

---------------------------------------------------------------------------
(* h2_string::squash: blanks at the ends go, one of several is left, and   *)
(* those between quotes stay.                                              *)
RECURSIVE Trim(_)
Trim(s) == IF s = <<>> THEN s ELSE IF s[1] = Blank THEN Trim(Tail(s)) ELSE IF Last(s) = Blank THEN Trim(Front(s)) ELSE s

(* Mutant of Squashes: a character after a blank does not end the row of blanks. *)
SquashesOn(q, ch) ==
  LET single == IF ch = "'" THEN ~q.single ELSE q.single
      double == IF ch = "\"" THEN ~q.double ELSE q.double
      skip == ch = Blank /\ ~single /\ ~double
  IN [single |-> single, double |-> double, spaces |-> q.spaces + (IF skip THEN 1 ELSE 0),
      out |-> IF skip /\ q.spaces > 0 THEN q.out ELSE Append(q.out, ch)]

Squashes(q, ch) ==
  LET single == IF ch = "'" THEN ~q.single ELSE q.single
      double == IF ch = "\"" THEN ~q.double ELSE q.double
      skip == ch = Blank /\ ~single /\ ~double
  IN [single |-> single, double |-> double, spaces |-> IF ch # Blank THEN 0 ELSE q.spaces + (IF skip THEN 1 ELSE 0),
      out |-> IF skip /\ q.spaces > 0 THEN q.out ELSE Append(q.out, ch)]
Squash(s) == FoldLeft(Squashes, [single |-> FALSE, double |-> FALSE, spaces |-> 0, out |-> <<>>], Trim(s)).out
=============================================================================
