------------------------------ MODULE Options -------------------------------
(***************************************************************************)
(* The command line (src/source/option/h2_option.cpp) and the filter its   *)
(* patterns make (src/source/core/h2_filter.cpp).  A word of the command   *)
(* line begins with a dash or not; its characters are letters and numbers, *)
(* a plain word is one of the names below or a number.                     *)
(***************************************************************************)
EXTENDS Integers, SequencesExt

CONSTANT Abbreviations   \* each name with the words that begin it

Letter(l) == [letter |-> l, number |-> -1]
Number(n) == [letter |-> "", number |-> n]
Flags(chars) == [dash |-> TRUE, chars |-> chars, text |-> ""]
Plain(text, chars) == [dash |-> FALSE, chars |-> chars, text |-> text]

Sets == {"c", "d", "f", "x"}               \* options that set a flag,
Toggles == {"C", "m", "p"}                 \* that turn it over,
Numbers == {"b", "F", "r", "v"}            \* that take a number, if one follows,
Lists == {"l", "s", "W"}                   \* and that take all the names that follow
DefaultNumber == [b |-> 1, F |-> 0, r |-> 2, v |-> 8]
Names(letter) ==
  CASE letter = "l" -> {"suite", "case", "todo", "tags"}
    [] letter = "s" -> {"random", "name", "file", "reverse"}
    [] letter = "W" -> {"exception", "uncaught", "leak", "violate", "asymmetric_free"}
DefaultNames(letter) ==
  CASE letter = "l" -> {"suite", "case", "todo"} [] letter = "s" -> {"random"} [] letter = "W" -> {}

(* h2_option before a command line is read. *)
Fresh == [flags |-> {"C", "m", "p"}, numbers |-> [b |-> 0, F |-> 5, r |-> 1, v |-> 4],
          names |-> [l |-> {}, s |-> {}, W |-> {}]]

(* h2_candidate: the names a word begins; one is right, none or two end    *)
(* the process.                                                            *)
Candidates(word, names) == {n \in names : word \in Abbreviations[n]}

(* How many plain words follow the i-th: extract_string until it fails.    *)
Following(args, i) ==
  LET dashes == {k \in i + 1..Len(args) : args[k].dash}
  IN IF dashes = {} THEN Len(args) - i ELSE (CHOOSE k \in dashes : \A d \in dashes : k <= d) - i - 1

Flag(opt, letter) ==
  IF letter \in Toggles /\ letter \in opt.flags THEN [opt EXCEPT !.flags = @ \ {letter}]
  ELSE [opt EXCEPT !.flags = @ \cup {letter}]

(* Mutant of Extracted: an attached number is read and left where it is.   *)
ExtractedStays(args, i, rest, letter) ==
  IF rest # <<>> /\ Head(rest).number >= 0 THEN [value |-> Head(rest).number, i |-> i + 1, rest |-> rest]
  ELSE [value |-> DefaultNumber[letter], i |-> i, rest |-> rest]

(* extract_number: attached to the letter, or the whole next word.         *)
Extracted(args, i, rest, letter) ==
  IF rest # <<>> /\ Head(rest).number >= 0
  THEN [value |-> Head(rest).number, i |-> i, rest |-> Tail(rest)]
  ELSE IF i < Len(args) /\ ~args[i + 1].dash /\ args[i + 1].text = "" /\ Len(args[i + 1].chars) = 1
  THEN [value |-> args[i + 1].chars[1].number, i |-> i + 1, rest |-> rest]
  ELSE [value |-> DefaultNumber[letter], i |-> i, rest |-> rest]

Listed(opt, letter, words) ==
  LET found == UNION {Candidates(w, Names(letter)) : w \in words}
      all == opt.names[letter] \cup found
  IN [opt EXCEPT !.names[letter] = IF all = {} THEN DefaultNames(letter) ELSE all]

(* The letters `rest` of the i-th word are still to be read. *)
Exit == [exit |-> TRUE]
RECURSIVE Parse(_, _, _, _)
Parse(args, i, rest, opt) ==
  IF rest = <<>>
  THEN IF i = Len(args) THEN [exit |-> FALSE, opt |-> opt]
       ELSE Parse(args, i + 1, IF args[i + 1].dash THEN args[i + 1].chars ELSE <<>>, opt)
  ELSE
  LET letter == Head(rest).letter
      number == Extracted(args, i, Tail(rest), letter)
      count == Following(args, i)
      words == {args[k].text : k \in i + 1..i + count}
  IN
  CASE letter \in Sets \cup Toggles -> Parse(args, i, Tail(rest), Flag(opt, letter))
    [] letter \in Numbers -> Parse(args, number.i, number.rest, [opt EXCEPT !.numbers[letter] = number.value])
    [] letter \in Lists -> IF \E w \in words : \A n \in Names(letter) : Candidates(w, Names(letter)) # {n} THEN Exit
                           ELSE Parse(args, i + count, Tail(rest), Listed(opt, letter, words))
    [] letter \in {"h", "?"} -> Exit
    [] OTHER -> Parse(args, i, Tail(rest), opt)

---------------------------------------------------------------------------
(* A pattern is the set of what it matches; a suite and a case have a file *)
(* with line, a name and tags.  No case is <<>>.                           *)
MatchNames(patterns, subject) == \E p \in patterns : subject \in p
MatchTags(patterns, test) == \E p \in patterns : p \cap test.tags # {}
Where == {"any", "file", "suite", "case", "tags"}

MatchBy(where, patterns, s, c) ==
  LET tests == {s} \cup Range(c) IN
  CASE where = "any" -> \E t \in tests : MatchNames(patterns, t.filine) \/ MatchNames(patterns, t.name) \/ MatchTags(patterns, t)
    [] where = "file" -> \E t \in tests : MatchNames(patterns, t.filine)
    [] where = "suite" -> MatchNames(patterns, s.name)
    [] where = "case" -> \E t \in Range(c) : MatchNames(patterns, t.name)
    [] where = "tags" -> \E t \in tests : MatchTags(patterns, t)

(* __filter: TRUE leaves the test out. *)
Filter(s, c, includes, excludes) ==
  \/ /\ \E w \in Where : includes[w] # {}
     /\ \A w \in Where : ~MatchBy(w, includes[w], s, c)
  \/ \E w \in Where : MatchBy(w, excludes[w], s, c)

(* Mutant of SuiteFiltered: only the suite's own file, name and tags count. *)
SuiteFilteredAlone(s, cases, includes, excludes) == Filter(s, <<>>, includes, excludes)

(* h2_runner::filter: a case that is left in brings its suite back.        *)
SuiteFiltered(s, cases, includes, excludes) ==
  Filter(s, <<>>, includes, excludes) /\ \A c \in cases : Filter(s, <<c>>, includes, excludes)
=============================================================================
