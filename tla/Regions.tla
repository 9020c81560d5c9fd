------------------------------ MODULE Regions ------------------------------
(***************************************************************************)
(* The blocks a case opens and how it leaves them: Catch                   *)
(* (src/source/except), COUT (stdio), SOCK (net), and the assertion marked *)
(* Warning (assert).  Each keeps its state in one process-wide object.  A  *)
(* COUT or SOCK is ended by a destructor, a Catch by the last expression   *)
(* of a `for`: an assertion that fails longjmps over both, an exception    *)
(* destroys the first two and skips the third, and an exception the hook   *)
(* of __cxa_throw intercepts jumps to the Catch over what is inside it.    *)
(*                                                                         *)
(* The packets of a SOCK are the subject of Network, the two jumps of the  *)
(* case's macros that of CaseFlow.                                         *)
(***************************************************************************)
EXTENDS Integers, Sequences, SequencesExt

CONSTANTS
  Type,        \* the types of exceptions
  Stream,      \* stdout, stderr, syslog
  Options,     \* the options a process may have: -c, and -W exception, uncaught
  MaxCase, MaxDepth, MaxText  \* bounds: cases run, blocks open at once, things captured

Nothing == "nothing"
Kind == {"catch", "cout", "sock"}

ASSUME RegionsAssumption ==
  /\ Nothing \notin Type /\ Options \subseteq [continue : BOOLEAN, warns : SUBSET {"exception", "uncaught"}]
  /\ {MaxCase, MaxDepth, MaxText} \subseteq Nat

VARIABLES
  option,     \* h2_option
  place,      \* "between" cases, in the "body" of one, "over" after an uncaught exception,
              \* "lost" after a jump through the buffer of a Catch that was left before
  cases,      \* cases begun
  open,       \* the blocks control is in, outermost first
  catching, hole, thrown_exception,  \* h2_exception; hole is the open Catch catch_hole belongs to, or 0
  capturable, buffer,                \* h2_stdio
  hooked, packets,                   \* h2_socket: its stubs, and whether a packet is queued
  warning,                           \* h2_warning
  failed, warned,                    \* of the current case
  wrong,      \* history: an unmarked assertion failed that no mark left behind stands before
  left,       \* history: the kinds left by a jump of which none has ended since
  unspent,    \* history: a marked assertion threw, and none has reported since
  misjudged   \* history: the kinds a block of which, none of its kind inside, was judged by
              \* something else than what it threw or printed

vars == <<option, place, cases, open, catching, hole, thrown_exception, capturable, buffer,
          hooked, packets, warning, failed, warned, wrong, left, unspent, misjudged>>
exceptionVars == <<catching, hole, thrown_exception>>
stdioVars == <<capturable, buffer>>
socketVars == <<hooked, packets>>
caseVars == <<cases, failed, warned, wrong>>
markVars == <<warning, unspent>>

(* What a Catch expects or a COUT captures, and, as history, what its      *)
(* block threw or printed, and whether a block of its kind was inside.     *)
Region ==
  [kind : {"catch"}, wants : Type \cup {Nothing}, due : {Nothing}, nested : BOOLEAN]
    \cup [kind : {"cout"}, wants : SUBSET Stream, due : Seq(Stream), nested : BOOLEAN]
    \cup [kind : {"sock"}, wants : {Nothing}, due : {Nothing}, nested : BOOLEAN]

Judged(region, due, got) ==
  misjudged' = IF got = due \/ region.nested THEN misjudged ELSE misjudged \cup {region.kind}

(* The state of every object has its type, and catch_hole belongs to a     *)
(* Catch that is open or to none.                                          *)
RegionsTypeOK ==
  /\ option \in Options
  /\ place \in {"between", "body", "over", "lost"}
  /\ cases \in 0..MaxCase
  /\ open \in Seq(Region) /\ Len(open) <= MaxDepth
  /\ catching \in BOOLEAN /\ thrown_exception \in Type \cup {Nothing}
  /\ hole # 0 => hole \in DOMAIN open /\ open[hole].kind = "catch"
  /\ capturable \subseteq Stream /\ buffer \in Seq(Stream)
  /\ {hooked, packets, warning, unspent, failed, warned, wrong} \subseteq BOOLEAN
  /\ left \subseteq Kind /\ misjudged \subseteq Kind

RegionsInit ==
  /\ option \in Options
  /\ place = "between" /\ cases = 0 /\ open = <<>>
  /\ catching = FALSE /\ hole = 0 /\ thrown_exception = Nothing
  /\ capturable = {} /\ buffer = <<>>
  /\ hooked = FALSE /\ packets = FALSE
  /\ warning = FALSE
  /\ failed = FALSE /\ warned = FALSE /\ wrong = FALSE
  /\ left = {} /\ unspent = FALSE /\ misjudged = {}

Kinds(regions) == {regions[i].kind : i \in DOMAIN regions}
Top == open[Len(open)]

---------------------------------------------------------------------------
Begin ==
  /\ place = "between" /\ cases < MaxCase
  /\ place' = "body" /\ cases' = cases + 1
  /\ failed' = FALSE /\ warned' = FALSE /\ wrong' = FALSE
  /\ UNCHANGED <<open, exceptionVars, stdioVars, socketVars, markVars, left, misjudged>>

(* Mutant of Clear: the sockets are left to the next SOCK. *)
ClearCase ==
  /\ place \in {"body", "over"} /\ open = <<>>
  /\ place' = "between"
  /\ UNCHANGED <<open, exceptionVars, stdioVars, socketVars, markVars, caseVars, left, misjudged>>

(* The test function has returned or was unwound: h2_case::clear. *)
Clear ==
  /\ place \in {"body", "over"} /\ open = <<>>
  /\ place' = "between"
  /\ hooked' = FALSE /\ packets' = FALSE /\ left' = left \ {"sock"}
  /\ UNCHANGED <<open, exceptionVars, stdioVars, markVars, caseVars, misjudged>>

(* Mutant of Failing: the buffer of a Catch is used on after it is left. *)
FailingKeepsHole(bad, regions) ==
  /\ failed' = (failed \/ bad)
  /\ open' = IF bad /\ ~option.continue THEN <<>> ELSE regions
  /\ hole' = hole

(* What is reported with these blocks around it: a failure jumps over them *)
(* to what follows the case's text, unless -c.                             *)
Failing(bad, regions) ==
  LET jumps == bad /\ ~option.continue IN
  /\ failed' = (failed \/ bad)
  /\ open' = IF jumps THEN <<>> ELSE regions
  /\ hole' = IF hole \in DOMAIN open' THEN hole ELSE 0
LeftBy(bad, regions) == IF bad /\ ~option.continue THEN Kinds(regions) ELSE {}

Entered(kind, wants, due) ==
  /\ place = "body" /\ Len(open) < MaxDepth
  /\ open' = Append([i \in DOMAIN open |->
                        [open[i] EXCEPT !.nested = @ \/ open[i].kind = kind]],
                    [kind |-> kind, wants |-> wants, due |-> due, nested |-> FALSE])
  /\ UNCHANGED <<place, markVars, caseVars, left, misjudged>>

(* Mutant of TryCatch: the exception of before is not forgotten. *)
TryCatchKeeps(type) ==
  /\ Entered("catch", type, Nothing)
  /\ catching' = TRUE /\ hole' = Len(open')
  /\ UNCHANGED <<thrown_exception, stdioVars, socketVars>>

TryCatch(type) ==
  /\ Entered("catch", type, Nothing)
  /\ catching' = TRUE /\ thrown_exception' = Nothing /\ hole' = Len(open')
  /\ UNCHANGED <<stdioVars, socketVars>>

(* Mutant of StartCapture: what was captured before is kept. *)
StartCaptureKeeps(streams) ==
  /\ Entered("cout", streams, <<>>)
  /\ capturable' = streams
  /\ UNCHANGED <<buffer, exceptionVars, socketVars>>

StartCapture(streams) ==
  /\ Entered("cout", streams, <<>>)
  /\ capturable' = streams /\ buffer' = <<>>
  /\ UNCHANGED <<exceptionVars, socketVars>>

StartSock ==
  /\ Entered("sock", Nothing, Nothing)
  /\ hooked' = TRUE
  /\ UNCHANGED <<packets, exceptionVars, stdioVars>>

---------------------------------------------------------------------------
(* Something is printed to this stream. *)
Output(stream) ==
  /\ place = "body"
  /\ Len(buffer) < MaxText /\ \A i \in DOMAIN open : Len(open[i].due) < MaxText \/ open[i].kind # "cout"
  /\ buffer' = IF stream \in capturable THEN Append(buffer, stream) ELSE buffer
  /\ open' = [i \in DOMAIN open |->
                IF open[i].kind = "cout" /\ stream \in open[i].wants
                THEN [open[i] EXCEPT !.due = Append(@, stream)] ELSE open[i]]
  /\ UNCHANGED <<place, exceptionVars, capturable, socketVars, markVars, caseVars, left, misjudged>>

(* A packet is injected, or sent through the hooks. *)
Send ==
  /\ place = "body" /\ packets' = TRUE
  /\ UNCHANGED <<place, open, exceptionVars, stdioVars, hooked, markVars, caseVars, left, misjudged>>

(* Mutant of Check: the mark outlives the assertion it stands before. *)
CheckKeeps(holds, marked) ==
  /\ place = "body" /\ ~(marked /\ warning)
  /\ LET asWarning == marked \/ warning IN
     /\ warned' = (warned \/ (~holds /\ asWarning))
     /\ warning' = asWarning
     /\ unspent' = FALSE
     /\ wrong' = (wrong \/ (~holds /\ ~marked /\ ~unspent))
     /\ Failing(~holds /\ ~asWarning, open)
     /\ left' = left \cup LeftBy(~holds /\ ~asWarning, open)
  /\ UNCHANGED <<place, cases, catching, thrown_exception, stdioVars, socketVars, misjudged>>

(* An assertion, marked Warning or not.  The mark is a flag the next       *)
(* assertion to report takes; a marked one that finds it set is skipped.   *)
Check(holds, marked) ==
  /\ place = "body" /\ ~(marked /\ warning)
  /\ LET asWarning == marked \/ warning IN
     /\ warned' = (warned \/ (~holds /\ asWarning))
     /\ warning' = FALSE
     /\ unspent' = FALSE
     /\ wrong' = (wrong \/ (~holds /\ ~marked /\ ~unspent))
     /\ Failing(~holds /\ ~asWarning, open)
     /\ left' = left \cup LeftBy(~holds /\ ~asWarning, open)
  /\ UNCHANGED <<place, cases, catching, thrown_exception, stdioVars, socketVars, misjudged>>

---------------------------------------------------------------------------
(* check_catch and try_catch_finally of the n-th block, with this          *)
(* exception recorded; `due` is what the block threw.                      *)
CheckCatch(n, exception, due) ==
  LET bad == exception # open[n].wants
      outer == SubSeq(open, 1, n - 1)
  IN  /\ catching' = FALSE /\ thrown_exception' = Nothing
      /\ Failing(bad, outer)
      /\ left' = ((left \ {"catch"}) \cup Kinds(SubSeq(open, n + 1, Len(open))))
                   \cup LeftBy(bad, outer)
      /\ Judged(open[n], due, exception)

EndCatch ==
  /\ place = "body" /\ open # <<>> /\ Top.kind = "catch"
  /\ CheckCatch(Len(open), thrown_exception, Nothing)
  /\ UNCHANGED <<place, cases, stdioVars, socketVars, markVars, warned, wrong>>

(* ~h2_cout: its matcher accepts what was captured, or not. *)
StopCapture(bad) ==
  /\ place = "body" /\ open # <<>> /\ Top.kind = "cout"
  /\ capturable' = {}
  /\ Judged(Top, Top.due, buffer)
  /\ Failing(bad, Front(open))
  /\ left' = (left \ {"cout"}) \cup LeftBy(bad, Front(open))
  /\ UNCHANGED <<place, cases, catching, thrown_exception, buffer, socketVars, markVars, warned, wrong>>

StopSock ==
  /\ place = "body" /\ open # <<>> /\ Top.kind = "sock"
  /\ hooked' = FALSE /\ packets' = FALSE
  /\ open' = Front(open) /\ left' = left \ {"sock"}
  /\ UNCHANGED <<place, exceptionVars, stdioVars, markVars, caseVars, misjudged>>

(* The hook of __cxa_throw while catching: a jump to the Catch, whatever   *)
(* handler the program has nearer; or, when that Catch was left, into text *)
(* that is over or a frame that is gone, and no further.                   *)
Jump(type) ==
  /\ catching
  /\ \/ /\ hole > 0
        /\ CheckCatch(hole, type, type)
        /\ UNCHANGED place
     \/ /\ hole = 0
        /\ place' = "lost" /\ thrown_exception' = type
        /\ UNCHANGED <<open, catching, hole, failed, left, misjudged>>
  /\ UNCHANGED <<stdioVars, socketVars, warned>>

(* Mutant of Unwind: the capture is stopped whatever blocks it leaves. *)
UnwindStops(type, handler, bad) ==
  /\ ~catching /\ ~bad
  /\ thrown_exception' = type /\ capturable' = {}
  /\ open' = SubSeq(open, 1, handler)
  /\ place' = IF handler = 0 THEN "over" ELSE place
  /\ UNCHANGED <<catching, hole, buffer, socketVars, failed, warned, left, misjudged>>

(* Mutant of Unwind: the capture is not stopped on this way out. *)
UnwindCaptures(type, handler, bad) ==
  /\ ~catching /\ ~bad
  /\ thrown_exception' = type
  /\ open' = SubSeq(open, 1, handler)
  /\ place' = IF handler = 0 THEN "over" ELSE place
  /\ UNCHANGED <<catching, hole, stdioVars, socketVars, failed, warned, left, misjudged>>

(* A real exception: the destructors of the blocks on the way to its       *)
(* handler, which is outside them all when h2_suite::test catches it.      *)
(* The first COUT among them that is not satisfied jumps out of that.      *)
Unwind(type, handler, bad) ==
  /\ ~catching
  /\ thrown_exception' = type
  /\ \E stop \in handler..Len(open) :
       LET over == SubSeq(open, stop + 1, Len(open))
           jumps == bad /\ ~option.continue
           uncaught == ~jumps /\ handler = 0
       IN  /\ bad => "cout" \in Kinds(over)
           /\ IF jumps THEN open[stop + 1].kind = "cout" ELSE stop = handler
           /\ capturable' = IF "cout" \in Kinds(over) THEN {} ELSE capturable
           /\ hooked' = (hooked /\ "sock" \notin Kinds(over))
           /\ packets' = (packets /\ "sock" \notin Kinds(over))
           /\ left' = (left \ (Kinds(over) \ {"catch"})) \cup LeftBy(bad, SubSeq(open, 1, stop))
           /\ open' = IF jumps THEN <<>> ELSE SubSeq(open, 1, handler)
           /\ hole' = IF hole \in DOMAIN open' THEN hole ELSE 0
           /\ place' = IF uncaught THEN "over" ELSE place
           /\ failed' = (failed \/ bad \/ (uncaught /\ "uncaught" \notin option.warns))
           /\ warned' = (warned \/ "exception" \in option.warns \/ (uncaught /\ "uncaught" \in option.warns))
  /\ UNCHANGED <<catching, buffer, misjudged>>

(* Something is thrown, by the case or by what an assertion evaluates; the *)
(* mark of that assertion stays behind.                                    *)
Throw(type, handler, bad, marked) ==
  /\ place = "body" /\ ~(marked /\ warning)
  /\ warning' = (warning \/ marked) /\ unspent' = (unspent \/ marked)
  /\ Jump(type) \/ Unwind(type, handler, bad)
  /\ UNCHANGED <<cases, wrong>>

RegionsNext ==
  /\ UNCHANGED option
  /\ \/ Begin \/ Clear \/ Send \/ StartSock \/ StopSock \/ EndCatch
     \/ \E type \in Type \cup {Nothing} : TryCatch(type)
     \/ \E streams \in SUBSET Stream \ {{}} : StartCapture(streams)
     \/ \E stream \in Stream : Output(stream)
     \/ \E holds, marked \in BOOLEAN : Check(holds, marked)
     \/ \E bad \in BOOLEAN : StopCapture(bad)
     \/ \E type \in Type, handler \in 0..Len(open), bad, marked \in BOOLEAN :
          Throw(type, handler, bad, marked)

RegionsSpec == RegionsInit /\ [][RegionsNext]_vars

---------------------------------------------------------------------------
(* A Catch with no other inside it judges exactly what its block threw,    *)
(* and not what was thrown before it (h2_exception::try_catch).            *)
CatchSeesItsThrow == "catch" \notin misjudged

(* A COUT with no other inside it hands its matcher what its block printed *)
(* to the streams it names: nothing printed before, and nothing lost to a  *)
(* block inside it that was left in any way (h2_stdio::start_capture).     *)
CoutSeesItsOutput == "cout" \notin misjudged

(* An unmarked assertion that fails makes the case fail, whatever marked   *)
(* ones there were, unless one of those threw (h2_warning).                *)
NotHidden == wrong => failed

(* Each block judges what happened inside it and nothing else, and what    *)
(* went wrong in a case is not forgotten on the way.                       *)
JudgesItsOwn == CatchSeesItsThrow /\ CoutSeesItsOutput /\ NotHidden

(* The innermost block of each kind is in force, whatever blocks inside it *)
(* were left and however: only one of its own kind switches it off.        *)
OpenIsOn ==
  \A i \in DOMAIN open : ~open[i].nested =>
    /\ open[i].kind = "catch" => catching /\ hole = i
    /\ open[i].kind = "cout" => capturable = open[i].wants
    /\ open[i].kind = "sock" => hooked

(* A block is in force only inside it or behind a jump out of one of its   *)
(* kind: an exception unwound through COUT and SOCK stops both, and no     *)
(* exception is sent through a hole that is gone unless one was left.      *)
OnlyJumpsLeave ==
  /\ catching => "catch" \in Kinds(open) \cup left
  /\ capturable # {} => "cout" \in Kinds(open) \cup left
  /\ hooked => "sock" \in Kinds(open) \cup left
  /\ place = "lost" => "catch" \in left

(* No case meets a socket hook or a packet of an earlier one, however that *)
(* one was left (h2_case::clear).                                          *)
CleanBetween == place = "between" => ~hooked /\ ~packets

(* A block is in force from its start to its end, and after it only where  *)
(* it was left by a jump, the case at most for a SOCK.                     *)
InForceInside == OpenIsOn /\ OnlyJumpsLeave /\ CleanBetween

===========================================================================
