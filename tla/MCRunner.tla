----------------------------- MODULE MCRunner -----------------------------
(* Two suites of two cases; two builds of the executable, in which a case  *)
(* of either suite is new or gone; and the options that steer the runner.  *)
EXTENDS Runner, TLC

CONSTANTS a1, a2, b1, b2, A, B

MCCase == {a1, a2, b1, b2}
MCSuite == {A, B}
MCSuiteOf == [c \in MCCase |-> IF c \in {a1, a2} THEN A ELSE B]
MCSuiteOrder == <<A, B>>
MCCaseOrder == <<a1, a2, b1, b2>>
MCBuild == {{a1, a2, b1}, {a1, b1, b2}}
OneBuild == {{a1, a2, b1}}

Plain == [rounds |-> 1, breakAfter |-> 0, onlyLastFailed |-> FALSE, lists |-> FALSE,
          exit |-> TRUE, shuffle |-> "code", filtered |-> {}]

(* One process: every combination of what changes the counting. *)
CountingOptions ==
  {[Plain EXCEPT !.rounds = r, !.breakAfter = n, !.filtered = f] :
     r \in {0, 2}, n \in 0..2, f \in {{}, {a1}}}
    \cup {[Plain EXCEPT !.rounds = 2, !.breakAfter = 1, !.shuffle = "random"]}

(* Processes in a row: what the file of one makes of the next. *)
ReplayOptions ==
  {[Plain EXCEPT !.shuffle = s] : s \in {"code", "random", "reverse"}}
    \cup {[Plain EXCEPT !.lists = TRUE],
          [Plain EXCEPT !.onlyLastFailed = TRUE, !.rounds = 2]}

(* The file the first process leaves may come from any of them. *)
MCOption ==
  <<CountingOptions \cup ReplayOptions, ReplayOptions,
    {o \in ReplayOptions : o.shuffle = "code"} \cup {[Plain EXCEPT !.shuffle = "reverse", !.rounds = 2]}>>

LastFailedOptions ==
  [p \in 1..3 |-> {Plain, [Plain EXCEPT !.onlyLastFailed = TRUE]}]
===========================================================================
