# Verification of h2unit

h2unit is a unit test framework for C and C++ (`src/source`): it runs cases, patches functions at run
time (STUB, MOCK), checks memory, captures output and sockets, and matches values. It is hard to test
with itself: it jumps over destructors with `longjmp`, rewrites machine code that several owners share,
and keeps state from one process to the next. This directory holds TLA+ models of the parts where those
things meet, the TLC configurations that check them and the proofs TLAPS checks.

Paths below are relative to `src/source`.

## 1. The system

One process runs one test executable; the library runs on one thread (only packets may be injected from
another). The hard interleavings are not
of threads but of **owners** (runner, suites, cases, library hooks that patch the same function),
**control transfers** (normal returns, `longjmp`, exceptions, destructors that jump) and **processes**
(one reads what another wrote, or was killed before it wrote).

| part | sources | state it keeps | operations | interacts with |
|---|---|---|---|---|
| Runner | `core/h2_runner.*`, `h2_filter.cpp`, `h2_test.*` | suites and cases as sorted lists, marks (ignored, filtered, last_failed), counters, the file `.last_order` | enumerate, filter, shuffle, rounds, count, save/drop order | calls suites, reports; owns stubs, mocks, DNS lists |
| Suite and case macros | `core/h2_core.hpp`, `h2_suite.*`, `h2_case.*` | `cleanup_hole`, `fail_hole`, the case pointer, failed/warning | SUITE, Setup, Cleanup, Case, Cases, shared code | every failing assertion ends in `h2_case::failing`, which jumps |
| Stub engine | `stub/h2_source.cpp`, `h2_stubs.cpp`, `h2_temporary.cpp` | one counted source per patched function with its original bytes, lists of stubs per owner, temporaries on the C++ stack | add, redirect, clear one, clear all, temporary restore | used by STUB, MOCK, memory, stdio, exception, socket and DNS hooks |
| Scopes | `core/h2_runner.cpp:181-202` and the teardowns | `current_suite`, `current_case` | which list a STUB, UNSTUB, MOCK uses; when it is cleared | runner over stub engine and mocks |
| Mock | `mock/*` | per MOCK in the text a static mocker: chain of checkins, position, greed, routines | MOCK, Once .. Any, With, Th, Return, `=`, call, check, reset | stub engine (patch, temporary), case (check at its end) |
| Memory check | `memory/*` | stack of blocks, pieces with guard page, gap, free count, protection; hooks on or off | malloc .. aligned_alloc, new/delete, realloc, BLOCK, UNMEM, fault handler, end-of-block check | stub engine (hooks), case (push/pop), crash handler |
| Exceptions | `except/h2_exception.*` | `catching`, `catch_hole`, the last exception | hook of `__cxa_throw`, Catch | jumps like a case does |
| Crash, debugger | `except/h2_crash.cpp`, `h2_debug.cpp` | signal handlers | fault handler, SIGINT | asks the memory check for the piece |
| Stdio capture | `stdio/*` | one buffer, three capture flags, length for the report | hooks of write/printf/..., COUT | its destructor asserts |
| Socket, DNS | `net/*` | queues of incoming and outgoing packets, table of sockets; names per scope | hooked socket calls, SOCK, Ptx, Pij, DNS | stub engine, case end |
| Reports | `report/*` | what the console line holds, the junit file | callbacks of the runner | read counters and failures |
| Options, filter | `option/*`, `core/h2_filter.cpp`, `utils/h2_pattern.cpp` | the record `O` | parse, wildcard match | steers all others |
| Matchers, JSON, diff | `matcher/*`, `json/*`, `utils/h2_diff.cpp` | none (pure) | matches, parse, select, LCS | used by assertions |
| Heap of the library | `utils/h2_libc.*` | areas mapped, free chunks of each | malloc, free for the library's own objects | under hooks of malloc, so it must not use them |
| Symbols | `symbol/*` | table of functions, load address | name to address, address to name, backtraces | stub engine, failures, memory check |
| Containers, text | `utils/*` | intrusive list, strings, lines | push, sort, print | used everywhere |
| Macros | `utils/h2_macro.*`, `core/h2_core.hpp`, `stub/h2_stub.hpp`, `mock/h2_mock.hpp` | none (preprocessor) | lists counted and crossed, Cases, Casess, STUB, MOCK | make the cases a suite registers, and the functions stubs and mocks patch |

What makes them right:

* **Stub engine**: when the last owner lets go of a function its original bytes are back, in whatever
  order owners come and go and whatever temporaries were skipped.
* **Scopes**: what a case does to a function is undone at its end and not before.
* **Case flow**: each section of a suite runs as often as documented, whichever way control leaves; a
  test in which something went wrong is failed; every test ends.
* **Runner**: every case is counted once per round; `-b`, `-f` hold; a failing run is replayed in its
  order until a run passes.
* **Mock**: a case passes exactly when its calls can be dealt out to the expectations as written.
* **Memory**: a case passes exactly when its pieces were handled well; the accounts of a block balance.
* **Regions, sockets, names**: a block judges what happened in it and nothing else, whichever way it was left;
  packets arrive once and in their turn; a name resolves to the latest answer in force.
* **Heap of the library**: no chunk overlaps another, and no word is lost.
* **Machine code**: a patched function leads where it was last set to, any other to its own body; no byte of
  another is touched, and no page is written that does not permit it.

`PROJECT.json` lists the hazards behind these at their lines.

## 2. The modules

| module | models | checked by | proofs in |
|---|---|---|---|
| `PatchTable` | what the stub engine promises, as an abstract specification | refined by `Stub` | |
| `Stub` | the stub engine | `MCStub` | `ScopeProofs` |
| `Scope` (EXTENDS `Stub`) | runner, suites and cases as owners, driving the stub engine | `MCScope` | `ScopeProofs` |
| `CaseFlow` | one SUITE function as a jump machine | `MCCaseFlow` | `CaseFlowProofs` |
| `Runner` | `h2_runner::main` over several processes | `MCRunner` | `RunnerProofs` |
| `Mock` | the expectations of mocks | `MCMock` | `MockProofs` |
| `Memory` | the memory check | `MCMemory` | `MemoryProofs` |
| `Regions` | Catch, COUT, SOCK and Warning: blocks whose state is one process-wide object each | `MCRegions` | `RegionsProofs` |
| `Network` | the packets of a SOCK, the table of connections, reads that wait while others inject | `MCNetwork` | `NetworkProofs` |
| `Dns` | the entries of DNS, which case owns them, how a name is resolved | `MCNetwork` | `NetworkProofs` |
| `Heap` | what the allocator for the library's own objects promises | refined by `Libc` | |
| `Libc` | that allocator: areas, lists of free chunks, splitting and joining | `MCAlgorithms` | `MachineProofs` |
| `MachineCode` | the bytes of functions under the stub engine: jumps, pages, what the linker put in front | `MCAlgorithms` | `MachineProofs` |
| `Symbols` | functions found by name, by member pointer, on a stack; those exempt from the memory check; the pointers of an import | `MCFunctions` | |
| `Matchers` | a tree of matchers with what is handed down it; members, pointees, casts, the user's own predicates | `MCAlgorithms` | |
| `Assertions` | equality by the types of both sides, near equality, memory compared; what each matcher says it expects | `MCFailures` | |
| `Json`, `Expression` | tokens, descent, matching, selectors, similarity, two trees beside each other, a tree written; arithmetic and its values | `MCAlgorithms`, `MCTexts` | |
| `Text`, `Strings` | distances, subsequences, wildcards, tags, rings, shared pointers, bytes, leaks; strings, escapes, descriptions, values as texts | `MCAlgorithms`, `MCTexts` | |
| `Pieces` | where a piece of memory lies in its pages, its fill, an overflow found | `MCTexts` | |
| `Layout` | styled lines in rows and columns, what is printed of them | `MCAlgorithms`, `MCFailures` | |
| `Macros` | argument lists of the preprocessor, the cases and functions that the macros make of them | `MCTexts` | |
| `Options` | the command line, the filter of `-i` and `-e` | `MCAlgorithms` | |
| `Reports` | the tree of failures, the cut expression, the listing and its tags, the JUnit file, the bars of the console, the hooks of stdio | `MCAlgorithms`, `MCFailures` | |
| `Failures` | what is written of a failure, and failures gathered under one | `MCFailures` | |

Each module starts with what it models and what it abstracts. The definitions commented as a mutant and
listed under `mutants` in `PROJECT.json` (`HeldNewest`, `IgnoredLate`, ...) are not part of the model: each
is a plausible bug of the definition after it, and shows that the property it is listed with would notice.

### Stub

State: `opcode` is what the first bytes of a function do when called (run the original, or jump to a
fake); `count` and `origin_opcode` are the fields of `h2_source` (`count` 0: no source exists); `stubs`
the lists of `h2_stub`, each with the bytes it found; `temporaries` the `h2_stub_temporary_restore`
objects alive. Actions: `Add` = `Redirect` (the list already holds the address) or `Patch`; `Clear` is
UNSTUB; `ClearAll` the teardown of an owner; `Restore` and `EndRestore` the two ends of a temporary;
`Abandon` a `longjmp` over the frames that own them. A page that refuses the patch (`h2_source::patchable`)
is a function outside `Patchable`. `Follow` maps an address to the code a chain of jumps leads to;
`MachineCode` has those jumps as bytes.

### Scope

`ScopeNext` walks through `h2_runner::main` phase by phase: global setup, the collecting pass over the
suites, rounds, suites, cases, their setups, shared code, body, cleanups. At each site a *script* says
what user code does to one function (nothing, STUB, UNSTUB, MOCK); `Scope` is the choice of the list by
`current_case`, `current_suite`. `Called` includes the mock whose routine fails an assertion (of the sites in `Failing`), so that its
temporary is skipped. The teardown of mocks is composed with that of stubs in `Teardown`.

### CaseFlow

`pc` is where the SUITE function is; `fail_hole` and `cleanup_hole` say whether each `jmp_buf` was never
set, was set in the running call, or in a call that has returned. A jump to one that is not set is
undefined behaviour: the process may be lost, or goes on in the loop of the case with some pointer. An
exception out of a case destroys the suite's `cleaner`, which jumps. `Optimised` lets the case pointer
keep its value across the jump, which the language permits since the macro's parameter is not volatile.
`LeaveCases` is the end of a case made by Cases or Casess, whose loops are nested in another order: there the
suite's cleaner goes, and jumps, before the case pointer is cleared.

### Runner

`Start` is a new process with new options and maybe another build of the executable; `Crash` may end it
in any case; `last_order` is the file. `Shuffle` reads the file (`InLastOrder`) or orders the lists as `-s`
says (`InOwnOrder`); the numbers cases and suites are sorted by are `CaseSeq` and `SuiteSeq`. A case is one
action, `TestCase`, with one of the verdicts; `EndRound` writes or removes the file.

### Mock

`mocker` has per MOCK in the text its chain, its position and whether it is on the case's list; `patched`
is the mocker the function leads to. The matchers of an expectation are abstracted to the set of argument
tuples they accept. `Call` is `h2_mocker::matches` and what follows: `Taken` is the expectation the call
is counted for, `Refusing` the ones reported on the way. The history variable `log` keeps the calls and
their answers; `Deals` is the reference definition, the ways to deal the calls out to a chain in order,
and shares nothing with the walk the code does.

### Memory

`blocks` is the stack (root, suite, case, then BLOCKs and UNMEMs), `piece` what is known of each piece:
whether it is mapped, the block it belongs to (`home`), who gave it, how often it was freed, whether the
gap was written (`dirty`), whether the fault handler noted a violation, which pages fault (`forbidden`).
`Complains` is the order of checks in `h2_piece::free`, `Pop` the end of a block (`h2_block::check`),
`Failing` the jump to the Cleanup that leaves the open BLOCKs without their destructors. `wrong`,
`returned` and `taken` are history: what the program really did, against which the verdict is compared.

### Regions

`open` is the stack of blocks control is in; `catching` and `hole` are `h2_exception` (whose `jmp_buf` belongs
to which Catch), `capturable` and `buffer` are `h2_stdio`, `hooked` and `packets` stand for `h2_socket`,
`warning` for `h2_warning`. A COUT and a SOCK are ended by destructors, a Catch by the last expression of a
`for`. So there are three ways out: `EndCatch`, `StopCapture` and `StopSock`; `Failing`, the jump of an assertion
over everything; `Throw`, which either jumps to the Catch over everything inside it (`Jump`) or unwinds
(`Unwind`). The hole of a Catch that was left is undefined behaviour when jumped through: the process is
`lost`, and nothing is claimed of it.

### Network and Dns

`incoming` and `outgoing` are the queues, `sockets` the table of descriptors in a connection, `bound` what the
system says a descriptor is bound to (descriptors are used again when closed, lowest first). A reading call
is two steps, `BeginRead` and `Poll` or `GiveUp`, since packets are injected while it polls.
`Matching` is the search by address, `Requeue` what accept does with a packet that has data. `peer`, `links`,
`injected`, `taken` and `older` are history.

In `Dns` every entry carries the case it belongs to (`owner`), as the code has a second list per case;
`Hostname` is the choice of the name among the arguments, `Find` the search from the newest.

### Libc, Heap and MachineCode

`blocks` are the areas the allocator has mapped, each with its list of free chunks (`buddies`); `held` are the
chunks callers have. `Malloc` takes the first chunk that is large enough, splitting it when the rest can hold
the links of a chunk, and maps an area when none is; `Free` puts a chunk back in the order of addresses and
joins it with its neighbours. `Heap` promises no more than what a caller sees: memory of one's own, large enough.

`MachineCode` counts in small addresses, but a byte keeps its meaning: which instruction it is part of and
which of its bytes it is. `Jump` is the jump of each processor, `Overwrite` writes bytes as far as the page permits
it at that moment (`Permit`), `Follow` runs through the jumps of the linker. The actions are the life of an
`h2_source`: `Create`, `Set`, `Pass` and `Return` around a call to the original, `Delete`. Two functions lie a patch
apart, so that a byte too many would show in the second. `Linked` is what stands in memory before, `Leads` where
the processor goes; both are external, and `CodeLayout` says what is assumed of them.

### The algorithms

The other modules have operators for functions that keep no state, each loop a fold and each recursion a
recursion. `MCAlgorithms` enumerates small inputs as the states of a trivial machine (in `MCTexts`: a kind is
chosen, then a question of it) and says of each answer what it means, by a definition that does not follow
the code: alignments for distances, divisions for wildcards, a grammar for descents, the meaning of a tree of
matchers, the rows of a table read back, a document read as it was written. It extends `MCTexts` (strings,
rings, pieces, documents, macros), `MCFailures` (what is written) and `MCFunctions` (symbols). Only the screen, the
heap and the bytes of functions are machines of their own.

## 3. What the runs check

| run | instance | distinct states | shows |
|---|---|---|---|
| `stub` | 3 owners, one function behind two addresses, one that cannot be patched, 2 nested temporaries | 242 116 | `CountIsHolders`, `OriginPreserved`, `RestoredWhenFree`, the refinement `ImplementsPatchTable` |
| `scope` | 2 suites, 3 cases in any order or passed over, 2 rounds; every script of the case-level sites and of the global stub | 200 772 | `OwnWorkUndone`, `NearestWins` |
| `case_flow` | 2 cases, up to 4 tests; every section passes, fails an assertion or throws, the pointer in memory or in a register, cases of Cases | 343 528 | `WrongIsFailed` for all; `SectionsOnce`, `TestEnds` where assertions fail and exceptions escape as the macros expect |
| `runner` | three processes in a row, 2 builds, rounds, `-b`, `-f`, `-l`, `-s`, `-x`, filters, crashes | 675 803 | `CasesAccounted`, `BreakAfterFails`, `LastOrderReplayed`, `OnlyMarkedTested`, `ProcessEnds` |
| `mock` | 2 MOCKs of one function, chains of up to 3 expectations of every kind, up to 4 calls, with and without `-c`, UNMOCK, MOCK executed again, two cases and more | 1 225 810 | `PassIffExpected`, `EarliestAnswers` |
| `memory` | 2 pieces, 1 nested BLOCK of every kind, 2 cases, 1 thing done wrong, with and without `-c` | 841 526 | `PassIffClean`, `AccountsBalance`, `UnmemStaysInCase` |
| `regions` | 2 cases, blocks nested up to 3 deep, one type of exception, one stream, with and without `-c` and `-W exception,uncaught` | 376 864 | `JudgesItsOwn`, `InForceInside` |
| `network` | sockets: 2 descriptors, one local and one remote name, up to 2 packets to a name or the wildcard, 1 sent, up to 2 connections tried. Names: 2 cases, 3 hostnames of different lengths, an address, 2 entries | 542 290 | `PacketsArrive`, `ReaderFed`, `NamesResolve` |
| `algorithms` | every input up to the sizes in `Next` of `MCAlgorithms` and in `AskTexts`, `AskFailures` and `AskFunctions`; a heap of 2 areas with 3 chunks given; two functions patched, restored and patched again, on each processor | 703 610 | `MatchersAsMeant`, `DocumentsAsMeant`, `TextsAsMeant`, `OutputAsMeant`, `FunctionsFound`, `PatchesLead`, `HeapSound`, the refinement `ImplementsHeap` |

Each component with state of its own has a type invariant in its run. `SectionsOnce`, `LastOrderReplayed`,
`PassIffExpected`, `PassIffClean`, `JudgesItsOwn`, `InForceInside`, `PacketsArrive`, `NamesResolve`, `OwnWorkUndone`
and those of `algorithms` are conjunctions whose parts are named and commented at their definitions.

What several of them leave out on purpose, because the code does otherwise and no document promises it: a
Catch, COUT or SOCK with another of its kind inside (the inner one ends both); a mark Warning whose assertion
threw; what is sent on a descriptor that was connected before (the hazard at `h2_socket.cpp:184`, which no
property covers); members of equal keys; a number in the word after joined letters; which argument of a mocked
call is marked for a *part* of a container that is wrong (it is the one with the part's number). `PROJECT.json`
says so at the hazard, or the comment does at the definition. `MatchersAsMeant` also leaves out the median of two
numbers, of which a document does promise something that the code does not do: it is asked by `MedianInTheMiddle`
alone, in the table below.

Three runs end in a violation of what the documentation or a test of the repository says, and are kept as
such (`findings` in `PROJECT.json` quote the lines):

* `case_flow_throw`: an exception thrown in a case of a suite with a Cleanup is never reported; the
  destructor that jumps to the Cleanup swallows it and the case runs again, without end.
* `scope_suite_mock`: a mock made in the global suite setup of a later round is put on the list of the case
  tested last in the round before; its expectations go with that case, and where it comes first in the
  new round the other cases call a mock that expects nothing. The instance is the suite of
  `test/test_mock_scope.cpp`: two cases in any order, all of them tested (`Skippable = {}`), no routine with an
  assertion that fails (`Failing = {}`), so that nothing but the wrong list takes the mock away. The test itself,
  built and run with `-r 3 -s`, fails in this way when the case tested last in a round is the first of the next.
* `case_flow_cases`: "`Cleanup()` is executed after every test case", but in a suite with a Cleanup a case of
  Cases runs again after it, and again: the jump to the Cleanup leaves the case pointer set.

More disagreements between the documentation and the code are stated next to the models and are in no run;
each is found violated when it takes the place of the properties in a configuration,
or is added to them:

| property | put into | what TLC then shows |
|---|---|---|
| `OnlyLastFailed` of `Runner` | `MCRunner.cfg` | `-f` tests a case that passed when last tested: `.last_order` is written by a process that found none and then kept as it is until a process without failures removes it |
| `ExitCodeTells` of `Runner` | `MCRunner.cfg` with `ExitModulus = 2`, which stands for the 256 of the system | with `-x`, 256 failed cases exit with status 0 |
| `TestEnds` of `CaseFlow`, without `shape \in Promised` | `MCCaseFlow.cfg` with `Shape <- FailingCleanup`, `FailingAfter` or `Passing` | an assertion that fails in the Cleanup, or in the code after a case, runs it again, without end; where the compiler keeps the case pointer in a register, a case runs again after its Cleanup |
| `GreedyPasses` of `Mock` | `MCMock.cfg` with `Text <- SkipText` | with `Once(1).Any(2).Once(1)` and the calls f(1), f(1) the optional expectation, "any times (include 0 times)", is not left out: the second call is counted for the first expectation |
| `SharedStaysInSuite`, `UnstubRecovers` of `Scope` | `MCScope.cfg` | a stub in the shared code of a suite is seen by the cases of other suites; UNSTUB in a case does not recover what the shared code stubbed |
| `EffectsEndWithBlock` of `Memory` | `MCMemory.cfg` | after an assertion failed in a BLOCK or UNMEM, the Cleanup runs with the block's limit or without the hooks |
| `MedianInTheMiddle` of `MCAlgorithms` | `MCAlgorithms.cfg` | `MedianOf(1.5) (0, 2)` of `{1, 2, 3}`, an example of `document/matcher.md:176`, is refused whatever the memory behind the two numbers holds (`junk`): `h2_matches_container.hpp:303` adds the larger one and what stands behind it, `b[size / 2 + 1]`, and halves the sum as an integer |

Two more are plain to see, and in no run:

* `document/options.md:51` and the help for `-W` (`h2_option.cpp:15`) name `-W double_free`; the list of words the
  option takes (`h2_option.cpp:175`) has only the other five, so the word ends the program, and the branch for it
  (line 180) is never reached. `Begins` of `MCAlgorithms` has the five.
* `document/matcher.md:178` expects `MaxOf(1.5) (0, 2)` of `{1, 2, 3}`; the maximum of 1 and 2 is 2, and so it is in
  the code and in `Statistic`.

### Bounds, and why they are enough

* `Stub`: the order in which two owners let go matters, and a third that comes between; two addresses of
  one function are needed for a list with two stubs of one source; a temporary within a temporary is what
  a mock called from a mock makes. The theorems hold for any number.
* `Scope`: two suites, so that one follows another; two cases in one of them; two rounds, so that a suite
  follows its own last case. One function is enough, as lists treat functions apart (`Stub`). Of
  `scope_suite_mock`: one suite of two cases is the least in which one is over when the other is tested.
* `CaseFlow`: with two cases there is one before and one after each; four tests repeat one with holes that
  are stale, and still leave a third.
* `Runner`: two suites of two cases, one of them a TODO; builds that gain and lose a case of either suite;
  three processes: one writes the file, one finds it and is killed or passes, one finds what is left.
* `Mock`: three expectations are the least for one to be passed over between two others; four calls fill
  two Twice. `IntMax` is the code's own.
* `Memory`: two pieces show a realloc, and one piece next to another; two cases, what the first leaves for
  the second. `MaxWrong = 2` (2.9 million states) and `MaxNest = 2` (3.3 million) were run by hand with
  the same result.
* `Regions`: three blocks hold one of each kind in any order, or one between two of another kind; two cases,
  what the first leaves for the second. Only one thing is captured at a time (`MaxText`): what is told apart
  is whether it was printed in this block.
* `Network`: two descriptors, so that the table has entries of another one and of one closed and used again;
  two packets overtake each other. Sockets and names share no state, so a behaviour shows the one or the
  other; of sockets it shows two packets and one connection with nothing sent, or two connections and sends
  with one packet (`side` in `MCNetwork`), which keeps the run short.
* `MCAlgorithms`: texts of three to seven characters over two to four letters, all that a table cell, a
  backtrack or a state of a scanner can depend on; matchers nested three deep; up to four leaks, failures or
  lines of a listing. A heap of two areas shows one area freed into while another is full; three chunks are two
  neighbours and the one to be joined with both. Three areas and four chunks (731 000 states) were run by hand.
  The memory of the two functions has every kind of jump the linker makes and a page boundary within a patch. EVAL
  scans a list `Rescans` = 8 times, the code 128 times: no list asked has more parentheses around it than 8.

### Fairness

The temporal properties need it. `ProcessEnds` assumes `WF(RunnerStep)`: the runner is a loop on one thread, so it
goes on provided the case it runs returns; a case that does not is the case's own, and `Crash` needs no
fairness. `TestEnds`, `CleanupIsLast` and `UncaughtReported` assume `WF(FlowStep)`: each section of user code ends. `ReaderFed`
assumes `WF(PollAny)`: a thread that polls in a blocking read looks at the queue again and again
(`h2_sleep(100)` in a loop); nothing is assumed of who injects, so a reader whose packet never comes may wait for
ever. No fairness is assumed of what a user starts (`Start`, `Test`).

## 4. What is proved

TLAPS checks the eight modules `*Proofs`. Each theorem holds for every value of the constants that the
`ASSUME` of its component allows; a hypothesis beyond that is named in the theorem and explained here. Every
safety property of a passing run is a theorem, but for those of pure functions (below).

### `ScopeProofs`: Stub and Scope

* `StubTypeCorrect`, `StubCountCorrect`, `StubOriginCorrect`, `StubRestoreCorrect`, for `StubTypeOK`,
  `CountIsHolders`, `OriginPreserved`, `RestoredWhenFree`; `StubUniqueCorrect`: no list holds two stubs of one address.
* `StubImplementsTable`, for `ImplementsPatchTable`: every step of the engine is a step of `PatchTable`, or
  changes nothing of it, with `owners` mapped to `count` and `runs` to `opcode`; one lemma per operation
  (`AddTakes`, `ClearDrops`, `ClearAllDrops`, `TemporaryPasses`).
* `ScopeTypeCorrect`, for `ScopeTypeOK`; `ScopesUndone`, for `OwnWorkUndone`; `ScopesNearestWins`, for
  `NearestWins`; `ScopeInductive`, the invariant they come from.

`RestoredWhenFree` is not inductive: the last stub puts back `origin_opcode`, which has to be the origin,
which it is only if it was captured when nobody held the function, which is known only if the count says
so, which it does only if no list holds two stubs of an address. `StubIInv` is that chain, with a part for
functions that cannot be patched, whose bytes never change. The lemmas about the removal of stubs
(`ClearStep`, `ClearAllStep`) count the holders before and after.

`ScopeInv` builds on it: that the one function is held by whom, and what each holder saved, is said phase by
phase (`RunnerInv`, `CollectInv`, `SetupInv`, `OthersInv`, `BetweenInv`, `CaseInv`, `EndInv`, `DoneInv`). `PutInv`
says what the function is between a setup and a teardown. `ScopesUndone` and `ScopesNearestWins` need `CaseScripts`:

* the function can be patched (otherwise nothing that is said of a stub is true);
* no stub, unstub or mock in the three global cleanups (those of a case, of a suite, of all), which come
  after or between the teardowns: work done there is put on a list that is not cleared again;
* the global suite setup does not mock (the run `scope_suite_mock` shows what becomes of it), and when it stubs,
  the shared code of the last suite does nothing to that function: while the cases are collected no suite is
  current, both go on the runner's list, and the fake of that shared code stays below the later stubs of the setup
  and comes back when one of them goes.

TLC finds one of the two properties violated when any of these is dropped. `ScopeTypeCorrect` needs none of them.

### `CaseFlowProofs`

`FlowTypeCorrect`, `WrongIsAlwaysFailed`, `SectionsAlwaysOnce`, for `CaseFlowTypeOK`, `WrongIsFailed`,
`SectionsOnce`, for any number of cases. `FlowInv` adds `WayInv` (where the case pointer can point at each place),
`WrongInv` (what went wrong has failed the case, or its exception is on the way), and for the shapes in
`Promised` which of the holes are live (`HolesInv`) and how often each section has run by now (`BodyInv`,
`CleanupInv`, `AfterInv`): that a jump never leads through a hole of an earlier call is what the counts rest on.

`CallsRunOut` is the safety half of `TestEnds`: every step of a call of such a suite makes `StepsLeft` smaller,
which is at most 8N + 11. The only way back over the text is the jump to Cleanup, taken with the case pointer set
and cleared by it; were it kept (the code of `LeaveCases` beside a Cleanup, or an optimised build) the call would go
round for ever, which is why `Promised` excludes both.

### `RunnerProofs`

`RunnerTypeCorrect`, `EveryCaseAccounted`, `BreaksAfterFails`, `OrderReplayed`, for `RunnerTypeOK`,
`CasesAccounted`, `BreakAfterFails`, `LastOrderReplayed`, and `LastFailedOnly` for the action property
`OnlyMarkedTested`; any number of suites, cases, builds and processes. `RunnerInv` adds that no case is lost when
the lists are sorted, that the file holds the cases of a suite in one piece (`FileInv`; without it a suite read
back would be split), where the two iterations are (`WalkInv`), that the file is not written while it is
being followed (`ReadInv`, `KeepInv`), and that with `-f` only marked cases can fail or be marked (`MarkInv`).

`ProcessesRunOut` is the safety half of `ProcessEnds`, and exact: a process begins with `O.rounds * RoundSteps + 1`
steps to take, each step of `main` leaves one less (`StepsRunOut`), and at none it is over; only a case that kills
the process ends it sooner. A round enters every suite and passes every case whatever `-b`, `-f` and the
order of the lists; that `Completed` grows by the cases of the suite that ended (`SuiteCompletes`) is what the count
needs, and it holds under `-l` too, where `CasesAccounted` says nothing.

### `MockProofs`

* `MockTypeCorrect`, and `SaidCallsPass`: calls that can be dealt out to the chains in order, with nothing to
  choose, pass.
* `VerdictRight`, for `PassIffExpected`; `EarliestAlwaysAnswers`, for `EarliestAnswers`. Both assume `Allowing`: of
  each expectation, least is at most most. `h2_checkin` passes a count equal to `most` before it looks at `least`
  (and all the ways to write one, but `Between(3, 2)`, satisfy it).

`MockInv` says that there is a way to deal out the calls so far that the counts and the position come from
(`WalkInv`), that where there is nothing to choose the counts are those of the calls (`DistinctInv`), and that a
failure has a chain to blame (`BlameInv`). The lemmas count calls: how many of a longer log a position has.

### `MemoryProofs`

* `MemoryTypeCorrect`, `MemoryUnmemCorrect`, for `MemoryTypeOK`, `UnmemStaysInCase`, from `MemoryIInv`, which adds
  when the hooks are on (`HooksOK`): between cases always, as `h2_case::clear` sees to, and in a case unless it
  had an UNMEM.
* `MemoryVerdictRight`, for `PassIffClean`: a case passes exactly when its pieces were handled well. `VerdictInv`
  relates pieces to history: the free count of a piece to what the program freed (`ReturnedInv`), each wrong to
  the evidence the check at the end will find (`EvidenceInv`), each complaint to its cause (`BlameInv`).
* `MemoryAccountsBalance`, for `AccountsBalance`, assumes `Mappable`: the limit of a block and one more piece do
  not wrap its counter. The code gives 0xffffffffffff to a block without a limit (`memory/h2_block.cpp:2`) and
  counts in 64 bits, so a piece would have to be larger than what can be mapped. TLC shows that it is needed:
  with `NoLimit = 15`, `Wrap = 16` and pieces of 15 the counter wraps.

### `RegionsProofs`

`RegionsTypeCorrect`, `EachJudgesItsOwn`, `EachInForceInside`, for `RegionsTypeOK`, `JudgesItsOwn` and
`InForceInside`, for any depth and any options. `RegionsInv` adds that a block with one of its kind inside knows it
(`NestInv`), that the innermost of each kind has what it is judged by (`JudgeInv`), and that a hook that still
catches without a Catch, or a mark that is still set, was left behind (`HoleInv`, `MarkInv`).

### `NetworkProofs`

* `NetworkTypeCorrect`, and `PacketsAlwaysArrive` for `PacketsArrive`. `NetworkIInv` adds that packets have the
  numbers of their injection and are queued once, in order among those for one name (`QueueInv`), that a call to
  accept that waits has a descriptor to give (`RoomInv`), and that the table agrees with what was connected (`TableInv`).
* `DnsTypeCorrect`, and `NamesAlwaysResolve` for `NamesResolve`: the newest first (`NewestFirst`), the case's own
  entries, the shortest of the arguments as the name. The walks over arguments and entries are recursive functions;
  the lemma `Recursion` shows that a function defined from its value one below exists, from `Least` and
  `Induction` over a set of numbers, which needs no operator parameter.
* `TypesCorrect`, for `TypesOK` of the composition that TLC runs.

### `MachineProofs`: Libc and MachineCode

`HeapAlwaysSound`, for `HeapSound` (no two chunks overlap, each lies in one area, nothing is lost), and
`LibcImplementsHeap`, for `ImplementsHeap`. `LibcIInv` says that areas are apart (`LibcAreas`), that lists ascend and
share no chunk (`Lists`), and that the chunks free and given fill the areas (`Shared`). `LibcAssumption` has
`BuddyWords <= SizeWords + 2`: a chunk put back can hold its links, which the ten bytes added to every request
see to. In `Heap` a request may be refused only if it leaves its area no room for the
header.

`PatchesLeadAlways`, for `PatchesLead`: on every processor and system, with any number of linker jumps, any addresses
and any pages. It rests on `CodeLayout`, which says that what the linker made does not overlap, nor a patch, that
fakes lie elsewhere, and that addresses of 32 bits are near. `CodeInvHolds` is the inductive invariant: what is kept
of a source are the bytes it was compiled to (`Sources`); outside the sources all bytes are those (`Untouched`);
over a source stands the jump to where it is meant to lead, or the original (`Led`, `Guiding`), and while a
call goes to the original what `passing` keeps is that jump; pages of a source stay writable, but on Apple where
they are made so for each write (`Permitted`). `PatchesLead` alone is not inductive: it does not say what
`Delete` and `Return` will write. The argument is in three layers: a jump read back from the bytes it was written
as leads to its target, a short one over the rest of an older long one included (`WrittenLeads`), and one of the
linker's to the function behind it (`JumpLeads`); the pages made writable hold every byte of a patch (`PagesCover`,
a lemma about division); and one lemma per action (`CreateKeeps`, `SetKeeps`, `PassKeeps`, `ReturnKeeps`, `DeleteKeeps`)
that nothing else is disturbed. A patched function is not followed: without that guard in `Follow` the second
`Set` would patch the fake.

### Only model-checked

* Liveness, which is out of the prover's reach: `TestEnds`, `ProcessEnds`, `ReaderFed`, and the counterexamples of
  `CleanupIsLast` and `UncaughtReported`. Of the first two the bound on the number of steps is proved (`CallsRunOut`,
  `ProcessesRunOut`); that a step can be taken while there are some left, and is, stays with TLC.
* What a recursive definition computes for every input: `MatchersAsMeant`, `DocumentsAsMeant`, `TextsAsMeant`,
  `OutputAsMeant`, `FunctionsFound`. Their definitions are folds, whose laws are inductions, or RECURSIVE operators, over
  documents, matchers and texts; of both the provers know nothing.

## 5. What is not modelled

`h2unit.h` (10 673 lines) is the single header generated from `source`; the models follow `source`, of which it
is a copy, and the map names the lines of `source` only.

* Which libc entry points are hooked on each platform (`memory/platform`); the adapters of signatures
  (`mock/h2_routine.hpp`); template machinery, and of the
  preprocessor pasting, deferring and the numbers above 32.
* Windows; the `printf@plt` stubs of arm64 that no source follows; gdb, nm, addr2line and backtrace themselves.
* The words of a failure (its structure is in `Failures`) and fixed colours; rounding of floating point; regular
  expressions; escapes within the strings of JSON documents; pairs as matchers. Wildcards are modelled as built for
  Windows and Cygwin; on Linux they are `fnmatch`.
* Addresses of sockets are compared as names; their parsing is not modelled.
* Multi-threaded tests, but for a thread that injects packets while another reads: the library has no locks,
  and none of its documents promises anything.
* Of modelled parts: `-w` in `Memory` and `CaseFlow`; addresses that libc or the kernel give again; two cases
  of one name in `.last_order`; a `.last_order` that cannot be written; `-o` and `-S`; more than 32 addresses in
  one DNS answer; the timer of an assertion.

## 6. What is left

1. `Mock` and `Regions` composed: a throw in the routine of a mock inside a Catch jumps over the mock's
   temporary (`Abandon` of `Stub`); each half is modelled, not their product.
2. `Runner` taking its options from `Options`; today `Runner` enumerates the option records it needs.
3. Theorems about functions: those of `Options`, `Text` and `Layout` that could be stated as facts about folds,
   once their loops are recursive functions; today their modules declare RECURSIVE operators or serve modules that do.
