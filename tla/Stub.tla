------------------------------- MODULE Stub -------------------------------
(***************************************************************************)
(* The dynamic stub engine (src/source/stub): the first bytes of a stubbed *)
(* function are overwritten with a jump to a fake.  h2_sources keeps one   *)
(* reference-counted record of the original bytes per patched function;    *)
(* every owner list (a case, a suite, the runner, or one of the library's  *)
(* own static lists) holds h2_stub objects, each with the bytes it found   *)
(* when it was created; h2_stub_temporary_restore objects live on the C++  *)
(* stack while a mock or a hook calls the original.                        *)
(*                                                                         *)
(* A function's code bytes are abstracted to what they do when called: run *)
(* the original body (Origin) or jump to a fake.                           *)
(***************************************************************************)
EXTENDS Integers, Sequences, FiniteSets

CONSTANTS
  Address,       \* addresses a test can name in STUB/UNSTUB (srcfp)
  Function,      \* the code they lead to (source_fp)
  Follow,        \* __follow: the code reached from an address through a PLT or ILT jump
  Patchable,     \* functions whose pages accept the patch (h2_source::patchable)
  Fake,          \* destinations (dstfp)
  List,          \* owner lists of stubs
  Origin,        \* the bytes a function was compiled to
  MaxTemporary   \* bound: nested temporary restores

ASSUME StubAssumption ==
  /\ Follow \in [Address -> Function]
  /\ Patchable \subseteq Function
  /\ Origin \notin Fake
  /\ IsFiniteSet(Address) /\ IsFiniteSet(List)
  /\ MaxTemporary \in Nat

VARIABLES
  opcode,        \* what the first bytes of each function do now
  count,         \* h2_source::reference_count; 0 when no h2_source exists
  origin_opcode, \* h2_source::origin_opcode, captured when the source is created
  stubs,         \* per list its h2_stub objects, oldest first (the list pushes at its head)
  temporaries    \* the h2_stub_temporary_restore objects alive, innermost last

stubVars == <<opcode, count, origin_opcode, stubs, temporaries>>

Opcode == {Origin} \cup Fake
Entry == [addr : Address, saved : Opcode, dst : Fake]
Temporary == [addr : Address, current : Opcode]

StubTypeOK ==
  /\ opcode \in [Function -> Opcode]
  /\ count \in [Function -> Nat]
  /\ origin_opcode \in [Function -> Opcode]
  /\ stubs \in [List -> Seq(Entry)]
  /\ temporaries \in Seq(Temporary)

StubInit ==
  /\ opcode = [f \in Function |-> Origin]
  /\ count = [f \in Function |-> 0]
  /\ origin_opcode = [f \in Function |-> Origin]
  /\ stubs = [l \in List |-> <<>>]
  /\ temporaries = <<>>

(* Mutant of Held: only the newest stub of the list is looked at. *)
HeldNewest(l, a) == stubs[l] # <<>> /\ stubs[l][Len(stubs[l])].addr = a

(* The stub of list l for address a, if it has one (h2_stubs_get). *)
Held(l, a) == \E i \in DOMAIN stubs[l] : stubs[l][i].addr = a

(* The stubs, named by their list and address, that patch f. *)
Holders(f) == {h \in List \X Address : Follow[h[2]] = f /\ Held(h[1], h[2])}

Write(f, code) == IF f \in Patchable THEN [opcode EXCEPT ![f] = code] ELSE opcode

---------------------------------------------------------------------------
(* Mutant of Redirect: redirecting takes one more reference on the source. *)
RedirectRetains(l, a, d) ==
  /\ Held(l, a)
  /\ stubs' = [stubs EXCEPT ![l] =
                 [i \in DOMAIN @ |-> IF @[i].addr = a THEN [@[i] EXCEPT !.dst = d] ELSE @[i]]]
  /\ opcode' = Write(Follow[a], d)
  /\ count' = [count EXCEPT ![Follow[a]] = @ + 1]
  /\ UNCHANGED <<origin_opcode, temporaries>>

(* A STUB whose list already holds the address only redirects the patch. *)
Redirect(l, a, d) ==
  /\ Held(l, a)
  /\ stubs' = [stubs EXCEPT ![l] =
                 [i \in DOMAIN @ |-> IF @[i].addr = a THEN [@[i] EXCEPT !.dst = d] ELSE @[i]]]
  /\ opcode' = Write(Follow[a], d)
  /\ UNCHANGED <<count, origin_opcode, temporaries>>

(* Mutant of Capture: every new reference captures the bytes again. *)
CaptureAgain(f) == [origin_opcode EXCEPT ![f] = opcode[f]]

(* Creating an h2_source captures the bytes the function has at that time. *)
Capture(f) == IF count[f] = 0 THEN [origin_opcode EXCEPT ![f] = opcode[f]]
                              ELSE origin_opcode

(* Otherwise a new h2_stub takes a reference on the source, creating the   *)
(* source (which captures the original bytes) when it is the first.        *)
Patch(l, a, d) ==
  LET f == Follow[a] IN
  /\ ~Held(l, a)
  /\ count' = [count EXCEPT ![f] = @ + 1]
  /\ origin_opcode' = Capture(f)
  /\ stubs' = [stubs EXCEPT ![l] = Append(@, [addr |-> a, saved |-> opcode[f], dst |-> d])]
  /\ opcode' = Write(f, d)
  /\ UNCHANGED temporaries

Add(l, a, d) == Redirect(l, a, d) \/ Patch(l, a, d)

(* Mutant of Released: the last reference does not put the origin back. *)
ReleasedSaved(f, n, saved) == IF f \notin Patchable THEN opcode[f] ELSE saved

(* The bytes left in f once the stubs that saved `saved` (last) are        *)
(* destroyed and n references dropped: the source's destructor, when it is *)
(* the last reference, puts the original bytes back over the saved ones.   *)
Released(f, n, saved) ==
  IF f \notin Patchable THEN opcode[f]
  ELSE IF count[f] = n THEN origin_opcode[f] ELSE saved

(* UNSTUB: destroy the list's stub for the address. *)
Clear(l, a) ==
  \E k \in DOMAIN stubs[l] :
    LET f == Follow[a] IN
    /\ stubs[l][k].addr = a
    /\ stubs' = [stubs EXCEPT ![l] = [i \in 1..(Len(@) - 1) |-> IF i < k THEN @[i] ELSE @[i + 1]]]
    /\ opcode' = [opcode EXCEPT ![f] = Released(f, 1, stubs[l][k].saved)]
    /\ count' = [count EXCEPT ![f] = @ - 1]
    /\ UNCHANGED <<origin_opcode, temporaries>>

(* The stubs of list l that patch f.  Clearing goes from the newest to the *)
(* oldest, so the saved bytes of the oldest are the last written.          *)
Mine(l, f) == {h \in Holders(f) : h[1] = l}
OldestSaved(l, f) ==
  LET at == {i \in DOMAIN stubs[l] : Follow[stubs[l][i].addr] = f}
  IN  stubs[l][CHOOSE i \in at : \A j \in at : i <= j].saved

(* Mutant of ClearAll: the stubs destroyed stay in the list. *)
ClearAllKept(l) ==
  /\ opcode' = [f \in Function |->
                  IF Mine(l, f) = {} THEN opcode[f]
                  ELSE Released(f, Cardinality(Mine(l, f)), OldestSaved(l, f))]
  /\ count' = [f \in Function |-> count[f] - Cardinality(Mine(l, f))]
  /\ UNCHANGED <<stubs, origin_opcode, temporaries>>

(* h2_stubs::clear(stubs): destroy every stub of the list. *)
ClearAll(l) ==
  /\ stubs' = [stubs EXCEPT ![l] = <<>>]
  /\ opcode' = [f \in Function |->
                  IF Mine(l, f) = {} THEN opcode[f]
                  ELSE Released(f, Cardinality(Mine(l, f)), OldestSaved(l, f))]
  /\ count' = [f \in Function |-> count[f] - Cardinality(Mine(l, f))]
  /\ UNCHANGED <<origin_opcode, temporaries>>

---------------------------------------------------------------------------
(* A mock or a hook was reached through a patch and puts the original      *)
(* bytes back for as long as its temporary is alive.                       *)
Restore(a) ==
  LET f == Follow[a] IN
  /\ Len(temporaries) < MaxTemporary
  /\ opcode[f] # Origin
  /\ temporaries' = Append(temporaries, [addr |-> a, current |-> opcode[f]])
  /\ opcode' = IF count[f] > 0 THEN Write(f, origin_opcode[f]) ELSE opcode
  /\ UNCHANGED <<count, origin_opcode, stubs>>

(* Mutant of EndRestore: the source is not looked for. *)
EndRestoreAlways ==
  /\ temporaries # <<>>
  /\ LET t == temporaries[Len(temporaries)] IN opcode' = Write(Follow[t.addr], t.current)
  /\ temporaries' = SubSeq(temporaries, 1, Len(temporaries) - 1)
  /\ UNCHANGED <<count, origin_opcode, stubs>>

(* The temporary's destructor: if the function still has a source, the     *)
(* bytes found by the constructor come back.                               *)
EndRestore ==
  /\ temporaries # <<>>
  /\ LET t == temporaries[Len(temporaries)]
         f == Follow[t.addr]
     IN  opcode' = IF count[f] > 0 THEN Write(f, t.current) ELSE opcode
  /\ temporaries' = SubSeq(temporaries, 1, Len(temporaries) - 1)
  /\ UNCHANGED <<count, origin_opcode, stubs>>

(* A failing assertion inside the routine of a mock longjmps over the      *)
(* frames that own the temporaries: no destructor runs.                    *)
Abandon ==
  /\ temporaries # <<>>
  /\ temporaries' = <<>>
  /\ UNCHANGED <<opcode, count, origin_opcode, stubs>>

StubNext ==
  \/ \E l \in List, a \in Address, d \in Fake : Add(l, a, d)
  \/ \E l \in List, a \in Address : Clear(l, a)
  \/ \E l \in List : ClearAll(l)
  \/ \E a \in Address : Restore(a)
  \/ EndRestore
  \/ Abandon

StubSpec == StubInit /\ [][StubNext]_stubVars

---------------------------------------------------------------------------
(* A list never holds two stubs for one address, so UNSTUB by address      *)
(* cannot leave a second one behind (h2_stubs_get finds only the first).   *)
UniquePerList ==
  \A l \in List : \A i, j \in DOMAIN stubs[l] :
    stubs[l][i].addr = stubs[l][j].addr => i = j

(* The reference count of a source is the number of h2_stub objects, over  *)
(* all the lists and all the addresses that lead to it: the source is not  *)
(* deleted under a stub that points to it, and never outlives the last.    *)
CountIsHolders == \A f \in Function : count[f] = Cardinality(Holders(f))

(* A source created while another owner's patch, or a temporary, is in     *)
(* place would take a jump for the original bytes.                         *)
OriginPreserved == \A f \in Function : count[f] > 0 => origin_opcode[f] = Origin

(* Whatever the order in which owners let go of a function, and whatever   *)
(* temporaries were unwound or skipped meanwhile, a function nobody stubs  *)
(* runs its original body ("all replaced binary code will be restored").   *)
RestoredWhenFree == \A f \in Function : Holders(f) = {} => opcode[f] = Origin

(* The engine keeps the promise of PatchTable: a STUB takes effect at      *)
(* once, a function runs its own body from the moment its last owner lets  *)
(* go, and an operation on one function never changes another.             *)
Table == INSTANCE PatchTable WITH owners <- count, runs <- opcode

ImplementsPatchTable == Table!TableSpec
===========================================================================
