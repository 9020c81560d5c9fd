----------------------------- MODULE PatchTable -----------------------------
(***************************************************************************)
(* What the stub engine promises, whatever it keeps to do so: a function   *)
(* runs its own body unless somebody stubs it, an owner that stubs it gets *)
(* its fake at once, and nothing happens to the functions of others.       *)
(*                                                                         *)
(* Not promised is whose fake a function runs once one of several owners   *)
(* has let go of it, or while a mock or a hook calls the original.         *)
(***************************************************************************)
EXTENDS Naturals

CONSTANTS
  Function,    \* what can be stubbed
  Patchable,   \* those whose pages accept the patch
  Fake,
  Origin

VARIABLES
  owners,      \* how many stubs hold each function
  runs         \* what each function does when called

tableVars == <<owners, runs>>

Code == {Origin} \cup Fake

TableInit ==
  /\ owners = [f \in Function |-> 0]
  /\ runs = [f \in Function |-> Origin]

(* A STUB, the first of its owner or a later one. *)
Take(f, d) ==
  /\ runs' = IF f \in Patchable THEN [runs EXCEPT ![f] = d] ELSE runs
  /\ \/ owners' = [owners EXCEPT ![f] = @ + 1]
     \/ owners[f] > 0 /\ UNCHANGED owners

(* UNSTUB, or an owner's whole list at its end. *)
Drop ==
  /\ owners' \in [Function -> Nat] /\ runs' \in [Function -> Code]
  /\ \A f \in Function :
       /\ owners'[f] <= owners[f]
       /\ owners'[f] = owners[f] => runs'[f] = runs[f]
       /\ owners'[f] = 0 => runs'[f] = Origin

(* A call to the original passes the patch, and what passed it returns.    *)
Pass(f) ==
  /\ owners[f] > 0 /\ f \in Patchable
  /\ runs' \in [Function -> Code] /\ runs' = [runs EXCEPT ![f] = runs'[f]]
  /\ UNCHANGED owners

TableNext ==
  \/ \E f \in Function : Pass(f)
  \/ \E f \in Function, d \in Fake : Take(f, d)
  \/ Drop

TableSpec == TableInit /\ [][TableNext]_tableVars
=============================================================================
