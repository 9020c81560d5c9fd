------------------------------ MODULE MCStub ------------------------------
(* One function reachable through two addresses (itself and a PLT entry)   *)
(* and one on a page that cannot be patched, stubbed by two owners.        *)
EXTENDS Stub, TLC

MCAddress == {"f", "f_plt", "h"}
MCFunction == {"f", "h"}
MCFollow == [a \in MCAddress |-> IF a = "f_plt" THEN "f" ELSE a]
MCPatchable == {"f"}

MCSymmetry == Permutations(Fake) \cup Permutations(List)
===========================================================================
