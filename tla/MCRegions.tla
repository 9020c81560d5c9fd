----------------------------- MODULE MCRegions -----------------------------
(* Regions with one type of exception and one stream. *)
EXTENDS Regions

MCOptions ==
  {[continue |-> FALSE, warns |-> {}], [continue |-> TRUE, warns |-> {"exception", "uncaught"}]}
===========================================================================
