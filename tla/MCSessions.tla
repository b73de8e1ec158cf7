------------------------------ MODULE MCSessions ------------------------------
(* Two calls at a time; the sizes are in Sessions.cfg.                     *)
EXTENDS Sessions, TLC

Symmetry == Permutations(Calls) \union Permutations(Devices)
=============================================================================
