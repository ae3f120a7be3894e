--------------------------- MODULE MCAutobuySwitch ---------------------------
(* Small instances of AutobuySwitch. *)
EXTENDS AutobuySwitch, TLC

Symmetry == Permutations(Session)
=============================================================================
