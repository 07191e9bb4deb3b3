------------------------------ MODULE MCXList -------------------------------
(* Instances of XList for TLC.  Items are interchangeable.                  *)
EXTENDS XList, TLC

ItemSymmetry == Permutations(Items)

(* The lists are alike, too. *)
Symmetry == ItemSymmetry \cup Permutations(Lists)
=============================================================================
