-------------------------------- MODULE MCDepset --------------------------------
(* Two interchangeable elements, heaps of three sets. *)
EXTENDS Depset, TLC

Symmetry == Permutations(Element)
=============================================================================
