-------------------------------- MODULE Ordering --------------------------------
(***************************************************************************)
(* A set laid out in order, as the code does wherever what it returns must *)
(* not depend on how it came by it.                                        *)
(***************************************************************************)
EXTENDS Naturals, FiniteSets

\* S from its least element up, in an order R that tells its elements apart.
Ranked(S, R) ==
  [k \in 1 .. Cardinality(S) |-> CHOOSE x \in S : Cardinality({y \in S : R[y] <= R[x]}) = k]
===============================================================================
