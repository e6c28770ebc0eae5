------------------------------ MODULE MCOsalNv ------------------------------
(* Instances of OsalNv: item b is longer than item a, so that a page fills *)
(* with or without a free tail.                                            *)
EXTENDS OsalNv, TLC

CONSTANTS a, b, v, w

MCItemSize == [id \in Ids |-> IF id = b THEN 3 ELSE 2]

Symmetry == Permutations(Values)
=============================================================================
