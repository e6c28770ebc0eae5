--------------------------- MODULE MCRs485Network ---------------------------
(***************************************************************************)
(* Rs485Network for TLC.                                                   *)
(***************************************************************************)
EXTENDS Rs485Network, TLC

\* Nodes are interchangeable, and so are network addresses (not for liveness).
Symmetry == Permutations(Node) \cup Permutations(Short)
=============================================================================
