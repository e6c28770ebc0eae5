---------------------------- MODULE MCOsalTimers ----------------------------
(***************************************************************************)
(* OsalTimers for TLC.                                                     *)
(***************************************************************************)
EXTENDS OsalTimers, TLC

Symmetry == Permutations(Block)

=============================================================================
