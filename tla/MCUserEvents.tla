---------------------------- MODULE MCUserEvents ----------------------------
(***************************************************************************)
(* UserEvents for TLC: enough blocks for every event and one more.         *)
(***************************************************************************)
EXTENDS UserEvents

MCBlock == 1 .. 6

=============================================================================
