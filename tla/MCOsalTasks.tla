---------------------------- MODULE MCOsalTasks ----------------------------
(***************************************************************************)
(* OsalTasks for TLC.                                                      *)
(***************************************************************************)
EXTENDS OsalTasks

=============================================================================
