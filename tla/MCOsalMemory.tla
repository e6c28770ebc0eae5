---------------------------- MODULE MCOsalMemory ----------------------------
(* An instance of OsalMemory: a bucket of 6 units, a wilderness of 9.       *)
EXTENDS OsalMemory
=============================================================================
