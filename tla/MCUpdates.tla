----------------------------- MODULE MCUpdates -----------------------------
(***************************************************************************)
(* Updates on small instances.                                             *)
(***************************************************************************)
EXTENDS Updates, TLC
=============================================================================
