----------------------------- MODULE MCMessages ----------------------------
(***************************************************************************)
(* Messages on small instances.  The random id is above the ids of the     *)
(* events, so a pending message is the newest of its conversation.         *)
(***************************************************************************)
EXTENDS Messages

MCRandomId == {9}
=============================================================================
