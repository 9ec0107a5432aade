---------------------------- MODULE MCSecretChat ---------------------------
(***************************************************************************)
(* SecretChat on small instances: how many messages each client sends.     *)
(***************************************************************************)
EXTENDS SecretChat

\* The notification of the layer, and one message of the client that accepts
OneTwo == [c \in Client |-> IF c = "admin" THEN 1 ELSE 2]
=============================================================================
