----------------------------- MODULE MCQueries -----------------------------
(***************************************************************************)
(* Queries on small instances.                                             *)
(***************************************************************************)
EXTENDS Queries, TLC

CONSTANTS q1, q2, d1, d2

\* One session for each data centre.
MCFirstSession == [d \in DC |-> IF d = d1 THEN 1 ELSE 2]
=============================================================================
