----------------------------- MODULE MCLuaQueue -----------------------------
(***************************************************************************)
(* LuaQueue on small instances.                                            *)
(***************************************************************************)
EXTENDS LuaQueue

\* A document of two parts; a local file of one and a half, and an empty one.
MCParts == [f \in {"document"} |-> 2]
MCSource == [f \in {"photo", "empty"} |-> IF f = "photo" THEN 3 ELSE 0]
=============================================================================
