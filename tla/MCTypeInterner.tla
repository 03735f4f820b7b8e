--------------------------- MODULE MCTypeInterner ----------------------------
(***************************************************************************)
(* A small interner: five signatures whose home slots collide and whose    *)
(* probes wrap, and a table that starts with two slots, so that it is      *)
(* rebuilt at the second and the fourth type.                              *)
(***************************************************************************)
EXTENDS TypeInterner

Signatures == {"a", "b", "c", "d", "e"}
Colliding == [s \in Signatures |-> CASE s \in {"a", "b"} -> 3
                                     [] s = "c" -> 7
                                     [] s = "d" -> 0
                                     [] s = "e" -> 1]
=============================================================================
