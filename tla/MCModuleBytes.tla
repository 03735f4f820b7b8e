--------------------------- MODULE MCModuleBytes ----------------------------
(***************************************************************************)
(* Small bodies and section sizes around the boundaries of SizeULEB.       *)
(***************************************************************************)
EXTENDS ModuleBytes
=============================================================================
