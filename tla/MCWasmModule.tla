---------------------------- MODULE MCWasmModule ----------------------------
(***************************************************************************)
(* Instances of WasmModule; the cfg files give the kinds and the bounds.   *)
(***************************************************************************)
EXTENDS WasmModule
=============================================================================
