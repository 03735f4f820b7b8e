----------------------------- MODULE ModuleView -----------------------------
(***************************************************************************)
(* What the emit phase reads of a wasmp Module: the queries of             *)
(* module.hpp:84-109 and the value types of common.hpp.  During emission   *)
(* the Module is only read (thread_stress.cpp states that contract), so    *)
(* its contents are constants here.  Indices count from 0 as in the code;  *)
(* the sequences that hold the entries count from 1.                       *)
(***************************************************************************)
EXTENDS Naturals, Sequences

CONSTANTS Types,     \* interned signatures, a sequence of FuncTypes
          FuncSigs,  \* the type index of each function, imports first
          Globals,   \* type and mutability of each global
          Tables,    \* element type of each table
          Features   \* the feature flags that are on

NumTypes == {"I32", "I64", "F32", "F64", "V128"}
RefTypes == {"FuncRef", "ExternRef"}
ValTypes == NumTypes \cup RefTypes

FuncTypes == [params : Seq(ValTypes), results : Seq(ValTypes)]
GlobalTypes == [type : ValTypes, mut : {"Const", "Var"}]
FeatureTags == {"SIGN_EXTENSION", "NONTRAPPING_FPTOINT", "REFERENCE_TYPES",
                "BULK_MEMORY", "SIMD", "ATOMICS", "TAIL_CALL",
                "MULTI_MEMORY", "MEMORY64"}

ASSUME ModuleAssumption ==
  /\ Types \in Seq(FuncTypes)
  /\ FuncSigs \in Seq(0 .. Len(Types) - 1)
  /\ Globals \in Seq(GlobalTypes)
  /\ Tables \in Seq(RefTypes)
  /\ Features \subseteq FeatureTags

(***************************************************************************)
(* The read-only queries.                                                  *)
(***************************************************************************)
TypeIdx == 0 .. Len(Types) - 1
TypeParams(t) == Types[t + 1].params
TypeResults(t) == Types[t + 1].results
FuncSig(f) == FuncSigs[f + 1]
GlobalType(g) == Globals[g + 1].type
GlobalMut(g) == Globals[g + 1].mut
TableElem(t) == Tables[t + 1]

(***************************************************************************)
(* A block type is empty, one value type, or a type index; OnCtrlStart     *)
(* resolves it to what the block takes and leaves.                         *)
(***************************************************************************)
BlockType == [kind : {"Void"}] \cup [kind : {"Value"}, type : ValTypes]
               \cup [kind : {"Type"}, idx : TypeIdx]

BlockIn(bt) == IF bt.kind = "Type" THEN TypeParams(bt.idx) ELSE <<>>

BlockOut(bt) == CASE bt.kind = "Void" -> <<>>
                  [] bt.kind = "Value" -> <<bt.type>>
                  [] bt.kind = "Type" -> TypeResults(bt.idx)
=============================================================================
