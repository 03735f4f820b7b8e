------------------------------ MODULE MCCalls -------------------------------
(***************************************************************************)
(* Values for the constants of the TLC runs: rows of instructions.inc and  *)
(* a small Module.                                                         *)
(***************************************************************************)
EXTENDS WasmTyping

Row(op, shape, pop, push, feat) ==
  [op |-> op, shape |-> shape, pop |-> pop, push |-> push, feat |-> feat,
   idx |-> 0, idx2 |-> 0]
At(row, idx) == [row EXCEPT !.idx = idx]
Special(op) == Row(op, "NONE", <<>>, <<>>, "MVP")

I32Const == Row("I32Const", "FIXED", <<>>, <<"I32">>, "MVP")
I64Const == Row("I64Const", "FIXED", <<>>, <<"I64">>, "MVP")
I32Eqz == Row("I32Eqz", "NONE", <<"I32">>, <<"I32">>, "MVP")
I32Add == Row("I32Add", "NONE", <<"I32", "I32">>, <<"I32">>, "MVP")
I64Eqz == Row("I64Eqz", "NONE", <<"I64">>, <<"I32">>, "MVP")
Drop == Special("Drop")
Select == Special("Select")
Return == Special("Return")
UnreachableCall == Special("Unreachable")
RefNull(t) == Row("RefNull", "REF_TYPE", <<>>, <<t>>, "REFERENCE_TYPES")
RefIsNull == [Special("RefIsNull") EXCEPT !.feat = "REFERENCE_TYPES"]
SelectT(t) == Row("SelectT", "SELECT_T", <<>>, <<t>>, "REFERENCE_TYPES")
Local(op, k) == At(Row(op, "LOCAL_IDX", <<>>, <<>>, "MVP"), k)
Global(op, k) == At(Row(op, "GLOBAL_IDX", <<>>, <<>>, "MVP"), k)
Call(f) == At(Row("Call", "FUNC_IDX", <<>>, <<>>, "MVP"), f)
ReturnCall(f) == At(Row("ReturnCall", "FUNC_IDX", <<>>, <<>>, "TAIL_CALL"), f)
RefFunc(f) == At(Row("RefFunc", "FUNC_IDX", <<>>, <<"FuncRef">>, "REFERENCE_TYPES"), f)
Indirect(op, feat, s, t) ==
  [Row(op, "CALL_INDIRECT", <<>>, <<>>, feat) EXCEPT !.idx = s, !.idx2 = t]
Table(op, t) == At(Row(op, "TABLE_IDX", <<>>, <<>>, "REFERENCE_TYPES"), t)
Load(m) == At(Row("I32Load", "MEMARG", <<"I32">>, <<"I32">>, "MVP"), m)
I64Store == Row("I64Store", "MEMARG", <<"I32", "I64">>, <<>>, "MVP")
MemorySize == Row("MemorySize", "MEM_IDX", <<>>, <<"I32">>, "MVP")
MemoryGrow == Row("MemoryGrow", "MEM_IDX", <<"I32">>, <<"I32">>, "MVP")
Bulk(op) == Row(op, "MEM_IDX", <<"I32", "I32", "I32">>, <<>>, "BULK_MEMORY")
TableInit == Row("TableInit", "FIXED", <<"I32", "I32", "I32">>, <<>>, "BULK_MEMORY")
ElemDrop == Row("ElemDrop", "UNCHECKED", <<>>, <<>>, "BULK_MEMORY")
AtomicLoad == Row("I32AtomicLoad", "MEMARG", <<"I32">>, <<"I32">>, "ATOMICS")
Extend8 == Row("I32Extend8S", "NONE", <<"I32">>, <<"I32">>, "SIGN_EXTENSION")

Sig(params, results) == [params |-> params, results |-> results]
Void == [kind |-> "Void"]
Value(t) == [kind |-> "Value", type |-> t]
TypeBlock(t) == [kind |-> "Type", idx |-> t]

\* Core of common.hpp:317, the features that are on by default.
CoreFeatures == {"SIGN_EXTENSION", "NONTRAPPING_FPTOINT", "REFERENCE_TYPES", "BULK_MEMORY"}

(***************************************************************************)
(* Structured control.  Labels of equal arity may have different types:    *)
(* OnBrTable does not tell them apart (the departure "labels").            *)
(***************************************************************************)
Empty == <<>>
ControlTypes == <<Sig(<<>>, <<"I32">>), Sig(<<"I32">>, <<>>)>>
ControlCalls == {I32Const, I64Eqz, Drop, UnreachableCall}
ControlBlocks == {Value("I32"), Value("I64"), TypeBlock(1)}

(***************************************************************************)
(* Straight-line code over every index space, with indices inside and      *)
(* outside it, memory instructions under memory64, features that are off,  *)
(* and value-polymorphic instructions before and after unconditional       *)
(* branches.  Two functions leave the operands that the bulk-memory        *)
(* instructions take.                                                      *)
(***************************************************************************)
CallTypes == <<Sig(<<"I64">>, <<>>), Sig(<<"I32">>, <<"FuncRef">>),
               Sig(<<>>, <<"I64", "I32">>), Sig(<<>>, <<"I64", "I64">>)>>
CallFuncs == <<1, 2, 3>>
CallGlobals == <<[type |-> "I32", mut |-> "Const"], [type |-> "I64", mut |-> "Var"]>>
CallTables == <<"FuncRef", "ExternRef">>
CallFeatures == {"REFERENCE_TYPES", "BULK_MEMORY", "MEMORY64", "TAIL_CALL"}
PlainCalls ==
  {I32Const, I64Eqz, I32Add, Drop, Select, Return, UnreachableCall, AtomicLoad, Extend8}
RefCalls ==
  {RefNull("FuncRef"), RefIsNull, SelectT("FuncRef"), RefFunc(3)}
IndexCalls ==
  {Local(op, k) : op \in {"LocalGet", "LocalSet", "LocalTee"}, k \in {0, 1}} \cup
  {Global(op, k) : op \in {"GlobalGet", "GlobalSet"}, k \in {0, 1}} \cup
  {Global("GlobalSet", 2)} \cup {Call(f) : f \in 0 .. 3} \cup {ReturnCall(0), ReturnCall(3)} \cup
  {Indirect("CallIndirect", "MVP", 1, t) : t \in {0, 1, 2}} \cup
  {Indirect("ReturnCallIndirect", "TAIL_CALL", 0, 1), Indirect("ReturnCallIndirect", "TAIL_CALL", 4, 0)} \cup
  {Table(op, 0) : op \in {"TableGet", "TableSet", "TableGrow", "TableFill"}} \cup
  {Table("TableSize", 0), Table("TableSize", 2), TableInit, ElemDrop}
MemoryCalls ==
  {Load(0), Load(1), I64Store, MemorySize, MemoryGrow, Bulk("MemoryFill"),
   Bulk("MemoryCopy"), Bulk("MemoryInit")}
AllCalls == PlainCalls \cup RefCalls \cup IndexCalls \cup MemoryCalls

(***************************************************************************)
(* Handles: calls that pass or fail with the state of the stack.           *)
(***************************************************************************)
VoidTypes == <<Sig(<<>>, <<>>)>>
HandleBlocks == {Void}
HandleCalls == {I32Const, Drop}
ReuseTypes == <<Sig(<<>>, <<>>), Sig(<<"I64">>, <<"I32">>)>>
ReuseBlocks == {Void, TypeBlock(1)}

(***************************************************************************)
(* The same without the departure.                                         *)
(***************************************************************************)
MixedBlocks == {Value("I32"), Value("I64")}
MixedCalls == {I32Const, UnreachableCall}
=============================================================================
