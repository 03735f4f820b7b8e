---------------------------- MODULE Instructions ----------------------------
(***************************************************************************)
(* The table-generated instruction methods (instructions.inc expanded by   *)
(* the WASMP_DEF_* macros of function_emitter.hpp): for a call of one of   *)
(* them, the validator hook that its immediate shape selects.  A call is a *)
(* record: the mnemonic, the shape, the parsed stack effect, the feature   *)
(* tag of the row, and up to two index immediates.                         *)
(***************************************************************************)
EXTENDS Validator

Shapes == {"NONE", "FIXED", "LOCAL_IDX", "GLOBAL_IDX", "FUNC_IDX", "TABLE_IDX",
           "MEMARG", "MEM_IDX", "REF_TYPE", "SELECT_T", "CALL_INDIRECT",
           "UNCHECKED"}

\* ParseEffect fills at most four operands on each side.
Effects == {ts \in Seq(ValTypes) : Len(ts) <= 4}

\* select t carries its type in push.
Instructions ==
  {i \in [op : STRING, shape : Shapes, pop : Effects, push : Effects,
          feat : FeatureTags \cup {"MVP"}, idx : Nat, idx2 : Nat] :
     i.shape = "SELECT_T" => Len(i.push) = 1}

\* The mnemonics whose effect is not in their row, by shape, and the rows of the
\* memory and reference instructions.
Mnemonics == [NONE |-> {"Drop", "Select", "Return", "Unreachable", "RefIsNull"},
              LOCAL_IDX |-> {"LocalGet", "LocalSet", "LocalTee"},
              GLOBAL_IDX |-> {"GlobalGet", "GlobalSet"},
              FUNC_IDX |-> {"Call", "ReturnCall", "RefFunc"},
              TABLE_IDX |-> {"TableGet", "TableSet", "TableSize", "TableGrow", "TableFill"},
              MEM_IDX |-> {"MemorySize", "MemoryGrow", "MemoryFill", "MemoryCopy", "MemoryInit"},
              CALL_INDIRECT |-> {"CallIndirect", "ReturnCallIndirect"},
              SELECT_T |-> {"SelectT"}]

Rows ==
  {i \in Instructions :
     /\ \A s \in DOMAIN Mnemonics : i.op \in Mnemonics[s] => i.shape = s
     /\ i.shape \in DOMAIN Mnemonics \ {"NONE"} => i.op \in Mnemonics[i.shape]
     /\ i.shape = "MEMARG" => i.pop # <<>> /\ i.pop[1] = "I32"
     /\ i.op = "MemorySize" => i.pop = <<>> /\ i.push = <<"I32">>
     /\ i.op = "MemoryGrow" => i.pop = <<"I32">> /\ i.push = <<"I32">>
     /\ i.op \in {"MemoryFill", "MemoryCopy", "MemoryInit"} =>
          i.pop = <<"I32", "I32", "I32">> /\ i.push = <<>>
     /\ i.shape = "REF_TYPE" => i.pop = <<>>
     /\ i.shape = "UNCHECKED" => i.pop = <<>> /\ i.push = <<>>
     /\ i.feat \notin {"MULTI_MEMORY", "MEMORY64"}}

\* Other tags do not block.
GatedTags == FeatureTags \ {"MULTI_MEMORY", "MEMORY64"}

CheckFeature(v, feat) == Check(v, feat \in GatedTags => feat \in Features)

\* The address operand is the deepest pop and widens under memory64.
OnMemArg(v, i) ==
  LET pop == IF i.pop # <<>> /\ i.pop[1] = "I32"
             THEN [i.pop EXCEPT ![1] = AddrType] ELSE i.pop
  IN  ApplySig(Check(v, i.idx = 0 \/ "MULTI_MEMORY" \in Features), pop, i.push)

\* A faulty variant: only the destination widens.
FirstAddressPop(op) == IF op \in {"MemoryGrow", "MemoryFill", "MemoryCopy", "MemoryInit"}
                       THEN {1} ELSE {}

\* Which operands of a bulk-memory instruction are addresses.
AddressPops(op) == CASE op = "MemoryGrow" -> {1}
                     [] op = "MemoryFill" -> {1, 3}
                     [] op = "MemoryCopy" -> {1, 2, 3}
                     [] op = "MemoryInit" -> {1}
                     [] OTHER -> {}
AddressPushes(op) == IF op \in {"MemorySize", "MemoryGrow"} THEN {1} ELSE {}

Widen(ts, at) == [k \in 1 .. Len(ts) |-> IF k \in at THEN AddrType ELSE ts[k]]

OnMemBulk(v, i) == ApplySig(v, Widen(i.pop, AddressPops(i.op)),
                               Widen(i.push, AddressPushes(i.op)))

Polymorphic == {"Drop", "Select", "Return", "Unreachable", "RefIsNull"}

OnSelect(v) ==
  LET w == PopVals(v, <<"I32">>)
      t2 == Operand(w, 0)
      x == PopVals(w, <<Unknown>>)
      t1 == Operand(x, 0)
  IN  PushVals(PopVals(x, <<t2>>), <<IF t1 = Unknown THEN t2 ELSE t1>>)

OnNone(v, i) ==
  CASE i.op = "Drop" -> PopVals(v, <<Unknown>>)
    [] i.op = "Select" -> OnSelect(v)
    [] i.op = "Return" -> Unreachable(PopVals(v, v.results))
    [] i.op = "Unreachable" -> Unreachable(v)
    [] i.op = "RefIsNull" -> ApplySig(v, <<Unknown>>, <<"I32">>)
    [] i.op \notin Polymorphic -> ApplySig(v, i.pop, i.push)

OnLocal(v, i) ==
  LET t == <<v.locals[i.idx + 1]>>
  IN  CASE i.idx >= Len(v.locals) -> Fail(v)
        [] i.idx < Len(v.locals) /\ i.op = "LocalGet" -> PushVals(v, t)
        [] i.idx < Len(v.locals) /\ i.op = "LocalSet" -> PopVals(v, t)
        [] i.idx < Len(v.locals) /\ i.op = "LocalTee" -> ApplySig(v, t, t)
        [] OTHER -> v

OnGlobal(v, i) ==
  LET t == <<GlobalType(i.idx)>>
  IN  CASE i.idx >= Len(Globals) -> Fail(v)
        [] i.idx < Len(Globals) /\ i.op = "GlobalGet" -> PushVals(v, t)
        [] i.idx < Len(Globals) /\ i.op # "GlobalGet" ->
             PopVals(Check(v, GlobalMut(i.idx) = "Var"), t)

OnFuncIdx(v, i) ==
  LET s == FuncSig(i.idx)
  IN  CASE i.idx >= Len(FuncSigs) -> Fail(v)
        [] i.idx < Len(FuncSigs) /\ i.op = "Call" ->
             ApplySig(v, TypeParams(s), TypeResults(s))
        [] i.idx < Len(FuncSigs) /\ i.op = "ReturnCall" ->
             Unreachable(PopVals(v, TypeParams(s)))
        [] i.idx < Len(FuncSigs) /\ i.op \notin {"Call", "ReturnCall"} ->
             PushVals(v, <<"FuncRef">>)

\* Operands of the table instructions, deepest first.
TablePops(op, elem) == CASE op = "TableGet" -> <<"I32">>
                         [] op = "TableSet" -> <<"I32", elem>>
                         [] op = "TableGrow" -> <<elem, "I32">>
                         [] op = "TableFill" -> <<"I32", elem, "I32">>
                         [] OTHER -> <<>>
TablePushes(op, elem) == CASE op = "TableGet" -> <<elem>>
                           [] op \in {"TableSize", "TableGrow"} -> <<"I32">>
                           [] OTHER -> <<>>

OnTable(v, i) ==
  LET elem == TableElem(i.idx)
  IN  IF i.idx < Len(Tables)
      THEN ApplySig(v, TablePops(i.op, elem), TablePushes(i.op, elem))
      ELSE Fail(v)

OnSelectT(v, i) ==
  LET t == i.push[1] IN ApplySig(v, <<t, t, "I32">>, <<t>>)

\* idx is the signature and idx2 the table.
OnCallIndirect(v, i) ==
  LET w == PopVals(v, <<"I32">>)
  IN  IF i.idx2 < Len(Tables) /\ i.idx < Len(Types)
      THEN IF i.op = "CallIndirect"
           THEN ApplySig(w, TypeParams(i.idx), TypeResults(i.idx))
           ELSE Unreachable(PopVals(w, TypeParams(i.idx)))
      ELSE Fail(v)

(***************************************************************************)
(* What the validator does with one call: the feature gate, then the hook. *)
(***************************************************************************)
Hook(v, i) ==
  LET g == CheckFeature(v, i.feat)
  IN  CASE ~g.ok -> g
        [] g.ok /\ i.shape = "NONE" -> OnNone(g, i)
        [] g.ok /\ i.shape = "FIXED" -> ApplySig(g, i.pop, i.push)
        [] g.ok /\ i.shape = "LOCAL_IDX" -> OnLocal(g, i)
        [] g.ok /\ i.shape = "GLOBAL_IDX" -> OnGlobal(g, i)
        [] g.ok /\ i.shape = "FUNC_IDX" -> OnFuncIdx(g, i)
        [] g.ok /\ i.shape = "TABLE_IDX" -> OnTable(g, i)
        [] g.ok /\ i.shape = "MEMARG" -> OnMemArg(g, i)
        [] g.ok /\ i.shape = "MEM_IDX" -> OnMemBulk(g, i)
        [] g.ok /\ i.shape = "REF_TYPE" -> PushVals(g, i.push)
        [] g.ok /\ i.shape = "SELECT_T" -> OnSelectT(g, i)
        [] g.ok /\ i.shape = "CALL_INDIRECT" -> OnCallIndirect(g, i)
        [] g.ok /\ i.shape = "UNCHECKED" -> g
=============================================================================
