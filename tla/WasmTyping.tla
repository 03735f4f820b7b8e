----------------------------- MODULE WasmTyping -----------------------------
(***************************************************************************)
(* The typing rules of WebAssembly, stated as the specification states     *)
(* them and not as its appendix computes them: an instruction takes a      *)
(* stack of operand types to a stack of operand types, and what follows an *)
(* unconditional branch may start from any stack.  There are no heights    *)
(* and no guessed operands here.  validator.hpp:3 and README.md promise    *)
(* that policy::Validate decides these rules.                              *)
(*                                                                         *)
(* Replaying a body keeps, for every open frame, all operand stacks that   *)
(* its prefix can leave; the body is ill-typed when there is none.  The    *)
(* stacks are those of a set, after an unconditional branch with any       *)
(* operands below.                                                         *)
(*                                                                         *)
(* The validator is known to relax some rules.  Departures names those     *)
(* that a run relaxes in the same way; the verdicts must agree in all      *)
(* others.                                                                 *)
(***************************************************************************)
EXTENDS FunctionEmitter

CONSTANTS Alphabet,   \* operand types that occur, Bot among them or not
          Departures  \* the rules that are relaxed

\* The calls are rows of the table, whose mnemonics have the rules below.
ASSUME RowsAssumption == Calls \subseteq Rows

\*   "tail"      the results of a tail-called function may be any
\*   "select"    the operands of an untyped select may be references
\*   "isnull"    the operand of ref.is_null may be a number
\*   "indirect"  an indirect call may go through a table of any references
\*   "labels"    of the labels of a br_table only the default has to fit;
\*               the others need to have as many types
ASSUME DeparturesAssumption ==
  Departures \subseteq {"tail", "select", "isnull", "indirect", "labels"}

Departs(rule) == rule \in Departures

\* The type of an operand that no instruction produced, when it has to be
\* several types at once.
Bot == "Bot"

\* A replay yields the open frames, outermost first, or IllTyped.
IllTyped == <<[kind |-> "IllTyped"]>>

\* ts can be taken from the top of stack s of frame f, and what s is then, with
\* push on top.
Common(s, ts) == IF Len(s) < Len(ts) THEN Len(s) ELSE Len(ts)
Takes(f, s, ts) == /\ f.any \/ Len(ts) <= Len(s)
                   /\ \A k \in 0 .. Common(s, ts) - 1 :
                        s[Len(s) - k] \in {ts[Len(ts) - k], Bot}
Rest(s, ts, push) == SubSeq(s, 1, Len(s) - Common(s, ts)) \o push

\* The stacks that remain after an instruction of type pop -> push.
After(f, pop, push) == {Rest(s, pop, push) : s \in {r \in f.stacks : Takes(f, r, pop)}}

Rule(pop, push) == [pop |-> pop, push |-> push]
Pop(pop) == Rule(pop, <<>>)
Push(push) == Rule(<<>>, push)

\* Indirect calls go through tables of functions.
HasFunctions(t) == t < Len(Tables) /\ (Tables[t + 1] = "FuncRef" \/ Departs("indirect"))
Selectable == IF Departs("select") THEN Alphabet ELSE Alphabet \ RefTypes
Nullable == IF Departs("isnull") THEN Alphabet ELSE RefTypes

\* The types a non-jumping instruction may have in the current function.
RulesOf(i, locals) ==
  LET local == {<<locals[k]>> : k \in {n \in {i.idx + 1} : n <= Len(locals)}}
      global == {Globals[k] : k \in {n \in {i.idx + 1} : n <= Len(Globals)}}
      elem == {Tables[k] : k \in {n \in {i.idx + 1} : n <= Len(Tables)}}
      func == {Types[FuncSigs[k] + 1] : k \in {n \in {i.idx + 1} : n <= Len(FuncSigs)}}
      at == IF "MEMORY64" \in Features THEN "I64" ELSE "I32"
  IN CASE i.op = "Drop" -> {Pop(<<t>>) : t \in Alphabet}
       [] i.op = "Select" -> {Rule(<<t, t, "I32">>, <<t>>) : t \in Selectable}
       [] i.op = "SelectT" -> {Rule(i.push \o i.push \o <<"I32">>, i.push)}
       [] i.op = "RefIsNull" -> {Rule(<<t>>, <<"I32">>) : t \in Nullable}
       [] i.op = "LocalGet" -> {Push(t) : t \in local}
       [] i.op = "LocalSet" -> {Pop(t) : t \in local}
       [] i.op = "LocalTee" -> {Rule(t, t) : t \in local}
       [] i.op = "GlobalGet" -> {Push(<<g.type>>) : g \in global}
       [] i.op = "GlobalSet" -> {Pop(<<g.type>>) : g \in {h \in global : h.mut = "Var"}}
       [] i.op = "Call" -> {Rule(f.params, f.results) : f \in func}
       [] i.op = "RefFunc" -> {Push(<<"FuncRef">>) : f \in func}
       [] i.op = "CallIndirect" ->
            IF HasFunctions(i.idx2) /\ i.idx < Len(Types)
            THEN {Rule(TypeParams(i.idx) \o <<"I32">>, TypeResults(i.idx))} ELSE {}
       [] i.op = "TableGet" -> {Rule(<<"I32">>, <<t>>) : t \in elem}
       [] i.op = "TableSet" -> {Pop(<<"I32", t>>) : t \in elem}
       [] i.op = "TableSize" -> {Push(<<"I32">>) : t \in elem}
       [] i.op = "TableGrow" -> {Rule(<<t, "I32">>, <<"I32">>) : t \in elem}
       [] i.op = "TableFill" -> {Pop(<<"I32", t, "I32">>) : t \in elem}
       [] i.op = "MemorySize" -> {Push(<<at>>)}
       [] i.op = "MemoryGrow" -> {Rule(<<at>>, <<at>>)}
       [] i.op = "MemoryFill" -> {Pop(<<at, "I32", at>>)}
       [] i.op = "MemoryCopy" -> {Pop(<<at, at, at>>)}
       [] i.op = "MemoryInit" -> {Pop(<<at, "I32", "I32">>)}
       [] i.shape = "MEMARG" -> {Rule([i.pop EXCEPT ![1] = at], i.push)}
       [] OTHER -> {Rule(i.pop, i.push)}

\* A function may be called in tail position of one with these results.
TailFits(callee, results) == callee = results \/ Departs("tail")

\* What an instruction that jumps away takes, if it is allowed.
JumpsOf(i, results) ==
  CASE i.op = "Unreachable" -> {<<>>}
    [] i.op = "Return" -> {results}
    [] i.op = "ReturnCall" ->
         {Types[FuncSigs[k] + 1].params : k \in {n \in {i.idx + 1} :
            n <= Len(FuncSigs) /\ TailFits(TypeResults(FuncSigs[n]), results)}}
    [] i.op = "ReturnCallIndirect" ->
         {TypeParams(t) \o <<"I32">> : t \in {n \in {i.idx} :
            HasFunctions(i.idx2) /\ n < Len(Types) /\ TailFits(TypeResults(n), results)}}

Jumps == {"Unreachable", "Return", "ReturnCall", "ReturnCallIndirect"}

\* Departures names each relaxed rule that the calls and the Module at hand
\* touch, and Alphabet has every type: then the verdicts have to agree.
Acknowledged ==
  /\ Departs("tail") \/ \A i \in Calls : i.op \notin {"ReturnCall", "ReturnCallIndirect"}
  /\ Departs("select") \/ \A i \in Calls : i.op # "Select"
  /\ Departs("isnull") \/ \A i \in Calls : i.op # "RefIsNull"
  /\ Departs("indirect") \/ \A t \in 1 .. Len(Tables) : Tables[t] = "FuncRef"
  /\ Departs("labels") \/ MaxTargets = 0
  /\ Alphabet = ValTypes

Enabled(i) == /\ i.feat \in Features \cup {"MVP"}
              /\ i.shape = "MEMARG" => i.idx = 0 \/ "MULTI_MEMORY" \in Features

(***************************************************************************)
(* One instruction of a body.  A frame: kind, types in and out, whether an *)
(* else was passed, and the stacks its prefix can leave.                   *)
(***************************************************************************)
Last(ctx) == ctx[Len(ctx)]
WithStacks(ctx, S) == IF S = {} THEN IllTyped
                                ELSE [ctx EXCEPT ![Len(ctx)].stacks = S]

\* After an instruction of type t* pop -> t'*, for any t* and t'*.
AnyBelow(f) == [f EXCEPT !.any = TRUE, !.stacks = {<<>>}]
WithAny(ctx, cond) == IF cond THEN [ctx EXCEPT ![Len(ctx)] = AnyBelow(@)] ELSE IllTyped

Opened(ctx, kind, in, out) ==
  Append(ctx, [kind |-> kind, in |-> in, out |-> out, passed |-> FALSE,
               any |-> FALSE, stacks |-> {in}])
LeavesOut(f) == \E s \in f.stacks : /\ Takes(f, s, f.out) /\ Len(s) <= Len(f.out)

StepPlain(ctx, i, locals, results) ==
  LET f == Last(ctx)
  IN  IF ~Enabled(i) THEN IllTyped
      ELSE IF i.op \in Jumps
      THEN WithAny(ctx, \E pop \in JumpsOf(i, results), s \in f.stacks : Takes(f, s, pop))
      ELSE WithStacks(ctx, UNION {After(f, r.pop, r.push) : r \in RulesOf(i, locals)})

StepOpen(ctx, kind, bt) ==
  LET cond == IF kind = "If" THEN <<"I32">> ELSE <<>>
      around == WithStacks(ctx, After(Last(ctx), BlockIn(bt) \o cond, BlockOut(bt)))
  IN  IF around = IllTyped THEN IllTyped ELSE Opened(around, kind, BlockIn(bt), BlockOut(bt))

StepElse(ctx) ==
  LET f == Last(ctx)
  IN  IF f.kind = "If" /\ ~f.passed /\ LeavesOut(f)
      THEN [ctx EXCEPT ![Len(ctx)] = [f EXCEPT !.passed = TRUE, !.any = FALSE,
                                                  !.stacks = {f.in}]]
      ELSE IllTyped

StepEnd(ctx) ==
  LET f == Last(ctx)
  IN  IF LeavesOut(f) /\ (f.kind = "If" /\ ~f.passed => f.in = f.out)
      THEN SubSeq(ctx, 1, Len(ctx) - 1) ELSE IllTyped

\* All labels of a br_table have to accept the same operands.
StepBranch(ctx, op, rels) ==
  LET n == Len(rels)
      f == Last(ctx)
      S == IF op = "Br" THEN f.stacks ELSE After(f, <<"I32">>, <<>>)
      inRange == \A k \in 1 .. n : rels[k] < Len(ctx)
      label(k) == LET g == ctx[Len(ctx) - rels[k]]
                  IN  IF g.kind = "Loop" THEN g.in ELSE g.out
  IN  CASE ~inRange -> IllTyped
        [] inRange /\ op = "BrIf" ->
             WithStacks(ctx, After([f EXCEPT !.stacks = S], label(1), label(1)))
        [] inRange /\ op # "BrIf" ->
             WithAny(ctx, \E s \in S : \A k \in 1 .. n :
                            /\ Len(label(k)) = Len(label(n))
                            /\ Takes(f, s, label(k)) \/ (Departs("labels") /\ k < n))

Step(ctx, t, locals, results) ==
  CASE t.op = "Else" -> StepElse(ctx)
    [] t.op = "End" -> StepEnd(ctx)
    [] t.op \in FrameKinds -> StepOpen(ctx, t.op, t.bt)
    [] t.op \in BranchOps -> StepBranch(ctx, t.op, t.rels)
    [] OTHER -> StepPlain(ctx, t, locals, results)

Replay(c, locals, results) ==
  LET upTo[n \in 0 .. Len(c)] ==
        IF n = 0 THEN Opened(<<>>, "Func", <<>>, results)
        ELSE LET ctx == upTo[n - 1]
             IN  IF ctx = IllTyped THEN IllTyped ELSE Step(ctx, c[n], locals, results)
  IN  upTo[Len(c)]

Typed(c, rs) == Replay(c, LocalsOf(rs), TypeResults(sig))

-----------------------------------------------------------------------------
\* Soundness.  As long as no call was refused, what is written is typable, and
\* a body that Finish() hands out is well-typed with all its frames closed.
AcceptsOnlyTyped ==
  Validating /\ ~tainted =>
    /\ status = "running" => Typed(code, runs) # IllTyped
    /\ status = "finished" => Typed(body.code, body.runs) = <<>>

\* Completeness.  The call that is reported is one that no typing of the body
\* so far allows: a program built from typable calls is never refused.
RefusesOnlyUntyped ==
  status = "aborted" =>
    \/ refused = <<>>
    \/ refused[1] # FinishCall /\ Typed(Append(code, refused[1]), runs) = IllTyped
    \/ refused[1] = FinishCall /\ Typed(Append(code, End), runs) # <<>>

\* The same of the bodies handed out by a client that caught wasmp::Error and
\* went on without Reset().
FinishesOnlyTyped == status = "finished" => Typed(body.code, body.runs) = <<>>
=============================================================================
