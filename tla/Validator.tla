----------------------------- MODULE Validator ------------------------------
(***************************************************************************)
(* detail::Validator, the type checker that policy::Validate runs beside   *)
(* the emitter (validator.hpp and the Module-dependent methods of          *)
(* module.hpp).  An instance is a record; a method is an operator from the *)
(* record before the call to the record after it.                          *)
(*                                                                         *)
(* Fail() does not return: it aborts or throws.  Field `ok' turns FALSE    *)
(* there and every later step of the method leaves the record alone, so    *)
(* the record of a failed call is the partly updated object that a caller  *)
(* who catches wasmp::Error still holds.                                   *)
(***************************************************************************)
EXTENDS ModuleView

Unknown == "Unknown"
Operands == ValTypes \cup {Unknown}
AddrType == IF "MEMORY64" \in Features THEN "I64" ELSE "I32"

CtrlKinds == {"Block", "Loop", "If", "Func"}
Ctrl == [kind : CtrlKinds, unreachable : BOOLEAN, else_seen : BOOLEAN,
         height : Nat, in : Seq(ValTypes), out : Seq(ValTypes)]
Validators == [vals : Seq(Operands), ctrls : Seq(Ctrl), ok : BOOLEAN,
               locals : Seq(ValTypes), results : Seq(ValTypes)]

\* Frame heights nest and stay within the operand stack.
Nested(v) ==
  /\ \A i \in 1 .. Len(v.ctrls) : v.ctrls[i].height <= Len(v.vals)
  /\ \A i, j \in 1 .. Len(v.ctrls) :
       i < j => v.ctrls[i].height <= v.ctrls[j].height

Top(v) == v.ctrls[Len(v.ctrls)]
Fail(v) == [v EXCEPT !.ok = FALSE]
Check(v, cond) == IF cond THEN v ELSE Fail(v)

(***************************************************************************)
(* The operand stack.  Pops stop at the height of the innermost frame:     *)
(* below it an unreachable frame yields Unknown and any other underflows.  *)
(***************************************************************************)
Available(v) == Len(v.vals) - Top(v).height

\* The operand k places below the top, as PopVal would return it.
Operand(v, k) == IF k < Available(v) THEN v.vals[Len(v.vals) - k] ELSE Unknown

\* A faulty variant: unreachable code is checked like any other.
CanPopReachable(v, k, e) == /\ k < Available(v)
                            /\ Operand(v, k) = e \/ Unknown \in {Operand(v, k), e}

\* PopExpect(e) for the operand k places down does not fail.
CanPop(v, k, e) == /\ k < Available(v) \/ Top(v).unreachable
                   /\ Operand(v, k) = e \/ Unknown \in {Operand(v, k), e}

\* A faulty variant: an operand is popped before the height is looked at.
ShrinkFirst(v, k) == LET n == IF k < Len(v.vals) THEN Len(v.vals) - k ELSE 0
                     IN  [v EXCEPT !.vals = SubSeq(@, 1, n)]

Shrink(v, k) == LET n == IF k < Available(v) THEN Len(v.vals) - k
                                             ELSE Top(v).height
                IN  [v EXCEPT !.vals = SubSeq(@, 1, n)]

\* Pops ts from its last element; a failing pop leaves the earlier ones done.
PopVals(v, ts) ==
  LET bad == {k \in 0 .. Len(ts) - 1 : ~CanPop(v, k, ts[Len(ts) - k])}
  IN  CASE ~v.ok -> v
        [] v.ok /\ bad = {} -> Shrink(v, Len(ts))
        [] v.ok /\ bad # {} ->
             LET k == CHOOSE i \in bad : \A j \in bad : i <= j
             IN  Fail(Shrink(v, k + 1))

PushVals(v, ts) == IF v.ok THEN [v EXCEPT !.vals = @ \o ts] ELSE v

ApplySig(v, pop, push) == PushVals(PopVals(v, pop), push)

\* vals_.resize(f.height) shortens: Nested says that it never grows.
Unreachable(v) ==
  IF v.ok
  THEN [v EXCEPT !.vals = SubSeq(@, 1, Top(v).height),
                 !.ctrls[Len(v.ctrls)].unreachable = TRUE]
  ELSE v

(***************************************************************************)
(* The control stack.                                                      *)
(***************************************************************************)
PushCtrl(v, kind, in, out) ==
  IF v.ok
  THEN [v EXCEPT !.ctrls = Append(@, [kind |-> kind, unreachable |-> FALSE,
                                      else_seen |-> FALSE,
                                      height |-> Len(v.vals),
                                      in |-> in, out |-> out]),
                 !.vals = @ \o in]
  ELSE v

\* PopCtrl moves the frame out before it pops the results, so a failure
\* leaves the frame on the stack with its type vectors moved from.
PopCtrl(v) ==
  LET w == PopVals(v, Top(v).out)
  IN  IF ~v.ok THEN v
      ELSE IF w.ok /\ Len(w.vals) = Top(v).height
      THEN [w EXCEPT !.ctrls = SubSeq(@, 1, Len(@) - 1)]
      ELSE [w EXCEPT !.ok = FALSE,
                     !.ctrls[Len(v.ctrls)] = [@ EXCEPT !.in = <<>>, !.out = <<>>]]

FrameAt(v, rel) == v.ctrls[Len(v.ctrls) - rel]

\* A faulty variant: a branch to a loop leaves it.
LabelTypesOut(c) == c.out

LabelTypes(c) == IF c.kind = "Loop" THEN c.in ELSE c.out

(***************************************************************************)
(* Lifecycle and locals.                                                   *)
(***************************************************************************)
NoValidator == [vals |-> <<>>, ctrls |-> <<>>, ok |-> TRUE,
                locals |-> <<>>, results |-> <<>>]

InitValidator(sig) ==
  PushCtrl([NoValidator EXCEPT !.locals = TypeParams(sig),
                               !.results = TypeResults(sig)],
           "Func", <<>>, TypeResults(sig))

\* A faulty variant: a run counts as one local.
AddOneLocal(v, t, count) == [v EXCEPT !.locals = Append(@, t)]

AddLocals(v, t, count) == [v EXCEPT !.locals = @ \o [k \in 1 .. count |-> t]]

(***************************************************************************)
(* Structured control.                                                     *)
(***************************************************************************)
OnCtrlStart(v, kind, bt) ==
  LET w == IF kind = "If" THEN PopVals(v, <<"I32">>) ELSE v
  IN  PushCtrl(PopVals(w, BlockIn(bt)), kind, BlockIn(bt), BlockOut(bt))

\* Faulty variants: the frame of the if is not pushed again; a second else is
\* not noticed.
OnElsePopped(v) == Check(PopCtrl(v), Top(v).kind = "If" /\ ~Top(v).else_seen)

OnElseTwice(v) == PushCtrl(Check(PopCtrl(v), Top(v).kind = "If"), "If", Top(v).in, Top(v).out)

OnElse(v) ==
  LET f == Top(v)
      w == Check(PopCtrl(v), f.kind = "If" /\ ~f.else_seen)
      x == PushCtrl(w, "If", f.in, f.out)
  IN  IF x.ok THEN [x EXCEPT !.ctrls[Len(x.ctrls)].else_seen = TRUE] ELSE x

\* A faulty variant: an if without else may change the stack.
OnEndOfAnyIf(v) == PushVals(PopCtrl(v), Top(v).out)

OnEnd(v) ==
  LET f == Top(v)
      w == Check(v, f.kind = "If" /\ ~f.else_seen => f.in = f.out)
  IN  PushVals(PopCtrl(w), f.out)

OnFunctionEnd(v) ==
  LET w == PopCtrl(v) IN Check(w, w.ctrls = <<>>)

OnBr(v, rel) ==
  IF rel < Len(v.ctrls)
  THEN Unreachable(PopVals(v, LabelTypes(FrameAt(v, rel))))
  ELSE Fail(v)

OnBrIf(v, rel) ==
  LET w == PopVals(v, <<"I32">>)
      lt == LabelTypes(FrameAt(v, rel))
  IN  IF rel < Len(v.ctrls) THEN ApplySig(w, lt, lt) ELSE Fail(w)

\* rels holds the targets and, last, the default target.
OnBrTable(v, rels) ==
  LET w == PopVals(v, <<"I32">>)
      lt(k) == LabelTypes(FrameAt(v, rels[k]))
      n == Len(rels)
  IN  IF /\ \A k \in 1 .. n : rels[k] < Len(v.ctrls)
         /\ \A k \in 1 .. n : Len(lt(k)) = Len(lt(n))
      THEN Unreachable(PopVals(w, lt(n)))
      ELSE Fail(w)
=============================================================================
