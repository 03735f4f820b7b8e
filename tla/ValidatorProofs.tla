--------------------------- MODULE ValidatorProofs --------------------------
(***************************************************************************)
(* What every method of the validator preserves, for every Module and      *)
(* every instruction table: the record keeps its type, frame heights nest  *)
(* within the operand stack, and only the methods for structured control   *)
(* change which frames there are.                                          *)
(***************************************************************************)
EXTENDS Instructions, Integers, SequenceTheorems, WellFoundedInduction, TLAPS

Good(v) == v \in Validators /\ Nested(v)

SameFrame(c, d) ==
  /\ c.kind = d.kind /\ c.else_seen = d.else_seen /\ c.height = d.height
  /\ c.in = d.in /\ c.out = d.out

\* v and w differ at most in operands, ok and unreachable flags.
SameFrames(v, w) ==
  /\ Len(w.ctrls) = Len(v.ctrls)
  /\ \A k \in 1 .. Len(v.ctrls) : SameFrame(v.ctrls[k], w.ctrls[k])
  /\ w.locals = v.locals /\ w.results = v.results

Keeps(v, w) == Good(w) /\ SameFrames(v, w)

\* Keeping frames composes.
LEMMA KeepsTrans ==
  ASSUME NEW u, NEW v, NEW w, Keeps(u, v), Keeps(v, w)
  PROVE  Keeps(u, w)
  BY DEF Keeps, SameFrames, SameFrame

LEMMA KeepsRefl == ASSUME NEW v, Good(v) PROVE Keeps(v, v)
  BY DEF Keeps, SameFrames, SameFrame

\* Fail only clears ok.
LEMMA FailKeeps ==
  ASSUME NEW v, Good(v)
  PROVE  Keeps(v, Fail(v)) /\ ~Fail(v).ok /\ Fail(v).ctrls = v.ctrls
  <1> DEFINE w == Fail(v)
  <1>1. /\ w \in Validators /\ ~w.ok /\ w.ctrls = v.ctrls /\ w.vals = v.vals
        /\ w.locals = v.locals /\ w.results = v.results
    BY DEF Fail, Good, Validators
  <1>2. QED
    BY <1>1 DEF Keeps, SameFrames, SameFrame, Good, Nested

LEMMA CheckKeeps ==
  ASSUME NEW v, Good(v), NEW c
  PROVE  Keeps(v, Check(v, c)) /\ Check(v, c).ctrls = v.ctrls
  BY FailKeeps, KeepsRefl DEF Check

\* The parts of Good that the proofs below use.
LEMMA GoodFacts ==
  ASSUME NEW v, Good(v)
  PROVE  /\ v.vals \in Seq(Operands) /\ Len(v.vals) \in Nat
         /\ v.ctrls \in Seq(Ctrl) /\ Len(v.ctrls) \in Nat
         /\ v.ok \in BOOLEAN
         /\ v.locals \in Seq(ValTypes) /\ v.results \in Seq(ValTypes)
         /\ \A i \in 1 .. Len(v.ctrls) :
              v.ctrls[i] \in Ctrl /\ v.ctrls[i].height \in Nat
         /\ \A i \in 1 .. Len(v.ctrls) : v.ctrls[i].height <= Len(v.vals)
         /\ \A i, j \in 1 .. Len(v.ctrls) :
              i < j => v.ctrls[i].height <= v.ctrls[j].height
  <1>1. /\ v.vals \in Seq(Operands) /\ Len(v.vals) \in Nat
        /\ v.ctrls \in Seq(Ctrl) /\ Len(v.ctrls) \in Nat
        /\ v.ok \in BOOLEAN
        /\ v.locals \in Seq(ValTypes) /\ v.results \in Seq(ValTypes)
    BY DEF Good, Validators
  <1>2. \A i \in 1 .. Len(v.ctrls) : v.ctrls[i] \in Ctrl
    BY <1>1
  <1>3. \A c \in Ctrl : c.height \in Nat
    BY DEF Ctrl
  <1>4. QED
    BY <1>1, <1>2, <1>3 DEF Good, Nested

LEMMA TopFacts ==
  ASSUME NEW v, Good(v), v.ctrls # <<>>
  PROVE  /\ Len(v.ctrls) \in Nat \ {0}
         /\ Top(v) \in Ctrl /\ Top(v).height \in Nat
         /\ Top(v).height <= Len(v.vals)
         /\ \A i \in 1 .. Len(v.ctrls) : v.ctrls[i].height <= Top(v).height
  <1>1. Len(v.ctrls) \in Nat \ {0} /\ Len(v.ctrls) \in 1 .. Len(v.ctrls)
    BY GoodFacts
  <1>2. \A i \in 1 .. Len(v.ctrls) : i < Len(v.ctrls) \/ i = Len(v.ctrls)
    BY <1>1
  <1>3. QED
    BY <1>1, <1>2, GoodFacts DEF Top

\* Replacing the operands by at least as many as every frame's height.
LEMMA SetVals ==
  ASSUME NEW v, Good(v), NEW vals \in Seq(Operands),
         \A i \in 1 .. Len(v.ctrls) : v.ctrls[i].height <= Len(vals)
  PROVE  LET w == [v EXCEPT !.vals = vals]
         IN  Keeps(v, w) /\ w.ctrls = v.ctrls /\ w.vals = vals /\ w.ok = v.ok
  <1> DEFINE w == [v EXCEPT !.vals = vals]
  <1>1. /\ w \in Validators /\ w.ctrls = v.ctrls /\ w.vals = vals /\ w.ok = v.ok
        /\ w.locals = v.locals /\ w.results = v.results
    BY DEF Good, Validators
  <1> HIDE DEF w
  <1>2. Nested(w)
    BY <1>1 DEF Good, Nested
  <1>3. QED
    BY <1>1, <1>2 DEF Keeps, SameFrames, SameFrame, Good, w

LEMMA ShrinkKeeps ==
  ASSUME NEW v, Good(v), v.ctrls # <<>>, NEW k \in Nat
  PROVE  /\ Keeps(v, Shrink(v, k))
         /\ Shrink(v, k).ctrls = v.ctrls /\ Shrink(v, k).ok = v.ok
  <1> DEFINE n == IF k < Available(v) THEN Len(v.vals) - k ELSE Top(v).height
  <1>1. Len(v.vals) \in Nat /\ Top(v).height \in Nat
        /\ Top(v).height <= Len(v.vals)
    BY GoodFacts, TopFacts
  <1>2. n \in Nat /\ n <= Len(v.vals) /\ Top(v).height <= n
    BY <1>1 DEF Available
  <1>3. SubSeq(v.vals, 1, n) \in Seq(Operands) /\ Len(SubSeq(v.vals, 1, n)) = n
    BY <1>2, GoodFacts
  <1>4. Shrink(v, k) = [v EXCEPT !.vals = SubSeq(v.vals, 1, n)]
    BY DEF Shrink, Good, Validators
  <1> DEFINE s == SubSeq(v.vals, 1, n)
  <1> HIDE DEF n
  <1>5. \A i \in 1 .. Len(v.ctrls) : v.ctrls[i].height <= Len(s)
    BY <1>1, <1>2, <1>3, GoodFacts, TopFacts
  <1>6. s \in Seq(Operands) /\ Shrink(v, k) = [v EXCEPT !.vals = s]
    BY <1>3, <1>4
  <1> HIDE DEF s
  <1>7. QED
    BY <1>5, <1>6, SetVals

\* Every nonempty set of naturals has a least element.
LEMMA NatLeast ==
  ASSUME NEW S, S \subseteq Nat, S # {}
  PROVE  \E i \in S : \A j \in S : i <= j
  <1> DEFINE R == OpToRel(<, Nat)
  <1>1. \E x \in S : \A y \in S : ~ (<<y, x>> \in R)
    BY NatLessThanWellFounded, WFMin
  <1>2. \A x, y \in Nat : y < x => <<y, x>> \in R
    BY Zenon DEF OpToRel
  <1> HIDE DEF R
  <1>3. PICK x \in S : \A y \in S : ~ (<<y, x>> \in R)
    BY <1>1
  <1>4. \A y \in S : ~ (y < x)
    BY <1>2, <1>3
  <1>5. QED
    BY <1>3, <1>4

LEMMA PopValsKeeps ==
  ASSUME NEW v, Good(v), v.ctrls # <<>>, NEW ts \in Seq(Operands)
  PROVE  Keeps(v, PopVals(v, ts)) /\ PopVals(v, ts).ctrls = v.ctrls
  <1> DEFINE bad == {k \in 0 .. Len(ts) - 1 : ~CanPop(v, k, ts[Len(ts) - k])}
             first == CHOOSE i \in bad : \A j \in bad : i <= j
  <1>1. CASE ~v.ok
    BY <1>1, KeepsRefl DEF PopVals
  <1>2. CASE v.ok /\ bad = {}
    BY <1>2, ShrinkKeeps DEF PopVals
  <1>3. CASE v.ok /\ bad # {}
    <2>1. \E i \in bad : \A j \in bad : i <= j
      <3>1. bad \subseteq Nat /\ bad # {}
        BY <1>3
      <3> QED
        BY <3>1, NatLeast
    <2>2. first \in Nat
      <3>1. first \in bad
        <4> HIDE DEF bad
        <4> QED
          BY <2>1, Zenon
      <3>2. QED
        BY <3>1
    <2>3. PopVals(v, ts) = Fail(Shrink(v, first + 1))
      BY <1>3 DEF PopVals
    <2>4. Keeps(v, Shrink(v, first + 1)) /\ Shrink(v, first + 1).ctrls = v.ctrls
      BY <2>2, ShrinkKeeps
    <2>5. Fail(Shrink(v, first + 1)).ctrls = Shrink(v, first + 1).ctrls
      BY <2>4 DEF Fail, Keeps, Good, Validators
    <2>6. QED
      BY <2>3, <2>4, <2>5, FailKeeps, KeepsTrans DEF Keeps
  <1>4. QED
    BY <1>1, <1>2, <1>3 DEF Good, Validators

LEMMA ValTypesAreOperands == Seq(ValTypes) \subseteq Seq(Operands)
  BY DEF Operands

LEMMA PushValsKeeps ==
  ASSUME NEW v, Good(v), NEW ts \in Seq(Operands)
  PROVE  /\ Keeps(v, PushVals(v, ts))
         /\ PushVals(v, ts).ctrls = v.ctrls /\ PushVals(v, ts).ok = v.ok
  <1> DEFINE s == v.vals \o ts
  <1>1. s \in Seq(Operands) /\ Len(s) >= Len(v.vals)
    BY GoodFacts, ConcatProperties
  <1>2. PushVals(v, ts) = IF v.ok THEN [v EXCEPT !.vals = s] ELSE v
    BY DEF PushVals, Good, Validators
  <1> HIDE DEF s
  <1>3. \A i \in 1 .. Len(v.ctrls) : v.ctrls[i].height <= Len(s)
    BY <1>1, GoodFacts
  <1>4. QED
    BY <1>1, <1>2, <1>3, SetVals, KeepsRefl

LEMMA ApplySigKeeps ==
  ASSUME NEW v, Good(v), v.ctrls # <<>>,
         NEW pop \in Seq(Operands), NEW push \in Seq(Operands)
  PROVE  /\ Keeps(v, ApplySig(v, pop, push))
         /\ ApplySig(v, pop, push).ctrls = v.ctrls
  <1>1. Keeps(v, PopVals(v, pop)) /\ PopVals(v, pop).ctrls = v.ctrls
    BY PopValsKeeps
  <1>2. Good(PopVals(v, pop))
    BY <1>1 DEF Keeps
  <1>3. QED
    BY <1>1, <1>2, PushValsKeeps, KeepsTrans DEF ApplySig

LEMMA UnreachableKeeps ==
  ASSUME NEW v, Good(v), v.ctrls # <<>>
  PROVE  Keeps(v, Unreachable(v)) /\ Unreachable(v).ctrls # <<>>
  <1> DEFINE s == SubSeq(v.vals, 1, Top(v).height)
             u == [v EXCEPT !.vals = s]
             e == [Top(v) EXCEPT !.unreachable = TRUE]
             c == [v.ctrls EXCEPT ![Len(v.ctrls)].unreachable = TRUE]
             w == Unreachable(v)
  <1>1. s \in Seq(Operands) /\ Len(s) = Top(v).height
    BY TopFacts, GoodFacts
  <1>2. \A i \in 1 .. Len(v.ctrls) : v.ctrls[i].height <= Len(s)
    BY <1>1, TopFacts
  <1>3. /\ c \in Seq(Ctrl) /\ Len(c) = Len(v.ctrls)
        /\ \A k \in 1 .. Len(c) : c[k] \in Ctrl /\ SameFrame(v.ctrls[k], c[k])
    <2>1. e \in Ctrl /\ SameFrame(Top(v), e)
      BY TopFacts DEF Ctrl, SameFrame
    <2>2. \A d \in Ctrl : SameFrame(d, d)
      BY DEF SameFrame
    <2>3. c = [v.ctrls EXCEPT ![Len(v.ctrls)] = e]
      BY DEF Top
    <2> HIDE DEF c, e
    <2>4. Len(v.ctrls) \in 1 .. Len(v.ctrls)
      BY TopFacts
    <2>5. /\ c \in Seq(Ctrl) /\ Len(c) = Len(v.ctrls)
          /\ \A k \in 1 .. Len(v.ctrls) :
               c[k] = IF k = Len(v.ctrls) THEN e ELSE v.ctrls[k]
      BY <2>1, <2>3, <2>4, GoodFacts, ExceptSeq
    <2>6. QED
      BY <2>1, <2>2, <2>5, GoodFacts DEF Top
  <1>4. v.ok => w = [v EXCEPT !.vals = s, !.ctrls = c]
    BY DEF Unreachable, Good, Validators
  <1> HIDE DEF s, c
  <1>5. CASE v.ok
    <2>1. /\ w \in Validators /\ w.ctrls = c /\ w.vals = s
          /\ w.locals = v.locals /\ w.results = v.results
      BY <1>1, <1>3, <1>4, <1>5 DEF Good, Validators
    <2> HIDE DEF w
    <2>2. \A k \in 1 .. Len(c) : c[k].height = v.ctrls[k].height
      BY <1>3 DEF SameFrame
    <2>3. Nested(w)
      BY <1>2, <1>3, <2>1, <2>2, GoodFacts DEF Nested
    <2>4. c # <<>>
      BY <1>3, TopFacts
    <2>5. QED
      BY <1>3, <2>1, <2>3, <2>4 DEF Keeps, SameFrames, Good, w
  <1>6. QED
    BY <1>5, KeepsRefl, GoodFacts DEF Unreachable
-----------------------------------------------------------------------------
(***************************************************************************)
(* The instruction hooks.  Busy: the record of an object in use, with at   *)
(* least the function's own frame.                                         *)
(***************************************************************************)
Busy(v) == Good(v) /\ v.ctrls # <<>>

LEMMA KeepsBusy ==
  ASSUME NEW v, NEW w, Busy(v), Keeps(v, w)
  PROVE  Busy(w)
  <1>1. Len(w.ctrls) = Len(v.ctrls) /\ Good(w)
    BY DEF Keeps, SameFrames
  <1>2. Len(v.ctrls) # 0
    BY TopFacts DEF Busy
  <1>3. QED
    BY <1>1, <1>2 DEF Busy

\* The steps above, as facts about objects in use.
LEMMA Steps ==
  ASSUME NEW v, Busy(v)
  PROVE  /\ \A ts \in Seq(Operands) : Keeps(v, PopVals(v, ts))
         /\ \A ts \in Seq(Operands) : Keeps(v, PushVals(v, ts))
         /\ \A pop, push \in Seq(Operands) : Keeps(v, ApplySig(v, pop, push))
         /\ Keeps(v, Unreachable(v)) /\ Keeps(v, Fail(v)) /\ Keeps(v, v)
         /\ \A c \in BOOLEAN : Keeps(v, Check(v, c))
  BY PopValsKeeps, PushValsKeeps, ApplySigKeeps, UnreachableKeeps, FailKeeps,
     KeepsRefl, CheckKeeps DEF Busy

\* A block that cannot be left normally: pop, then mark the frame.
LEMMA LeaveKeeps ==
  ASSUME NEW v, Busy(v), NEW ts \in Seq(Operands)
  PROVE  Keeps(v, Unreachable(PopVals(v, ts)))
  BY Steps, KeepsBusy, KeepsTrans

LEMMA OperandType ==
  ASSUME NEW v, Busy(v), NEW k \in Nat
  PROVE  Operand(v, k) \in Operands
  <1>1. CASE k < Available(v)
    <2>1. Len(v.vals) - k \in 1 .. Len(v.vals)
      BY <1>1, TopFacts, GoodFacts DEF Available, Busy
    <2>2. QED
      BY <1>1, <2>1, GoodFacts DEF Operand, Busy
  <1>2. CASE ~(k < Available(v))
    BY <1>2 DEF Operand, Operands
  <1>3. QED
    BY <1>1, <1>2

\* The types that the queries of the Module return.
LEMMA ModuleTypes ==
  /\ \A t \in TypeIdx : /\ TypeParams(t) \in Seq(ValTypes)
                        /\ TypeResults(t) \in Seq(ValTypes)
  /\ \A f \in Nat : f < Len(FuncSigs) => FuncSig(f) \in TypeIdx
  /\ \A g \in Nat : g < Len(Globals) => GlobalType(g) \in ValTypes
  /\ \A t \in Nat : t < Len(Tables) => TableElem(t) \in RefTypes
  <1>1. \A t \in TypeIdx : Types[t + 1] \in FuncTypes
    BY ModuleAssumption DEF TypeIdx
  <1>2. \A f \in Nat : f < Len(FuncSigs) => FuncSig(f) \in TypeIdx
    BY ModuleAssumption DEF TypeIdx, FuncSig
  <1>3. \A g \in Nat : g < Len(Globals) => Globals[g + 1] \in GlobalTypes
    BY ModuleAssumption
  <1>4. \A t \in Nat : t < Len(Tables) => TableElem(t) \in RefTypes
    BY ModuleAssumption DEF TableElem
  <1>5. QED
    BY <1>1, <1>2, <1>3, <1>4
       DEF TypeParams, TypeResults, FuncTypes, GlobalType, GlobalTypes

LEMMA OnNoneKeeps ==
  ASSUME NEW v, Busy(v), NEW i \in Instructions
  PROVE  Keeps(v, OnNone(v, i))
  <1>1. /\ i.pop \in Seq(Operands) /\ i.push \in Seq(Operands)
        /\ v.results \in Seq(Operands)
        /\ <<"I32">> \in Seq(Operands) /\ <<Unknown>> \in Seq(Operands)
    BY GoodFacts, ValTypesAreOperands
       DEF Busy, Instructions, Effects, Operands, ValTypes, NumTypes
  <1>2. Keeps(v, OnSelect(v))
    <2> DEFINE w == PopVals(v, <<"I32">>)
               x == PopVals(w, <<Unknown>>)
               t2 == Operand(w, 0)
               t1 == Operand(x, 0)
               t == IF t1 = Unknown THEN t2 ELSE t1
               y == PopVals(x, <<t2>>)
    <2>1. Keeps(v, w) /\ Busy(w)
      BY <1>1, Steps, KeepsBusy
    <2> HIDE DEF w
    <2>2. Keeps(w, x) /\ Busy(x)
      BY <1>1, <2>1, Steps, KeepsBusy
    <2>3. t2 \in Operands
      BY <2>1, OperandType
    <2> HIDE DEF x, t2
    <2>4. t1 \in Operands
      BY <2>2, OperandType
    <2> HIDE DEF t1
    <2>5. <<t2>> \in Seq(Operands) /\ <<t>> \in Seq(Operands)
      BY <2>3, <2>4
    <2> HIDE DEF t
    <2>6. Keeps(x, y) /\ Busy(y)
      BY <2>2, <2>5, Steps, KeepsBusy
    <2> HIDE DEF y
    <2>7. Keeps(y, PushVals(y, <<t>>))
      BY <2>5, <2>6, Steps
    <2>8. Keeps(v, PushVals(y, <<t>>))
      BY <2>1, <2>2, <2>6, <2>7, KeepsTrans
    <2>9. OnSelect(v) = PushVals(y, <<t>>)
      BY DEF OnSelect, w, x, y, t, t1, t2
    <2>10. QED
      BY <2>8, <2>9
  <1>3. Keeps(v, Unreachable(PopVals(v, v.results)))
    BY <1>1, LeaveKeeps
  <1>4. /\ Keeps(v, PopVals(v, <<Unknown>>)) /\ Keeps(v, Unreachable(v))
        /\ Keeps(v, ApplySig(v, <<Unknown>>, <<"I32">>))
        /\ Keeps(v, ApplySig(v, i.pop, i.push))
    BY <1>1, Steps
  <1>5. QED
    BY <1>2, <1>3, <1>4 DEF OnNone, Polymorphic

LEMMA OnLocalKeeps ==
  ASSUME NEW v, Busy(v), NEW i \in Instructions
  PROVE  Keeps(v, OnLocal(v, i))
  <1> DEFINE t == <<v.locals[i.idx + 1]>>
  <1>1. i.idx < Len(v.locals) => t \in Seq(Operands)
    BY GoodFacts DEF Busy, Instructions, Operands
  <1>2. i.idx \in Nat /\ Len(v.locals) \in Nat
    BY GoodFacts DEF Busy, Instructions
  <1> HIDE DEF t
  <1>3. CASE i.idx < Len(v.locals)
    <2>1. /\ Keeps(v, PushVals(v, t)) /\ Keeps(v, PopVals(v, t))
          /\ Keeps(v, ApplySig(v, t, t))
      BY <1>1, <1>3, Steps
    <2>2. QED
      BY <1>2, <1>3, <2>1, Steps DEF OnLocal, t
  <1>4. CASE i.idx >= Len(v.locals)
    BY <1>2, <1>4, Steps DEF OnLocal
  <1>5. QED
    BY <1>2, <1>3, <1>4

LEMMA OnGlobalKeeps ==
  ASSUME NEW v, Busy(v), NEW i \in Instructions
  PROVE  Keeps(v, OnGlobal(v, i))
  <1> DEFINE t == <<GlobalType(i.idx)>>
             w == Check(v, GlobalMut(i.idx) = "Var")
  <1>1. i.idx \in Nat /\ Len(Globals) \in Nat
    BY ModuleAssumption DEF Instructions
  <1>2. i.idx < Len(Globals) => t \in Seq(Operands)
    BY <1>1, ModuleTypes DEF Operands
  <1> HIDE DEF t
  <1>3. CASE i.idx < Len(Globals)
    <2>1. Keeps(v, w) /\ Busy(w)
      BY Steps, KeepsBusy
    <2> HIDE DEF w
    <2>2. Keeps(v, PopVals(w, t)) /\ Keeps(v, PushVals(v, t))
      BY <1>2, <1>3, <2>1, Steps, KeepsTrans
    <2>3. QED
      BY <1>1, <1>3, <2>2 DEF OnGlobal, t, w
  <1>4. CASE i.idx >= Len(Globals)
    BY <1>1, <1>4, Steps DEF OnGlobal
  <1>5. QED
    BY <1>1, <1>3, <1>4

LEMMA OnFuncIdxKeeps ==
  ASSUME NEW v, Busy(v), NEW i \in Instructions
  PROVE  Keeps(v, OnFuncIdx(v, i))
  <1> DEFINE s == FuncSig(i.idx)
  <1>1. i.idx \in Nat /\ Len(FuncSigs) \in Nat
    BY ModuleAssumption DEF Instructions
  <1>2. CASE i.idx < Len(FuncSigs)
    <2>1. /\ TypeParams(s) \in Seq(Operands) /\ TypeResults(s) \in Seq(Operands)
          /\ <<"FuncRef">> \in Seq(Operands)
      BY <1>1, <1>2, ModuleTypes, ValTypesAreOperands DEF Operands, ValTypes, RefTypes
    <2>2. /\ Keeps(v, ApplySig(v, TypeParams(s), TypeResults(s)))
          /\ Keeps(v, Unreachable(PopVals(v, TypeParams(s))))
          /\ Keeps(v, PushVals(v, <<"FuncRef">>))
      BY <2>1, Steps, LeaveKeeps
    <2>3. QED
      BY <1>1, <1>2, <2>2 DEF OnFuncIdx
  <1>3. CASE i.idx >= Len(FuncSigs)
    BY <1>1, <1>3, Steps DEF OnFuncIdx
  <1>4. QED
    BY <1>1, <1>2, <1>3

LEMMA OnTableKeeps ==
  ASSUME NEW v, Busy(v), NEW i \in Instructions
  PROVE  Keeps(v, OnTable(v, i))
  <1>1. CASE i.idx < Len(Tables)
    <2> DEFINE elem == TableElem(i.idx)
    <2>1. elem \in Operands
      BY <1>1, ModuleTypes DEF Instructions, Operands, ValTypes
    <2>2. "I32" \in Operands
      BY DEF Operands, ValTypes, NumTypes
    <2> HIDE DEF elem
    <2>3. /\ TablePops(i.op, elem) \in Seq(Operands)
          /\ TablePushes(i.op, elem) \in Seq(Operands)
      BY <2>1, <2>2 DEF TablePops, TablePushes
    <2>4. QED
      BY <1>1, <2>3, Steps DEF OnTable, elem
  <1>2. CASE ~(i.idx < Len(Tables))
    BY <1>2, Steps DEF OnTable
  <1>3. QED
    BY <1>1, <1>2

LEMMA AddressTypes ==
  /\ AddrType \in Operands
  /\ \A ts \in Seq(Operands) : \A at : Widen(ts, at) \in Seq(Operands)
  <1>1. AddrType \in Operands
    BY DEF AddrType, Operands, ValTypes, NumTypes
  <1>2. ASSUME NEW ts \in Seq(Operands), NEW at
        PROVE  Widen(ts, at) \in Seq(Operands)
    BY <1>1 DEF Widen
  <1>3. QED
    BY <1>1, <1>2

LEMMA OnMemoryKeeps ==
  ASSUME NEW v, Busy(v), NEW i \in Instructions
  PROVE  Keeps(v, OnMemArg(v, i)) /\ Keeps(v, OnMemBulk(v, i))
  <1>1. i.pop \in Seq(Operands) /\ i.push \in Seq(Operands)
    BY ValTypesAreOperands DEF Instructions, Effects
  <1>2. Keeps(v, OnMemBulk(v, i))
    <2>1. /\ Widen(i.pop, AddressPops(i.op)) \in Seq(Operands)
          /\ Widen(i.push, AddressPushes(i.op)) \in Seq(Operands)
      BY <1>1, AddressTypes
    <2>2. QED
      BY <2>1, Steps DEF OnMemBulk
  <1>3. Keeps(v, OnMemArg(v, i))
    <2> DEFINE c == i.idx = 0 \/ "MULTI_MEMORY" \in Features
               pop == IF i.pop # <<>> /\ i.pop[1] = "I32"
                      THEN [i.pop EXCEPT ![1] = AddrType] ELSE i.pop
               w == Check(v, c)
    <2>1. pop \in Seq(Operands)
      <3>1. CASE i.pop # <<>>
        <4>1. 1 \in 1 .. Len(i.pop)
          BY <1>1, <3>1
        <4>2. [i.pop EXCEPT ![1] = AddrType] \in Seq(Operands)
          BY <1>1, <4>1, AddressTypes, ExceptSeq
        <4>3. QED
          BY <1>1, <4>2
      <3>2. CASE i.pop = <<>>
        BY <1>1, <3>2
      <3>3. QED
        BY <3>1, <3>2
    <2>2. Keeps(v, w) /\ Busy(w)
      BY Steps, KeepsBusy
    <2> HIDE DEF pop, w
    <2>3. Keeps(w, ApplySig(w, pop, i.push))
      BY <1>1, <2>1, <2>2, Steps
    <2>4. QED
      BY <2>2, <2>3, KeepsTrans DEF OnMemArg, pop, w
  <1>4. QED
    BY <1>2, <1>3

LEMMA OnSelectTKeeps ==
  ASSUME NEW v, Busy(v), NEW i \in Instructions, i.shape = "SELECT_T"
  PROVE  Keeps(v, OnSelectT(v, i))
  <1> DEFINE t == i.push[1]
  <1>1. t \in Operands
    BY DEF Instructions, Effects, Operands
  <1>2. "I32" \in Operands
    BY DEF Operands, ValTypes, NumTypes
  <1> HIDE DEF t
  <1>3. <<t, t, "I32">> \in Seq(Operands) /\ <<t>> \in Seq(Operands)
    BY <1>1, <1>2
  <1>4. QED
    BY <1>3, Steps DEF OnSelectT, t

LEMMA OnCallIndirectKeeps ==
  ASSUME NEW v, Busy(v), NEW i \in Instructions
  PROVE  Keeps(v, OnCallIndirect(v, i))
  <1> DEFINE w == PopVals(v, <<"I32">>)
  <1>1. <<"I32">> \in Seq(Operands)
    BY DEF Operands, ValTypes, NumTypes
  <1>2. Keeps(v, w) /\ Busy(w)
    BY <1>1, Steps, KeepsBusy
  <1> HIDE DEF w
  <1>3. CASE i.idx < Len(Types)
    <2>1. i.idx \in TypeIdx
      BY <1>3, ModuleAssumption DEF TypeIdx, Instructions
    <2>2. /\ TypeParams(i.idx) \in Seq(Operands)
          /\ TypeResults(i.idx) \in Seq(Operands)
      BY <2>1, ModuleTypes, ValTypesAreOperands
    <2>3. /\ Keeps(w, ApplySig(w, TypeParams(i.idx), TypeResults(i.idx)))
          /\ Keeps(w, Unreachable(PopVals(w, TypeParams(i.idx))))
      BY <1>2, <2>2, Steps, LeaveKeeps
    <2>4. QED
      BY <1>2, <2>3, Steps, KeepsTrans DEF OnCallIndirect, w
  <1>4. CASE ~(i.idx < Len(Types))
    BY <1>4, Steps DEF OnCallIndirect
  <1>5. QED
    BY <1>3, <1>4

\* No instruction, accepted or not, changes which frames there are.
LEMMA HookKeeps ==
  ASSUME NEW v, Busy(v), NEW i \in Instructions
  PROVE  Keeps(v, Hook(v, i))
  <1> DEFINE g == CheckFeature(v, i.feat)
  <1>1. Keeps(v, g) /\ Busy(g)
    BY CheckKeeps, KeepsBusy DEF CheckFeature, Busy
  <1>2. i.pop \in Seq(Operands) /\ i.push \in Seq(Operands)
    BY ValTypesAreOperands DEF Instructions, Effects
  <1> HIDE DEF g
  <1>3. /\ Keeps(g, g) /\ Keeps(g, OnNone(g, i)) /\ Keeps(g, OnLocal(g, i))
        /\ Keeps(g, ApplySig(g, i.pop, i.push)) /\ Keeps(g, OnGlobal(g, i))
        /\ Keeps(g, OnFuncIdx(g, i)) /\ Keeps(g, OnTable(g, i))
        /\ Keeps(g, OnMemArg(g, i)) /\ Keeps(g, OnMemBulk(g, i))
        /\ Keeps(g, PushVals(g, i.push)) /\ Keeps(g, OnCallIndirect(g, i))
    BY <1>1, <1>2, Steps, OnNoneKeeps, OnLocalKeeps, OnGlobalKeeps,
       OnFuncIdxKeeps, OnTableKeeps, OnMemoryKeeps, OnCallIndirectKeeps
  <1>4. i.shape = "SELECT_T" => Keeps(g, OnSelectT(g, i))
    BY <1>1, OnSelectTKeeps
  <1>5. i.shape \in Shapes /\ g.ok \in BOOLEAN
    BY <1>1, GoodFacts DEF Instructions, Busy
  <1>6. Keeps(g, Hook(v, i))
    BY <1>3, <1>4, <1>5 DEF Hook, Shapes, g
  <1>7. QED
    BY <1>1, <1>6, KeepsTrans
-----------------------------------------------------------------------------
(***************************************************************************)
(* Structured control: how the methods change the control stack.           *)
(***************************************************************************)

\* w has at least n frames, the first n of them those of v.
Prefix(v, w, n) ==
  /\ n <= Len(v.ctrls) /\ n <= Len(w.ctrls)
  /\ \A k \in 1 .. n : SameFrame(v.ctrls[k], w.ctrls[k])
  /\ w.locals = v.locals /\ w.results = v.results

\* w is v with one more frame.
Opens(v, w, kind, in, out) ==
  /\ Prefix(v, w, Len(v.ctrls)) /\ Len(w.ctrls) = Len(v.ctrls) + 1
  /\ Top(w).kind = kind /\ Top(w).in = in /\ Top(w).out = out

LEMMA PushCtrlOpens ==
  ASSUME NEW v, Good(v), v.ok, NEW kind \in CtrlKinds,
         NEW in \in Seq(ValTypes), NEW out \in Seq(ValTypes)
  PROVE  /\ Good(PushCtrl(v, kind, in, out)) /\ PushCtrl(v, kind, in, out).ok
         /\ Opens(v, PushCtrl(v, kind, in, out), kind, in, out)
         /\ Top(PushCtrl(v, kind, in, out)).else_seen = FALSE
  <1> DEFINE f == [kind |-> kind, unreachable |-> FALSE, else_seen |-> FALSE,
                   height |-> Len(v.vals), in |-> in, out |-> out]
             c == Append(v.ctrls, f)
             s == v.vals \o in
             w == PushCtrl(v, kind, in, out)
             n == Len(v.ctrls)
  <1>1. f \in Ctrl /\ f.height = Len(v.vals)
    BY GoodFacts DEF Ctrl
  <1>2. s \in Seq(Operands) /\ Len(s) >= Len(v.vals)
    BY GoodFacts, ValTypesAreOperands, ConcatProperties
  <1>3. w = [v EXCEPT !.ctrls = c, !.vals = s]
    BY DEF PushCtrl, Good, Validators
  <1>4. f.kind = kind /\ f.in = in /\ f.out = out /\ f.else_seen = FALSE
    OBVIOUS
  <1> HIDE DEF f, s
  <1>5. /\ c \in Seq(Ctrl) /\ Len(c) = n + 1 /\ c[n + 1] = f
        /\ \A k \in 1 .. n : c[k] = v.ctrls[k]
    BY <1>1, GoodFacts
  <1> HIDE DEF c
  <1>6. /\ w \in Validators /\ w.ctrls = c /\ w.vals = s /\ w.ok
        /\ w.locals = v.locals /\ w.results = v.results
    BY <1>2, <1>3, <1>5 DEF Good, Validators
  <1> HIDE DEF w
  <1>7. n \in Nat /\ Len(v.vals) \in Nat /\ Len(s) \in Nat
    BY <1>2, GoodFacts
  <1>8. Nested(w)
    <2>1. \A k \in 1 .. n : c[k].height <= Len(v.vals) /\ c[k].height \in Nat
      BY <1>5, GoodFacts
    <2>2. \A i \in 1 .. n + 1 : i \in 1 .. n \/ i = n + 1
      BY <1>7
    <2>3. \A i \in 1 .. n + 1 : c[i].height <= Len(s)
      BY <1>1, <1>2, <1>5, <1>7, <2>1, <2>2
    <2>4. \A i, j \in 1 .. n + 1 : i < j => c[i].height <= c[j].height
      <3>1. \A i, j \in 1 .. n : i < j => c[i].height <= c[j].height
        BY <1>5, GoodFacts
      <3>2. \A i \in 1 .. n : c[i].height <= c[n + 1].height
        BY <1>1, <1>5, <2>1
      <3>3. QED
        BY <1>7, <2>2, <3>1, <3>2
    <2>5. QED
      BY <1>5, <1>6, <2>3, <2>4 DEF Nested
  <1>9. Prefix(v, w, n)
    BY <1>5, <1>6, <1>7 DEF Prefix, SameFrame
  <1>10. QED
    BY <1>4, <1>5, <1>6, <1>8, <1>9 DEF Good, Opens, Top, w

\* A frame is popped only if the pop succeeds.
LEMMA PopCtrlCloses ==
  ASSUME NEW v, Busy(v)
  PROVE  /\ Good(PopCtrl(v))
         /\ PopCtrl(v).ok => /\ v.ok /\ Prefix(v, PopCtrl(v), Len(v.ctrls) - 1)
                             /\ Len(PopCtrl(v).ctrls) = Len(v.ctrls) - 1
         /\ ~PopCtrl(v).ok => Len(PopCtrl(v).ctrls) = Len(v.ctrls)
  <1> DEFINE w == PopVals(v, Top(v).out)
             n == Len(v.ctrls)
             p == PopCtrl(v)
  <1>1. n \in Nat \ {0} /\ v.ok \in BOOLEAN
    BY GoodFacts, TopFacts DEF Busy
  <1>2. Top(v).out \in Seq(Operands)
    BY TopFacts, ValTypesAreOperands DEF Ctrl, Busy
  <1>3. Keeps(v, w) /\ w.ctrls = v.ctrls /\ Good(w)
    BY <1>2, PopValsKeeps DEF Busy, Keeps
  <1> HIDE DEF w
  <1>4. /\ \A i \in 1 .. n : v.ctrls[i].height <= Len(w.vals)
        /\ \A i, j \in 1 .. n : i < j => v.ctrls[i].height <= v.ctrls[j].height
    BY <1>3 DEF Good, Nested
  <1>5. CASE ~v.ok
    BY <1>5 DEF PopCtrl, Busy
  <1>6. CASE v.ok /\ w.ok /\ Len(w.vals) = Top(v).height
    <2> DEFINE c == SubSeq(v.ctrls, 1, n - 1)
    <2>1. /\ c \in Seq(Ctrl) /\ Len(c) = n - 1
          /\ \A k \in 1 .. n - 1 : c[k] = v.ctrls[k]
      BY <1>1, GoodFacts DEF Busy
    <2>2. p = [w EXCEPT !.ctrls = c]
      BY <1>3, <1>6 DEF PopCtrl, w, Good, Validators
    <2> HIDE DEF c
    <2>3. /\ p \in Validators /\ p.ctrls = c /\ p.vals = w.vals /\ p.ok
          /\ p.locals = v.locals /\ p.results = v.results
      BY <1>3, <1>6, <2>1, <2>2 DEF Good, Validators, Keeps, SameFrames
    <2> HIDE DEF p
    <2>4. Nested(p)
      <3>1. \A k \in 1 .. n - 1 : k \in 1 .. n /\ c[k].height = v.ctrls[k].height
        BY <1>1, <2>1
      <3>2. QED
        BY <1>4, <2>1, <2>3, <3>1 DEF Nested
    <2>5. Prefix(v, p, n - 1)
      BY <1>1, <2>1, <2>3 DEF Prefix, SameFrame
    <2>6. QED
      BY <1>6, <2>1, <2>3, <2>4, <2>5 DEF Good, p
  <1>7. CASE v.ok /\ ~(w.ok /\ Len(w.vals) = Top(v).height)
    <2> DEFINE e == [Top(v) EXCEPT !.in = <<>>, !.out = <<>>]
               c == [v.ctrls EXCEPT ![n] = e]
    <2>1. e \in Ctrl /\ e.height = Top(v).height
      <3>1. <<>> \in Seq(ValTypes) /\ Top(v) \in Ctrl
        BY TopFacts DEF Busy
      <3>2. QED
        BY <3>1 DEF Ctrl
    <2>2. p = [w EXCEPT !.ok = FALSE, !.ctrls = c]
      BY <1>1, <1>3, <1>7 DEF PopCtrl, w, Good, Validators, Top
    <2> HIDE DEF e
    <2>3. n \in 1 .. n
      BY <1>1
    <2>4. /\ c \in Seq(Ctrl) /\ Len(c) = n
          /\ \A k \in 1 .. n : c[k] = IF k = n THEN e ELSE v.ctrls[k]
      BY <2>1, <2>3, GoodFacts, ExceptSeq DEF Busy
    <2> HIDE DEF c
    <2>5. /\ p \in Validators /\ p.ctrls = c /\ p.vals = w.vals /\ ~p.ok
      BY <1>3, <2>2, <2>4 DEF Good, Validators
    <2> HIDE DEF p
    <2>6. \A k \in 1 .. n : c[k].height = v.ctrls[k].height
      BY <2>1, <2>4 DEF Top
    <2>7. Nested(p)
      BY <1>4, <2>4, <2>5, <2>6 DEF Nested
    <2>8. QED
      BY <2>4, <2>5, <2>7 DEF Good, p
  <1>8. QED
    BY <1>1, <1>5, <1>6, <1>7

LEMMA BlockTypesType ==
  ASSUME NEW bt \in BlockType
  PROVE  BlockIn(bt) \in Seq(ValTypes) /\ BlockOut(bt) \in Seq(ValTypes)
  <1>1. <<>> \in Seq(ValTypes)
    OBVIOUS
  <1>2. CASE bt \in [kind : {"Void"}]
    BY <1>1, <1>2 DEF BlockIn, BlockOut
  <1>3. CASE bt \in [kind : {"Value"}, type : ValTypes]
    <2>1. bt.kind = "Value" /\ <<bt.type>> \in Seq(ValTypes)
      BY <1>3
    <2>2. QED
      BY <1>1, <2>1 DEF BlockIn, BlockOut
  <1>4. CASE bt \in [kind : {"Type"}, idx : TypeIdx]
    BY <1>4, ModuleTypes DEF BlockIn, BlockOut
  <1>5. QED
    BY <1>2, <1>3, <1>4 DEF BlockType

LEMMA OnCtrlStartOpens ==
  ASSUME NEW v, Busy(v), NEW kind \in {"Block", "Loop", "If"},
         NEW bt \in BlockType
  PROVE  /\ Good(OnCtrlStart(v, kind, bt))
         /\ OnCtrlStart(v, kind, bt).ok =>
              Opens(v, OnCtrlStart(v, kind, bt), kind, BlockIn(bt), BlockOut(bt))
  <1> DEFINE w == IF kind = "If" THEN PopVals(v, <<"I32">>) ELSE v
             x == PopVals(w, BlockIn(bt))
             y == OnCtrlStart(v, kind, bt)
  <1>1. /\ <<"I32">> \in Seq(Operands)
        /\ BlockIn(bt) \in Seq(ValTypes) /\ BlockIn(bt) \in Seq(Operands)
        /\ BlockOut(bt) \in Seq(ValTypes)
    BY BlockTypesType, ValTypesAreOperands DEF Operands, ValTypes, NumTypes
  <1>2. Keeps(v, w) /\ Busy(w)
    BY <1>1, Steps, KeepsBusy
  <1> HIDE DEF w
  <1>3. Keeps(w, x)
    BY <1>1, <1>2, Steps
  <1> HIDE DEF x
  <1>4. Keeps(v, x) /\ Good(x) /\ x.ok \in BOOLEAN
    BY <1>2, <1>3, KeepsTrans, GoodFacts DEF Keeps
  <1>5. y = PushCtrl(x, kind, BlockIn(bt), BlockOut(bt))
    BY DEF OnCtrlStart, w, x
  <1>6. CASE x.ok
    <2>1. kind \in CtrlKinds
      BY DEF CtrlKinds
    <2>2. /\ Good(y) /\ y.ok
          /\ Opens(x, y, kind, BlockIn(bt), BlockOut(bt))
      <3> HIDE DEF y
      <3> QED
        BY <1>1, <1>4, <1>5, <1>6, <2>1, PushCtrlOpens
    <2> HIDE DEF y
    <2>3. Opens(v, y, kind, BlockIn(bt), BlockOut(bt))
      BY <1>4, <2>2, GoodFacts DEF Opens, Prefix, Keeps, SameFrames, SameFrame
    <2>4. QED
      BY <2>2, <2>3 DEF y
  <1>7. CASE ~x.ok
    BY <1>4, <1>5, <1>7 DEF PushCtrl
  <1>8. QED
    BY <1>4, <1>6, <1>7

\* What closing the innermost frame leaves.
Closes(v, w) ==
  /\ Prefix(v, w, Len(v.ctrls) - 1) /\ Len(w.ctrls) = Len(v.ctrls) - 1

LEMMA OnEndCloses ==
  ASSUME NEW v, Busy(v)
  PROVE  Good(OnEnd(v)) /\ (OnEnd(v).ok => Closes(v, OnEnd(v)))
  <1> DEFINE f == Top(v)
             c == f.kind = "If" /\ ~f.else_seen => f.in = f.out
             w == Check(v, c)
             p == PopCtrl(w)
             e == OnEnd(v)
  <1>1. Keeps(v, w) /\ Busy(w) /\ w.ctrls = v.ctrls
    BY CheckKeeps, KeepsBusy DEF Busy
  <1> HIDE DEF w
  <1>2. Good(p) /\ (p.ok => Closes(v, p))
    BY <1>1, PopCtrlCloses DEF Closes, Prefix, Keeps, SameFrames
  <1> HIDE DEF p
  <1>3. f.out \in Seq(Operands)
    BY TopFacts, ValTypesAreOperands DEF Ctrl, Busy
  <1>4. e = PushVals(p, f.out)
    BY DEF OnEnd, w, p
  <1>5. Keeps(p, e) /\ e.ctrls = p.ctrls /\ e.ok = p.ok
    BY <1>2, <1>3, <1>4, PushValsKeeps
  <1> HIDE DEF e
  <1>6. QED
    BY <1>2, <1>5 DEF Closes, Prefix, Keeps, SameFrames, e

LEMMA OnFunctionEndCloses ==
  ASSUME NEW v, Busy(v)
  PROVE  /\ Good(OnFunctionEnd(v))
         /\ OnFunctionEnd(v).ok => Len(v.ctrls) = 1 /\ OnFunctionEnd(v).ctrls = <<>>
  <1> DEFINE p == PopCtrl(v)
             c == p.ctrls = <<>>
             w == OnFunctionEnd(v)
  <1>1. Good(p) /\ p.ok \in BOOLEAN /\ (p.ok => Len(p.ctrls) = Len(v.ctrls) - 1)
    BY PopCtrlCloses, GoodFacts
  <1> HIDE DEF p
  <1>2. w = IF c THEN p ELSE Fail(p)
    BY DEF OnFunctionEnd, Check, p
  <1>3. Good(w) /\ (w.ok => c /\ p.ok /\ w = p)
    BY <1>1, <1>2, FailKeeps DEF Keeps
  <1>4. w.ok => Len(v.ctrls) = 1 /\ w.ctrls = <<>>
    <2> HIDE DEF w
    <2>1. SUFFICES ASSUME w.ok PROVE Len(v.ctrls) = 1 /\ w.ctrls = <<>>
      OBVIOUS
    <2>2. w = p /\ p.ok /\ p.ctrls = <<>>
      BY <1>3, <2>1
    <2>3. Len(p.ctrls) = 0 /\ Len(v.ctrls) \in Nat
      BY <2>2, GoodFacts DEF Busy
    <2>4. QED
      BY <1>1, <2>2, <2>3
  <1>5. QED
    BY <1>3, <1>4

LEMMA OnElseReopens ==
  ASSUME NEW v, Busy(v)
  PROVE  LET w == OnElse(v) IN
         /\ Good(w)
         /\ w.ok => /\ Prefix(v, w, Len(v.ctrls) - 1)
                    /\ Len(w.ctrls) = Len(v.ctrls)
                    /\ Top(v).kind = "If" /\ Top(w).kind = "If"
                    /\ Top(w).in = Top(v).in /\ Top(w).out = Top(v).out
  <1> DEFINE f == Top(v)
             n == Len(v.ctrls)
             p == PopCtrl(v)
             c == f.kind = "If" /\ ~f.else_seen
             q == Check(p, c)
             x == PushCtrl(q, "If", f.in, f.out)
             e == [Top(x) EXCEPT !.else_seen = TRUE]
             s == [x.ctrls EXCEPT ![Len(x.ctrls)] = e]
             w == OnElse(v)
  <1>1. /\ f.in \in Seq(ValTypes) /\ f.out \in Seq(ValTypes)
        /\ n \in Nat \ {0} /\ "If" \in CtrlKinds
    BY TopFacts, GoodFacts DEF Ctrl, CtrlKinds, Busy
  <1>2. Good(p) /\ p.ok \in BOOLEAN /\ (p.ok => Closes(v, p))
    BY PopCtrlCloses, GoodFacts DEF Closes
  <1> HIDE DEF p, f
  <1>3. Good(q) /\ q.ok \in BOOLEAN /\ (q.ok => c /\ Closes(v, q))
    <2> HIDE DEF c
    <2>1. CASE c
      <3>1. q = p
        BY <2>1 DEF Check
      <3>2. QED
        BY <1>2, <2>1, <3>1
    <2>2. CASE ~c
      <3>1. q = Fail(p)
        BY <2>2 DEF Check
      <3>2. QED
        BY <1>2, <3>1, FailKeeps, GoodFacts DEF Keeps
    <2>3. QED
      BY <2>1, <2>2
  <1> HIDE DEF q
  <1>4. CASE ~q.ok
    <2>1. x = q
      BY <1>4 DEF PushCtrl
    <2>2. w = q
      BY <1>4, <2>1 DEF OnElse, q, p, f
    <2>3. QED
      BY <1>3, <1>4, <2>2
  <1>5. CASE q.ok
    <2>1. Good(x) /\ x.ok /\ Opens(q, x, "If", f.in, f.out)
      BY <1>1, <1>3, <1>5, PushCtrlOpens
    <2> HIDE DEF x
    <2>2. /\ Len(x.ctrls) = n /\ x.ctrls # <<>> /\ Len(x.ctrls) \in 1 .. Len(x.ctrls)
          /\ Len(q.ctrls) = n - 1
          /\ \A k \in 1 .. n - 1 : SameFrame(v.ctrls[k], x.ctrls[k])
          /\ x.locals = v.locals /\ x.results = v.results
      BY <1>1, <1>3, <1>5, <2>1 DEF Closes, Opens, Prefix, SameFrame
    <2>3. /\ e \in Ctrl /\ e.kind = "If" /\ e.in = f.in /\ e.out = f.out
          /\ e.height = Top(x).height
      BY <2>1, <2>2, TopFacts DEF Ctrl, Opens
    <2> HIDE DEF e
    <2>4. /\ s \in Seq(Ctrl) /\ Len(s) = n
          /\ \A k \in 1 .. n : s[k] = IF k = n THEN e ELSE x.ctrls[k]
      BY <2>1, <2>2, <2>3, GoodFacts, ExceptSeq
    <2>5. w = [x EXCEPT !.ctrls = s]
      BY <2>1, <2>2, <1>5 DEF OnElse, e, x, q, p, f, Top
    <2> HIDE DEF s
    <2>6. /\ w \in Validators /\ w.ctrls = s /\ w.vals = x.vals
          /\ w.locals = v.locals /\ w.results = v.results
      BY <2>1, <2>2, <2>4, <2>5 DEF Good, Validators
    <2> HIDE DEF w
    <2>7. \A k \in 1 .. n : s[k].height = x.ctrls[k].height
      BY <2>2, <2>3, <2>4 DEF Top
    <2>8. Nested(w)
      BY <2>1, <2>2, <2>4, <2>6, <2>7, GoodFacts DEF Nested
    <2>9. Prefix(v, w, n - 1)
      <3>1. /\ n - 1 <= Len(v.ctrls) /\ n - 1 <= Len(w.ctrls)
            /\ \A k \in 1 .. n - 1 : k \in 1 .. n /\ k # n
        BY <1>1, <2>4, <2>6
      <3>2. \A k \in 1 .. n - 1 : w.ctrls[k] = x.ctrls[k]
        BY <2>4, <2>6, <3>1
      <3>3. QED
        BY <2>2, <2>6, <3>1, <3>2 DEF Prefix
    <2>10. Top(w) = e
      BY <1>1, <2>4, <2>6 DEF Top
    <2>11. QED
      BY <1>3, <1>5, <2>3, <2>4, <2>6, <2>8, <2>9, <2>10 DEF Good, w, f
  <1>6. QED
    BY <1>3, <1>4, <1>5

LEMMA LabelType ==
  ASSUME NEW v, Busy(v), NEW rel \in Nat, rel < Len(v.ctrls)
  PROVE  LabelTypes(FrameAt(v, rel)) \in Seq(Operands)
  <1>1. Len(v.ctrls) - rel \in 1 .. Len(v.ctrls)
    BY GoodFacts DEF Busy
  <1>2. FrameAt(v, rel) \in Ctrl
    BY <1>1, GoodFacts DEF FrameAt, Busy
  <1>3. QED
    BY <1>2, ValTypesAreOperands DEF LabelTypes, Ctrl

LEMMA OnBrKeeps ==
  ASSUME NEW v, Busy(v), NEW rel \in Nat
  PROVE  Keeps(v, OnBr(v, rel)) /\ Keeps(v, OnBrIf(v, rel))
  <1> DEFINE w == PopVals(v, <<"I32">>)
             lt == LabelTypes(FrameAt(v, rel))
  <1>1. Keeps(v, w) /\ Busy(w)
    <2>1. <<"I32">> \in Seq(Operands)
      BY DEF Operands, ValTypes, NumTypes
    <2>2. QED
      BY <2>1, Steps, KeepsBusy
  <1> HIDE DEF w
  <1>2. CASE rel < Len(v.ctrls)
    <2>1. lt \in Seq(Operands)
      BY <1>2, LabelType
    <2> HIDE DEF lt
    <2>2. Keeps(v, Unreachable(PopVals(v, lt))) /\ Keeps(w, ApplySig(w, lt, lt))
      BY <1>1, <2>1, Steps, LeaveKeeps
    <2>3. QED
      BY <1>1, <1>2, <2>2, KeepsTrans DEF OnBr, OnBrIf, w, lt
  <1>3. CASE ~(rel < Len(v.ctrls))
    <2>1. Keeps(v, Fail(v)) /\ Keeps(v, Fail(w))
      BY <1>1, Steps, KeepsTrans
    <2>2. QED
      BY <1>3, <2>1 DEF OnBr, OnBrIf, w
  <1>4. QED
    BY <1>2, <1>3

LEMMA OnBrTableKeeps ==
  ASSUME NEW v, Busy(v), NEW rels \in Seq(Nat), rels # <<>>
  PROVE  Keeps(v, OnBrTable(v, rels))
  <1> DEFINE w == PopVals(v, <<"I32">>)
             n == Len(rels)
             c == /\ \A k \in 1 .. n : rels[k] < Len(v.ctrls)
                  /\ \A k \in 1 .. n : Len(LabelTypes(FrameAt(v, rels[k])))
                                         = Len(LabelTypes(FrameAt(v, rels[n])))
             lt == LabelTypes(FrameAt(v, rels[n]))
  <1>1. Keeps(v, w) /\ Busy(w)
    <2>1. <<"I32">> \in Seq(Operands)
      BY DEF Operands, ValTypes, NumTypes
    <2>2. QED
      BY <2>1, Steps, KeepsBusy
  <1>2. n \in 1 .. n /\ rels[n] \in Nat
    OBVIOUS
  <1>3. OnBrTable(v, rels) = IF c THEN Unreachable(PopVals(w, lt)) ELSE Fail(w)
    BY DEF OnBrTable
  <1> HIDE DEF w
  <1>4. CASE c
    <2>1. rels[n] < Len(v.ctrls)
      BY <1>2, <1>4
    <2>2. lt \in Seq(Operands)
      BY <1>2, <2>1, LabelType
    <2> HIDE DEF lt
    <2>3. Keeps(w, Unreachable(PopVals(w, lt)))
      BY <1>1, <2>2, LeaveKeeps
    <2> HIDE DEF c
    <2>4. QED
      BY <1>1, <1>3, <1>4, <2>3, KeepsTrans
  <1>5. CASE ~c
    <2> HIDE DEF c
    <2>1. Keeps(v, Fail(w))
      BY <1>1, Steps, KeepsTrans
    <2>2. QED
      BY <1>3, <1>5, <2>1
  <1>6. QED
    BY <1>4, <1>5

LEMMA AddLocalsKeeps ==
  ASSUME NEW v, Good(v), NEW t \in ValTypes, NEW count \in Nat
  PROVE  /\ Good(AddLocals(v, t, count)) /\ AddLocals(v, t, count).ok = v.ok
         /\ AddLocals(v, t, count).ctrls = v.ctrls
  <1> DEFINE s == v.locals \o [k \in 1 .. count |-> t]
             w == AddLocals(v, t, count)
  <1>1. s \in Seq(ValTypes)
    <2>1. [k \in 1 .. count |-> t] \in Seq(ValTypes)
      OBVIOUS
    <2>2. QED
      BY <2>1, GoodFacts, ConcatProperties
  <1>2. w = [v EXCEPT !.locals = s]
    BY DEF AddLocals, Good, Validators
  <1> HIDE DEF s
  <1>3. w \in Validators /\ w.ctrls = v.ctrls /\ w.vals = v.vals /\ w.ok = v.ok
    BY <1>1, <1>2 DEF Good, Validators
  <1>4. QED
    BY <1>3 DEF Good, Nested

LEMMA InitValidatorGood ==
  /\ Good(NoValidator) /\ NoValidator.ok /\ NoValidator.ctrls = <<>>
  /\ \A t \in TypeIdx :
       LET w == InitValidator(t)
       IN  /\ Good(w) /\ w.ok /\ Len(w.ctrls) = 1
           /\ w.ctrls[1].kind = "Func" /\ w.ctrls[1].out = TypeResults(t)
  <1>1. Good(NoValidator) /\ NoValidator.ok /\ NoValidator.ctrls = <<>>
    BY DEF NoValidator, Good, Validators, Nested
  <1>2. ASSUME NEW t \in TypeIdx
        PROVE  LET w == InitValidator(t)
               IN  /\ Good(w) /\ w.ok /\ Len(w.ctrls) = 1
                   /\ w.ctrls[1].kind = "Func" /\ w.ctrls[1].out = TypeResults(t)
    <2> DEFINE u == [NoValidator EXCEPT !.locals = TypeParams(t),
                                        !.results = TypeResults(t)]
               w == InitValidator(t)
    <2>1. TypeParams(t) \in Seq(ValTypes) /\ TypeResults(t) \in Seq(ValTypes)
      BY ModuleTypes
    <2>2. u \in Validators /\ u.ok /\ u.ctrls = <<>>
      BY <1>1, <2>1 DEF NoValidator, Good, Validators
    <2>3. Good(u)
      BY <2>2 DEF Good, Nested
    <2>4. w = PushCtrl(u, "Func", <<>>, TypeResults(t))
      BY DEF InitValidator
    <2> HIDE DEF u, w
    <2>5. "Func" \in CtrlKinds /\ <<>> \in Seq(ValTypes)
      BY DEF CtrlKinds
    <2>6. Good(w) /\ w.ok /\ Opens(u, w, "Func", <<>>, TypeResults(t))
      BY <2>1, <2>2, <2>3, <2>4, <2>5, PushCtrlOpens
    <2>7. QED
      BY <2>2, <2>6 DEF Opens, Top, w
  <1>3. QED
    BY <1>1, <1>2

(***************************************************************************)
(* The methods for structured control leave the locals alone, the failing  *)
(* ones included.                                                          *)
(***************************************************************************)
SameLocals(v, w) ==
  "locals" \in DOMAIN v => "locals" \in DOMAIN w /\ w.locals = v.locals

LEMMA LocalsTrans ==
  ASSUME NEW u, NEW v, NEW w, SameLocals(u, v), SameLocals(v, w)
  PROVE  SameLocals(u, w)
  BY DEF SameLocals

\* The other fields of the record.
LEMMA OtherFields ==
  ASSUME NEW v, NEW x
  PROVE  /\ SameLocals(v, v)
         /\ SameLocals(v, [v EXCEPT !.ok = x])
         /\ SameLocals(v, [v EXCEPT !.vals = x])
         /\ SameLocals(v, [v EXCEPT !.ctrls = x])
  BY DEF SameLocals

LEMMA CheckLocals ==
  ASSUME NEW v, NEW c
  PROVE  SameLocals(v, Fail(v)) /\ SameLocals(v, Check(v, c))
  BY OtherFields DEF Fail, Check

LEMMA PopValsLocals ==
  ASSUME NEW v, NEW ts
  PROVE  SameLocals(v, PopVals(v, ts))
  <1>1. ASSUME NEW k PROVE SameLocals(v, Shrink(v, k))
    BY OtherFields DEF Shrink
  <1>2. ASSUME NEW k PROVE SameLocals(v, Fail(Shrink(v, k)))
    BY <1>1, CheckLocals, LocalsTrans
  <1> DEFINE bad == {k \in 0 .. Len(ts) - 1 : ~CanPop(v, k, ts[Len(ts) - k])}
             first == CHOOSE i \in bad : \A j \in bad : i <= j
  <1>3. PopVals(v, ts) = CASE ~v.ok -> v
                           [] v.ok /\ bad = {} -> Shrink(v, Len(ts))
                           [] v.ok /\ bad # {} -> Fail(Shrink(v, first + 1))
    BY DEF PopVals
  <1> HIDE DEF bad, first
  <1>4. CASE ~v.ok
    BY <1>3, <1>4, OtherFields
  <1>5. CASE v.ok /\ bad = {}
    BY <1>1, <1>3, <1>5
  <1>6. CASE v.ok /\ bad # {}
    BY <1>2, <1>3, <1>6
  <1>7. QED
    BY <1>4, <1>5, <1>6

LEMMA PushLocals ==
  ASSUME NEW v, NEW ts, NEW kind, NEW in, NEW out
  PROVE  SameLocals(v, PushVals(v, ts)) /\ SameLocals(v, PushCtrl(v, kind, in, out))
  <1>1. SameLocals(v, PushVals(v, ts))
    BY OtherFields DEF PushVals
  <1>2. SameLocals(v, PushCtrl(v, kind, in, out))
    <2>1. ASSUME NEW x, NEW y PROVE SameLocals(v, [v EXCEPT !.ctrls = x, !.vals = y])
      BY DEF SameLocals
    <2>2. QED
      BY <2>1, OtherFields DEF PushCtrl
  <1>3. QED
    BY <1>1, <1>2

LEMMA PopCtrlLocals ==
  ASSUME NEW v
  PROVE  SameLocals(v, PopCtrl(v))
  <1> DEFINE w == PopVals(v, Top(v).out)
  <1>1. SameLocals(v, w)
    BY PopValsLocals
  <1> HIDE DEF w
  <1>2. SameLocals(w, [w EXCEPT !.ctrls = SubSeq(@, 1, Len(@) - 1)])
    BY OtherFields
  <1>3. SameLocals(w, [w EXCEPT !.ok = FALSE,
                                !.ctrls[Len(v.ctrls)] = [@ EXCEPT !.in = <<>>, !.out = <<>>]])
    BY DEF SameLocals
  <1>4. PopCtrl(v) \in {v, [w EXCEPT !.ctrls = SubSeq(@, 1, Len(@) - 1)],
                        [w EXCEPT !.ok = FALSE,
                                  !.ctrls[Len(v.ctrls)] = [@ EXCEPT !.in = <<>>, !.out = <<>>]]}
    BY DEF PopCtrl, w
  <1>5. SameLocals(v, v)
    BY OtherFields
  <1> DEFINE popped == [w EXCEPT !.ctrls = SubSeq(@, 1, Len(@) - 1)]
             kept == [w EXCEPT !.ok = FALSE,
                               !.ctrls[Len(v.ctrls)] = [@ EXCEPT !.in = <<>>, !.out = <<>>]]
  <1> HIDE DEF popped, kept
  <1>6. SameLocals(v, popped)
    BY <1>1, <1>2, LocalsTrans DEF popped
  <1>7. SameLocals(v, kept)
    BY <1>1, <1>3, LocalsTrans DEF kept
  <1>8. PopCtrl(v) \in {v, popped, kept}
    BY <1>4, Zenon DEF popped, kept
  <1>9. QED
    BY <1>5, <1>6, <1>7, <1>8

\* What OnCtrlStart, OnElse, OnEnd and OnFunctionEnd leave alone.
LEMMA ControlLocals ==
  ASSUME NEW v, NEW kind, NEW bt
  PROVE  /\ SameLocals(v, OnCtrlStart(v, kind, bt)) /\ SameLocals(v, OnElse(v))
         /\ SameLocals(v, OnEnd(v)) /\ SameLocals(v, OnFunctionEnd(v))
  <1>1. SameLocals(v, OnCtrlStart(v, kind, bt))
    <2> DEFINE w == IF kind = "If" THEN PopVals(v, <<"I32">>) ELSE v
               x == PopVals(w, BlockIn(bt))
    <2>1. SameLocals(v, w)
      BY PopValsLocals, OtherFields
    <2> HIDE DEF w
    <2>2. SameLocals(w, x)
      BY PopValsLocals
    <2> HIDE DEF x
    <2>3. SameLocals(x, PushCtrl(x, kind, BlockIn(bt), BlockOut(bt)))
      BY PushLocals
    <2>4. QED
      BY <2>1, <2>2, <2>3, LocalsTrans DEF OnCtrlStart, w, x
  <1>2. SameLocals(v, OnElse(v))
    <2> DEFINE f == Top(v)
               p == PopCtrl(v)
               w == Check(p, f.kind = "If" /\ ~f.else_seen)
               x == PushCtrl(w, "If", f.in, f.out)
               y == [x EXCEPT !.ctrls[Len(x.ctrls)].else_seen = TRUE]
    <2>1. SameLocals(v, p)
      BY PopCtrlLocals
    <2> HIDE DEF p
    <2>2. SameLocals(p, w)
      BY CheckLocals
    <2> HIDE DEF w
    <2>3. SameLocals(w, x)
      BY PushLocals
    <2> HIDE DEF x
    <2>4. SameLocals(x, y)
      BY DEF SameLocals
    <2> HIDE DEF y
    <2>5. OnElse(v) \in {x, y}
      BY DEF OnElse, p, w, x, y
    <2>6. SameLocals(v, w)
      BY <2>1, <2>2, LocalsTrans
    <2>7. SameLocals(v, x)
      BY <2>3, <2>6, LocalsTrans
    <2>8. SameLocals(v, y)
      BY <2>4, <2>7, LocalsTrans
    <2>9. QED
      BY <2>5, <2>7, <2>8
  <1>3. SameLocals(v, OnEnd(v))
    <2> DEFINE f == Top(v)
               w == Check(v, f.kind = "If" /\ ~f.else_seen => f.in = f.out)
               p == PopCtrl(w)
    <2>1. SameLocals(v, w)
      BY CheckLocals
    <2> HIDE DEF w
    <2>2. SameLocals(w, p)
      BY PopCtrlLocals
    <2> HIDE DEF p
    <2>3. SameLocals(p, PushVals(p, f.out))
      BY PushLocals
    <2>4. QED
      BY <2>1, <2>2, <2>3, LocalsTrans DEF OnEnd, w, p
  <1>4. SameLocals(v, OnFunctionEnd(v))
    <2> DEFINE w == PopCtrl(v)
    <2>1. SameLocals(v, w)
      BY PopCtrlLocals
    <2> HIDE DEF w
    <2>2. SameLocals(w, Check(w, w.ctrls = <<>>))
      BY CheckLocals
    <2>3. QED
      BY <2>1, <2>2, LocalsTrans DEF OnFunctionEnd, w
  <1>5. QED
    BY <1>1, <1>2, <1>3, <1>4

\* So do the branches.
LEMMA BranchLocals ==
  ASSUME NEW v, NEW rel, NEW rels
  PROVE  /\ SameLocals(v, OnBr(v, rel)) /\ SameLocals(v, OnBrIf(v, rel))
         /\ SameLocals(v, OnBrTable(v, rels))
  <1>1. ASSUME NEW w PROVE SameLocals(w, Unreachable(w))
    <2>1. SameLocals(w, [w EXCEPT !.vals = SubSeq(@, 1, Top(w).height),
                                  !.ctrls[Len(w.ctrls)].unreachable = TRUE])
      BY DEF SameLocals
    <2>2. QED
      BY <2>1, OtherFields DEF Unreachable
  <1>2. ASSUME NEW w, NEW ts PROVE SameLocals(w, Unreachable(PopVals(w, ts)))
    <2> DEFINE x == PopVals(w, ts)
    <2>1. SameLocals(w, x)
      BY PopValsLocals
    <2> HIDE DEF x
    <2>2. SameLocals(x, Unreachable(x))
      BY <1>1
    <2>3. QED
      BY <2>1, <2>2, LocalsTrans DEF x
  <1>3. ASSUME NEW w, NEW pop, NEW push PROVE SameLocals(w, ApplySig(w, pop, push))
    <2> DEFINE x == PopVals(w, pop)
    <2>1. SameLocals(w, x)
      BY PopValsLocals
    <2> HIDE DEF x
    <2>2. SameLocals(x, PushVals(x, push))
      BY PushLocals
    <2>3. QED
      BY <2>1, <2>2, LocalsTrans DEF ApplySig, x
  <1>4. SameLocals(v, Fail(v))
    BY CheckLocals
  <1>5. SameLocals(v, OnBr(v, rel))
    BY <1>2, <1>4 DEF OnBr
  <1> DEFINE w == PopVals(v, <<"I32">>)
  <1>6. SameLocals(v, w)
    BY PopValsLocals
  <1>7. SameLocals(w, Fail(w))
    BY CheckLocals
  <1>8. SameLocals(v, OnBrIf(v, rel))
    <2> DEFINE lt == LabelTypes(FrameAt(v, rel))
    <2>1. OnBrIf(v, rel) \in {ApplySig(w, lt, lt), Fail(w)}
      BY DEF OnBrIf
    <2> HIDE DEF w, lt
    <2>2. SameLocals(w, ApplySig(w, lt, lt))
      BY <1>3
    <2>3. SameLocals(w, OnBrIf(v, rel))
      BY <1>7, <2>1, <2>2
    <2>4. QED
      BY <1>6, <2>3, LocalsTrans
  <1>9. SameLocals(v, OnBrTable(v, rels))
    <2> DEFINE lt == LabelTypes(FrameAt(v, rels[Len(rels)]))
    <2>1. OnBrTable(v, rels) \in {Unreachable(PopVals(w, lt)), Fail(w)}
      BY DEF OnBrTable
    <2> HIDE DEF w, lt
    <2>2. SameLocals(w, Unreachable(PopVals(w, lt)))
      BY <1>2
    <2>3. SameLocals(w, OnBrTable(v, rels))
      BY <1>7, <2>1, <2>2
    <2>4. QED
      BY <1>6, <2>3, LocalsTrans
  <1>10. QED
    BY <1>5, <1>8, <1>9
=============================================================================
