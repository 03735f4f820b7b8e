----------------------- MODULE FunctionEmitterProofs ------------------------
(***************************************************************************)
(* What holds of the emitter for every Module, instruction table, client,  *)
(* policy and bound.                                                       *)
(***************************************************************************)
EXTENDS FunctionEmitter, ValidatorProofs, FiniteSetTheorems

LEMMA ConstantTypes ==
  /\ Calls \subseteq Instructions /\ BlockTypes \subseteq BlockType
  /\ Sigs \subseteq TypeIdx /\ LocalTypes \subseteq ValTypes
  /\ LocalCounts \subseteq Nat
  /\ U32 \in Nat \ {0}
  BY EmitterAssumption

Frame == [kind : FrameKinds, at : Nat]
LocalRun == [type : LocalTypes, count : Nat]
EmissionOK == /\ runs \in Seq(LocalRun) /\ numLocals \in Nat /\ sig \in Sigs
              /\ body \in [runs : Seq(LocalRun), code : Seq(Token)]

(***************************************************************************)
(* The inductive invariant.  StacksMirror says nothing of an emitter that  *)
(* an exception is leaving; it is inductive because such an emitter is     *)
(* tainted, so it says nothing either once the exception has been caught.  *)
(***************************************************************************)
Inv == /\ TypeOK /\ HeightsNest /\ StacksMirror
       /\ status = "unwinding" => tainted

LEMMA InvFacts ==
  ASSUME Inv
  PROVE  /\ Good(v) /\ v.ok /\ EmissionOK
         /\ code \in Seq(Token) /\ control \in Seq(Frame) /\ scope \in Seq(Handle)
         /\ Len(code) \in Nat /\ Len(control) \in Nat /\ Len(scope) \in Nat
         /\ \A i \in 1 .. Len(scope) : scope[i] \in Handle /\ scope[i].depth \in Nat
         /\ Validating /\ ~Hollow => Busy(v)
  <1>1. Good(v) /\ (Validating /\ ~Hollow => Busy(v))
    BY DEF Inv, TypeOK, HeightsNest, Good, Busy, Hollow
  <1>2. \A i \in 1 .. Len(scope) : scope[i] \in Handle
    BY DEF Inv, TypeOK
  <1>3. \A h \in Handle : h.depth \in Nat
    BY DEF Handle
  <1>4. QED
    BY <1>1, <1>2, <1>3 DEF Inv, TypeOK, EmissionOK, Frame, LocalRun

LEMMA TokenTypes ==
  /\ Calls \subseteq Token /\ Opening \subseteq Token /\ Branch \subseteq Token
  /\ End \in Token /\ Else \in Token /\ FinishCall \in Token
  BY DEF Token

\* A refused call: the body and the frames stay, the emitter is tainted.
LEMMA RaiseInv ==
  ASSUME Inv, NEW w, Good(w), NEW token \in Token, Raise(w, token),
         UNCHANGED emission, scope' \in Seq(Handle)
  PROVE  Inv'
  <1> DEFINE u == [w EXCEPT !.ok = TRUE]
  <1>1. u \in Validators /\ u.ok /\ Nested(u)
    <2>1. u \in Validators /\ u.ok /\ u.ctrls = w.ctrls /\ u.vals = w.vals
      BY DEF Good, Validators
    <2>2. QED
      BY <2>1 DEF Good, Nested
  <1> HIDE DEF u
  <1>2. v' = u /\ tainted' /\ code' = code /\ control' = control
        /\ refused' = <<token>> /\ status' \in {"aborted", "unwinding"}
    BY DEF Raise, Reported, u
  <1>3. refused' \in Seq(Token) /\ status' \in Status
    BY <1>2 DEF Status
  <1>4. runs' = runs /\ numLocals' = numLocals /\ sig' = sig /\ body' = body
    BY DEF emission
  <1>5. TypeOK'
    BY <1>1, <1>2, <1>3, <1>4 DEF Inv, TypeOK, Raise
  <1>6. HeightsNest' /\ StacksMirror' /\ (status = "unwinding" => tainted)'
    BY <1>1, <1>2 DEF HeightsNest, StacksMirror
  <1>7. QED
    BY <1>5, <1>6 DEF Inv

\* The buffer cannot grow: the body and the frames stay, the validator goes on.
LEMMA RunOutInv ==
  ASSUME Inv, NEW w, Validating => Good(w) /\ w.ok,
         NEW s \in {"aborted", "unwinding", "terminated"}, RunOut(w, s),
         UNCHANGED emission, scope' \in Seq(Handle)
  PROVE  Inv'
  <1>1. Good(v') /\ v'.ok
    BY InvFacts DEF RunOut
  <1>2. /\ tainted' = TRUE /\ code' = code /\ control' = control
        /\ refused' = <<>> /\ status' = s /\ s \in Status
        /\ runs' = runs /\ numLocals' = numLocals /\ sig' = sig /\ body' = body
    BY DEF RunOut, emission, Status
  <1>3. refused' \in Seq(Token)
    BY <1>2
  <1>4. TypeOK'
    BY <1>1, <1>2, <1>3 DEF Inv, TypeOK, Good
  <1>5. HeightsNest' /\ StacksMirror' /\ (status = "unwinding" => tainted)'
    BY <1>1, <1>2 DEF HeightsNest, StacksMirror, Good
  <1>6. QED
    BY <1>4, <1>5 DEF Inv

LEMMA ReportedType == Reported \in {"aborted", "unwinding", "terminated"}
  BY DEF Reported

\* The program ends.
LEMMA StopInv ==
  ASSUME Inv, NEW s \in {"asserted", "undefined"}, Stop(s),
         UNCHANGED emission, scope' \in Seq(Handle)
  PROVE  Inv'
  <1>1. /\ v' = v /\ code' = code /\ control' = control /\ tainted' = tainted
        /\ refused' = refused /\ status' = s /\ s \in Status
        /\ runs' = runs /\ numLocals' = numLocals /\ sig' = sig /\ body' = body
    BY DEF Stop, emission, Status
  <1>2. TypeOK'
    BY <1>1 DEF Inv, TypeOK
  <1>3. HeightsNest' /\ StacksMirror' /\ (status = "unwinding" => tainted)'
    BY <1>1 DEF Inv, HeightsNest, StacksMirror
  <1>4. QED
    BY <1>2, <1>3 DEF Inv

\* Only handles change.
LEMMA HandlesInv ==
  ASSUME Inv, UNCHANGED <<v, code, control, status, tainted, refused, emission>>,
         scope' \in Seq(Handle)
  PROVE  Inv'
  <1>1. TypeOK'
    BY DEF Inv, TypeOK, emission
  <1>2. HeightsNest' /\ StacksMirror' /\ (status = "unwinding" => tainted)'
    BY DEF Inv, HeightsNest, StacksMirror, Mirror, MirrorAt, emission
  <1>3. QED
    BY <1>1, <1>2 DEF Inv

\* An accepted call: what is left to show is that the stacks still agree.
LEMMA AcceptInv ==
  ASSUME Inv, NEW w, Validating => Good(w) /\ w.ok, NEW token \in Token,
         Accept(w, token), UNCHANGED emission, scope' \in Seq(Handle),
         control' \in Seq(Frame), Validating /\ Mirror => Mirror'
  PROVE  Inv'
  <1>1. Good(v) /\ v.ok /\ code \in Seq(Token)
    BY InvFacts
  <1>2. /\ Good(v') /\ v'.ok /\ code' = Append(code, token)
        /\ status' = status /\ tainted' = tainted /\ refused' = refused
    BY <1>1 DEF Accept
  <1>3. runs' = runs /\ numLocals' = numLocals /\ sig' = sig /\ body' = body
    BY DEF emission
  <1>4. code' \in Seq(Token)
    BY <1>1, <1>2
  <1>5. TypeOK'
    BY <1>2, <1>3, <1>4 DEF Inv, TypeOK, Good, Frame
  <1>6. HeightsNest' /\ StacksMirror' /\ (status = "unwinding" => tainted)'
    BY <1>2 DEF Inv, HeightsNest, StacksMirror, Good, Validating
  <1>7. QED
    BY <1>5, <1>6 DEF Inv

\* Writing an instruction to the body leaves the earlier ones in place.
LEMMA CodeGrows ==
  ASSUME Inv, NEW token \in Token, code' = Append(code, token)
  PROVE  /\ Len(code') = Len(code) + 1 /\ code'[Len(code) + 1] = token
         /\ \A a \in 1 .. Len(code) : a \in 1 .. Len(code') /\ code'[a] = code[a]
  BY InvFacts

\* The stacks agree on what a validator method and the emitter both keep.
LEMMA MirrorKept ==
  ASSUME Inv, Mirror, NEW w, SameFrames(v, w), NEW token \in Token,
         code' = Append(code, token), v' = w, control' = control, sig' = sig
  PROVE  Mirror'
  <1>1. Len(control) \in Nat /\ Len(v.ctrls) = Len(control) + 1
    BY InvFacts DEF Mirror
  <1>2. /\ Len(v'.ctrls) = Len(control) + 1
        /\ \A k \in 1 .. Len(control) + 1 : SameFrame(v.ctrls[k], v'.ctrls[k])
    BY <1>1 DEF SameFrames
  <1>3. 1 \in 1 .. Len(control) + 1
        /\ \A k \in 1 .. Len(control) : k + 1 \in 1 .. Len(control) + 1
    BY <1>1
  <1>4. v'.ctrls[1].kind = "Func" /\ v'.ctrls[1].out = TypeResults(sig')
    BY <1>2, <1>3 DEF Mirror, SameFrame
  <1>5. ASSUME NEW k \in 1 .. Len(control)
        PROVE  MirrorAt(k)'
    <2>1. MirrorAt(k) /\ SameFrame(v.ctrls[k + 1], v'.ctrls[k + 1])
      BY <1>2, <1>3 DEF Mirror
    <2>2. control[k].at \in 1 .. Len(code') /\ code'[control[k].at] = code[control[k].at]
      BY <2>1, CodeGrows DEF MirrorAt
    <2>3. QED
      BY <2>1, <2>2 DEF MirrorAt, SameFrame
  <1>6. QED
    BY <1>2, <1>4, <1>5 DEF Mirror
-----------------------------------------------------------------------------
LEMMA EmitInv == ASSUME Inv, NEW i \in Calls, Emit(i) PROVE Inv'
  <1> DEFINE w == Hook(v, i)
  <1>1. i \in Instructions /\ i \in Token /\ scope' \in Seq(Handle)
        /\ UNCHANGED emission
    BY ConstantTypes, TokenTypes, InvFacts DEF Emit
  <1>2. Validating => Keeps(v, w) /\ Good(w)
    BY <1>1, InvFacts, HookKeeps DEF Emit, CanEmit, Keeps
  <1> HIDE DEF w
  <1>3. CASE Rejects(w) /\ Raise(w, i)
    BY <1>1, <1>2, <1>3, RaiseInv DEF Rejects
  <1>4. CASE ~Rejects(w) /\ Accept(w, i) /\ UNCHANGED control
    <2>1. Validating => Good(w) /\ w.ok
      BY <1>2, <1>4 DEF Rejects
    <2>2. control' \in Seq(Frame)
      BY <1>4, InvFacts
    <2>3. ASSUME Validating, Mirror PROVE Mirror'
      BY <1>1, <1>2, <1>4, <2>3, MirrorKept DEF Accept, Keeps, emission
    <2>4. QED
      BY <1>1, <1>4, <2>1, <2>2, <2>3, AcceptInv
  <1>5. CASE ~Rejects(w) /\ RunOut(w, Reported)
    BY <1>1, <1>2, <1>5, ReportedType, RunOutInv DEF Rejects
  <1>6. QED
    BY <1>3, <1>4, <1>5 DEF Emit, w

LEMMA DeclareLocalsInv ==
  ASSUME Inv, NEW t \in LocalTypes, NEW count \in LocalCounts,
         DeclareLocals(t, count)
  PROVE  Inv'
  <1>1. /\ t \in ValTypes /\ count \in Nat /\ runs \in Seq(LocalRun)
        /\ numLocals \in Nat /\ Good(v) /\ v.ok
    BY ConstantTypes, InvFacts DEF EmissionOK
  <1>2. /\ code' = code /\ control' = control /\ sig' = sig /\ scope' = scope
        /\ status' = status /\ tainted' = tainted /\ refused' = refused
        /\ body' = body
    BY DEF DeclareLocals
  <1>3. runs' \in Seq(LocalRun)
    <2> DEFINE n == Len(runs)
    <2>1. \A r \in LocalRun : [r EXCEPT !.count = @ + count] \in LocalRun
      BY <1>1 DEF LocalRun
    <2>2. CASE n > 0 /\ runs[n].type = t
      <3> DEFINE e == [runs[n] EXCEPT !.count = @ + count]
      <3>1. n \in 1 .. n /\ n \in Nat
        BY <1>1, <2>2
      <3>2. e \in LocalRun
        BY <1>1, <2>1, <3>1
      <3>3. runs' = [runs EXCEPT ![n] = e]
        BY <2>2 DEF DeclareLocals
      <3> HIDE DEF e
      <3>4. QED
        BY <1>1, <3>1, <3>2, <3>3, ExceptSeq
    <2>3. CASE ~(n > 0 /\ runs[n].type = t)
      <3>1. [type |-> t, count |-> count] \in LocalRun
        BY <1>1 DEF LocalRun
      <3>2. runs' = Append(runs, [type |-> t, count |-> count])
        BY <2>3 DEF DeclareLocals
      <3>3. QED
        BY <1>1, <3>1, <3>2
    <2>4. QED
      BY <2>2, <2>3
  <1>4. numLocals' \in Nat
    BY <1>1 DEF DeclareLocals
  <1>5. Good(v') /\ v'.ok /\ v'.ctrls = v.ctrls
    BY <1>1, AddLocalsKeeps DEF DeclareLocals
  <1>6. TypeOK'
    BY <1>2, <1>3, <1>4, <1>5 DEF Inv, TypeOK, Good, LocalRun
  <1>7. HeightsNest' /\ StacksMirror' /\ (status = "unwinding" => tainted)'
    BY <1>2, <1>5
       DEF Inv, HeightsNest, StacksMirror, Mirror, MirrorAt, Good, Validating
  <1>8. QED
    BY <1>6, <1>7 DEF Inv

LEMMA PushFrameInv ==
  ASSUME Inv, NEW kind \in FrameKinds, NEW bt \in BlockTypes, PushFrame(kind, bt)
  PROVE  Inv'
  <1> DEFINE w == OnCtrlStart(v, kind, bt)
             token == [op |-> kind, bt |-> bt]
             at == Len(code) + 1
             f == [kind |-> kind, at |-> at]
             h == [owned |-> TRUE, live |-> TRUE, depth |-> Len(control), at |-> at]
             n == Len(control)
  <1>1. /\ bt \in BlockType /\ token \in Token /\ f \in Frame /\ h \in Handle
        /\ UNCHANGED emission /\ n \in Nat
    BY ConstantTypes, TokenTypes, InvFacts DEF PushFrame, Opening, Frame, Handle
  <1>2. /\ Validating => Good(w)
        /\ Validating /\ w.ok => Opens(v, w, kind, BlockIn(bt), BlockOut(bt))
    BY <1>1, InvFacts, OnCtrlStartOpens DEF PushFrame, CanEmit, FrameKinds
  <1> HIDE DEF w, h
  <1>3. CASE Rejects(w) /\ Raise(w, token) /\ UNCHANGED scope
    BY <1>1, <1>2, <1>3, InvFacts, RaiseInv DEF Rejects
  <1>4. CASE /\ ~Rejects(w) /\ Accept(w, token)
             /\ control' = Append(control, f) /\ scope' = Append(scope, h)
    <2>1. Validating => Good(w) /\ w.ok
      BY <1>2, <1>4 DEF Rejects
    <2>2. control' \in Seq(Frame) /\ scope' \in Seq(Handle)
      BY <1>1, <1>4, InvFacts
    <2>3. ASSUME Validating, Mirror PROVE Mirror'
      <3>1. v' = w /\ sig' = sig /\ code' = Append(code, token)
        BY <1>1, <1>4, <2>3 DEF Accept, emission
      <3>2. /\ Len(v.ctrls) = n + 1 /\ Len(w.ctrls) = n + 2
            /\ \A k \in 1 .. n + 1 : SameFrame(v.ctrls[k], w.ctrls[k])
            /\ w.ctrls[n + 2].kind = kind /\ w.ctrls[n + 2].in = BlockIn(bt)
            /\ w.ctrls[n + 2].out = BlockOut(bt)
        BY <1>1, <1>2, <2>1, <2>3, SMTT(40) DEF Opens, Prefix, Top, Mirror
      <3>3. /\ Len(control') = n + 1 /\ control'[n + 1] = f
            /\ \A k \in 1 .. n : control'[k] = control[k]
        BY <1>1, <1>4, InvFacts
      <3>4. /\ Len(code') = at /\ code'[at] = token /\ at \in 1 .. at
            /\ \A a \in 1 .. Len(code) : a \in 1 .. Len(code') /\ code'[a] = code[a]
        BY <1>1, <3>1, CodeGrows, InvFacts
      <3>5. v'.ctrls[1].kind = "Func" /\ v'.ctrls[1].out = TypeResults(sig')
        <4>1. SameFrame(v.ctrls[1], w.ctrls[1])
          BY <1>1, <3>2
        <4>2. QED
          BY <2>3, <3>1, <4>1 DEF Mirror, SameFrame
      <3>6. ASSUME NEW k \in 1 .. n PROVE MirrorAt(k)'
        <4>1. k \in 1 .. Len(control) /\ k + 1 \in 1 .. n + 1
          BY <1>1
        <4>2. MirrorAt(k)
          BY <2>3, <4>1 DEF Mirror
        <4>3. SameFrame(v.ctrls[k + 1], v'.ctrls[k + 1])
          BY <3>1, <3>2, <4>1
        <4>4. QED
          BY <3>3, <3>4, <4>2, <4>3 DEF MirrorAt, SameFrame
      <3>7. ASSUME NEW k, k = n + 1 PROVE MirrorAt(k)'
        <4>1. /\ control'[n + 1].at = at /\ control'[n + 1].kind = kind
              /\ code'[at].op = kind /\ code'[at].bt = bt
              /\ (n + 1) + 1 = n + 2 /\ at \in 1 .. Len(code')
          BY <1>1, <3>3, <3>4
        <4>2. QED
          BY <3>1, <3>2, <3>7, <4>1 DEF MirrorAt
      <3>8. \A k \in 1 .. n + 1 : MirrorAt(k)'
        <4>1. \A k \in 1 .. n + 1 : k \in 1 .. n \/ k = n + 1
          BY <1>1
        <4>2. QED
          BY <3>6, <3>7, <4>1
      <3>9. Len(v'.ctrls) = Len(control') + 1
        BY <1>1, <3>1, <3>2, <3>3
      <3>10. QED
        BY <3>3, <3>5, <3>8, <3>9 DEF Mirror
    <2>4. QED
      BY <1>1, <1>4, <2>1, <2>2, <2>3, AcceptInv
  <1>5. CASE ~Rejects(w) /\ RunOut(w, Reported) /\ UNCHANGED scope
    BY <1>1, <1>2, <1>5, InvFacts, ReportedType, RunOutInv DEF Rejects
  <1>6. QED
    BY <1>3, <1>4, <1>5 DEF PushFrame, w, h

LEMMA RelDepthType == ASSUME Inv, NEW h \in Handle PROVE RelDepth(h) \in Nat
  <1>1. Len(control) - 1 - h.depth \in Int
    BY InvFacts DEF Handle
  <1>2. QED
    BY <1>1, ConstantTypes DEF RelDepth

LEMMA FunctionIsSeq ==
  ASSUME NEW S, NEW n \in Nat, NEW f \in [1 .. n -> S]
  PROVE  f \in Seq(S) /\ Len(f) = n
  <1>1. f \in Seq(S)
    BY SeqDef
  <1>2. QED
    BY <1>1, LenProperties

LEMMA EmitBranchInv ==
  ASSUME Inv, NEW op \in {"Br", "BrIf", "BrTable"}, NEW n \in Nat \ {0},
         NEW hs \in [1 .. n -> 1 .. Len(scope)], EmitBranch(op, hs)
  PROVE  Inv'
  <1> DEFINE rels == [k \in 1 .. Len(hs) |-> RelDepth(scope[hs[k]])]
             to == [k \in 1 .. Len(hs) |-> scope[hs[k]].at]
             w == OnBranch(op, rels)
             token == [op |-> op, rels |-> rels, to |-> to]
  <1>1. Len(hs) = n /\ \A k \in 1 .. n : scope[hs[k]] \in Handle
    BY InvFacts
  <1>2. rels \in Seq(Nat) /\ rels # <<>> /\ Len(rels) = n /\ to \in Seq(Nat)
    <2>1. \A k \in 1 .. n : /\ RelDepth(scope[hs[k]]) \in Nat
                            /\ scope[hs[k]].at \in Nat
      BY <1>1, RelDepthType DEF Handle
    <2>2. rels \in [1 .. n -> Nat] /\ to \in [1 .. n -> Nat]
      BY <1>1, <2>1
    <2> HIDE DEF rels, to
    <2>3. QED
      BY <2>2, FunctionIsSeq
  <1> HIDE DEF rels, to
  <1>3. rels[1] \in Nat
    BY <1>2
  <1>4. /\ token \in Token /\ scope' \in Seq(Handle) /\ UNCHANGED emission
    BY <1>2, TokenTypes, InvFacts DEF EmitBranch, Branch, BranchOps
  <1>5. Validating => Keeps(v, w) /\ Good(w)
    BY <1>2, <1>3, InvFacts, OnBrKeeps, OnBrTableKeeps
       DEF EmitBranch, CanEmit, OnBranch, Keeps
  <1> HIDE DEF w
  <1>6. CASE Rejects(w) /\ Raise(w, token)
    BY <1>4, <1>5, <1>6, RaiseInv DEF Rejects
  <1>7. CASE ~Rejects(w) /\ Accept(w, token) /\ UNCHANGED control
    <2>1. Validating => Good(w) /\ w.ok
      BY <1>5, <1>7 DEF Rejects
    <2>2. control' \in Seq(Frame)
      BY <1>7, InvFacts
    <2>3. ASSUME Validating, Mirror PROVE Mirror'
      BY <1>4, <1>5, <1>7, <2>3, MirrorKept DEF Accept, Keeps, emission
    <2>4. QED
      BY <1>4, <1>7, <2>1, <2>2, <2>3, AcceptInv
  <1>8. CASE ~Rejects(w) /\ RunOut(w, Reported)
    BY <1>4, <1>5, <1>8, ReportedType, RunOutInv DEF Rejects
  <1>9. QED
    BY <1>6, <1>7, <1>8 DEF EmitBranch, w, rels, to

LEMMA BranchesInv == ASSUME Inv, Br \/ BrIf \/ BrTable PROVE Inv'
  <1>1. CASE Br
    <2>1. PICK h \in 1 .. Len(scope) : EmitBranch("Br", <<h>>)
      BY <1>1 DEF Br
    <2> DEFINE hs == <<h>>
    <2>2. hs \in [1 .. 1 -> 1 .. Len(scope)] /\ 1 \in Nat \ {0}
      OBVIOUS
    <2> HIDE DEF hs
    <2>3. EmitBranch("Br", hs)
      BY <2>1 DEF hs
    <2>4. QED
      BY <2>2, <2>3, EmitBranchInv
  <1>2. CASE BrIf
    <2>1. PICK h \in 1 .. Len(scope) : EmitBranch("BrIf", <<h>>)
      BY <1>2 DEF BrIf
    <2> DEFINE hs == <<h>>
    <2>2. hs \in [1 .. 1 -> 1 .. Len(scope)] /\ 1 \in Nat \ {0}
      OBVIOUS
    <2> HIDE DEF hs
    <2>3. EmitBranch("BrIf", hs)
      BY <2>1 DEF hs
    <2>4. QED
      BY <2>2, <2>3, EmitBranchInv
  <1>3. CASE BrTable
    <2>1. PICK n \in 1 .. MaxTargets + 1 :
            \E hs \in [1 .. n -> 1 .. Len(scope)] : EmitBranch("BrTable", hs)
      BY <1>3 DEF BrTable
    <2>2. n \in Nat \ {0}
      BY EmitterAssumption
    <2>3. QED
      BY <2>1, <2>2, EmitBranchInv
  <1>4. QED
    BY <1>1, <1>2, <1>3

LEMMA FrontProps ==
  ASSUME NEW S, NEW s \in Seq(S), s # <<>>
  PROVE  /\ Front(s) \in Seq(S) /\ Len(Front(s)) = Len(s) - 1 /\ Len(s) \in Nat \ {0}
         /\ \A k \in 1 .. Len(s) - 1 : Front(s)[k] = s[k]
  <1>1. Len(s) \in Nat \ {0}
    OBVIOUS
  <1> DEFINE n == Len(s) - 1
  <1>2. n \in Nat /\ \A k \in 1 .. n : s[k] \in S
    BY <1>1
  <1> HIDE DEF n
  <1>3. /\ SubSeq(s, 1, n) \in Seq(S) /\ Len(SubSeq(s, 1, n)) = n
        /\ \A k \in 1 .. n : SubSeq(s, 1, n)[k] = s[k]
    BY <1>2
  <1>4. QED
    BY <1>1, <1>3 DEF Front, n

\* Closing a frame pops one frame off each stack.
LEMMA FrameEndInv ==
  ASSUME Inv, NEW depth \in Nat,
         NEW s \in {"aborted", "unwinding", "terminated"}, FrameEnd(depth, s),
         UNCHANGED emission, scope' \in Seq(Handle)
  PROVE  Inv'
  <1> DEFINE w == OnEnd(v)
             n == Len(control)
  <1>1. Validating /\ ~Hollow => Good(w) /\ (w.ok => Closes(v, w))
    BY InvFacts, OnEndCloses
  <1> HIDE DEF w
  <1>2. CASE Stop("asserted") \/ Stop("undefined")
    BY <1>2, StopInv
  <1>3. CASE /\ ~Hollow /\ Rejects(w)
             /\ v' = [w EXCEPT !.ok = TRUE] /\ status' = s
             /\ tainted' = TRUE /\ refused' = <<End>>
             /\ UNCHANGED <<code, control>>
    <2> DEFINE u == [w EXCEPT !.ok = TRUE]
    <2>1. u \in Validators /\ u.ok /\ Nested(u)
      <3>1. Good(w)
        BY <1>1, <1>3 DEF Rejects
      <3>2. u \in Validators /\ u.ok /\ u.ctrls = w.ctrls /\ u.vals = w.vals
        BY <3>1 DEF Good, Validators
      <3>3. QED
        BY <3>1, <3>2 DEF Good, Nested
    <2> HIDE DEF u
    <2>2. v' = u /\ s \in Status /\ refused' \in Seq(Token)
      BY <1>3, TokenTypes DEF Status, u
    <2>3. TypeOK'
      BY <1>3, <2>1, <2>2 DEF Inv, TypeOK, emission
    <2>4. HeightsNest' /\ StacksMirror' /\ (status = "unwinding" => tainted)'
      BY <1>3, <2>1, <2>2 DEF HeightsNest, StacksMirror
    <2>5. QED
      BY <2>3, <2>4 DEF Inv
  <1>4. CASE /\ ~Hollow /\ ~Rejects(w) /\ control # <<>>
             /\ Accept(w, End) /\ control' = Front(control)
    <2>1. Validating => Good(w) /\ w.ok /\ Closes(v, w)
      BY <1>1, <1>4 DEF Rejects
    <2>2. /\ control' \in Seq(Frame) /\ n \in Nat \ {0} /\ Len(control') = n - 1
          /\ \A k \in 1 .. n - 1 : k \in 1 .. n /\ control'[k] = control[k]
      <3>1. control \in Seq(Frame) /\ control # <<>> /\ control' = Front(control)
        BY <1>4, InvFacts
      <3>2. /\ control' \in Seq(Frame) /\ n \in Nat \ {0} /\ Len(control') = n - 1
            /\ \A k \in 1 .. n - 1 : control'[k] = control[k]
        BY <3>1, FrontProps
      <3>3. QED
        BY <3>2
    <2>3. ASSUME Validating, Mirror PROVE Mirror'
      <3>1. v' = w /\ code' = Append(code, End) /\ sig' = sig
        BY <1>4, <2>3 DEF Accept, emission
      <3>2. /\ Len(v.ctrls) = n + 1 /\ Len(w.ctrls) = n
            /\ \A k \in 1 .. n : SameFrame(v.ctrls[k], w.ctrls[k])
        BY <2>1, <2>2, <2>3 DEF Closes, Prefix, Mirror
      <3>3. v'.ctrls[1].kind = "Func" /\ v'.ctrls[1].out = TypeResults(sig')
        <4>1. SameFrame(v.ctrls[1], w.ctrls[1])
          BY <2>2, <3>2
        <4>2. QED
          BY <2>3, <3>1, <4>1 DEF Mirror, SameFrame
      <3>4. ASSUME NEW k \in 1 .. n - 1 PROVE MirrorAt(k)'
        <4>1. k + 1 \in 1 .. n /\ k \in 1 .. n
          BY <2>2
        <4>2. MirrorAt(k) /\ SameFrame(v.ctrls[k + 1], v'.ctrls[k + 1])
          BY <2>3, <3>1, <3>2, <4>1 DEF Mirror
        <4>3. /\ control'[k] = control[k] /\ control[k].at \in 1 .. Len(code')
              /\ code'[control[k].at] = code[control[k].at]
          BY <2>2, <3>1, <4>2, CodeGrows, TokenTypes DEF MirrorAt
        <4>4. QED
          BY <4>2, <4>3 DEF MirrorAt, SameFrame
      <3>5. Len(v'.ctrls) = Len(control') + 1
        BY <2>2, <3>1, <3>2
      <3>6. QED
        BY <2>2, <3>3, <3>4, <3>5 DEF Mirror
    <2>4. QED
      BY <1>4, <2>1, <2>2, <2>3, AcceptInv, TokenTypes
  <1>5. CASE ~Hollow /\ ~Rejects(w) /\ RunOut(w, s)
    BY <1>1, <1>5, RunOutInv DEF Rejects
  <1>6. QED
    BY <1>2, <1>3, <1>4, <1>5 DEF FrameEnd, w

\* Marking a handle.
LEMMA SetHandle ==
  ASSUME Inv, NEW i \in 1 .. Len(scope), NEW h \in Handle
  PROVE  [scope EXCEPT ![i] = h] \in Seq(Handle)
  BY InvFacts, ExceptSeq

LEMMA HandleTypes ==
  ASSUME NEW h \in Handle
  PROVE  [h EXCEPT !.live = FALSE] \in Handle /\ MovedFrom(h) \in Handle
  BY DEF Handle, MovedFrom

LEMMA EndFrameInv ==
  ASSUME Inv, NEW i \in 1 .. Len(scope), EndFrame(i) PROVE Inv'
  <1> DEFINE h == [scope[i] EXCEPT !.live = FALSE]
  <1>1. h \in Handle /\ scope[i].depth \in Nat
    BY InvFacts, HandleTypes
  <1>2. scope' = [scope EXCEPT ![i] = h]
    BY DEF EndFrame
  <1> HIDE DEF h
  <1>3. scope' \in Seq(Handle)
    BY <1>1, <1>2, SetHandle
  <1>4. FrameEnd(scope[i].depth, Reported) /\ UNCHANGED emission
    BY DEF EndFrame
  <1>5. QED
    BY <1>1, <1>3, <1>4, ReportedType, FrameEndInv

LEMMA LeaveScopeInv == ASSUME Inv, LeaveScope PROVE Inv'
  <1> DEFINE h == scope[Len(scope)]
             s == IF ErrorPolicy = "abort" THEN "aborted" ELSE "terminated"
  <1>1. scope # <<>> /\ scope' = Front(scope) /\ UNCHANGED emission
    BY DEF LeaveScope
  <1>2. scope' \in Seq(Handle) /\ h.depth \in Nat
    BY <1>1, InvFacts, FrontProps
  <1>3. CASE UNCHANGED <<v, code, control, status, tainted, refused>>
    BY <1>1, <1>2, <1>3, HandlesInv
  <1>4. CASE FrameEnd(h.depth, s)
    <2>1. s \in {"aborted", "unwinding", "terminated"}
      OBVIOUS
    <2> HIDE DEF h, s
    <2>2. QED
      BY <1>1, <1>2, <1>4, <2>1, FrameEndInv
  <1>5. QED
    BY <1>3, <1>4 DEF LeaveScope

LEMMA ElseFrameInv ==
  ASSUME Inv, NEW i \in 1 .. Len(scope), ElseFrame(i) PROVE Inv'
  <1> DEFINE w == OnElse(v)
             n == Len(control)
             m == Len(v.ctrls)
             Reopens == /\ Prefix(v, w, m - 1) /\ Len(w.ctrls) = m
                        /\ Top(v).kind = "If" /\ Top(w).kind = "If"
                        /\ Top(w).in = Top(v).in /\ Top(w).out = Top(v).out
  <1>1. scope' = scope /\ UNCHANGED emission /\ scope' \in Seq(Handle)
    BY InvFacts DEF ElseFrame
  <1>2. Validating => Good(w) /\ (w.ok => Reopens)
    BY InvFacts, OnElseReopens DEF ElseFrame, CanEmit
  <1> HIDE DEF w
  <1>3. CASE Stop("asserted") \/ Stop("undefined")
    BY <1>1, <1>3, StopInv
  <1>4. CASE Rejects(w) /\ Raise(w, Else)
    BY <1>1, <1>2, <1>4, RaiseInv, TokenTypes DEF Rejects
  <1>5. CASE ~Rejects(w) /\ Accept(w, Else) /\ UNCHANGED control
    <2>1. Validating => Good(w) /\ w.ok /\ Reopens
      BY <1>2, <1>5 DEF Rejects
    <2>2. control' \in Seq(Frame) /\ control' = control /\ n \in Nat
      BY <1>5, InvFacts
    <2>3. ASSUME Validating, Mirror PROVE Mirror'
      <3>1. v' = w /\ code' = Append(code, Else) /\ sig' = sig
        BY <1>1, <1>5, <2>3 DEF Accept, emission
      <3>2. /\ m = n + 1 /\ Len(w.ctrls) = n + 1
            /\ \A k \in 1 .. n : SameFrame(v.ctrls[k], w.ctrls[k])
            /\ v.ctrls[n + 1].kind = "If" /\ w.ctrls[n + 1].kind = "If"
            /\ w.ctrls[n + 1].in = v.ctrls[n + 1].in
            /\ w.ctrls[n + 1].out = v.ctrls[n + 1].out
        BY <2>1, <2>2, <2>3 DEF Prefix, Mirror, Top
      <3>3. \A k \in 1 .. n + 1 : /\ w.ctrls[k].kind = v.ctrls[k].kind
                                  /\ w.ctrls[k].in = v.ctrls[k].in
                                  /\ w.ctrls[k].out = v.ctrls[k].out
        <4>1. \A k \in 1 .. n + 1 : k \in 1 .. n \/ k = n + 1
          BY <2>2
        <4>2. QED
          BY <3>2, <4>1 DEF SameFrame
      <3>4. v'.ctrls[1].kind = "Func" /\ v'.ctrls[1].out = TypeResults(sig')
        BY <2>2, <2>3, <3>1, <3>3 DEF Mirror
      <3>5. ASSUME NEW k \in 1 .. n PROVE MirrorAt(k)'
        <4>1. MirrorAt(k) /\ k + 1 \in 1 .. n + 1
          BY <2>2, <2>3 DEF Mirror
        <4>2. /\ control[k].at \in 1 .. Len(code')
              /\ code'[control[k].at] = code[control[k].at]
          BY <3>1, <4>1, CodeGrows, TokenTypes DEF MirrorAt
        <4>3. QED
          BY <2>2, <3>1, <3>3, <4>1, <4>2 DEF MirrorAt
      <3>6. QED
        BY <2>2, <3>1, <3>2, <3>4, <3>5 DEF Mirror
    <2>4. QED
      BY <1>1, <1>5, <2>1, <2>2, <2>3, AcceptInv, TokenTypes
  <1>6. CASE ~Rejects(w) /\ RunOut(w, Reported)
    BY <1>1, <1>2, <1>6, ReportedType, RunOutInv DEF Rejects
  <1>7. QED
    BY <1>3, <1>4, <1>5, <1>6 DEF ElseFrame, w

LEMMA MovesInv ==
  ASSUME Inv, NEW i \in 1 .. Len(scope), NEW j \in 1 .. Len(scope),
         MoveHandle(i) \/ MoveAssign(i, j) \/ Detach(i)
  PROVE  Inv'
  <1> DEFINE d == [scope[i] EXCEPT !.live = FALSE]
             m == MovedFrom(scope[i])
  <1>1. scope[i] \in Handle /\ scope \in Seq(Handle) /\ d \in Handle /\ m \in Handle
    BY InvFacts, HandleTypes
  <1>2. CASE MoveHandle(i)
    <2> DEFINE s == [scope EXCEPT ![i] = m]
    <2>1. scope' = Append(s, scope[i])
      BY <1>2 DEF MoveHandle
    <2> HIDE DEF m
    <2>2. s \in Seq(Handle)
      BY <1>1, SetHandle
    <2> HIDE DEF s
    <2>3. scope' \in Seq(Handle)
      BY <1>1, <2>1, <2>2
    <2>4. QED
      BY <1>2, <2>3, HandlesInv DEF MoveHandle
  <1>3. CASE MoveAssign(i, j)
    <2> DEFINE s == [scope EXCEPT ![j] = scope[i]]
    <2>1. scope' = [s EXCEPT ![i] = m] /\ i # j
      BY <1>3 DEF MoveAssign
    <2> HIDE DEF m
    <2>2. s \in Seq(Handle) /\ Len(s) = Len(scope)
      BY <1>1, ExceptSeq
    <2> HIDE DEF s
    <2>3. scope' \in Seq(Handle)
      BY <1>1, <2>1, <2>2, ExceptSeq
    <2>4. QED
      BY <1>3, <2>3, HandlesInv DEF MoveAssign
  <1>4. CASE Detach(i)
    <2>1. scope' = [scope EXCEPT ![i] = d]
      BY <1>4 DEF Detach
    <2> HIDE DEF d
    <2>2. scope' \in Seq(Handle)
      BY <1>1, <2>1, SetHandle
    <2>3. QED
      BY <1>4, <2>2, HandlesInv DEF Detach
  <1>5. QED
    BY <1>2, <1>3, <1>4

LEMMA FinishInv == ASSUME Inv, Finish PROVE Inv'
  <1> DEFINE w == OnFunctionEnd(v)
  <1>1. /\ scope' = scope /\ scope' \in Seq(Handle) /\ ~Hollow
        /\ runs' = runs /\ numLocals' = numLocals /\ sig' = sig
    BY InvFacts DEF Finish
  <1>2. Validating => Good(w)
    BY <1>1, InvFacts, OnFunctionEndCloses
  <1> HIDE DEF w
  <1>3. CASE Stop("asserted") /\ UNCHANGED body
    BY <1>1, <1>3, StopInv DEF emission
  <1>4. CASE Rejects(w) /\ Raise(w, FinishCall) /\ UNCHANGED body
    BY <1>1, <1>2, <1>4, RaiseInv, TokenTypes DEF Rejects, emission
  <1>5. CASE /\ ~Rejects(w) /\ v' = (IF Validating THEN w ELSE v)
             /\ body' = [runs |-> runs, code |-> Append(code, End)]
             /\ code' = <<>> /\ status' = "finished"
             /\ UNCHANGED <<control, tainted, refused>>
    <2>1. Good(v') /\ v'.ok
      BY <1>2, <1>5, InvFacts DEF Rejects
    <2>2. body' \in [runs : Seq(LocalRun), code : Seq(Token)]
      BY <1>5, InvFacts, TokenTypes DEF EmissionOK
    <2>3. code' \in Seq(Token) /\ status' \in Status
      BY <1>5 DEF Status
    <2>4. TypeOK'
      BY <1>1, <1>5, <2>1, <2>2, <2>3 DEF Inv, TypeOK, Good, LocalRun
    <2>5. HeightsNest' /\ StacksMirror' /\ (status = "unwinding" => tainted)'
      BY <1>5, <2>1 DEF HeightsNest, StacksMirror, Good
    <2>6. QED
      BY <2>4, <2>5 DEF Inv
  <1>6. CASE ~Rejects(w) /\ RunOut(w, Reported) /\ UNCHANGED body
    BY <1>1, <1>2, <1>6, ReportedType, RunOutInv DEF Rejects, emission
  <1>7. CASE ~Rejects(w) /\ RunOutOfLocals(w) /\ UNCHANGED body
    <2>1. Good(v') /\ v'.ok
      BY <1>2, <1>7, InvFacts DEF Rejects, RunOutOfLocals
    <2>2. /\ tainted' = TRUE /\ code' = Append(code, End) /\ control' = control
          /\ refused' = <<>> /\ status' = Reported /\ body' = body
      BY <1>7 DEF RunOutOfLocals
    <2>3. code' \in Seq(Token) /\ status' \in Status /\ refused' \in Seq(Token)
      BY <2>2, InvFacts, TokenTypes, ReportedType DEF Status
    <2>4. TypeOK'
      BY <1>1, <2>1, <2>2, <2>3 DEF Inv, TypeOK, Good
    <2>5. HeightsNest' /\ StacksMirror' /\ (status = "unwinding" => tainted)'
      BY <2>1, <2>2 DEF HeightsNest, StacksMirror, Good
    <2>6. QED
      BY <2>4, <2>5 DEF Inv
  <1>8. QED
    BY <1>3, <1>4, <1>5, <1>6, <1>7 DEF Finish, w

\* A bound emitter before its first call.
LEMMA NothingYet ==
  /\ <<>> \in Seq(Token) /\ <<>> \in Seq(Frame) /\ <<>> \in Seq(LocalRun)
  /\ <<>> \in Seq(Handle)
  OBVIOUS

LEMMA FreshMirror ==
  ASSUME NEW s \in Sigs, v' = InitValidator(s), sig' = s, control' = <<>>
  PROVE  Mirror'
  <1>1. s \in TypeIdx
    BY ConstantTypes
  <1>2. /\ Len(v'.ctrls) = 1 /\ v'.ctrls[1].kind = "Func"
        /\ v'.ctrls[1].out = TypeResults(s)
    BY <1>1, InitValidatorGood
  <1>3. Len(control') = 0
    OBVIOUS
  <1>4. QED
    BY <1>2, <1>3 DEF Mirror

LEMMA RebindInv == ASSUME Inv, NEW s \in Sigs, Rebind(s) PROVE Inv'
  <1>1. /\ sig' = s /\ code' = <<>> /\ control' = <<>> /\ runs' = <<>>
        /\ numLocals' = 0 /\ status' = "running" /\ tainted' = FALSE
        /\ refused' = <<>> /\ body' = NoBody /\ scope' = scope
        /\ v' = IF Validating THEN InitValidator(s) ELSE v
    BY DEF Rebind
  <1>2. Good(v') /\ v'.ok
    BY <1>1, InvFacts, ConstantTypes, InitValidatorGood
  <1>3. NoBody \in [runs : Seq(LocalRun), code : Seq(Token)]
    BY DEF NoBody
  <1>4. TypeOK'
    <2>1. /\ status' \in Status /\ tainted' \in BOOLEAN /\ refused' \in Seq(Token)
          /\ code' \in Seq(Token) /\ control' \in Seq(Frame)
          /\ runs' \in Seq(LocalRun) /\ numLocals' \in Nat
      BY <1>1, NothingYet DEF Status
    <2>2. scope' \in Seq(Handle) /\ sig' \in Sigs
      BY <1>1, InvFacts
    <2>3. QED
      BY <1>1, <1>2, <1>3, <2>1, <2>2 DEF TypeOK, Good, LocalRun, Frame
  <1>5. HeightsNest' /\ StacksMirror' /\ (status = "unwinding" => tainted)'
    BY <1>1, <1>2, FreshMirror DEF HeightsNest, StacksMirror, Good, Validating
  <1>6. QED
    BY <1>4, <1>5 DEF Inv

LEMMA CatchInv == ASSUME Inv, Catch PROVE Inv'
  <1>1. /\ v' = v /\ code' = code /\ control' = control /\ scope' = scope
        /\ tainted' = tainted /\ tainted /\ status' = "running" /\ refused' = <<>>
        /\ runs' = runs /\ numLocals' = numLocals /\ sig' = sig /\ body' = body
    BY DEF Catch, Inv, emission
  <1>2. TypeOK'
    BY <1>1 DEF Inv, TypeOK, Status
  <1>3. HeightsNest' /\ StacksMirror' /\ (status = "unwinding" => tainted)'
    BY <1>1 DEF Inv, HeightsNest, StacksMirror
  <1>4. QED
    BY <1>2, <1>3 DEF Inv

LEMMA InitInv == Init => Inv
  <1> SUFFICES ASSUME Init PROVE Inv
    OBVIOUS
  <1>1. sig \in TypeIdx /\ sig \in Sigs
    BY ConstantTypes DEF Init
  <1>2. Good(v) /\ v.ok
    BY <1>1, InitValidatorGood DEF Init
  <1>3. NoBody \in [runs : Seq(LocalRun), code : Seq(Token)]
    BY DEF NoBody
  <1>4. TypeOK
    <2>1. /\ status \in Status /\ tainted \in BOOLEAN /\ refused \in Seq(Token)
          /\ code \in Seq(Token) /\ control \in Seq(Frame)
          /\ runs \in Seq(LocalRun) /\ numLocals \in Nat
          /\ scope \in Seq(Handle)
      BY NothingYet DEF Init, Status
    <2>2. body \in [runs : Seq(LocalRun), code : Seq(Token)]
      BY <1>3 DEF Init
    <2>3. QED
      BY <1>1, <1>2, <2>1, <2>2 DEF TypeOK, Good, LocalRun, Frame
  <1>5. StacksMirror
    <2>1. SUFFICES ASSUME Validating, status = "running" PROVE Mirror
      BY DEF StacksMirror
    <2>2. v = InitValidator(sig) /\ control = <<>>
      BY <2>1 DEF Init
    <2>3. /\ Len(v.ctrls) = 1 /\ v.ctrls[1].kind = "Func"
          /\ v.ctrls[1].out = TypeResults(sig) /\ Len(control) = 0
      BY <1>1, <2>2, InitValidatorGood
    <2>4. QED
      BY <2>3 DEF Mirror
  <1>6. QED
    BY <1>2, <1>4, <1>5 DEF Inv, Init, HeightsNest, Good

\* Inv is inductive.
LEMMA NextInv == Inv /\ [Next]_vars => Inv'
  <1> SUFFICES ASSUME Inv, [Next]_vars PROVE Inv'
    OBVIOUS
  <1>1. CASE \E i \in Calls : Emit(i)
    BY <1>1, EmitInv
  <1>2. CASE \E t \in LocalTypes, count \in LocalCounts : DeclareLocals(t, count)
    BY <1>2, DeclareLocalsInv
  <1>3. CASE \E kind \in FrameKinds, bt \in BlockTypes : PushFrame(kind, bt)
    BY <1>3, PushFrameInv
  <1>4. CASE Br \/ BrIf \/ BrTable
    BY <1>4, BranchesInv
  <1>5. CASE \E i \in 1 .. Len(scope) :
               EndFrame(i) \/ ElseFrame(i) \/ MoveHandle(i) \/ Detach(i)
    <2>1. PICK i \in 1 .. Len(scope) :
            EndFrame(i) \/ ElseFrame(i) \/ MoveHandle(i) \/ Detach(i)
      BY <1>5
    <2>2. CASE EndFrame(i)
      BY <2>2, EndFrameInv
    <2>3. CASE ElseFrame(i)
      BY <2>3, ElseFrameInv
    <2>4. CASE MoveHandle(i) \/ Detach(i)
      BY <2>4, MovesInv
    <2>5. QED
      BY <2>1, <2>2, <2>3, <2>4
  <1>6. CASE \E i, j \in 1 .. Len(scope) : MoveAssign(i, j)
    BY <1>6, MovesInv
  <1>7. CASE LeaveScope
    BY <1>7, LeaveScopeInv
  <1>8. CASE Finish
    BY <1>8, FinishInv
  <1>9. CASE Catch
    BY <1>9, CatchInv
  <1>10. CASE UseHollow
    <2>1. scope' \in Seq(Handle)
      BY <1>10, InvFacts DEF UseHollow
    <2>2. QED
      BY <1>10, <2>1, StopInv DEF UseHollow
  <1>11. CASE \E s \in Sigs : Rebind(s)
    BY <1>11, RebindInv
  <1>12. CASE UNCHANGED vars
    <2>1. scope' \in Seq(Handle)
      BY <1>12, InvFacts DEF vars
    <2>2. QED
      BY <1>12, <2>1, HandlesInv DEF vars, emission
  <1>13. QED
    BY <1>1, <1>2, <1>3, <1>4, <1>5, <1>6, <1>7, <1>8, <1>9, <1>10, <1>11,
       <1>12 DEF Next

LEMMA SpecInv == Spec => []Inv
  BY InitInv, NextInv, PTL DEF Spec

\* Every variable has its type, whatever the client calls and in any order.
THEOREM TypeCorrect == Spec => []TypeOK
  <1>1. Inv => TypeOK
    BY DEF Inv
  <1>2. QED
    BY SpecInv, <1>1, PTL

\* Frame heights nest within the operand stack, also after any number of
\* calls that failed halfway and were caught.
THEOREM HeightsAlwaysNest == Spec => []HeightsNest
  <1>1. Inv => HeightsNest
    BY DEF Inv
  <1>2. QED
    BY SpecInv, <1>1, PTL

\* The emitter's control stack and the validator's describe the same frames
\* as long as no call was refused, in debug and release builds alike.
THEOREM StacksAlwaysMirror == Spec => []StacksMirror
  <1>1. Inv => StacksMirror
    BY DEF Inv
  <1>2. QED
    BY SpecInv, <1>1, PTL

-----------------------------------------------------------------------------
(***************************************************************************)
(* Handles.  That a live handle denotes its frame is not inductive: ending *)
(* one of two handles of the same depth would leave the other without a    *)
(* frame.  What is inductive is that live handles also have different      *)
(* depths; the assertion in FrameEnd makes the ended one the deepest.      *)
(***************************************************************************)
Denoted == \A i \in 1 .. Len(scope) : Live(scope[i]) =>
             /\ scope[i].depth < Len(control)
             /\ control[scope[i].depth + 1].at = scope[i].at
Distinct == \A i, j \in 1 .. Len(scope) :
              Live(scope[i]) /\ Live(scope[j]) /\ i # j =>
                scope[i].depth # scope[j].depth
Owned == Debug /\ ~LiveResets => Denoted /\ Distinct

\* Each live handle after the step is a live handle from before it, f says
\* which, and the frames are the same.
LEMMA Relabelled ==
  ASSUME Owned, control' = control, NEW f,
         \A i \in 1 .. Len(scope') : Live(scope'[i]) =>
            f[i] \in 1 .. Len(scope) /\ scope'[i] = scope[f[i]],
         \A i, j \in 1 .. Len(scope') :
            Live(scope'[i]) /\ Live(scope'[j]) /\ i # j => f[i] # f[j]
  PROVE  Owned'
  <1> SUFFICES ASSUME Debug, ~LiveResets PROVE Denoted' /\ Distinct'
    BY DEF Owned
  <1>1. Denoted /\ Distinct
    BY DEF Owned
  <1>2. Denoted'
    BY <1>1 DEF Denoted
  <1>3. ASSUME NEW i \in 1 .. Len(scope'), NEW j \in 1 .. Len(scope'),
               Live(scope'[i]), Live(scope'[j]), i # j
        PROVE  scope'[i].depth # scope'[j].depth
    <2>1. /\ f[i] \in 1 .. Len(scope) /\ scope'[i] = scope[f[i]]
          /\ f[j] \in 1 .. Len(scope) /\ scope'[j] = scope[f[j]]
          /\ f[i] # f[j]
      BY <1>3
    <2>2. Live(scope[f[i]]) /\ Live(scope[f[j]])
      BY <1>3, <2>1
    <2>3. QED
      BY <1>1, <2>1, <2>2 DEF Distinct
  <1>4. Distinct'
    BY <1>3 DEF Distinct
  <1>5. QED
    BY <1>2, <1>4

LEMMA OwnedKept ==
  ASSUME Owned, control' = control, scope' = scope PROVE Owned'
  BY DEF Owned, Denoted, Distinct

\* Handles that go away, or are no longer live, take nothing from the others.
LEMMA Fewer ==
  ASSUME Owned, control' = control,
         \A i \in 1 .. Len(scope') : Live(scope'[i]) =>
            i \in 1 .. Len(scope) /\ scope'[i] = scope[i]
  PROVE  Owned'
  <1> DEFINE f == [i \in 1 .. Len(scope') |-> i]
  <1>1. \A i \in 1 .. Len(scope') : f[i] = i
    OBVIOUS
  <1> HIDE DEF f
  <1>2. QED
    BY <1>1, Relabelled

\* Ending the frame of handle i: the others are outside it.
LEMMA FrameEndOwned ==
  ASSUME Inv, Owned, NEW i \in 1 .. Len(scope), Live(scope[i]), NEW s,
         FrameEnd(scope[i].depth, s),
         \A j \in 1 .. Len(scope') : Live(scope'[j]) =>
            j \in 1 .. Len(scope) /\ j # i /\ scope'[j] = scope[j]
  PROVE  Owned'
  <1>1. CASE control' = control
    BY <1>1, Fewer
  <1>2. CASE control' # control
    <2> SUFFICES ASSUME Debug, ~LiveResets PROVE Denoted' /\ Distinct'
      BY DEF Owned
    <2> DEFINE n == Len(control)
    <2>1. Denoted /\ Distinct
      BY DEF Owned
    <2>2. control # <<>> /\ control' = Front(control) /\ Innermost(scope[i].depth)
      BY <1>2 DEF FrameEnd, Stop, RunOut
    <2>3. /\ n \in Nat \ {0} /\ Len(control') = n - 1
          /\ \A k \in 1 .. n - 1 : control'[k] = control[k]
      <3>1. control \in Seq(Frame)
        BY InvFacts
      <3> HIDE DEF n
      <3>2. /\ Len(control) \in Nat \ {0} /\ Len(Front(control)) = Len(control) - 1
            /\ \A k \in 1 .. Len(control) - 1 : Front(control)[k] = control[k]
        BY <2>2, <3>1, FrontProps
      <3>3. QED
        BY <2>2, <3>2 DEF n
    <2>4. scope[i].depth = n - 1
      BY <2>2, <2>3, InvFacts DEF Innermost
    <2>5. ASSUME NEW j \in 1 .. Len(scope'), Live(scope'[j])
          PROVE  /\ scope'[j].depth < Len(control')
                 /\ control'[scope'[j].depth + 1].at = scope'[j].at
      <3>1. j \in 1 .. Len(scope) /\ j # i /\ scope'[j] = scope[j] /\ Live(scope[j])
        BY <2>5
      <3>2. scope[j].depth < n /\ scope[j].depth # n - 1 /\ scope[j].depth \in Nat
            /\ control[scope[j].depth + 1].at = scope[j].at
        BY <2>1, <2>4, <3>1, InvFacts DEF Denoted, Distinct
      <3>3. scope[j].depth + 1 \in 1 .. n - 1
        <4>1. \A d \in Nat : d < n /\ d # n - 1 => d + 1 \in 1 .. n - 1
          BY <2>3
        <4>2. QED
          BY <3>2, <4>1
      <3>4. control'[scope[j].depth + 1] = control[scope[j].depth + 1]
        BY <2>3, <3>3
      <3>5. scope[j].depth < n - 1
        BY <2>3, <3>2
      <3>6. QED
        BY <2>3, <3>1, <3>2, <3>4, <3>5
    <2>6. Distinct'
      BY <2>1 DEF Distinct
    <2>7. QED
      BY <2>5, <2>6 DEF Denoted
  <1>3. QED
    BY <1>1, <1>2

LEMMA PushFrameOwned ==
  ASSUME Inv, Owned, NEW kind \in FrameKinds, NEW bt \in BlockTypes,
         PushFrame(kind, bt)
  PROVE  Owned'
  <1> DEFINE at == Len(code) + 1
             n == Len(control)
             m == Len(scope)
             f == [kind |-> kind, at |-> at]
             h == [owned |-> TRUE, live |-> TRUE, depth |-> Len(control), at |-> at]
  <1>1. CASE control' = control /\ scope' = scope
    BY <1>1, OwnedKept
  <1>2. CASE control' = Append(control, f) /\ scope' = Append(scope, h)
    <2> SUFFICES ASSUME Debug, ~LiveResets PROVE Denoted' /\ Distinct'
      BY DEF Owned
    <2>1. Denoted /\ Distinct
      BY DEF Owned
    <2>2. n \in Nat /\ m \in Nat /\ h.depth = n /\ h.at = at /\ f.at = at
      BY InvFacts
    <2> HIDE DEF h, f
    <2>3. /\ Len(control') = n + 1 /\ control'[n + 1] = f
          /\ \A k \in 1 .. n : control'[k] = control[k]
      BY <1>2, <2>2, InvFacts
    <2>4. /\ Len(scope') = m + 1 /\ scope'[m + 1] = h
          /\ \A k \in 1 .. m : scope'[k] = scope[k]
          /\ \A k \in 1 .. m + 1 : k \in 1 .. m \/ k = m + 1
      BY <1>2, <2>2, InvFacts
    <2>5. ASSUME NEW i \in 1 .. m, Live(scope'[i])
          PROVE  /\ scope'[i].depth < n
                 /\ control'[scope'[i].depth + 1].at = scope'[i].at
      <3>1. scope[i].depth \in Nat /\ scope[i].depth < n
            /\ control[scope[i].depth + 1].at = scope[i].at
        BY <2>1, <2>4, <2>5, InvFacts DEF Denoted
      <3>2. scope[i].depth + 1 \in 1 .. n
        BY <2>2, <3>1
      <3>3. QED
        BY <2>3, <2>4, <3>1, <3>2
    <2>6. Denoted'
      <3>1. ASSUME NEW i \in 1 .. m + 1, Live(scope'[i])
            PROVE  /\ scope'[i].depth < n + 1
                   /\ control'[scope'[i].depth + 1].at = scope'[i].at
        <4>1. CASE i = m + 1
          BY <2>2, <2>3, <2>4, <4>1
        <4>2. CASE i \in 1 .. m
          <5>1. scope'[i].depth < n /\ scope'[i].depth \in Nat
            BY <2>4, <2>5, <3>1, <4>2, InvFacts
          <5>2. QED
            BY <2>2, <2>5, <3>1, <4>2, <5>1
        <4>3. QED
          BY <2>4, <4>1, <4>2
      <3>2. QED
        BY <2>3, <2>4, <3>1 DEF Denoted
    <2>7. Distinct'
      <3>1. \A i \in 1 .. m : Live(scope'[i]) => scope'[i].depth # n
        BY <2>2, <2>4, <2>5, InvFacts
      <3>2. \A i, j \in 1 .. m : Live(scope'[i]) /\ Live(scope'[j]) /\ i # j =>
              scope'[i].depth # scope'[j].depth
        BY <2>1, <2>4 DEF Distinct
      <3>3. QED
        BY <2>2, <2>4, <3>1, <3>2 DEF Distinct
    <2>8. QED
      BY <2>6, <2>7
  <1>3. QED
    BY <1>1, <1>2 DEF PushFrame, Raise, Accept, RunOut

LEMMA MoveOwned ==
  ASSUME Inv, Owned, NEW i \in 1 .. Len(scope), NEW j \in 1 .. Len(scope),
         MoveHandle(i) \/ MoveAssign(i, j)
  PROVE  Owned'
  <1> DEFINE m == MovedFrom(scope[i])
             n == Len(scope)
             f == [k \in 1 .. Len(scope') |-> IF k = n + 1 \/ k = j THEN i ELSE k]
             g == [k \in 1 .. Len(scope') |-> IF k = n + 1 THEN i ELSE k]
  <1>1. ~Live(m) /\ n \in Nat /\ scope \in Seq(Handle) /\ m \in Handle
        /\ scope[i] \in Handle
    <2>1. scope[i] \in Handle /\ m \in Handle /\ scope \in Seq(Handle) /\ n \in Nat
      BY InvFacts, HandleTypes
    <2>2. \A h \in Handle : ~Live(MovedFrom(h))
      BY DEF Live, MovedFrom, Handle
    <2>3. QED
      BY <2>1, <2>2
  <1>2. control' = control
    BY DEF MoveHandle, MoveAssign
  <1>3. CASE MoveHandle(i)
    <2> DEFINE s == [scope EXCEPT ![i] = m]
    <2>1. scope' = Append(s, scope[i])
      BY <1>3 DEF MoveHandle
    <2> HIDE DEF m
    <2>2. /\ s \in Seq(Handle) /\ Len(s) = n
          /\ \A k \in 1 .. n : s[k] = IF k = i THEN m ELSE scope[k]
      BY <1>1, ExceptSeq
    <2> HIDE DEF s
    <2>3. /\ Len(scope') = n + 1 /\ scope'[n + 1] = scope[i]
          /\ \A k \in 1 .. n : scope'[k] = IF k = i THEN m ELSE scope[k]
          /\ \A k \in 1 .. n + 1 : k \in 1 .. n \/ k = n + 1
      <3>1. /\ Len(scope') = n + 1 /\ scope'[n + 1] = scope[i]
            /\ \A k \in 1 .. n : scope'[k] = s[k]
        BY <1>1, <2>1, <2>2
      <3>2. \A k \in 1 .. n : scope'[k] = IF k = i THEN m ELSE scope[k]
        BY <2>2, <3>1
      <3>3. \A k \in 1 .. n + 1 : k \in 1 .. n \/ k = n + 1
        BY <1>1
      <3>4. QED
        BY <3>1, <3>2, <3>3
    <2>4. \A k \in 1 .. n + 1 : g[k] = IF k = n + 1 THEN i ELSE k
      BY <2>3
    <2> HIDE DEF g
    <2>5. \A k \in 1 .. n + 1 : Live(scope'[k]) =>
            g[k] \in 1 .. n /\ scope'[k] = scope[g[k]] /\ k # i
      BY <1>1, <2>3, <2>4
    <2>6. \A k, l \in 1 .. n + 1 : Live(scope'[k]) /\ Live(scope'[l]) /\ k # l =>
            g[k] # g[l]
      BY <2>4, <2>5
    <2>7. QED
      BY <1>2, <2>3, <2>5, <2>6, Relabelled
  <1>4. CASE MoveAssign(i, j)
    <2> DEFINE s == [scope EXCEPT ![j] = scope[i]]
    <2>1. scope' = [s EXCEPT ![i] = m] /\ i # j
      BY <1>4 DEF MoveAssign
    <2> HIDE DEF m
    <2>2. /\ s \in Seq(Handle) /\ Len(s) = n
          /\ \A k \in 1 .. n : s[k] = IF k = j THEN scope[i] ELSE scope[k]
      BY <1>1, ExceptSeq
    <2> HIDE DEF s
    <2>3. /\ Len(scope') = n
          /\ \A k \in 1 .. n : scope'[k] = IF k = i THEN m ELSE s[k]
      BY <1>1, <2>1, <2>2, ExceptSeq
    <2>4. \A k \in 1 .. n : f[k] = IF k = j THEN i ELSE k
      BY <1>1, <2>3
    <2> HIDE DEF f
    <2>5. \A k \in 1 .. n : Live(scope'[k]) =>
            f[k] \in 1 .. n /\ scope'[k] = scope[f[k]] /\ k # i
      BY <1>1, <2>1, <2>2, <2>3, <2>4
    <2>6. \A k, l \in 1 .. n : Live(scope'[k]) /\ Live(scope'[l]) /\ k # l =>
            f[k] # f[l]
      BY <2>4, <2>5
    <2>7. /\ \A k \in 1 .. Len(scope') : Live(scope'[k]) =>
               f[k] \in 1 .. Len(scope) /\ scope'[k] = scope[f[k]]
          /\ \A k, l \in 1 .. Len(scope') :
               Live(scope'[k]) /\ Live(scope'[l]) /\ k # l => f[k] # f[l]
      BY <2>3, <2>5, <2>6
    <2> HIDE DEF n
    <2>8. QED
      BY <1>2, <2>7, Relabelled
  <1>5. QED
    BY <1>3, <1>4

\* A handle is marked or leaves scope.
LEMMA MarkOwned ==
  ASSUME Inv, Owned, NEW i \in 1 .. Len(scope), EndFrame(i) \/ Detach(i)
  PROVE  Owned'
  <1> DEFINE d == [scope[i] EXCEPT !.live = FALSE]
  <1>1. scope' = [scope EXCEPT ![i] = d] /\ d \in Handle /\ ~Live(d)
        /\ Live(scope[i])
    BY InvFacts, HandleTypes DEF EndFrame, Detach, Handle, Live
  <1> HIDE DEF d
  <1>2. /\ Len(scope') = Len(scope)
        /\ \A k \in 1 .. Len(scope) : scope'[k] = IF k = i THEN d ELSE scope[k]
    BY <1>1, InvFacts, ExceptSeq
  <1>3. \A j \in 1 .. Len(scope') : Live(scope'[j]) =>
           j \in 1 .. Len(scope) /\ j # i /\ scope'[j] = scope[j]
    BY <1>1, <1>2
  <1>4. CASE EndFrame(i)
    BY <1>1, <1>3, <1>4, FrameEndOwned DEF EndFrame
  <1>5. CASE Detach(i)
    BY <1>3, <1>5, Fewer DEF Detach
  <1>6. QED
    BY <1>4, <1>5

LEMMA LeaveScopeOwned == ASSUME Inv, Owned, LeaveScope PROVE Owned'
  <1> DEFINE n == Len(scope)
             s == IF ErrorPolicy = "abort" THEN "aborted" ELSE "terminated"
  <1>1. scope # <<>> /\ scope' = Front(scope)
    BY DEF LeaveScope
  <1>2. /\ n \in Nat \ {0} /\ n \in 1 .. n /\ Len(scope') = n - 1
        /\ \A k \in 1 .. n - 1 : k \in 1 .. n /\ k # n /\ scope'[k] = scope[k]
    BY <1>1, InvFacts, FrontProps
  <1>3. CASE UNCHANGED <<v, code, control, status, tainted, refused>>
    BY <1>2, <1>3, Fewer
  <1>4. CASE Live(scope[n]) /\ FrameEnd(scope[n].depth, s)
    BY <1>2, <1>4, FrameEndOwned
  <1>5. QED
    BY <1>3, <1>4 DEF LeaveScope

LEMMA RebindOwned == ASSUME Owned, NEW s \in Sigs, Rebind(s) PROVE Owned'
  BY DEF Owned, Denoted, Distinct, Rebind

LEMMA NextOwned == Inv /\ Owned /\ [Next]_vars => Owned'
  <1> SUFFICES ASSUME Inv, Owned, [Next]_vars PROVE Owned'
    OBVIOUS
  <1>1. CASE \E i \in Calls : Emit(i)
    BY <1>1, OwnedKept DEF Emit, Raise, RunOut
  <1>2. CASE \E t \in LocalTypes, count \in LocalCounts : DeclareLocals(t, count)
    BY <1>2, OwnedKept DEF DeclareLocals
  <1>3. CASE \E kind \in FrameKinds, bt \in BlockTypes : PushFrame(kind, bt)
    BY <1>3, PushFrameOwned
  <1>4. CASE Br \/ BrIf \/ BrTable
    BY <1>4, OwnedKept DEF Br, BrIf, BrTable, EmitBranch, Raise, RunOut
  <1>5. CASE \E i \in 1 .. Len(scope) : EndFrame(i) \/ Detach(i)
    BY <1>5, MarkOwned
  <1>6. CASE \E i \in 1 .. Len(scope) : ElseFrame(i)
    BY <1>6, OwnedKept DEF ElseFrame, Raise, RunOut, Stop
  <1>7. CASE \E i \in 1 .. Len(scope) : MoveHandle(i)
    BY <1>7, MoveOwned
  <1>8. CASE \E i, j \in 1 .. Len(scope) : MoveAssign(i, j)
    BY <1>8, MoveOwned
  <1>9. CASE LeaveScope
    BY <1>9, LeaveScopeOwned
  <1>10. CASE Finish
    BY <1>10, OwnedKept DEF Finish, Raise, RunOut, RunOutOfLocals, Stop
  <1>11. CASE Catch
    BY <1>11, OwnedKept DEF Catch
  <1>12. CASE UseHollow
    BY <1>12, OwnedKept DEF UseHollow, Stop
  <1>13. CASE \E s \in Sigs : Rebind(s)
    BY <1>13, RebindOwned
  <1>14. CASE UNCHANGED vars
    BY <1>14, OwnedKept DEF vars
  <1>15. QED
    BY <1>1, <1>2, <1>3, <1>4, <1>5, <1>6, <1>7, <1>8, <1>9, <1>10, <1>11,
       <1>12, <1>13, <1>14 DEF Next

\* In a debug build a live handle denotes the frame it was made for, however
\* handles were moved, assigned, detached, abandoned or unwound.
THEOREM HandlesAlwaysDenoteFrames == Spec => []HandlesDenoteFrames
  <1>1. Init => Owned
    BY DEF Init, Owned, Denoted, Distinct
  <1>2. Owned => HandlesDenoteFrames
    BY DEF Owned, Denoted, HandlesDenoteFrames
  <1>3. QED
    BY SpecInv, NextOwned, <1>1, <1>2, PTL DEF Spec

-----------------------------------------------------------------------------
(***************************************************************************)
(* Local declarations.  A function that meets the recursion of Expand up   *)
(* to a run can be cut before it and extended behind it.  So both facts,   *)
(* that there is one and that each of them gives the locals of the         *)
(* validator, pass from state to state.                                    *)
(***************************************************************************)
Block(r) == [k \in 1 .. r.count |-> r.type]
Decodes(g, rs, m) ==
  g = [n \in 0 .. m |-> IF n = 0 THEN <<>> ELSE g[n - 1] \o Block(rs[n])]

\* ds are total locals, and those that validator w has behind the parameters
\* of s, in status st.
Agrees(ds, total, w, s, st) ==
  /\ Len(ds) = total
  /\ Validating /\ st # "unbound" => w.locals = TypeParams(s) \o ds
HasDecoding == \E g : Decodes(g, runs, Len(runs))
RightDecoding ==
  \A g : Decodes(g, runs, Len(runs)) =>
    /\ \A n \in 0 .. Len(runs) : g[n] \in Seq(ValTypes)
    /\ Agrees(g[Len(runs)], numLocals, v, sig, status)
LocalsInv == HasDecoding /\ RightDecoding

LEMMA DecodeValues ==
  ASSUME NEW g, NEW rs, NEW m \in Nat, Decodes(g, rs, m)
  PROVE  g[0] = <<>> /\ \A n \in 1 .. m : g[n] = g[n - 1] \o Block(rs[n])
  <1> DEFINE F == [n \in 0 .. m |-> IF n = 0 THEN <<>> ELSE g[n - 1] \o Block(rs[n])]
  <1>1. g = F
    BY Zenon DEF Decodes
  <1>2. F[0] = <<>>
    <2>1. 0 \in 0 .. m
      OBVIOUS
    <2>2. QED
      BY <2>1, Zenon
  <1>3. ASSUME NEW n \in 1 .. m PROVE F[n] = g[n - 1] \o Block(rs[n])
    <2>1. n \in 0 .. m /\ n # 0
      OBVIOUS
    <2>2. QED
      BY <2>1, Zenon
  <1> HIDE DEF F
  <1>4. QED
    BY <1>1, <1>2, <1>3

\* Values as those of DecodeValues are enough.
LEMMA DecodeFrom ==
  ASSUME NEW g, NEW rs, NEW m \in Nat, g = [n \in 0 .. m |-> g[n]],
         g[0] = <<>>, \A n \in 1 .. m : g[n] = g[n - 1] \o Block(rs[n])
  PROVE  Decodes(g, rs, m)
  <1> DEFINE F == [n \in 0 .. m |-> IF n = 0 THEN <<>> ELSE g[n - 1] \o Block(rs[n])]
  <1>1. ASSUME NEW n \in 0 .. m PROVE g[n] = F[n]
    <2>1. CASE n = 0
      BY <2>1
    <2>2. CASE n # 0
      BY <2>2
    <2>3. QED
      BY <2>1, <2>2
  <1>2. F = [n \in 0 .. m |-> F[n]]
    OBVIOUS
  <1> HIDE DEF F
  <1>3. g = F
    BY <1>1, <1>2
  <1>4. QED
    BY <1>3, Zenon DEF Decodes, F

LEMMA DecodeCut ==
  ASSUME NEW g, NEW rs, NEW qs, NEW m \in Nat, Decodes(g, rs, m + 1),
         \A n \in 1 .. m : qs[n] = rs[n]
  PROVE  Decodes([n \in 0 .. m |-> g[n]], qs, m)
  <1> DEFINE h == [n \in 0 .. m |-> g[n]]
  <1>1. ASSUME NEW n \in 1 .. m PROVE h[n] = h[n - 1] \o Block(qs[n])
    <2>1. n \in 1 .. m + 1 /\ n \in 0 .. m /\ n - 1 \in 0 .. m
      OBVIOUS
    <2>2. g[n] = g[n - 1] \o Block(rs[n])
      <3>1. m + 1 \in Nat
        OBVIOUS
      <3>2. QED
        BY <2>1, <3>1, DecodeValues
    <2>3. h[n] = g[n] /\ h[n - 1] = g[n - 1]
      BY <2>1
    <2> HIDE DEF h
    <2>4. QED
      BY <2>2, <2>3
  <1>2. h[0] = g[0] /\ h = [n \in 0 .. m |-> h[n]]
    OBVIOUS
  <1>3. g[0] = <<>>
    <2>1. m + 1 \in Nat
      OBVIOUS
    <2>2. QED
      BY <2>1, DecodeValues
  <1> HIDE DEF h
  <1>4. Decodes(h, qs, m)
    BY <1>1, <1>2, <1>3, DecodeFrom
  <1>5. QED
    BY <1>4 DEF h

LEMMA DecodeExtend ==
  ASSUME NEW g, NEW rs, NEW qs, NEW m \in Nat, Decodes(g, rs, m),
         \A n \in 1 .. m : qs[n] = rs[n]
  PROVE  \E h : Decodes(h, qs, m + 1) /\ \A n \in 0 .. m : h[n] = g[n]
  <1> DEFINE last == g[m] \o Block(qs[m + 1])
             h == [n \in 0 .. m + 1 |-> IF n = m + 1 THEN last ELSE g[n]]
  <1>1. ASSUME NEW n \in 1 .. m + 1 PROVE h[n] = h[n - 1] \o Block(qs[n])
    <2>1. n - 1 \in 0 .. m + 1 /\ n - 1 # m + 1
      OBVIOUS
    <2>2. h[n - 1] = g[n - 1]
      BY <2>1
    <2>3. CASE n = m + 1
      <3>1. m + 1 \in 0 .. m + 1 /\ n - 1 = m
        BY <2>3
      <3>2. h[m + 1] = last
        BY <3>1
      <3> HIDE DEF h
      <3>3. QED
        BY <2>2, <2>3, <3>1, <3>2
    <2>4. CASE n # m + 1
      <3>1. n \in 1 .. m /\ h[n] = g[n]
        BY <2>4
      <3> HIDE DEF h
      <3>2. g[n] = g[n - 1] \o Block(rs[n])
        BY <3>1, DecodeValues
      <3>3. QED
        BY <2>2, <3>1, <3>2
    <2>5. QED
      BY <2>3, <2>4
  <1>2. h[0] = g[0] /\ h = [n \in 0 .. m + 1 |-> h[n]] /\ \A n \in 0 .. m : h[n] = g[n]
    OBVIOUS
  <1>3. g[0] = <<>> /\ m + 1 \in Nat
    <2>1. g[0] = <<>>
      BY DecodeValues
    <2>2. QED
      BY <2>1
  <1> HIDE DEF h
  <1>4. Decodes(h, qs, m + 1)
    BY <1>1, <1>2, <1>3, DecodeFrom
  <1>5. QED
    BY <1>2, <1>4

\* A block of equal types in two parts.
LEMMA BlockParts ==
  ASSUME NEW t, NEW a \in Nat, NEW b \in Nat
  PROVE  [k \in 1 .. a |-> t] \o [k \in 1 .. b |-> t] = [k \in 1 .. a + b |-> t]
  <1> DEFINE one == [k \in 1 .. a |-> t]
             two == [k \in 1 .. b |-> t]
             both == [k \in 1 .. a + b |-> t]
  <1>1. /\ one \in Seq({t}) /\ Len(one) = a /\ two \in Seq({t}) /\ Len(two) = b
        /\ both \in Seq({t}) /\ Len(both) = a + b
    OBVIOUS
  <1> HIDE DEF one, two, both
  <1>2. one \o two \in Seq({t}) /\ Len(one \o two) = a + b
    BY <1>1, ConcatProperties
  <1>3. ASSUME NEW k \in 1 .. a + b PROVE (one \o two)[k] = both[k]
    <2>1. (one \o two)[k] \in {t}
      BY <1>2, ElementOfSeq
    <2>2. both[k] \in {t}
      BY <1>1, ElementOfSeq
    <2>3. QED
      BY <2>1, <2>2
  <1>4. one \o two = both
    BY <1>1, <1>2, <1>3, SeqEqual
  <1>5. QED
    BY <1>4 DEF one, two, both

LEMMA ThreeParts ==
  ASSUME NEW a \in Seq(ValTypes), NEW b \in Seq(ValTypes), NEW c \in Seq(ValTypes)
  PROVE  (a \o b) \o c = a \o (b \o c)
  BY ConcatAssociative

\* One more block: the locals grow by it, in the validator, in the count, and
\* for a reader.
LEMMA OneMoreBlock ==
  ASSUME Inv, NEW ds \in Seq(ValTypes), Agrees(ds, numLocals, v, sig, status),
         NEW t \in LocalTypes, NEW count \in LocalCounts, DeclareLocals(t, count),
         NEW block, block = [k \in 1 .. count |-> t]
  PROVE  /\ ds \o block \in Seq(ValTypes)
         /\ Agrees(ds \o block, numLocals', v', sig', status')
  <1>1. t \in ValTypes /\ count \in Nat /\ numLocals \in Nat
    BY ConstantTypes, InvFacts DEF EmissionOK
  <1>2. block \in Seq(ValTypes) /\ Len(block) = count
    BY <1>1
  <1>3. /\ status = "running" /\ status' = status /\ sig' = sig
        /\ numLocals' = numLocals + count
        /\ v' = IF Validating THEN AddLocals(v, t, count) ELSE v
    BY DEF DeclareLocals
  <1>4. Validating => v'.locals = v.locals \o block
    <2>1. v \in Validators
      BY InvFacts DEF Good
    <2>2. QED
      BY <1>3, <2>1 DEF AddLocals, Validators
  <1>5. TypeParams(sig) \in Seq(ValTypes)
    BY InvFacts, ConstantTypes, ModuleTypes DEF EmissionOK
  <1>6. ds \o block \in Seq(ValTypes) /\ Len(ds \o block) = Len(ds) + count
    BY <1>2, ConcatProperties, ZenonT(30)
  <1>7. Len(ds \o block) = numLocals'
    <2>1. Len(ds) = numLocals
      BY DEF Agrees
    <2>2. QED
      BY <1>3, <1>6, <2>1
  <1>8. ASSUME Validating PROVE v'.locals = TypeParams(sig') \o (ds \o block)
    <2>1. v.locals = TypeParams(sig) \o ds
      BY <1>3, <1>8 DEF Agrees
    <2>2. (TypeParams(sig) \o ds) \o block = TypeParams(sig) \o (ds \o block)
      BY <1>2, <1>5, ThreeParts
    <2>3. QED
      BY <1>3, <1>4, <1>8, <2>1, <2>2
  <1>9. QED
    BY <1>6, <1>7, <1>8 DEF Agrees

\* A run of another type.
LEMMA NewRun ==
  ASSUME Inv, LocalsInv, NEW t \in LocalTypes, NEW count \in LocalCounts,
         DeclareLocals(t, count), ~ (Len(runs) > 0 /\ runs[Len(runs)].type = t)
  PROVE  LocalsInv'
  <1> DEFINE e == [type |-> t, count |-> count]
  <1>1. t \in ValTypes /\ count \in Nat /\ runs \in Seq(LocalRun)
    BY ConstantTypes, InvFacts DEF EmissionOK
  <1>2. runs' = Append(runs, e) /\ e \in LocalRun
    BY <1>1 DEF DeclareLocals, LocalRun
  <1>3. PICK n : n = Len(runs)
    OBVIOUS
  <1>4. PICK block : block = [k \in 1 .. count |-> t]
    OBVIOUS
  <1>5. Block(e) = block
    BY <1>4 DEF Block
  <1> HIDE DEF e
  <1>6. /\ n \in Nat /\ Len(runs') = n + 1 /\ runs'[n + 1] = e
        /\ \A k \in 1 .. n : runs'[k] = runs[k] /\ runs[k] = runs'[k]
    BY <1>1, <1>2, <1>3
  <1>7. HasDecoding'
    <2>1. PICK g : Decodes(g, runs, n)
      BY <1>3 DEF LocalsInv, HasDecoding
    <2>2. \E h : Decodes(h, runs', n + 1)
      BY <1>6, <2>1, DecodeExtend
    <2>3. QED
      BY <1>6, <2>2 DEF HasDecoding
  <1>8. ASSUME NEW g, Decodes(g, runs', n + 1)
        PROVE  /\ \A k \in 0 .. n + 1 : g[k] \in Seq(ValTypes)
               /\ Agrees(g[n + 1], numLocals', v', sig', status')
    <2> DEFINE h == [k \in 0 .. n |-> g[k]]
    <2>1. Decodes(h, runs, n)
      BY <1>6, <1>8, DecodeCut
    <2>2. \A k \in 0 .. n : h[k] = g[k]
      OBVIOUS
    <2> HIDE DEF h
    <2>3. /\ \A k \in 0 .. n : h[k] \in Seq(ValTypes)
          /\ Agrees(h[n], numLocals, v, sig, status)
      BY <1>3, <2>1 DEF LocalsInv, RightDecoding
    <2>4. n + 1 \in 1 .. n + 1 /\ n + 1 \in Nat /\ (n + 1) - 1 = n /\ n \in 0 .. n
      BY <1>6
    <2>5. g[n + 1] = g[n] \o Block(runs'[n + 1])
      <3>1. \A k \in 1 .. n + 1 : g[k] = g[k - 1] \o Block(runs'[k])
        BY <1>8, <2>4, DecodeValues
      <3>2. QED
        BY <2>4, <3>1
    <2>6. g[n + 1] = h[n] \o block
      BY <1>5, <1>6, <2>2, <2>4, <2>5
    <2>7. h[n] \in Seq(ValTypes)
      BY <2>3, <2>4
    <2>8. /\ h[n] \o block \in Seq(ValTypes)
          /\ Agrees(h[n] \o block, numLocals', v', sig', status')
      BY <1>4, <2>3, <2>7, OneMoreBlock
    <2>9. ASSUME NEW k \in 0 .. n + 1 PROVE g[k] \in Seq(ValTypes)
      <3>1. CASE k = n + 1
        BY <2>6, <2>8, <3>1
      <3>2. CASE k # n + 1
        <4>1. k \in 0 .. n
          BY <1>6, <3>2
        <4>2. QED
          BY <2>2, <2>3, <4>1
      <3>3. QED
        BY <3>1, <3>2
    <2>10. QED
      BY <2>6, <2>8, <2>9
  <1>9. RightDecoding'
    BY <1>6, <1>8 DEF RightDecoding
  <1>10. QED
    BY <1>7, <1>9 DEF LocalsInv

\* A run of the type of the last one is merged with it.
LEMMA MergedRun ==
  ASSUME Inv, LocalsInv, NEW t \in LocalTypes, NEW count \in LocalCounts,
         DeclareLocals(t, count), Len(runs) > 0, runs[Len(runs)].type = t
  PROVE  LocalsInv'
  <1>1. t \in ValTypes /\ count \in Nat /\ runs \in Seq(LocalRun)
    BY ConstantTypes, InvFacts DEF EmissionOK
  <1>2. PICK n : n = Len(runs)
    OBVIOUS
  <1>3. PICK block : block = [k \in 1 .. count |-> t]
    OBVIOUS
  <1>4. PICK m : m = n - 1
    OBVIOUS
  <1>5. m \in Nat /\ m + 1 = n /\ n \in 1 .. Len(runs) /\ n \in Nat
    BY <1>1, <1>2, <1>4
  <1> DEFINE e == [runs[n] EXCEPT !.count = @ + count]
             last == runs[n].count
  <1>6. runs[n] \in LocalRun /\ last \in Nat
    <2>1. runs[n] \in LocalRun
      BY <1>1, <1>5, ElementOfSeq
    <2>2. QED
      BY <2>1 DEF LocalRun
  <1>7. e.count = last + count /\ e.type = t /\ e \in LocalRun
    BY <1>1, <1>2, <1>6 DEF LocalRun
  <1>8. runs' = [runs EXCEPT ![n] = e]
    BY <1>2 DEF DeclareLocals
  <1> HIDE DEF e
  <1>9. /\ Len(runs') = n /\ runs'[n] = e
        /\ \A k \in 1 .. m : runs'[k] = runs[k] /\ runs[k] = runs'[k]
    <2>1. /\ Len(runs') = Len(runs)
          /\ \A k \in 1 .. Len(runs) : runs'[k] = IF k = n THEN e ELSE runs[k]
      BY <1>1, <1>5, <1>7, <1>8, ExceptSeq
    <2>2. QED
      BY <1>2, <1>5, <2>1
  <1>10. Block(e) = Block(runs[n]) \o block
    <2>1. Block(runs[n]) = [k \in 1 .. last |-> t]
      BY <1>2 DEF Block
    <2>2. Block(e) = [k \in 1 .. last + count |-> t]
      BY <1>7 DEF Block
    <2> HIDE DEF last
    <2>3. QED
      BY <1>1, <1>3, <1>6, <2>1, <2>2, BlockParts
  <1>11. Block(runs[n]) \in Seq(ValTypes) /\ block \in Seq(ValTypes)
    BY <1>1, <1>2, <1>3, <1>6 DEF Block
  <1> HIDE DEF last
  <1>12. HasDecoding'
    <2>1. PICK g : Decodes(g, runs, n)
      BY <1>2 DEF LocalsInv, HasDecoding
    <2> DEFINE h == [k \in 0 .. m |-> g[k]]
    <2>2. Decodes(g, runs, m + 1)
      BY <1>5, <2>1
    <2>3. Decodes(h, runs', m)
      BY <1>5, <1>9, <2>2, DecodeCut
    <2> HIDE DEF h
    <2>4. \E f : Decodes(f, runs', m + 1)
      BY <1>5, <2>3, DecodeExtend
    <2>5. QED
      BY <1>5, <1>9, <2>4 DEF HasDecoding
  <1>13. ASSUME NEW g, Decodes(g, runs', n)
         PROVE  /\ \A k \in 0 .. n : g[k] \in Seq(ValTypes)
                /\ Agrees(g[n], numLocals', v', sig', status')
    <2> DEFINE h == [k \in 0 .. m |-> g[k]]
    <2>1. Decodes(g, runs', m + 1)
      BY <1>5, <1>13
    <2>2. Decodes(h, runs, m)
      BY <1>5, <1>9, <2>1, DecodeCut
    <2>3. \A k \in 0 .. m : h[k] = g[k]
      OBVIOUS
    <2> HIDE DEF h
    <2>4. PICK f : Decodes(f, runs, m + 1) /\ \A k \in 0 .. m : f[k] = h[k]
      BY <1>5, <2>2, DecodeExtend
    <2>5. Decodes(f, runs, n)
      BY <1>5, <2>4
    <2>6. /\ \A k \in 0 .. n : f[k] \in Seq(ValTypes)
          /\ Agrees(f[n], numLocals, v, sig, status)
      BY <1>2, <2>5 DEF LocalsInv, RightDecoding
    <2>7. m \in 0 .. m /\ m \in 0 .. n /\ n \in 0 .. n /\ n \in 1 .. n /\ n - 1 = m
      BY <1>5
    <2>8. f[n] = f[m] \o Block(runs[n])
      <3>1. n \in Nat
        BY <1>5
      <3>2. \A k \in 1 .. n : f[k] = f[k - 1] \o Block(runs[k])
        BY <3>1, <2>5, DecodeValues
      <3>3. QED
        BY <2>7, <3>2
    <2>9. g[n] = g[m] \o Block(e)
      <3>1. n \in Nat
        BY <1>5
      <3>2. \A k \in 1 .. n : g[k] = g[k - 1] \o Block(runs'[k])
        BY <3>1, <1>13, DecodeValues
      <3>3. QED
        BY <1>9, <2>7, <3>2
    <2>10. f[m] = g[m] /\ f[m] \in Seq(ValTypes) /\ f[n] \in Seq(ValTypes)
      BY <2>3, <2>4, <2>6, <2>7
    <2>11. g[n] = f[n] \o block
      <3>1. (f[m] \o Block(runs[n])) \o block = f[m] \o (Block(runs[n]) \o block)
        <4>1. /\ f[m] \in Seq(ValTypes) /\ Block(runs[n]) \in Seq(ValTypes)
              /\ block \in Seq(ValTypes)
          BY <1>11, <2>10
        <4>2. QED
          BY <4>1, ThreeParts, Zenon
      <3>2. QED
        BY <1>10, <2>8, <2>9, <2>10, <3>1
    <2>12. /\ f[n] \o block \in Seq(ValTypes)
           /\ Agrees(f[n] \o block, numLocals', v', sig', status')
      BY <1>3, <2>6, <2>10, OneMoreBlock
    <2>13. ASSUME NEW k \in 0 .. n PROVE g[k] \in Seq(ValTypes)
      <3>1. CASE k = n
        BY <2>11, <2>12, <3>1
      <3>2. CASE k # n
        <4>1. k \in 0 .. m
          BY <1>5, <3>2
        <4>2. QED
          BY <2>3, <2>4, <2>6, <2>13, <4>1
      <3>3. QED
        BY <3>1, <3>2
    <2>14. QED
      BY <2>11, <2>12, <2>13
  <1>14. RightDecoding'
    BY <1>9, <1>13 DEF RightDecoding
  <1>15. QED
    BY <1>12, <1>14 DEF LocalsInv

\* Every other step leaves the declarations and the locals alone.
SameDeclared ==
  /\ UNCHANGED <<runs, numLocals, sig>>
  /\ Validating => v'.locals = v.locals
  /\ status' # "unbound" => status # "unbound"

LEMMA OutcomeLocals ==
  ASSUME Inv, NEW w, Validating => SameLocals(v, w),
         Validating => v' \in {v, w, [w EXCEPT !.ok = TRUE]}
  PROVE  Validating => v'.locals = v.locals
  <1> SUFFICES ASSUME Validating PROVE v'.locals = v.locals
    OBVIOUS
  <1>1. "locals" \in DOMAIN v
    <2>1. v \in Validators
      BY InvFacts DEF Good
    <2>2. QED
      BY <2>1 DEF Validators
  <1>2. SameLocals(w, [w EXCEPT !.ok = TRUE])
    BY OtherFields
  <1>3. QED
    BY <1>1, <1>2 DEF SameLocals

LEMMA EmitLocals == ASSUME Inv, NEW i \in Calls, Emit(i) PROVE SameDeclared
  <1> DEFINE w == Hook(v, i)
  <1>1. Validating => SameLocals(v, w)
    <2> SUFFICES ASSUME Validating PROVE SameLocals(v, w)
      OBVIOUS
    <2>1. Busy(v) /\ i \in Instructions
      BY InvFacts, ConstantTypes DEF Emit, CanEmit
    <2>2. Keeps(v, w)
      BY <2>1, HookKeeps
    <2> HIDE DEF w
    <2>3. QED
      BY <2>2 DEF Keeps, SameFrames, SameLocals, Good, Validators
  <1> HIDE DEF w
  <1>2. v' \in {v, w, [w EXCEPT !.ok = TRUE]} /\ status # "unbound"
    BY DEF Emit, CanEmit, Raise, Accept, RunOut, w
  <1>3. UNCHANGED <<runs, numLocals, sig>>
    BY DEF Emit, emission
  <1>4. QED
    BY <1>1, <1>2, <1>3, OutcomeLocals DEF SameDeclared

LEMMA PushFrameLocals ==
  ASSUME Inv, NEW kind, NEW bt, PushFrame(kind, bt) PROVE SameDeclared
  <1> DEFINE w == OnCtrlStart(v, kind, bt)
  <1>1. SameLocals(v, w)
    BY ControlLocals
  <1> HIDE DEF w
  <1>2. v' \in {v, w, [w EXCEPT !.ok = TRUE]} /\ status # "unbound"
    BY DEF PushFrame, CanEmit, Raise, Accept, RunOut, w
  <1>3. UNCHANGED <<runs, numLocals, sig>>
    BY DEF PushFrame, emission
  <1>4. QED
    BY <1>1, <1>2, <1>3, OutcomeLocals DEF SameDeclared

LEMMA EmitBranchLocals ==
  ASSUME Inv, NEW op \in BranchOps, NEW hs, EmitBranch(op, hs) PROVE SameDeclared
  <1> DEFINE rels == [k \in 1 .. Len(hs) |-> RelDepth(scope[hs[k]])]
             w == OnBranch(op, rels)
  <1>1. SameLocals(v, w)
    <2> HIDE DEF rels
    <2>1. w \in {OnBr(v, rels[1]), OnBrIf(v, rels[1]), OnBrTable(v, rels)}
      BY DEF OnBranch, BranchOps
    <2>2. QED
      BY <2>1, BranchLocals
  <1> HIDE DEF w
  <1>2. v' \in {v, w, [w EXCEPT !.ok = TRUE]} /\ status # "unbound"
    BY DEF EmitBranch, CanEmit, Raise, Accept, RunOut, w
  <1>3. UNCHANGED <<runs, numLocals, sig>>
    BY DEF EmitBranch, emission
  <1>4. QED
    BY <1>1, <1>2, <1>3, OutcomeLocals DEF SameDeclared

LEMMA FrameEndLocals ==
  ASSUME Inv, NEW depth, NEW s, FrameEnd(depth, s), UNCHANGED emission,
         status # "unbound"
  PROVE  SameDeclared
  <1> DEFINE w == OnEnd(v)
  <1>1. SameLocals(v, w)
    BY ControlLocals
  <1> HIDE DEF w
  <1>2. v' \in {v, w, [w EXCEPT !.ok = TRUE]}
    BY DEF FrameEnd, Stop, Accept, RunOut, w
  <1>3. QED
    BY <1>1, <1>2, OutcomeLocals DEF SameDeclared, emission

LEMMA ElseFrameLocals ==
  ASSUME Inv, NEW i, ElseFrame(i) PROVE SameDeclared
  <1> DEFINE w == OnElse(v)
  <1>1. SameLocals(v, w)
    BY ControlLocals
  <1> HIDE DEF w
  <1>2. v' \in {v, w, [w EXCEPT !.ok = TRUE]} /\ status # "unbound"
    BY DEF ElseFrame, CanEmit, Stop, Raise, Accept, RunOut, w
  <1>3. UNCHANGED <<runs, numLocals, sig>>
    BY DEF ElseFrame, emission
  <1>4. QED
    BY <1>1, <1>2, <1>3, OutcomeLocals DEF SameDeclared

LEMMA FinishLocals == ASSUME Inv, Finish PROVE SameDeclared
  <1> DEFINE w == OnFunctionEnd(v)
  <1>1. SameLocals(v, w)
    BY ControlLocals
  <1> HIDE DEF w
  <1>2. v' \in {v, w, [w EXCEPT !.ok = TRUE]} /\ status # "unbound"
    BY DEF Finish, Stop, Raise, RunOut, RunOutOfLocals, w
  <1>3. UNCHANGED <<runs, numLocals, sig>>
    BY DEF Finish
  <1>4. QED
    BY <1>1, <1>2, <1>3, OutcomeLocals DEF SameDeclared

LEMMA SameDecoding == ASSUME LocalsInv, SameDeclared PROVE LocalsInv'
  <1>1. HasDecoding'
    BY DEF SameDeclared, LocalsInv, HasDecoding
  <1>2. RightDecoding'
    <2> SUFFICES ASSUME NEW g, Decodes(g, runs, Len(runs))
                 PROVE  /\ \A n \in 0 .. Len(runs) : g[n] \in Seq(ValTypes)
                        /\ Agrees(g[Len(runs)], numLocals, v', sig, status')
      BY DEF SameDeclared, RightDecoding
    <2>1. /\ \A n \in 0 .. Len(runs) : g[n] \in Seq(ValTypes)
          /\ Agrees(g[Len(runs)], numLocals, v, sig, status)
      BY DEF LocalsInv, RightDecoding
    <2>2. QED
      BY <2>1 DEF Agrees, SameDeclared
  <1>3. QED
    BY <1>1, <1>2 DEF LocalsInv

\* No declarations yet.
LEMMA NoRuns ==
  ASSUME NEW rs, rs = <<>>, NEW s \in TypeIdx, NEW w, NEW st,
         Validating /\ st # "unbound" => w = InitValidator(s)
  PROVE  /\ \E g : Decodes(g, rs, Len(rs))
         /\ \A g : Decodes(g, rs, Len(rs)) =>
              /\ \A n \in 0 .. Len(rs) : g[n] \in Seq(ValTypes)
              /\ Agrees(g[Len(rs)], 0, w, s, st)
  <1>1. Len(rs) = 0
    OBVIOUS
  <1>2. \E g : Decodes(g, rs, 0)
    <2> DEFINE g == [n \in 0 .. 0 |-> <<>>]
    <2>1. g = [n \in 0 .. 0 |-> g[n]] /\ g[0] = <<>>
      OBVIOUS
    <2>2. \A n \in 1 .. 0 : g[n] = g[n - 1] \o Block(rs[n])
      OBVIOUS
    <2> HIDE DEF g
    <2>3. 0 \in Nat
      OBVIOUS
    <2>4. Decodes(g, rs, 0)
      BY <2>1, <2>2, <2>3, DecodeFrom
    <2>5. QED
      BY <2>4
  <1>3. ASSUME NEW g, Decodes(g, rs, 0) PROVE g[0] = <<>>
    BY <1>3, DecodeValues
  <1>4. Agrees(<<>>, 0, w, s, st)
    <2> SUFFICES ASSUME Validating, st # "unbound"
                 PROVE  w.locals = TypeParams(s) \o <<>>
      BY DEF Agrees
    <2>1. TypeParams(s) \in Seq(ValTypes)
      BY ModuleTypes
    <2>2. TypeParams(s) \o <<>> = TypeParams(s)
      BY <2>1, ConcatEmptySeq
    <2> DEFINE u == [NoValidator EXCEPT !.locals = TypeParams(s),
                                        !.results = TypeResults(s)]
    <2>3. "locals" \in DOMAIN u /\ u.locals = TypeParams(s)
      BY DEF NoValidator
    <2>4. w = PushCtrl(u, "Func", <<>>, TypeResults(s))
      BY DEF InitValidator
    <2> HIDE DEF u
    <2>5. SameLocals(u, w)
      BY <2>4, PushLocals
    <2>6. QED
      BY <2>2, <2>3, <2>5 DEF SameLocals
  <1>5. <<>> \in Seq(ValTypes)
    OBVIOUS
  <1>6. \A n \in 0 .. 0 : n = 0
    OBVIOUS
  <1>7. QED
    BY <1>1, <1>2, <1>3, <1>4, <1>5, <1>6

LEMMA RebindLocals == ASSUME NEW s \in Sigs, Rebind(s) PROVE LocalsInv'
  <1>1. /\ runs' = <<>> /\ numLocals' = 0 /\ sig' = s
        /\ Validating => v' = InitValidator(s)
    BY DEF Rebind
  <1>2. s \in TypeIdx
    BY ConstantTypes
  <1>3. /\ \E g : Decodes(g, runs', Len(runs'))
        /\ \A g : Decodes(g, runs', Len(runs')) =>
             /\ \A n \in 0 .. Len(runs') : g[n] \in Seq(ValTypes)
             /\ Agrees(g[Len(runs')], 0, v', s, status')
    BY <1>1, <1>2, NoRuns
  <1>4. QED
    BY <1>1, <1>3 DEF LocalsInv, HasDecoding, RightDecoding

LEMMA InitLocals == Init => LocalsInv
  <1> SUFFICES ASSUME Init PROVE LocalsInv
    OBVIOUS
  <1>1. /\ runs = <<>> /\ numLocals = 0 /\ sig \in TypeIdx
        /\ Validating /\ status # "unbound" => v = InitValidator(sig)
    BY ConstantTypes DEF Init
  <1>2. /\ \E g : Decodes(g, runs, Len(runs))
        /\ \A g : Decodes(g, runs, Len(runs)) =>
             /\ \A n \in 0 .. Len(runs) : g[n] \in Seq(ValTypes)
             /\ Agrees(g[Len(runs)], 0, v, sig, status)
    BY <1>1, NoRuns
  <1>3. QED
    BY <1>1, <1>2 DEF LocalsInv, HasDecoding, RightDecoding

LEMMA NextLocals == Inv /\ LocalsInv /\ [Next]_vars => LocalsInv'
  <1> SUFFICES ASSUME Inv, LocalsInv, [Next]_vars PROVE LocalsInv'
    OBVIOUS
  <1>1. CASE \E i \in Calls : Emit(i)
    BY <1>1, EmitLocals, SameDecoding
  <1>2. CASE \E t \in LocalTypes, count \in LocalCounts : DeclareLocals(t, count)
    BY <1>2, NewRun, MergedRun
  <1>3. CASE \E kind \in FrameKinds, bt \in BlockTypes : PushFrame(kind, bt)
    BY <1>3, PushFrameLocals, SameDecoding
  <1>4. CASE Br \/ BrIf \/ BrTable
    <2>1. \E op \in BranchOps : \E hs : EmitBranch(op, hs)
      BY <1>4 DEF Br, BrIf, BrTable, BranchOps
    <2>2. QED
      BY <2>1, EmitBranchLocals, SameDecoding
  <1>5. CASE \E i \in 1 .. Len(scope) :
               EndFrame(i) \/ ElseFrame(i) \/ MoveHandle(i) \/ Detach(i)
    <2>1. PICK i \in 1 .. Len(scope) :
            EndFrame(i) \/ ElseFrame(i) \/ MoveHandle(i) \/ Detach(i)
      BY <1>5
    <2>2. CASE EndFrame(i)
      BY <2>2, FrameEndLocals, SameDecoding DEF EndFrame
    <2>3. CASE ElseFrame(i)
      BY <2>3, ElseFrameLocals, SameDecoding
    <2>4. CASE MoveHandle(i) \/ Detach(i)
      BY <2>4, SameDecoding DEF MoveHandle, Detach, SameDeclared, emission
    <2>5. QED
      BY <2>1, <2>2, <2>3, <2>4
  <1>6. CASE \E i, j \in 1 .. Len(scope) : MoveAssign(i, j)
    BY <1>6, SameDecoding DEF MoveAssign, SameDeclared, emission
  <1>7. CASE LeaveScope
    <2>1. status # "unbound" /\ UNCHANGED emission
      BY <1>7 DEF LeaveScope
    <2>2. CASE UNCHANGED <<v, code, control, status, tainted, refused>>
      BY <2>1, <2>2, SameDecoding DEF SameDeclared, emission
    <2>3. CASE \E depth, s : FrameEnd(depth, s)
      BY <2>1, <2>3, FrameEndLocals, SameDecoding
    <2>4. QED
      BY <1>7, <2>2, <2>3 DEF LeaveScope
  <1>8. CASE Finish
    BY <1>8, FinishLocals, SameDecoding
  <1>9. CASE Catch
    BY <1>9, SameDecoding DEF Catch, SameDeclared, emission
  <1>10. CASE UseHollow
    BY <1>10, SameDecoding DEF UseHollow, Stop, SameDeclared, emission
  <1>11. CASE \E s \in Sigs : Rebind(s)
    BY <1>11, RebindLocals
  <1>12. CASE UNCHANGED vars
    BY <1>12, SameDecoding DEF vars, SameDeclared
  <1>13. QED
    BY <1>1, <1>2, <1>3, <1>4, <1>5, <1>6, <1>7, <1>8, <1>9, <1>10, <1>11,
       <1>12 DEF Next

\* The local declarations of a body decode to the locals that the validator
\* resolved indices with, merged runs and bodies that were given up included.
THEOREM LocalsAlwaysDecode == Spec => []LocalsDecode
  <1>1. Spec => [](Inv /\ LocalsInv)
    BY InitInv, NextInv, InitLocals, NextLocals, PTL DEF Spec
  <1>2. ASSUME LocalsInv PROVE LocalsDecode
    <2>1. Decodes(CHOOSE g : Decodes(g, runs, Len(runs)), runs, Len(runs))
      BY <1>2 DEF LocalsInv, HasDecoding
    <2>2. Expand(runs) = (CHOOSE g : Decodes(g, runs, Len(runs)))[Len(runs)]
      BY Zenon DEF Expand, Decodes, Block
    <2> DEFINE g == CHOOSE g : Decodes(g, runs, Len(runs))
    <2> HIDE DEF g
    <2>3. Agrees(g[Len(runs)], numLocals, v, sig, status)
      BY <1>2, <2>1 DEF LocalsInv, RightDecoding, g
    <2>4. Expand(runs) = g[Len(runs)]
      BY <2>2 DEF g
    <2>5. QED
      BY <2>3, <2>4 DEF Agrees, LocalsDecode, LocalsOf
  <1>3. QED
    BY <1>1, <1>2, PTL

-----------------------------------------------------------------------------
(***************************************************************************)
(* The body, the frames and the handles: what each step writes, what the   *)
(* labels of a body denote, and how many handles there are for the frames. *)
(***************************************************************************)
LEMMA OpFacts ==
  /\ \A i \in Calls : i.op \notin FrameKinds \cup BranchOps \cup {"End", "Else"}
  /\ End.op = "End" /\ Else.op = "Else"
  /\ "End" \notin FrameKinds \cup BranchOps /\ "Else" \notin FrameKinds \cup BranchOps
  /\ FrameKinds \cap BranchOps = {}
  BY EmitterAssumption DEF End, Else, FrameKinds, BranchOps

(***************************************************************************)
(* Counting instructions.                                                  *)
(***************************************************************************)
LEMMA CountType ==
  ASSUME NEW c, NEW ops, NEW lo \in Nat, NEW hi \in Nat
  PROVE  /\ IsFiniteSet({m \in lo .. hi : c[m].op \in ops})
         /\ Count(c, ops, lo, hi) \in Nat
         /\ lo > hi => Count(c, ops, lo, hi) = 0
  <1> DEFINE S == {m \in lo .. hi : c[m].op \in ops}
  <1>1. IsFiniteSet(lo .. hi)
    BY FS_Interval
  <1>2. IsFiniteSet(S)
    BY <1>1, FS_Subset
  <1>3. lo > hi => S = {}
    OBVIOUS
  <1>4. QED
    BY <1>2, <1>3, FS_CardinalityType, FS_EmptySet DEF Count

\* One more instruction at the end of the interval.
LEMMA CountStep ==
  ASSUME NEW c, NEW ops, NEW lo \in Nat, NEW hi \in Nat, lo <= hi + 1
  PROVE  Count(c, ops, lo, hi + 1) =
           Count(c, ops, lo, hi) + (IF c[hi + 1].op \in ops THEN 1 ELSE 0)
  <1> DEFINE S == {m \in lo .. hi : c[m].op \in ops}
             T == {m \in lo .. hi + 1 : c[m].op \in ops}
  <1>1. IsFiniteSet(S) /\ Cardinality(S) \in Nat
    BY CountType, FS_CardinalityType
  <1>2. hi + 1 \notin S
    OBVIOUS
  <1>3. lo .. hi + 1 = (lo .. hi) \cup {hi + 1}
    OBVIOUS
  <1>4. Count(c, ops, lo, hi + 1) = Cardinality(T) /\ Count(c, ops, lo, hi) = Cardinality(S)
    BY DEF Count
  <1>5. CASE c[hi + 1].op \in ops
    <2>1. T = S \cup {hi + 1}
      BY <1>3, <1>5
    <2>2. Cardinality(T) = Cardinality(S) + 1
      BY <1>1, <1>2, <2>1, FS_AddElement
    <2>3. QED
      BY <1>1, <1>5, <1>4, <2>2
  <1>6. CASE c[hi + 1].op \notin ops
    <2>1. T = S
      BY <1>3, <1>6
    <2>2. Cardinality(T) = Cardinality(S)
      BY <2>1
    <2>3. QED
      BY <1>1, <1>6, <1>4, <2>2
  <1>7. QED
    BY <1>5, <1>6

\* Only the instructions of the interval count.
LEMMA CountSame ==
  ASSUME NEW c, NEW d, NEW ops, NEW lo \in Nat, NEW hi \in Nat,
         \A m \in lo .. hi : d[m] = c[m]
  PROVE  Count(d, ops, lo, hi) = Count(c, ops, lo, hi)
  <1>1. {m \in lo .. hi : d[m].op \in ops} = {m \in lo .. hi : c[m].op \in ops}
    OBVIOUS
  <1>2. QED
    BY <1>1 DEF Count

\* d is c, n instructions long, with t behind it.
Grows(c, n, t, d) == d[n + 1] = t /\ \A m \in 1 .. n : d[m] = c[m]

LEMMA AppendGrows ==
  ASSUME NEW S, NEW c \in Seq(S), NEW t \in S
  PROVE  Grows(c, Len(c), t, Append(c, t)) /\ Len(Append(c, t)) = Len(c) + 1
  BY DEF Grows

\* What writing an instruction does to the counts.
LEMMA CountWrite ==
  ASSUME NEW c, NEW n \in Nat, NEW t, NEW d, Grows(c, n, t, d),
         NEW ops, NEW lo \in Nat, lo > 0
  PROVE  /\ \A hi \in 0 .. n : Count(d, ops, lo, hi) = Count(c, ops, lo, hi)
         /\ lo <= n + 1 =>
              Count(d, ops, lo, n + 1) =
                Count(c, ops, lo, n) + (IF t.op \in ops THEN 1 ELSE 0)
  <1>1. d[n + 1] = t /\ \A m \in 1 .. n : d[m] = c[m]
    BY DEF Grows
  <1>2. ASSUME NEW hi \in 0 .. n
        PROVE  Count(d, ops, lo, hi) = Count(c, ops, lo, hi)
    <2>1. hi \in Nat /\ \A m \in lo .. hi : m \in 1 .. n
      OBVIOUS
    <2>2. \A m \in lo .. hi : d[m] = c[m]
      BY <1>1, <2>1
    <2>3. QED
      BY <2>1, <2>2, CountSame
  <1>3. ASSUME lo <= n + 1
        PROVE  Count(d, ops, lo, n + 1) =
                 Count(c, ops, lo, n) + (IF t.op \in ops THEN 1 ELSE 0)
    <2>1. Count(d, ops, lo, n + 1) =
            Count(d, ops, lo, n) + (IF t.op \in ops THEN 1 ELSE 0)
      BY <1>1, <1>3, CountStep
    <2>2. Count(d, ops, lo, n) = Count(c, ops, lo, n)
      BY <1>2
    <2>3. QED
      BY <2>1, <2>2
  <1>4. QED
    BY <1>2, <1>3

\* A label keeps its meaning when the body grows behind it.
LEMMA DenotesKept ==
  ASSUME NEW c, NEW n \in Nat, NEW t, NEW d, Grows(c, n, t, d),
         NEW k \in 1 .. n + 1, NEW rel, NEW p, Denotes(c, k, rel, p)
  PROVE  Denotes(d, k, rel, p)
  <1>1. /\ p \in 1 .. k - 1 /\ p \in 1 .. n /\ p + 1 \in Nat /\ p + 1 > 0
        /\ k - 1 \in 0 .. n /\ c[p].op \in FrameKinds
    BY DEF Denotes
  <1>2. d[p] = c[p]
    BY <1>1 DEF Grows
  <1>3. \A ops : \A m \in 0 .. n : Count(d, ops, p + 1, m) = Count(c, ops, p + 1, m)
    BY <1>1, CountWrite
  <1>4. \A m \in p + 1 .. k - 1 : m \in 0 .. n
    BY <1>1
  <1>5. \A m \in p + 1 .. k - 1 :
          Count(d, {"End"}, p + 1, m) <= Count(d, FrameKinds, p + 1, m)
    BY <1>3, <1>4 DEF Denotes
  <1>6. Count(d, FrameKinds, p + 1, k - 1) = Count(d, {"End"}, p + 1, k - 1) + rel
    BY <1>1, <1>3 DEF Denotes
  <1>7. QED
    BY <1>1, <1>2, <1>5, <1>6 DEF Denotes

Deeper(t) == IF t.op \in FrameKinds THEN 1 ELSE 0
Shallower(t) == IF t.op = "End" THEN 1 ELSE 0

\* What the label rel means to the next instruction, after one more is written.
LEMMA DenotesNext ==
  ASSUME NEW c, NEW l \in Nat, NEW t, NEW d, Grows(c, l, t, d),
         NEW p, NEW rel \in Nat, NEW n \in Nat, Denotes(c, l + 1, rel, p),
         n = rel + Deeper(t) - Shallower(t)
  PROVE  Denotes(d, l + 2, n, p)
  <1> DEFINE Openings(m) == Count(c, FrameKinds, p + 1, m)
             Endings(m) == Count(c, {"End"}, p + 1, m)
  <1>1. /\ p \in 1 .. l /\ p + 1 \in Nat /\ p + 1 > 0 /\ p + 1 <= l + 1
        /\ (l + 1) - 1 = l /\ (l + 2) - 1 = l + 1
    BY DEF Denotes
  <1>2. /\ \A m \in 0 .. l : /\ Count(d, FrameKinds, p + 1, m) = Openings(m)
                             /\ Count(d, {"End"}, p + 1, m) = Endings(m)
        /\ Count(d, FrameKinds, p + 1, l + 1) = Openings(l) + Deeper(t)
        /\ Count(d, {"End"}, p + 1, l + 1) = Endings(l) + Shallower(t)
    <2>1. (t.op = "End") <=> (t.op \in {"End"})
      OBVIOUS
    <2>2. QED
      BY <1>1, <2>1, CountWrite DEF Deeper, Shallower
  <1>3. Openings(l) \in Nat /\ Endings(l) \in Nat
    BY <1>1, CountType
  <1>4. /\ c[p].op \in FrameKinds /\ Openings(l) = Endings(l) + rel
        /\ \A m \in p + 1 .. l : Endings(m) <= Openings(m)
    BY <1>1 DEF Denotes
  <1>5. d[p] = c[p]
    BY <1>1 DEF Grows
  <1> HIDE DEF Openings, Endings
  <1>6. Deeper(t) \in Nat /\ Shallower(t) \in Nat
    BY DEF Deeper, Shallower
  <1>7. /\ Count(d, FrameKinds, p + 1, l + 1) = Count(d, {"End"}, p + 1, l + 1) + n
        /\ Count(d, {"End"}, p + 1, l + 1) <= Count(d, FrameKinds, p + 1, l + 1)
    BY <1>2, <1>3, <1>4, <1>6
  <1>8. \A m \in p + 1 .. l + 1 : (m \in p + 1 .. l /\ m \in 0 .. l) \/ m = l + 1
    BY <1>1
  <1>9. \A m \in p + 1 .. l + 1 :
          Count(d, {"End"}, p + 1, m) <= Count(d, FrameKinds, p + 1, m)
    BY <1>2, <1>4, <1>7, <1>8
  <1>10. p \in 1 .. l + 1
    BY <1>1
  <1>11. QED
    BY <1>1, <1>4, <1>5, <1>7, <1>9, <1>10 DEF Denotes
-----------------------------------------------------------------------------
(***************************************************************************)
(* The ways in which a step changes the body, the frames and the result.   *)
(***************************************************************************)
Underway == {"running", "unwinding"}

StepsAside ==
  /\ UNCHANGED <<code, control, body>> /\ (tainted => tainted')
  /\ status' \in Underway => status \in Underway
  /\ status' = "finished" => status = "finished" /\ tainted' = tainted

Proceeds == UNCHANGED <<body, status, tainted>>

Writes(t) ==
  /\ Proceeds /\ code' = Append(code, t) /\ control' = control
  /\ t.op \notin FrameKinds \cup {"End"} \cup BranchOps

WritesBranch(t) ==
  /\ Proceeds /\ code' = Append(code, t) /\ control' = control
  /\ t.op \in BranchOps /\ Len(code) < MaxCode
  /\ \A n \in 1 .. Len(t.rels) : \E h \in 1 .. Len(scope) :
       /\ MayTarget(scope[h])
       /\ t.rels[n] = RelDepth(scope[h]) /\ t.to[n] = scope[h].at

WritesOpening(t) ==
  /\ Proceeds /\ code' = Append(code, t) /\ t.op \in FrameKinds
  /\ control' = Append(control, [kind |-> t.op, at |-> Len(code) + 1])

WritesEnd ==
  /\ Proceeds /\ code' = Append(code, End)
  /\ control # <<>> /\ control' = Front(control)

HandsOver ==
  /\ code' = <<>> /\ body'.code = Append(code, End) /\ UNCHANGED <<control, tainted>>
  /\ status = "running" /\ status' = "finished"
  /\ Debug \/ (Validating /\ ~tainted) => control = <<>>

GivesUpFinish ==
  /\ code' = Append(code, End) /\ UNCHANGED <<control, body>>
  /\ AllocFails /\ tainted' /\ status' # "finished"
  /\ Debug => control = <<>>

StartsAfresh ==
  /\ code' = <<>> /\ control' = <<>> /\ body' = NoBody
  /\ status' = "running" /\ ~tainted'

Outcomes ==
  \/ StepsAside
  \/ \E t \in Token : Writes(t) \/ WritesBranch(t) \/ WritesOpening(t)
  \/ WritesEnd \/ HandsOver \/ GivesUpFinish \/ StartsAfresh

LEMMA RaiseSteps ==
  ASSUME NEW w, NEW token, Raise(w, token), status \in Underway, UNCHANGED body
  PROVE  StepsAside
  BY DEF Raise, StepsAside, Reported

LEMMA RunOutSteps ==
  ASSUME NEW w, NEW s, s # "finished", s \in Underway => status \in Underway,
         RunOut(w, s), UNCHANGED body
  PROVE  StepsAside
  BY DEF RunOut, StepsAside

LEMMA StopSteps ==
  ASSUME NEW s \in {"asserted", "undefined"}, Stop(s), UNCHANGED body
  PROVE  StepsAside
  BY DEF Stop, StepsAside, Underway

LEMMA EmitSteps == ASSUME NEW i \in Calls, Emit(i) PROVE Outcomes
  <1> DEFINE w == Hook(v, i)
  <1>1. status \in Underway /\ UNCHANGED body
    BY DEF Emit, CanEmit, Underway, emission
  <1> HIDE DEF w
  <1>2. CASE Raise(w, i)
    BY <1>1, <1>2, RaiseSteps DEF Outcomes
  <1>3. CASE Accept(w, i) /\ UNCHANGED control
    <2>1. i \in Token /\ i.op \notin FrameKinds \cup {"End"} \cup BranchOps
      BY OpFacts, TokenTypes
    <2>2. Writes(i)
      BY <1>1, <1>3, <2>1 DEF Accept, Writes, Proceeds
    <2>3. QED
      BY <2>1, <2>2 DEF Outcomes
  <1>4. CASE RunOut(w, Reported)
    BY <1>1, <1>4, RunOutSteps DEF Outcomes, Reported
  <1>5. QED
    BY <1>2, <1>3, <1>4 DEF Emit, w

LEMMA PushFrameSteps ==
  ASSUME NEW kind \in FrameKinds, NEW bt \in BlockTypes, PushFrame(kind, bt)
  PROVE  Outcomes
  <1> DEFINE w == OnCtrlStart(v, kind, bt)
             token == [op |-> kind, bt |-> bt]
             f == [kind |-> kind, at |-> Len(code) + 1]
  <1>1. status \in Underway /\ UNCHANGED body
    BY DEF PushFrame, CanEmit, Underway, emission
  <1>2. token \in Token /\ token.op \in FrameKinds /\ token.op = kind
    BY DEF Token, Opening
  <1> HIDE DEF w, token
  <1>3. CASE Raise(w, token)
    BY <1>1, <1>3, RaiseSteps DEF Outcomes
  <1>4. CASE Accept(w, token) /\ control' = Append(control, f)
    <2>1. WritesOpening(token)
      BY <1>1, <1>2, <1>4 DEF Accept, WritesOpening, Proceeds
    <2>2. QED
      BY <1>2, <2>1 DEF Outcomes
  <1>5. CASE RunOut(w, Reported)
    BY <1>1, <1>5, RunOutSteps DEF Outcomes, Reported
  <1>6. QED
    BY <1>3, <1>4, <1>5 DEF PushFrame, w, token

LEMMA EmitBranchSteps ==
  ASSUME Inv, NEW op \in BranchOps, NEW n \in Nat \ {0},
         NEW hs \in [1 .. n -> 1 .. Len(scope)], EmitBranch(op, hs)
  PROVE  Outcomes
  <1> DEFINE rels == [k \in 1 .. Len(hs) |-> RelDepth(scope[hs[k]])]
             to == [k \in 1 .. Len(hs) |-> scope[hs[k]].at]
             w == OnBranch(op, rels)
             token == [op |-> op, rels |-> rels, to |-> to]
  <1>1. /\ status \in Underway /\ UNCHANGED body /\ Len(code) < MaxCode
        /\ \A k \in 1 .. Len(hs) : MayTarget(scope[hs[k]])
    BY DEF EmitBranch, CanEmit, Underway, emission
  <1>2. Len(hs) = n /\ \A k \in 1 .. n : scope[hs[k]] \in Handle
    BY InvFacts
  <1>3. rels \in Seq(Nat) /\ to \in Seq(Nat) /\ Len(rels) = n
        /\ \A k \in 1 .. n : rels[k] = RelDepth(scope[hs[k]]) /\ to[k] = scope[hs[k]].at
    <2>1. \A k \in 1 .. n : /\ RelDepth(scope[hs[k]]) \in Nat
                            /\ scope[hs[k]].at \in Nat
      BY <1>2, RelDepthType DEF Handle
    <2>2. /\ rels \in [1 .. n -> Nat] /\ to \in [1 .. n -> Nat]
          /\ \A k \in 1 .. n : rels[k] = RelDepth(scope[hs[k]]) /\ to[k] = scope[hs[k]].at
      BY <1>2, <2>1
    <2> HIDE DEF rels, to
    <2>3. QED
      BY <2>2, FunctionIsSeq
  <1> HIDE DEF w, rels, to
  <1>4. token \in Token
    BY <1>3, TokenTypes DEF Branch
  <1>5. CASE Raise(w, token)
    BY <1>1, <1>5, RaiseSteps DEF Outcomes
  <1>6. CASE Accept(w, token) /\ UNCHANGED control
    <2>1. Proceeds /\ code' = Append(code, token) /\ control' = control
      BY <1>1, <1>6 DEF Accept, Proceeds
    <2>2. \A k \in 1 .. Len(token.rels) : \E h \in 1 .. Len(scope) :
            /\ MayTarget(scope[h])
            /\ token.rels[k] = RelDepth(scope[h]) /\ token.to[k] = scope[h].at
      BY <1>1, <1>2, <1>3
    <2> HIDE DEF token
    <2>3. token.op \in BranchOps
      BY DEF token
    <2>4. WritesBranch(token)
      BY <1>1, <2>1, <2>2, <2>3 DEF WritesBranch
    <2>5. QED
      BY <1>4, <2>4 DEF Outcomes
  <1>7. CASE RunOut(w, Reported)
    BY <1>1, <1>7, RunOutSteps DEF Outcomes, Reported
  <1>8. QED
    BY <1>5, <1>6, <1>7 DEF EmitBranch, w, rels, to

LEMMA BranchSteps == ASSUME Inv, Br \/ BrIf \/ BrTable PROVE Outcomes
  <1>1. ASSUME NEW h \in 1 .. Len(scope), NEW op \in BranchOps, EmitBranch(op, <<h>>)
        PROVE  Outcomes
    <2> DEFINE hs == <<h>>
    <2>1. hs \in [1 .. 1 -> 1 .. Len(scope)] /\ 1 \in Nat \ {0}
      OBVIOUS
    <2> HIDE DEF hs
    <2>2. EmitBranch(op, hs)
      BY <1>1 DEF hs
    <2>3. QED
      BY <2>1, <2>2, EmitBranchSteps
  <1>2. CASE BrTable
    <2>1. PICK n \in 1 .. MaxTargets + 1 :
            \E hs \in [1 .. n -> 1 .. Len(scope)] : EmitBranch("BrTable", hs)
      BY <1>2 DEF BrTable
    <2>2. n \in Nat \ {0} /\ "BrTable" \in BranchOps
      BY EmitterAssumption DEF BranchOps
    <2>3. QED
      BY <2>1, <2>2, EmitBranchSteps
  <1>3. CASE Br \/ BrIf
    BY <1>1, <1>3 DEF Br, BrIf, BranchOps
  <1>4. QED
    BY <1>2, <1>3

LEMMA FrameEndSteps ==
  ASSUME NEW depth, NEW s, s # "finished", s \in Underway => status \in Underway,
         FrameEnd(depth, s), UNCHANGED body
  PROVE  Outcomes
  <1>1. CASE Stop("asserted") \/ Stop("undefined")
    BY <1>1, StopSteps DEF Outcomes
  <1>2. CASE tainted' = TRUE /\ status' = s /\ UNCHANGED <<code, control>>
    BY <1>2 DEF Outcomes, StepsAside
  <1>3. CASE Accept(OnEnd(v), End) /\ control # <<>> /\ control' = Front(control)
    BY <1>3 DEF Accept, Outcomes, WritesEnd, Proceeds
  <1>4. QED
    BY <1>1, <1>2, <1>3 DEF FrameEnd, RunOut

LEMMA ElseFrameSteps == ASSUME NEW i \in 1 .. Len(scope), ElseFrame(i) PROVE Outcomes
  <1> DEFINE w == OnElse(v)
  <1>1. status \in Underway /\ UNCHANGED body
    BY DEF ElseFrame, CanEmit, Underway, emission
  <1> HIDE DEF w
  <1>2. CASE Raise(w, Else)
    BY <1>1, <1>2, RaiseSteps DEF Outcomes
  <1>3. CASE Accept(w, Else) /\ UNCHANGED control
    <2>1. Writes(Else)
      BY <1>1, <1>3, OpFacts DEF Accept, Writes, Proceeds
    <2>2. QED
      BY <2>1, TokenTypes DEF Outcomes
  <1>4. CASE RunOut(w, Reported)
    BY <1>1, <1>4, RunOutSteps DEF Outcomes, Reported
  <1>5. CASE Stop("asserted") \/ Stop("undefined")
    BY <1>1, <1>5, StopSteps DEF Outcomes
  <1>6. QED
    BY <1>2, <1>3, <1>4, <1>5 DEF ElseFrame, w

LEMMA FinishSteps == ASSUME Inv, Finish PROVE Outcomes
  <1> DEFINE w == OnFunctionEnd(v)
  <1>1. status = "running" /\ status \in Underway /\ ~Hollow
    BY DEF Finish, Underway
  <1>2. Validating /\ w.ok /\ ~tainted => control = <<>>
    <2> SUFFICES ASSUME Validating, w.ok, ~tainted PROVE control = <<>>
      OBVIOUS
    <2>1. Busy(v) /\ Mirror
      BY <1>1, InvFacts DEF Inv, StacksMirror
    <2>2. Len(v.ctrls) = 1
      BY <2>1, OnFunctionEndCloses
    <2>3. Len(v.ctrls) = Len(control) + 1
      BY <2>1 DEF Mirror
    <2>4. control \in Seq(Frame) /\ Len(control) \in Nat
      BY InvFacts
    <2>5. \A n \in Nat : 1 = n + 1 => n = 0
      OBVIOUS
    <2>6. Len(control) = 0
      BY <2>2, <2>3, <2>4, <2>5, Zenon
    <2>7. QED
      BY <2>4, <2>6
  <1> HIDE DEF w
  <1>3. CASE Stop("asserted") /\ UNCHANGED body
    BY <1>3, StopSteps DEF Outcomes
  <1>4. CASE Raise(w, FinishCall) /\ UNCHANGED body
    BY <1>1, <1>4, RaiseSteps DEF Outcomes
  <1>5. CASE RunOut(w, Reported) /\ UNCHANGED body
    BY <1>1, <1>5, RunOutSteps DEF Outcomes, Reported
  <1>6. CASE /\ Debug => control = <<>>
             /\ RunOutOfLocals(w) /\ UNCHANGED body
    BY <1>6 DEF RunOutOfLocals, Reported, Outcomes, GivesUpFinish
  <1>7. CASE /\ Debug => control = <<>>
             /\ ~Rejects(w) /\ code' = <<>> /\ status' = "finished"
             /\ body' = [runs |-> runs, code |-> Append(code, End)]
             /\ UNCHANGED <<control, tainted, refused>>
    BY <1>1, <1>2, <1>7 DEF Rejects, Outcomes, HandsOver
  <1>8. QED
    BY <1>3, <1>4, <1>5, <1>6, <1>7 DEF Finish, w

LEMMA StepKinds == Inv /\ [Next]_vars => Outcomes
  <1> SUFFICES ASSUME Inv, [Next]_vars PROVE Outcomes
    OBVIOUS
  <1>1. CASE \E i \in Calls : Emit(i)
    BY <1>1, EmitSteps
  <1>2. CASE \E kind \in FrameKinds, bt \in BlockTypes : PushFrame(kind, bt)
    BY <1>2, PushFrameSteps
  <1>3. CASE Br \/ BrIf \/ BrTable
    BY <1>3, BranchSteps
  <1>4. CASE \E i \in 1 .. Len(scope) : EndFrame(i)
    BY <1>4, FrameEndSteps DEF EndFrame, emission, Reported, Underway
  <1>5. CASE \E i \in 1 .. Len(scope) : ElseFrame(i)
    BY <1>5, ElseFrameSteps
  <1>6. CASE LeaveScope
    <2>1. CASE UNCHANGED <<v, code, control, status, tainted, refused>>
      BY <1>6, <2>1 DEF LeaveScope, emission, Outcomes, StepsAside
    <2>2. CASE \E d : FrameEnd(d, IF ErrorPolicy = "abort" THEN "aborted"
                                  ELSE "terminated")
      BY <1>6, <2>2, FrameEndSteps DEF LeaveScope, emission, Underway
    <2>3. QED
      BY <1>6, <2>1, <2>2 DEF LeaveScope
  <1>7. CASE Finish
    BY <1>7, FinishSteps
  <1>8. CASE Catch
    BY <1>8 DEF Catch, emission, Outcomes, StepsAside, Underway
  <1>9. CASE UseHollow
    BY <1>9, StopSteps DEF UseHollow, emission, Outcomes
  <1>10. CASE \E s \in Sigs : Rebind(s)
    BY <1>10 DEF Rebind, Outcomes, StartsAfresh
  <1>11. CASE \/ \E t \in LocalTypes, count \in LocalCounts : DeclareLocals(t, count)
              \/ \E i \in 1 .. Len(scope) : MoveHandle(i) \/ Detach(i)
              \/ \E i, j \in 1 .. Len(scope) : MoveAssign(i, j)
              \/ UNCHANGED vars
    BY <1>11 DEF DeclareLocals, MoveHandle, Detach, MoveAssign, emission, vars,
                 Outcomes, StepsAside
  <1>12. QED
    BY <1>1, <1>2, <1>3, <1>4, <1>5, <1>6, <1>7, <1>8, <1>9, <1>10, <1>11 DEF Next
-----------------------------------------------------------------------------
(***************************************************************************)
(* Balance.  FinishedIsBalanced speaks of a body that was handed over; the *)
(* induction needs the open frames counted in the body under way, for as   *)
(* long as no Finish() gave up behind its End.                             *)
(***************************************************************************)
Level(c, n, k) ==
  /\ \A m \in 0 .. n : Count(c, {"End"}, 1, m) <= Count(c, FrameKinds, 1, m)
  /\ Count(c, FrameKinds, 1, n) = Count(c, {"End"}, 1, n) + k

Counted == status \in Underway /\ (~tainted \/ ~AllocFails) =>
             Level(code, Len(code), Len(control))

LEMMA LevelNext ==
  ASSUME NEW c, NEW n \in Nat, NEW t, NEW d, Grows(c, n, t, d),
         NEW k \in Nat, Level(c, n, k), NEW j \in Nat,
         j = k + Deeper(t) - Shallower(t)
  PROVE  Level(d, n + 1, j)
  <1> DEFINE Openings(m) == Count(c, FrameKinds, 1, m)
             Endings(m) == Count(c, {"End"}, 1, m)
  <1>1. /\ \A m \in 0 .. n : /\ Count(d, FrameKinds, 1, m) = Openings(m)
                             /\ Count(d, {"End"}, 1, m) = Endings(m)
        /\ Count(d, FrameKinds, 1, n + 1) = Openings(n) + Deeper(t)
        /\ Count(d, {"End"}, 1, n + 1) = Endings(n) + Shallower(t)
    <2>1. (t.op = "End") <=> (t.op \in {"End"})
      OBVIOUS
    <2>2. QED
      BY <2>1, CountWrite DEF Deeper, Shallower
  <1>2. Openings(n) \in Nat /\ Endings(n) \in Nat /\ Deeper(t) \in Nat /\ Shallower(t) \in Nat
    BY CountType DEF Deeper, Shallower
  <1>3. Openings(n) = Endings(n) + k /\ \A m \in 0 .. n : Endings(m) <= Openings(m)
    BY DEF Level
  <1> HIDE DEF Openings, Endings
  <1>4. /\ Count(d, FrameKinds, 1, n + 1) = Count(d, {"End"}, 1, n + 1) + j
        /\ Count(d, {"End"}, 1, n + 1) <= Count(d, FrameKinds, 1, n + 1)
    BY <1>1, <1>2, <1>3
  <1>5. \A m \in 0 .. n + 1 : m \in 0 .. n \/ m = n + 1
    OBVIOUS
  <1>6. \A m \in 0 .. n + 1 : Count(d, {"End"}, 1, m) <= Count(d, FrameKinds, 1, m)
    BY <1>1, <1>3, <1>4, <1>5
  <1>7. QED
    BY <1>4, <1>6 DEF Level

LEMMA LevelOfNothing == Level(<<>>, 0, 0)
  <1> DEFINE c == <<>>
  <1> HIDE DEF c
  <1>1. ASSUME NEW ops PROVE Count(c, ops, 1, 0) = 0
    <2>1. 1 \in Nat /\ 0 \in Nat /\ 1 > 0
      OBVIOUS
    <2>2. QED
      BY <2>1, CountType
  <1>2. \A m \in 0 .. 0 : m = 0
    OBVIOUS
  <1>3. Level(c, 0, 0)
    BY <1>1, <1>2 DEF Level
  <1>4. QED
    BY <1>3 DEF c

\* A body with no frame open is balanced once its own End is written.
LEMMA ClosedIsBalanced ==
  ASSUME NEW c \in Seq(Token), Level(c, Len(c), 0)
  PROVE  Balanced(Append(c, End))
  <1> DEFINE n == Len(c)
             d == Append(c, End)
  <1>1. n \in Nat /\ Grows(c, n, End, d) /\ Len(d) = n + 1
    BY AppendGrows, TokenTypes
  <1> HIDE DEF d
  <1>2. /\ \A m \in 0 .. n : /\ Count(d, FrameKinds, 1, m) = Count(c, FrameKinds, 1, m)
                             /\ Count(d, {"End"}, 1, m) = Count(c, {"End"}, 1, m)
        /\ Count(d, FrameKinds, 1, n + 1) = Count(c, FrameKinds, 1, n)
        /\ Count(d, {"End"}, 1, n + 1) = Count(c, {"End"}, 1, n) + 1
    <2>1. /\ Count(d, FrameKinds, 1, n + 1) = Count(c, FrameKinds, 1, n) + 0
          /\ Count(d, {"End"}, 1, n + 1) = Count(c, {"End"}, 1, n) + 1
          /\ \A m \in 0 .. n : /\ Count(d, FrameKinds, 1, m) = Count(c, FrameKinds, 1, m)
                               /\ Count(d, {"End"}, 1, m) = Count(c, {"End"}, 1, m)
      BY <1>1, CountWrite, OpFacts
    <2>2. Count(c, FrameKinds, 1, n) \in Nat
      BY <1>1, CountType
    <2>3. QED
      BY <2>1, <2>2
  <1>3. /\ Count(c, FrameKinds, 1, n) = Count(c, {"End"}, 1, n) + 0
        /\ Count(c, {"End"}, 1, n) \in Nat
        /\ \A m \in 0 .. n : Count(c, {"End"}, 1, m) <= Count(c, FrameKinds, 1, m)
    BY <1>1, CountType DEF Level
  <1>4. Count(d, {"End"}, 1, Len(d)) = Count(d, FrameKinds, 1, Len(d)) + 1
    BY <1>1, <1>2, <1>3
  <1>5. \A m \in 1 .. Len(d) - 1 : m \in 0 .. n
    BY <1>1
  <1>6. \A m \in 1 .. Len(d) - 1 :
          Count(d, {"End"}, 1, m) <= Count(d, FrameKinds, 1, m)
    BY <1>2, <1>3, <1>5
  <1>7. QED
    BY <1>4, <1>6 DEF Balanced, d

LEMMA NextCounted ==
  ASSUME Inv, Counted, Outcomes PROVE Counted'
  <1> SUFFICES ASSUME status' \in Underway, ~tainted' \/ ~AllocFails
               PROVE  Level(code', Len(code'), Len(control'))
    BY DEF Counted
  <1> DEFINE n == Len(code)
             k == Len(control)
  <1>1. /\ n \in Nat /\ k \in Nat /\ code \in Seq(Token) /\ control \in Seq(Frame)
    BY InvFacts
  <1>2. ASSUME Proceeds PROVE Level(code, n, k)
    BY <1>2 DEF Counted, Proceeds
  <1>3. \A t \in Token : code' = Append(code, t) =>
          Grows(code, n, t, code') /\ Len(code') = n + 1
    BY <1>1, AppendGrows
  <1>4. CASE StepsAside
    BY <1>4 DEF StepsAside, Counted
  <1>5. ASSUME NEW t \in Token, Writes(t) \/ WritesBranch(t)
        PROVE  Level(code', Len(code'), Len(control'))
    <2>1. /\ Proceeds /\ code' = Append(code, t) /\ control' = control
          /\ Deeper(t) = 0 /\ Shallower(t) = 0
      BY <1>5, OpFacts DEF Writes, WritesBranch, Deeper, Shallower
    <2>2. k = k + Deeper(t) - Shallower(t)
      BY <1>1, <2>1
    <2>3. QED
      BY <1>1, <1>2, <1>3, <2>1, <2>2, LevelNext
  <1>6. ASSUME NEW t \in Token, WritesOpening(t)
        PROVE  Level(code', Len(code'), Len(control'))
    <2>1. /\ Proceeds /\ code' = Append(code, t) /\ Deeper(t) = 1 /\ Shallower(t) = 0
      BY <1>6, OpFacts DEF WritesOpening, Deeper, Shallower
    <2>2. Len(control') = k + 1
      BY <1>1, <1>6 DEF WritesOpening
    <2>3. k + 1 \in Nat /\ k + 1 = k + Deeper(t) - Shallower(t)
      BY <1>1, <2>1
    <2>4. QED
      BY <1>1, <1>2, <1>3, <2>1, <2>2, <2>3, LevelNext
  <1>7. CASE WritesEnd
    <2>1. /\ Proceeds /\ code' = Append(code, End) /\ Deeper(End) = 0 /\ Shallower(End) = 1
      BY <1>7, OpFacts DEF WritesEnd, Deeper, Shallower
    <2>2. Len(control') = k - 1 /\ k - 1 \in Nat
      BY <1>1, <1>7, FrontProps DEF WritesEnd
    <2>3. k - 1 = k + Deeper(End) - Shallower(End)
      BY <1>1, <2>1
    <2>4. QED
      BY <1>1, <1>2, <1>3, <2>1, <2>2, <2>3, LevelNext, TokenTypes
  <1>8. CASE HandsOver
    BY <1>8 DEF HandsOver, Underway
  <1>9. CASE GivesUpFinish
    BY <1>9 DEF GivesUpFinish
  <1>10. CASE StartsAfresh
    <2>1. code' = <<>> /\ control' = <<>> /\ Len(code') = 0 /\ Len(control') = 0
      BY <1>10 DEF StartsAfresh
    <2>2. QED
      BY <2>1, LevelOfNothing
  <1>11. QED
    BY <1>4, <1>5, <1>6, <1>7, <1>8, <1>9, <1>10 DEF Outcomes

LEMMA NextFinished ==
  ASSUME Inv, Counted, FinishedIsBalanced, Outcomes PROVE FinishedIsBalanced'
  <1>1. CASE HandsOver
    <2> SUFFICES ASSUME IF Debug THEN ~tainted' \/ ~AllocFails
                                 ELSE Validating /\ ~tainted'
                 PROVE  Balanced(body'.code)
      BY DEF FinishedIsBalanced
    <2>1. /\ body'.code = Append(code, End) /\ status \in Underway
          /\ control = <<>> /\ (~tainted \/ ~AllocFails)
      BY <1>1 DEF HandsOver, Underway
    <2>2. code \in Seq(Token) /\ Len(control) = 0
      BY <2>1, InvFacts
    <2>3. Level(code, Len(code), 0)
      BY <2>1, <2>2 DEF Counted
    <2>4. QED
      BY <2>1, <2>2, <2>3, ClosedIsBalanced
  <1>2. CASE body' = body /\ (status' = "finished" => status = "finished" /\ tainted' = tainted)
    BY <1>2 DEF FinishedIsBalanced
  <1>3. CASE status' # "finished"
    BY <1>3 DEF FinishedIsBalanced
  <1>4. QED
    BY <1>1, <1>2, <1>3
       DEF Outcomes, StepsAside, Writes, WritesBranch, WritesOpening, WritesEnd,
           GivesUpFinish, StartsAfresh, Proceeds

\* A finished body closes exactly the frames it opened and then itself, for
\* every client and bound: in debug builds always, unless Finish() itself ran
\* out of memory before; in release builds with a validator until an error.
THEOREM FinishedAlwaysBalanced == Spec => []FinishedIsBalanced
  <1>1. Init => Counted /\ FinishedIsBalanced
    <2> SUFFICES ASSUME Init PROVE Counted /\ FinishedIsBalanced
      OBVIOUS
    <2>1. code = <<>> /\ control = <<>> /\ Len(code) = 0 /\ Len(control) = 0
          /\ status # "finished"
      BY DEF Init
    <2>2. QED
      BY <2>1, LevelOfNothing DEF Counted, FinishedIsBalanced
  <1>2. Inv /\ Counted /\ FinishedIsBalanced /\ [Next]_vars =>
          Counted' /\ FinishedIsBalanced'
    BY StepKinds, NextCounted, NextFinished
  <1>3. QED
    BY SpecInv, <1>1, <1>2, PTL DEF Spec
-----------------------------------------------------------------------------
(***************************************************************************)
(* Labels.  That every label written so far denotes its target follows     *)
(* from what the frames themselves denote to the next instruction.         *)
(***************************************************************************)
FramesDenoted ==
  \A j \in 1 .. Len(control) :
    Denotes(code, Len(code) + 1, Len(control) - j, control[j].at)

LabelsOf(c) ==
  \A k \in 1 .. Len(c) : c[k].op \in BranchOps =>
    \A n \in 1 .. Len(c[k].rels) : Denotes(c, k, c[k].rels[n], c[k].to[n])

Watched == Debug /\ ~StaleBranches /\ ~LiveResets

Resolved == /\ FramesDenoted /\ Len(control) <= Len(code)
            /\ LabelsOf(code) /\ LabelsOf(body.code)

LEMMA LabelsGrow ==
  ASSUME NEW c \in Seq(Token), NEW t \in Token, LabelsOf(c),
         t.op \in BranchOps =>
           \A n \in 1 .. Len(t.rels) : Denotes(c, Len(c) + 1, t.rels[n], t.to[n])
  PROVE  LabelsOf(Append(c, t))
  <1> DEFINE d == Append(c, t)
             l == Len(c)
  <1>1. l \in Nat /\ Grows(c, l, t, d) /\ Len(d) = l + 1
    BY AppendGrows
  <1> HIDE DEF d, l
  <1>2. ASSUME NEW k \in 1 .. l + 1, d[k].op \in BranchOps,
               NEW n \in 1 .. Len(d[k].rels)
        PROVE  Denotes(d, k, d[k].rels[n], d[k].to[n])
    <2>1. CASE k \in 1 .. l
      <3>1. d[k] = c[k]
        BY <1>1, <2>1 DEF Grows
      <3>2. Denotes(c, k, d[k].rels[n], d[k].to[n])
        BY <1>2, <2>1, <3>1 DEF LabelsOf, l
      <3>3. QED
        BY <1>1, <3>2, DenotesKept
    <2>2. CASE k = l + 1
      <3>1. d[k] = t
        BY <1>1, <2>2 DEF Grows
      <3>2. Denotes(c, k, d[k].rels[n], d[k].to[n])
        BY <1>2, <2>2, <3>1 DEF l
      <3>3. QED
        BY <1>1, <3>2, DenotesKept
    <2>3. QED
      BY <1>1, <2>1, <2>2
  <1>3. LabelsOf(d)
    BY <1>1, <1>2 DEF LabelsOf
  <1>4. QED
    BY <1>3 DEF d

LEMMA SmallDifference ==
  ASSUME NEW n \in Nat, NEW k \in Nat, NEW a \in Nat, a < k, k < n
  PROVE  k - 1 - a \in 0 .. n - 1 /\ k - 1 - a = k - (a + 1)
  OBVIOUS

LEMMA SmallRemainder ==
  ASSUME NEW n \in Nat, NEW a \in 0 .. n - 1
  PROVE  a % n = a
  OBVIOUS

\* A branch through a live handle is given the label of its frame.
LEMMA BranchResolved ==
  ASSUME Inv, Owned, Watched, Resolved, NEW h \in 1 .. Len(scope),
         MayTarget(scope[h]), Len(code) < MaxCode
  PROVE  Denotes(code, Len(code) + 1, RelDepth(scope[h]), scope[h].at)
  <1> DEFINE j == scope[h].depth + 1
             k == Len(control)
  <1>1. /\ k \in Nat /\ Len(code) \in Nat /\ scope[h].depth \in Nat
        /\ k <= Len(code) /\ FramesDenoted /\ MaxCode \in Nat
        /\ U32 \in Nat /\ U32 > MaxCode + 1
    BY InvFacts, EmitterAssumption DEF Resolved
  <1>2. scope[h].depth < k /\ control[j].at = scope[h].at
    BY DEF Owned, Denoted, Watched, MayTarget
  <1>3. j \in 1 .. k /\ Denotes(code, Len(code) + 1, k - j, control[j].at)
    <2>1. j \in 1 .. k
      BY <1>1, <1>2
    <2> HIDE DEF j
    <2>2. QED
      BY <1>1, <2>1 DEF FramesDenoted
  <1>4. RelDepth(scope[h]) = k - j
    <2>1. k - 1 - scope[h].depth \in 0 .. U32 - 1 /\ k - 1 - scope[h].depth = k - j
      <3>1. k < U32 /\ j = scope[h].depth + 1
        <4>1. Len(code) <= MaxCode /\ MaxCode < U32
          BY <1>1
        <4>2. QED
          BY <1>1, <4>1
      <3>2. QED
        BY <1>1, <1>2, <3>1, SmallDifference
    <2>2. (k - 1 - scope[h].depth) % U32 = k - 1 - scope[h].depth
      BY <1>1, <2>1, SmallRemainder
    <2>3. QED
      BY <2>1, <2>2 DEF RelDepth
  <1>5. QED
    BY <1>2, <1>3, <1>4

\* What the frames denote after one more instruction.
LEMMA FramesNext ==
  ASSUME Inv, FramesDenoted, NEW t \in Token, code' = Append(code, t),
         NEW j \in 1 .. Len(control), control'[j] = control[j],
         NEW n \in Nat, n = Len(control) - j + Deeper(t) - Shallower(t)
  PROVE  Denotes(code', Len(code') + 1, n, control'[j].at)
  <1> DEFINE l == Len(code)
             rel == Len(control) - j
  <1>1. code \in Seq(Token) /\ l \in Nat /\ Len(control) \in Nat /\ rel \in Nat
    BY InvFacts
  <1>2. Grows(code, l, t, code') /\ Len(code') = l + 1
    BY <1>1, AppendGrows
  <1>3. Denotes(code, l + 1, rel, control'[j].at)
    BY DEF FramesDenoted
  <1>4. n = rel + Deeper(t) - Shallower(t)
    OBVIOUS
  <1> HIDE DEF rel
  <1>5. Denotes(code', l + 2, n, control'[j].at)
    BY <1>1, <1>2, <1>3, <1>4, DenotesNext
  <1>6. Len(code') + 1 = l + 2
    BY <1>1, <1>2
  <1>7. QED
    BY <1>5, <1>6

LEMMA NextResolved ==
  ASSUME Inv, Owned, Watched, Resolved, Outcomes PROVE Resolved'
  <1> DEFINE l == Len(code)
             k == Len(control)
  <1>1. /\ l \in Nat /\ k \in Nat /\ code \in Seq(Token) /\ control \in Seq(Frame)
        /\ k <= l /\ FramesDenoted /\ LabelsOf(code) /\ LabelsOf(body.code)
    BY InvFacts DEF Resolved
  <1>2. ASSUME NEW t \in Token, code' = Append(code, t), control' = control,
               Deeper(t) = 0, Shallower(t) = 0
        PROVE  FramesDenoted' /\ Len(control') <= Len(code')
    <2>1. ASSUME NEW j \in 1 .. k
          PROVE  Denotes(code', Len(code') + 1, k - j, control'[j].at)
      <3>1. k - j \in Nat /\ k - j = k - j + Deeper(t) - Shallower(t)
        BY <1>1, <1>2
      <3>2. QED
        BY <1>1, <1>2, <3>1, FramesNext
    <2>2. Len(code') = l + 1
      BY <1>1, <1>2
    <2>3. QED
      BY <1>1, <1>2, <2>1, <2>2 DEF FramesDenoted
  <1>3. CASE StepsAside
    BY <1>1, <1>3 DEF StepsAside, Resolved, FramesDenoted
  <1>4. ASSUME NEW t \in Token, Writes(t) PROVE Resolved'
    <2>1. /\ code' = Append(code, t) /\ control' = control /\ body' = body
          /\ Deeper(t) = 0 /\ Shallower(t) = 0 /\ t.op \notin BranchOps
      BY <1>4 DEF Writes, Proceeds, Deeper, Shallower
    <2>2. LabelsOf(code')
      BY <1>1, <2>1, LabelsGrow
    <2>3. QED
      BY <1>1, <1>2, <2>1, <2>2 DEF Resolved
  <1>5. ASSUME NEW t \in Token, WritesBranch(t) PROVE Resolved'
    <2>1. /\ code' = Append(code, t) /\ control' = control /\ body' = body
          /\ Deeper(t) = 0 /\ Shallower(t) = 0
      BY <1>5, OpFacts DEF WritesBranch, Proceeds, Deeper, Shallower
    <2>2. ASSUME NEW n \in 1 .. Len(t.rels)
          PROVE  Denotes(code, Len(code) + 1, t.rels[n], t.to[n])
      <3>1. PICK h \in 1 .. Len(scope) :
              /\ MayTarget(scope[h])
              /\ t.rels[n] = RelDepth(scope[h]) /\ t.to[n] = scope[h].at
        BY <1>5 DEF WritesBranch
      <3>2. Len(code) < MaxCode
        BY <1>5 DEF WritesBranch
      <3>3. QED
        BY <3>1, <3>2, BranchResolved
    <2>3. LabelsOf(code')
      BY <1>1, <2>1, <2>2, LabelsGrow
    <2>4. QED
      BY <1>1, <1>2, <2>1, <2>3 DEF Resolved
  <1>6. ASSUME NEW t \in Token, WritesOpening(t) PROVE Resolved'
    <2> DEFINE f == [kind |-> t.op, at |-> l + 1]
    <2>1. /\ code' = Append(code, t) /\ control' = Append(control, f) /\ body' = body
          /\ Deeper(t) = 1 /\ Shallower(t) = 0 /\ t.op \in FrameKinds
          /\ t.op \notin BranchOps
      BY <1>6, OpFacts DEF WritesOpening, Proceeds, Deeper, Shallower
    <2>2. /\ Len(code') = l + 1 /\ code'[l + 1] = t
          /\ Len(control') = k + 1 /\ control'[k + 1].at = l + 1
          /\ \A j \in 1 .. k : control'[j] = control[j]
      <3>1. f.at = l + 1
        OBVIOUS
      <3> HIDE DEF f
      <3>2. QED
        BY <1>1, <2>1, <3>1
    <2>3. ASSUME NEW j \in 1 .. k
          PROVE  Denotes(code', Len(code') + 1, k + 1 - j, control'[j].at)
      <3>1. k + 1 - j \in Nat /\ k + 1 - j = k - j + Deeper(t) - Shallower(t)
        BY <1>1, <2>1
      <3>2. QED
        BY <1>1, <2>1, <2>2, <3>1, FramesNext
    <2>4. Denotes(code', l + 2, 0, l + 1)
      <3>1. /\ l + 1 \in 1 .. (l + 2) - 1 /\ l + 2 \in Nat /\ l + 1 \in Nat
            /\ (l + 2) - 1 = l + 1 /\ (l + 1) + 1 = l + 2
            /\ \A m \in l + 2 .. l + 1 : FALSE
        BY <1>1
      <3>2. ASSUME NEW ops PROVE Count(code', ops, l + 2, l + 1) = 0
        <4>1. l + 2 > l + 1
          BY <1>1
        <4>2. QED
          BY <3>1, <4>1, CountType
      <3>3. QED
        BY <2>1, <2>2, <3>1, <3>2 DEF Denotes
    <2>5. \A j \in 1 .. k + 1 : j \in 1 .. k \/ j = k + 1
      BY <1>1
    <2>6. Len(code') + 1 = l + 2 /\ (k + 1) - (k + 1) = 0
      BY <1>1, <2>2
    <2>7. \A j \in 1 .. k + 1 :
            Denotes(code', Len(code') + 1, (k + 1) - j, control'[j].at)
      BY <2>2, <2>3, <2>4, <2>5, <2>6
    <2>8. FramesDenoted' /\ Len(control') <= Len(code')
      BY <1>1, <2>2, <2>7 DEF FramesDenoted
    <2>9. LabelsOf(code')
      BY <1>1, <2>1, LabelsGrow
    <2>10. QED
      BY <1>1, <2>1, <2>8, <2>9 DEF Resolved
  <1>7. CASE WritesEnd
    <2>1. /\ code' = Append(code, End) /\ body' = body /\ control' = Front(control)
          /\ control # <<>> /\ Deeper(End) = 0 /\ Shallower(End) = 1
          /\ End.op \notin BranchOps /\ End \in Token
      BY <1>7, OpFacts, TokenTypes DEF WritesEnd, Proceeds, Deeper, Shallower
    <2>2. /\ Len(code') = l + 1 /\ Len(control') = k - 1 /\ k - 1 \in Nat
          /\ \A j \in 1 .. k - 1 : control'[j] = control[j] /\ j \in 1 .. k
      BY <1>1, <2>1, FrontProps
    <2>3. ASSUME NEW j \in 1 .. k - 1
          PROVE  Denotes(code', Len(code') + 1, (k - 1) - j, control'[j].at)
      <3>1. (k - 1) - j \in Nat /\ (k - 1) - j = k - j + Deeper(End) - Shallower(End)
        BY <1>1, <2>1, <2>2
      <3>2. QED
        BY <1>1, <2>1, <2>2, <3>1, FramesNext
    <2>4. FramesDenoted' /\ Len(control') <= Len(code')
      <3>1. FramesDenoted'
        BY <2>2, <2>3 DEF FramesDenoted
      <3>2. k - 1 <= l + 1
        BY <1>1
      <3>3. QED
        BY <2>2, <3>1, <3>2
    <2>5. LabelsOf(code')
      BY <1>1, <2>1, LabelsGrow
    <2>6. QED
      BY <1>1, <2>1, <2>4, <2>5 DEF Resolved
  <1>8. ASSUME control' = <<>> PROVE FramesDenoted' /\ Len(control') = 0
    BY <1>8 DEF FramesDenoted
  <1>9. LabelsOf(Append(code, End)) /\ LabelsOf(<<>>) /\ NoBody.code = <<>>
    BY <1>1, LabelsGrow, TokenTypes, OpFacts DEF LabelsOf, NoBody
  <1>10. CASE HandsOver
    <2>1. control' = <<>> /\ code' = <<>> /\ body'.code = Append(code, End)
      BY <1>10 DEF HandsOver, Watched
    <2>2. Len(code') = 0
      BY <2>1
    <2>3. QED
      BY <1>8, <1>9, <2>1, <2>2 DEF Resolved
  <1>11. CASE GivesUpFinish
    <2>1. control' = <<>> /\ code' = Append(code, End) /\ body' = body
      BY <1>11 DEF GivesUpFinish, Watched
    <2>2. Len(code') = l + 1
      BY <1>1, <2>1, TokenTypes
    <2>3. QED
      BY <1>1, <1>8, <1>9, <2>1, <2>2 DEF Resolved
  <1>12. CASE StartsAfresh
    <2>1. control' = <<>> /\ code' = <<>> /\ body' = NoBody /\ Len(code') = 0
      BY <1>12 DEF StartsAfresh
    <2>2. QED
      BY <1>8, <1>9, <2>1 DEF Resolved
  <1>13. QED
    BY <1>3, <1>4, <1>5, <1>6, <1>7, <1>10, <1>11, <1>12 DEF Outcomes

\* Every label in a body, under way or finished, denotes the frame whose live
\* handle the branch was given, in a debug build and for every client that
\* does not reset under live handles: moves, errors and a failing realloc()
\* included.
THEOREM BranchesAlwaysHitFrames == Spec => []BranchesHitFrames
  <1> DEFINE IInv == Watched => Resolved
  <1>1. Init => IInv
    <2> SUFFICES ASSUME Init PROVE Resolved
      OBVIOUS
    <2>1. code = <<>> /\ control = <<>> /\ body.code = <<>>
      BY DEF Init, NoBody
    <2>2. Len(code) = 0 /\ Len(control) = 0 /\ LabelsOf(<<>>)
      BY <2>1 DEF LabelsOf
    <2>3. QED
      BY <2>1, <2>2 DEF Resolved, FramesDenoted
  <1>2. Inv /\ Owned /\ IInv /\ [Next]_vars => IInv'
    BY StepKinds, NextResolved DEF Watched
  <1>3. IInv => BranchesHitFrames
    BY DEF Resolved, Watched, LabelsOf, BranchesHitFrames, LabelsDenoteTargets
  <1>4. Init => Owned
    BY DEF Init, Owned, Denoted, Distinct
  <1>5. QED
    BY SpecInv, NextOwned, <1>1, <1>2, <1>3, <1>4, PTL DEF Spec
-----------------------------------------------------------------------------
(***************************************************************************)
(* Counting live handles.  NoUnderflow is inductive as it stands, and so   *)
(* is FramesHaveHandles.                                                   *)
(***************************************************************************)
LEMMA LiveFinite ==
  ASSUME Inv
  PROVE  /\ IsFiniteSet(LiveHandles) /\ Cardinality(LiveHandles) \in Nat
         /\ \A i \in LiveHandles : i \in 1 .. Len(scope) /\ Live(scope[i])
  <1>1. IsFiniteSet(1 .. Len(scope))
    BY InvFacts, FS_Interval
  <1>2. IsFiniteSet(LiveHandles)
    BY <1>1, FS_Subset DEF LiveHandles
  <1>3. QED
    BY <1>2, FS_CardinalityType DEF LiveHandles

\* What the two properties ask of a step.
Loses == \* One handle goes and its frame with it, or the emitter stops.
  /\ Cardinality(LiveHandles') = Cardinality(LiveHandles) - 1
  /\ \/ control # <<>> /\ control' = Front(control) /\ UNCHANGED <<status, tainted>>
     \/ control' = control /\ (tainted' \/ status' # "running")

Stays ==
  /\ Cardinality(LiveHandles') = Cardinality(LiveHandles) /\ control' = control
  /\ (status' = "running" => status = "running" \/ tainted') /\ (tainted => tainted')

Gains ==
  /\ Cardinality(LiveHandles') = Cardinality(LiveHandles) + 1
  /\ Len(control') = Len(control) + 1 /\ UNCHANGED <<status, tainted>>

Abandons ==
  /\ Cardinality(LiveHandles') \in 0 .. Cardinality(LiveHandles) /\ control' = control
  /\ ~(Moves \subseteq {"construct"})

Forgets == control' = <<>> /\ (~LiveResets => LiveHandles' = {})

Tallies == Loses \/ Stays \/ Gains \/ Abandons \/ Forgets

LEMMA SameHandles ==
  ASSUME scope' = scope, control' = control, tainted => tainted',
         status' = "running" => status = "running" \/ tainted'
  PROVE  Tallies
  BY DEF Tallies, Stays, LiveHandles

LEMMA PushFrameTallies ==
  ASSUME Inv, NEW kind \in FrameKinds, NEW bt \in BlockTypes, PushFrame(kind, bt)
  PROVE  Tallies
  <1> DEFINE at == Len(code) + 1
             h == [owned |-> TRUE, live |-> TRUE, depth |-> Len(control), at |-> at]
             n == Len(scope)
  <1>1. CASE /\ control' = Append(control, [kind |-> kind, at |-> at])
             /\ scope' = Append(scope, h) /\ UNCHANGED <<status, tainted>>
    <2>1. Live(h) /\ n \in Nat
      BY InvFacts DEF Live
    <2> HIDE DEF h
    <2>2. /\ Len(scope') = n + 1 /\ scope'[n + 1] = h
          /\ \A i \in 1 .. n : scope'[i] = scope[i]
          /\ \A i : i \in 1 .. n + 1 <=> i \in 1 .. n \/ i = n + 1
      BY <1>1, <2>1, InvFacts
    <2>3. LiveHandles' = LiveHandles \cup {n + 1}
      BY <2>1, <2>2 DEF LiveHandles
    <2>4. n + 1 \notin LiveHandles
      BY <2>1 DEF LiveHandles
    <2>5. Cardinality(LiveHandles') = Cardinality(LiveHandles) + 1
      BY <2>3, <2>4, LiveFinite, FS_AddElement
    <2>6. Len(control') = Len(control) + 1
      BY <1>1, InvFacts
    <2>7. QED
      BY <1>1, <2>5, <2>6 DEF Tallies, Gains
  <1>2. CASE control' = control /\ scope' = scope /\ tainted'
    BY <1>2, SameHandles
  <1>3. QED
    BY <1>1, <1>2 DEF PushFrame, Raise, Accept, RunOut

\* A handle is no longer live, and none of the others has changed.
LEMMA OneLess ==
  ASSUME Inv, NEW i \in 1 .. Len(scope), Live(scope[i]),
         LiveHandles' = LiveHandles \ {i}
  PROVE  Cardinality(LiveHandles') = Cardinality(LiveHandles) - 1
  <1>1. i \in LiveHandles
    BY DEF LiveHandles
  <1>2. QED
    BY <1>1, LiveFinite, FS_RemoveElement

LEMMA FrameEndTallies ==
  ASSUME Inv, NEW i \in 1 .. Len(scope), Live(scope[i]), NEW s, s # "running",
         FrameEnd(scope[i].depth, s), LiveHandles' = LiveHandles \ {i}
  PROVE  Tallies
  <1>1. Cardinality(LiveHandles') = Cardinality(LiveHandles) - 1
    BY OneLess
  <1>2. \/ control # <<>> /\ control' = Front(control) /\ UNCHANGED <<status, tainted>>
        \/ control' = control /\ (tainted' \/ status' # "running")
    BY DEF FrameEnd, Stop, Accept, RunOut
  <1>3. QED
    BY <1>1, <1>2 DEF Tallies, Loses

LEMMA MarkTallies ==
  ASSUME Inv, NEW i \in 1 .. Len(scope), EndFrame(i) \/ Detach(i)
  PROVE  Tallies
  <1> DEFINE d == [scope[i] EXCEPT !.live = FALSE]
  <1>1. scope' = [scope EXCEPT ![i] = d] /\ d \in Handle /\ ~Live(d) /\ Live(scope[i])
    BY InvFacts, HandleTypes DEF EndFrame, Detach, Handle, Live
  <1> HIDE DEF d
  <1>2. /\ Len(scope') = Len(scope)
        /\ \A k \in 1 .. Len(scope) : scope'[k] = IF k = i THEN d ELSE scope[k]
    BY <1>1, InvFacts, ExceptSeq
  <1>3. LiveHandles' = LiveHandles \ {i}
    BY <1>1, <1>2 DEF LiveHandles
  <1>4. CASE EndFrame(i)
    <2>1. FrameEnd(scope[i].depth, Reported) /\ Reported # "running"
      BY <1>4 DEF EndFrame, Reported
    <2>2. QED
      BY <1>1, <1>3, <2>1, FrameEndTallies
  <1>5. CASE Detach(i)
    <2>1. control' = control /\ "detach" \in Moves
      BY <1>5 DEF Detach
    <2>2. Cardinality(LiveHandles') = Cardinality(LiveHandles) - 1
      BY <1>1, <1>3, OneLess
    <2>3. i \in LiveHandles
      BY <1>1 DEF LiveHandles
    <2>4. LiveHandles # {} /\ Cardinality(LiveHandles) \in Nat
      BY <2>3, LiveFinite
    <2>5. Cardinality(LiveHandles) # 0
      BY <2>4, LiveFinite, FS_EmptySet
    <2>6. Cardinality(LiveHandles') \in 0 .. Cardinality(LiveHandles)
      BY <2>2, <2>4, <2>5
    <2>7. QED
      BY <2>1, <2>6 DEF Tallies, Abandons
  <1>6. QED
    BY <1>4, <1>5

LEMMA LeaveScopeTallies == ASSUME Inv, LeaveScope PROVE Tallies
  <1> DEFINE n == Len(scope)
             s == IF ErrorPolicy = "abort" THEN "aborted" ELSE "terminated"
  <1>1. scope # <<>> /\ scope' = Front(scope)
    BY DEF LeaveScope
  <1>2. /\ n \in Nat \ {0} /\ n \in 1 .. n /\ Len(scope') = n - 1
        /\ \A k \in 1 .. n - 1 : scope'[k] = scope[k]
    BY <1>1, InvFacts, FrontProps
  <1>3. \A k : k \in 1 .. n - 1 <=> k \in 1 .. n /\ k # n
    BY <1>2
  <1>4. LiveHandles' = LiveHandles \ {n}
    BY <1>2, <1>3 DEF LiveHandles
  <1>5. CASE ~Live(scope[n]) /\ UNCHANGED <<v, code, control, status, tainted, refused>>
    <2>1. LiveHandles' = LiveHandles
      BY <1>4, <1>5 DEF LiveHandles
    <2>2. QED
      BY <1>5, <2>1 DEF Tallies, Stays
  <1>6. CASE Live(scope[n]) /\ FrameEnd(scope[n].depth, s)
    BY <1>2, <1>4, <1>6, FrameEndTallies
  <1>7. QED
    BY <1>5, <1>6 DEF LeaveScope

\* Handle i is moved to place j: the live handles are the same, or as many.
LEMMA MovedLive ==
  ASSUME Inv, NEW i \in 1 .. Len(scope), NEW j, j # i,
         LiveHandles' = IF Live(scope[i]) THEN (LiveHandles \ {i}) \cup {j}
                                          ELSE LiveHandles \ {j}
  PROVE  /\ Cardinality(LiveHandles') \in 0 .. Cardinality(LiveHandles)
         /\ j \notin LiveHandles => Cardinality(LiveHandles') = Cardinality(LiveHandles)
  <1>1. IsFiniteSet(LiveHandles) /\ Cardinality(LiveHandles) \in Nat
    BY LiveFinite
  <1>2. CASE Live(scope[i])
    <2> DEFINE L == LiveHandles \ {i}
    <2>1. i \in LiveHandles /\ LiveHandles' = L \cup {j} /\ (j \in L <=> j \in LiveHandles)
      BY <1>2 DEF LiveHandles
    <2>2. IsFiniteSet(L) /\ Cardinality(L) = Cardinality(LiveHandles) - 1
      BY <1>1, <2>1, FS_RemoveElement
    <2>3. LiveHandles # {}
      BY <2>1
    <2>4. Cardinality(LiveHandles) # 0
      BY <1>1, <2>3, FS_EmptySet
    <2> HIDE DEF L
    <2>5. Cardinality(L \cup {j}) = IF j \in L THEN Cardinality(L) ELSE Cardinality(L) + 1
      BY <2>2, FS_AddElement
    <2>6. Cardinality(LiveHandles') = IF j \in LiveHandles THEN Cardinality(LiveHandles) - 1
                                                          ELSE Cardinality(LiveHandles)
      <3>1. Cardinality(LiveHandles') = Cardinality(L \cup {j})
        BY <2>1
      <3>2. Cardinality(L) + 1 = Cardinality(LiveHandles)
        BY <1>1, <2>2
      <3>3. CASE j \in LiveHandles
        BY <2>1, <2>2, <2>5, <3>1, <3>3
      <3>4. CASE j \notin LiveHandles
        BY <2>1, <2>5, <3>1, <3>2, <3>4
      <3>5. QED
        BY <3>3, <3>4
    <2>7. QED
      BY <1>1, <2>4, <2>6
  <1>3. CASE ~Live(scope[i])
    <2>1. LiveHandles' = LiveHandles \ {j}
      BY <1>3
    <2>2. Cardinality(LiveHandles \ {j}) =
            IF j \in LiveHandles THEN Cardinality(LiveHandles) - 1 ELSE Cardinality(LiveHandles)
      BY <1>1, FS_RemoveElement
    <2>3. j \in LiveHandles => Cardinality(LiveHandles) # 0
      BY <1>1, FS_EmptySet
    <2>4. QED
      BY <1>1, <2>1, <2>2, <2>3
  <1>4. QED
    BY <1>2, <1>3

LEMMA MoveTallies ==
  ASSUME Inv, NEW i \in 1 .. Len(scope), NEW j \in 1 .. Len(scope),
         MoveHandle(i) \/ MoveAssign(i, j)
  PROVE  Tallies
  <1> DEFINE m == MovedFrom(scope[i])
             n == Len(scope)
  <1>1. /\ scope \in Seq(Handle) /\ scope[i] \in Handle /\ m \in Handle
        /\ ~Live(m) /\ n \in Nat
    BY InvFacts, HandleTypes DEF Live, MovedFrom, Handle
  <1> HIDE DEF m
  <1>2. CASE MoveHandle(i)
    <2> DEFINE s == [scope EXCEPT ![i] = m]
    <2>1. /\ scope' = Append(s, scope[i]) /\ control' = control
          /\ UNCHANGED <<status, tainted>>
      BY <1>2 DEF MoveHandle, m
    <2>2. /\ s \in Seq(Handle) /\ Len(s) = n
          /\ \A k \in 1 .. n : s[k] = IF k = i THEN m ELSE scope[k]
      BY <1>1, ExceptSeq
    <2> HIDE DEF s
    <2>3. /\ Len(scope') = n + 1 /\ scope'[n + 1] = scope[i]
          /\ \A k \in 1 .. n : scope'[k] = s[k]
      BY <1>1, <2>1, <2>2, SMTT(30)
    <2>4. \A k : k \in 1 .. n + 1 <=> k \in 1 .. n \/ k = n + 1
      BY <1>1
    <2>5. LiveHandles' = {k \in 1 .. n + 1 : Live(scope'[k])}
      BY <2>3 DEF LiveHandles
    <2>6. n + 1 \notin LiveHandles /\ n + 1 # i
      BY <1>1 DEF LiveHandles
    <2>7. LiveHandles' = IF Live(scope[i]) THEN (LiveHandles \ {i}) \cup {n + 1}
                                           ELSE LiveHandles \ {n + 1}
      BY <1>1, <2>2, <2>3, <2>4, <2>5, <2>6 DEF LiveHandles
    <2>8. Cardinality(LiveHandles') = Cardinality(LiveHandles)
      BY <2>6, <2>7, MovedLive
    <2>9. QED
      BY <2>1, <2>8 DEF Tallies, Stays
  <1>3. CASE MoveAssign(i, j)
    <2> DEFINE s == [scope EXCEPT ![j] = scope[i]]
    <2>1. /\ scope' = [s EXCEPT ![i] = m] /\ i # j /\ control' = control
          /\ "assign" \in Moves
      BY <1>3 DEF MoveAssign, m
    <2>2. /\ s \in Seq(Handle) /\ Len(s) = n
          /\ \A k \in 1 .. n : s[k] = IF k = j THEN scope[i] ELSE scope[k]
      BY <1>1, ExceptSeq
    <2> HIDE DEF s
    <2>3. /\ Len(scope') = n
          /\ \A k \in 1 .. n : scope'[k] = IF k = i THEN m ELSE s[k]
      BY <1>1, <2>1, <2>2, ExceptSeq
    <2>4. LiveHandles' = {k \in 1 .. n : Live(scope'[k])}
      BY <2>3 DEF LiveHandles
    <2>5. LiveHandles' = IF Live(scope[i]) THEN (LiveHandles \ {i}) \cup {j}
                                           ELSE LiveHandles \ {j}
      BY <1>1, <2>1, <2>2, <2>3, <2>4 DEF LiveHandles
    <2>6. Cardinality(LiveHandles') \in 0 .. Cardinality(LiveHandles)
      BY <2>1, <2>5, MovedLive
    <2>7. QED
      BY <2>1, <2>6 DEF Tallies, Abandons
  <1>4. QED
    BY <1>2, <1>3

LEMMA NextTallies == Inv /\ [Next]_vars => Tallies
  <1> SUFFICES ASSUME Inv, [Next]_vars PROVE Tallies
    OBVIOUS
  <1>1. CASE \E i \in Calls : Emit(i)
    BY <1>1, SameHandles DEF Emit, Raise, Accept, RunOut
  <1>2. CASE \E kind \in FrameKinds, bt \in BlockTypes : PushFrame(kind, bt)
    BY <1>2, PushFrameTallies
  <1>3. CASE Br \/ BrIf \/ BrTable
    <2>1. \A op, hs : EmitBranch(op, hs) => Tallies
      BY SameHandles DEF EmitBranch, Raise, Accept, RunOut
    <2>2. QED
      BY <1>3, <2>1 DEF Br, BrIf, BrTable
  <1>4. CASE \E i \in 1 .. Len(scope) : EndFrame(i) \/ Detach(i)
    BY <1>4, MarkTallies
  <1>5. CASE \E i \in 1 .. Len(scope) : ElseFrame(i)
    BY <1>5, SameHandles DEF ElseFrame, Raise, Accept, RunOut, Stop
  <1>6. CASE \E i \in 1 .. Len(scope) : MoveHandle(i)
    BY <1>6, MoveTallies
  <1>7. CASE \E i, j \in 1 .. Len(scope) : MoveAssign(i, j)
    BY <1>7, MoveTallies
  <1>8. CASE LeaveScope
    BY <1>8, LeaveScopeTallies
  <1>9. CASE Finish
    BY <1>9, SameHandles DEF Finish, Raise, RunOut, RunOutOfLocals, Stop
  <1>10. CASE Catch
    BY <1>10, SameHandles DEF Catch, Inv
  <1>11. CASE UseHollow
    BY <1>11, SameHandles DEF UseHollow, Stop
  <1>12. CASE \E s \in Sigs : Rebind(s)
    BY <1>12 DEF Rebind, Tallies, Forgets, LiveHandles
  <1>13. CASE \/ \E t \in LocalTypes, count \in LocalCounts : DeclareLocals(t, count)
              \/ UNCHANGED vars
    <2>1. UNCHANGED <<control, scope, status, tainted>>
      BY <1>13 DEF DeclareLocals, vars
    <2>2. QED
      BY <2>1, SameHandles
  <1>14. QED
    BY <1>1, <1>2, <1>3, <1>4, <1>5, <1>6, <1>7, <1>8, <1>9, <1>10, <1>11,
       <1>12, <1>13 DEF Next

LEMMA NextCovered ==
  ASSUME Inv, NoUnderflow, FramesHaveHandles, Tallies
  PROVE  NoUnderflow' /\ FramesHaveHandles'
  <1>1. /\ Cardinality(LiveHandles) \in Nat /\ Len(control) \in Nat
        /\ control \in Seq(Frame)
    BY LiveFinite, InvFacts
  <1>2. CASE Loses
    <2>1. CASE control # <<>> /\ control' = Front(control) /\ UNCHANGED <<status, tainted>>
      <3>1. Len(control') = Len(control) - 1
        BY <1>1, <2>1, FrontProps
      <3>2. QED
        BY <1>1, <1>2, <2>1, <3>1 DEF Loses, NoUnderflow, FramesHaveHandles
    <2>2. CASE control' = control /\ (tainted' \/ status' # "running")
      BY <1>1, <1>2, <2>2 DEF Loses, NoUnderflow, FramesHaveHandles
    <2>3. QED
      BY <1>2, <2>1, <2>2 DEF Loses
  <1>3. CASE Stays
    BY <1>3 DEF Stays, NoUnderflow, FramesHaveHandles
  <1>4. CASE Gains
    BY <1>1, <1>4 DEF Gains, NoUnderflow, FramesHaveHandles
  <1>5. CASE Abandons
    <2>1. IsFiniteSet(LiveHandles)
      BY LiveFinite
    <2>2. QED
      BY <1>1, <1>5 DEF Abandons, NoUnderflow, FramesHaveHandles
  <1>6. CASE Forgets
    <2>1. Len(control') = 0 /\ Cardinality({}) = 0
      BY <1>6, FS_EmptySet DEF Forgets
    <2>2. QED
      BY <1>6, <2>1 DEF Forgets, NoUnderflow, FramesHaveHandles
  <1>7. QED
    BY <1>2, <1>3, <1>4, <1>5, <1>6 DEF Tallies

LEMMA CoveredInv == Spec => [](NoUnderflow /\ FramesHaveHandles)
  <1>1. Init => NoUnderflow /\ FramesHaveHandles
    <2> SUFFICES ASSUME Init PROVE NoUnderflow /\ FramesHaveHandles
      OBVIOUS
    <2>1. scope = <<>> /\ control = <<>> /\ Len(control) = 0 /\ Len(scope) = 0
      BY DEF Init
    <2>2. LiveHandles = {}
      BY <2>1 DEF LiveHandles
    <2>3. Cardinality(LiveHandles) = 0
      BY <2>2, FS_EmptySet
    <2>4. QED
      BY <2>1, <2>3 DEF NoUnderflow, FramesHaveHandles
  <1>2. Inv /\ NoUnderflow /\ FramesHaveHandles /\ [Next]_vars =>
          NoUnderflow' /\ FramesHaveHandles'
    BY NextTallies, NextCovered
  <1>3. QED
    BY SpecInv, <1>1, <1>2, PTL DEF Spec

\* control_.pop_back() never meets an empty vector: in every build and policy
\* there are at most as many live handles as open frames.
THEOREM NeverUnderflows == Spec => []NoUnderflow
  BY CoveredInv, PTL

\* Every open frame has a live handle that will end it, for a client that
\* neither detaches nor assigns over handles, until its first error.
THEOREM FramesAlwaysHaveHandles == Spec => []FramesHaveHandles
  BY CoveredInv, PTL
-----------------------------------------------------------------------------
(***************************************************************************)
(* Defined behaviour.  The two stacks mirror each other while a body is    *)
(* under way, and a live handle has a frame to end: by the assertion in    *)
(* FrameEnd() in a debug build, by counting in a release build.  What is   *)
(* left are the destructors that run after Finish(): it hands over a body  *)
(* with an open frame only where no validator has lost its own.            *)
(***************************************************************************)
Excused == ~Debug /\ (LiveResets \/ \E i \in 1 .. Len(scope) : ~scope[i].owned)

Defined ==
  /\ status = "finished" /\ (Debug \/ (Validating /\ ~tainted)) => control = <<>>
  /\ status = "undefined" /\ ~tainted => Excused

\* A validator that mirrors the emitter has the frame of the function.
LEMMA NotHollow ==
  ASSUME Inv, status = "running", ~tainted
  PROVE  ~Hollow
  <1>1. Validating => Mirror
    BY DEF Inv, StacksMirror
  <1>2. control \in Seq(Frame)
    BY DEF Inv, TypeOK, Frame
  <1>3. Len(control) \in Nat
    BY <1>2
  <1>4. Validating => Len(v.ctrls) # 0
    BY <1>1, <1>3 DEF Mirror
  <1>5. QED
    BY <1>4 DEF Hollow

\* Where handles are counted, a live one has a frame to end.
LEMMA LiveHasFrame ==
  ASSUME Inv, NoUnderflow, ~LiveResets, NEW i \in 1 .. Len(scope), Live(scope[i])
  PROVE  control # <<>>
  <1>1. i \in LiveHandles
    BY DEF LiveHandles
  <1>2. IsFiniteSet(LiveHandles) /\ Cardinality(LiveHandles) \in Nat
    BY LiveFinite
  <1>3. Cardinality(LiveHandles) # 0
    BY <1>1, <1>2, FS_EmptySet
  <1>4. Cardinality(LiveHandles) <= Len(control)
    BY DEF NoUnderflow
  <1>5. Len(<<>>) = 0
    OBVIOUS
  <1>6. QED
    BY <1>2, <1>3, <1>4, <1>5

\* An End, by call or by destructor, is defined until the first error, if it ends
\* a live handle; only a release build that resets under handles is excused.
LEMMA FrameEndDefined ==
  ASSUME Inv, Defined, NoUnderflow,
         status \in {"running", "finished", "unwinding"},
         NEW i \in 1 .. Len(scope), Live(scope[i]),
         NEW s \in {"aborted", "unwinding", "terminated"},
         FrameEnd(scope[i].depth, s)
  PROVE  Defined'
  <1> DEFINE depth == scope[i].depth
             w == OnEnd(v)
  <1>1. control \in Seq(Frame) /\ Len(control) \in Nat /\ depth \in Nat
    BY InvFacts
  <1>2. Innermost(depth) => control # <<>>
    BY <1>1 DEF Innermost
  <1> HIDE DEF depth, w
  <1>3. CASE Stop("asserted")
    BY <1>3 DEF Stop, Defined
  <1>4. CASE Debug => Innermost(depth)
    <2>1. Debug \/ ~LiveResets => control # <<>>
      BY <1>2, <1>4, LiveHasFrame
    <2>2. CASE Hollow /\ Stop("undefined")
      <3>1. status \in {"running", "unwinding"} /\ ~tainted => ~Hollow
        BY NotHollow DEF Inv
      <3>2. status = "finished" /\ ~tainted => control = <<>>
        BY <2>2 DEF Hollow, Defined
      <3>3. ~tainted => Excused'
        BY <2>1, <2>2, <3>1, <3>2 DEF Excused
      <3>4. QED
        BY <2>2, <3>3 DEF Stop, Defined
    <2>3. CASE status' = s
      BY <2>3 DEF Defined
    <2>4. CASE control = <<>> /\ Stop("undefined")
      <3>1. Excused'
        BY <2>1, <2>4 DEF Excused
      <3>2. QED
        BY <2>4, <3>1 DEF Stop, Defined
    <2>5. CASE Accept(w, End) /\ control # <<>>
      BY <2>5 DEF Accept, Defined
    <2>6. QED
      BY <1>4, <2>2, <2>3, <2>4, <2>5 DEF FrameEnd, RunOut, depth, w
  <1>5. QED
    BY <1>3, <1>4 DEF FrameEnd, depth

LEMMA NextDefined ==
  ASSUME Inv, Defined, NoUnderflow, [Next]_vars PROVE Defined'
  <1>1. ASSUME NEW i \in Calls, Emit(i) PROVE Defined'
    BY <1>1 DEF Emit, CanEmit, Raise, Reported, Accept, RunOut, Defined
  <1>2. ASSUME NEW kind \in FrameKinds, NEW bt \in BlockTypes, PushFrame(kind, bt)
        PROVE  Defined'
    BY <1>2 DEF PushFrame, CanEmit, Raise, Reported, Accept, RunOut, Defined
  <1>3. ASSUME NEW op, NEW hs, EmitBranch(op, hs) PROVE Defined'
    BY <1>3 DEF EmitBranch, CanEmit, Raise, Reported, Accept, RunOut, Defined
  <1>4. CASE Br \/ BrIf \/ BrTable
    BY <1>3, <1>4 DEF Br, BrIf, BrTable
  <1>5. ASSUME NEW i \in 1 .. Len(scope), EndFrame(i) PROVE Defined'
    <2>1. Reported \in {"aborted", "unwinding", "terminated"}
      BY ReportedType
    <2>2. status = "running" /\ Live(scope[i]) /\ FrameEnd(scope[i].depth, Reported)
      BY <1>5 DEF EndFrame
    <2>3. QED
      BY <2>1, <2>2, FrameEndDefined
  <1>6. CASE LeaveScope
    <2>1. CASE UNCHANGED <<v, code, control, status, tainted, refused>>
      <3>1. status # "undefined"
        BY <1>6 DEF LeaveScope
      <3>2. QED
        BY <2>1, <3>1 DEF Defined
    <2>2. CASE /\ Live(scope[Len(scope)])
               /\ FrameEnd(scope[Len(scope)].depth,
                           IF ErrorPolicy = "abort" THEN "aborted" ELSE "terminated")
      <3>1. scope \in Seq(Handle) /\ scope # <<>>
        BY <1>6, InvFacts DEF LeaveScope
      <3>2. Len(scope) \in 1 .. Len(scope)
        BY <3>1
      <3>3. status \in {"running", "finished", "unwinding"}
        BY <1>6 DEF LeaveScope
      <3>4. (IF ErrorPolicy = "abort" THEN "aborted" ELSE "terminated")
              \in {"aborted", "unwinding", "terminated"}
        OBVIOUS
      <3>5. QED
        BY <2>2, <3>2, <3>3, <3>4, FrameEndDefined
    <2>3. QED
      BY <1>6, <2>1, <2>2 DEF LeaveScope
  <1>7. ASSUME NEW i \in 1 .. Len(scope), ElseFrame(i) PROVE Defined'
    <2>1. CASE ~Debug /\ ~scope[i].owned /\ Stop("undefined")
      <3>1. scope' = scope
        BY <1>7 DEF ElseFrame
      <3>2. Excused'
        BY <2>1, <3>1 DEF Excused
      <3>3. QED
        BY <2>1, <3>2 DEF Stop, Defined
    <2>2. CASE status' = "asserted"
      BY <2>2 DEF Defined
    <2>3. CASE status = "running" /\ (status' = status \/ status' = Reported)
      BY <2>3 DEF Reported, Defined
    <2>4. QED
      BY <1>7, <2>1, <2>2, <2>3 DEF ElseFrame, CanEmit, Stop, Raise, Accept, RunOut
  <1>8. CASE Finish
    <2>1. status = "running"
      BY <1>8 DEF Finish
    <2>2. status' # "undefined"
      BY <1>8, <2>1 DEF Finish, Stop, Raise, Reported, RunOut, RunOutOfLocals
    <2>3. status' = "finished" => HandsOver
      BY <1>8, <2>1, FinishSteps
         DEF Outcomes, StepsAside, Writes, WritesBranch, WritesOpening, WritesEnd,
             GivesUpFinish, StartsAfresh, Proceeds
    <2>4. QED
      BY <2>2, <2>3 DEF HandsOver, Defined
  <1>9. CASE Catch
    BY <1>9 DEF Catch, Defined
  <1>10. CASE UseHollow
    BY <1>10, NotHollow DEF UseHollow, Stop, Defined
  <1>11. CASE \E s \in Sigs : Rebind(s)
    BY <1>11 DEF Rebind, Defined
  <1>12. CASE \/ \E t \in LocalTypes, count \in LocalCounts : DeclareLocals(t, count)
              \/ \E i \in 1 .. Len(scope) : MoveHandle(i) \/ Detach(i)
              \/ \E i, j \in 1 .. Len(scope) : MoveAssign(i, j)
    BY <1>12 DEF DeclareLocals, MoveHandle, Detach, MoveAssign, Defined
  <1>13. CASE UNCHANGED vars
    BY <1>13 DEF vars, Defined, Excused
  <1>14. QED
    BY <1>1, <1>2, <1>4, <1>5, <1>6, <1>7, <1>8, <1>9, <1>10, <1>11, <1>12, <1>13
       DEF Next

\* Until the first error no client reaches undefined behaviour in a debug build; in
\* a release build only one that resets under live handles or keeps a moved-from one
\* does: neither control stack is ever read or popped when empty.
THEOREM AlwaysDefinedUntilError == Spec => []DefinedUntilError
  <1>1. Init => Defined
    BY DEF Init, Defined
  <1>2. Inv /\ Defined /\ NoUnderflow /\ [Next]_vars => Defined'
    BY NextDefined
  <1>3. Defined => DefinedUntilError
    BY DEF Defined, Excused, DefinedUntilError
  <1>4. QED
    BY <1>1, <1>2, <1>3, SpecInv, NeverUnderflows, PTL DEF Spec
=============================================================================
