-------------------------- MODULE FunctionEmitter ---------------------------
(***************************************************************************)
(* FunctionEmitter<Policy> with the ControlFrame handles its client holds  *)
(* (function_emitter.hpp).  The client is any C++ program: it calls the    *)
(* emitter in any order, moves handles, lets them leave scope, and under   *)
(* WASMP_THROW_ON_ERROR catches wasmp::Error wherever it likes.            *)
(*                                                                         *)
(* The body is a sequence of instructions instead of bytes.  A frame is    *)
(* identified by `at', the place of its opening instruction in the body;   *)
(* `at' is not in the code and no guard reads it.                          *)
(***************************************************************************)
EXTENDS Instructions, Integers, FiniteSets

CONSTANTS
  Policy,       \* "Validate" or "Trust"
  ErrorPolicy,  \* "abort" or "throw": what ReportError does
  AllocFails,   \* TRUE if realloc() may fail whenever a byte is written
  Debug,        \* TRUE unless NDEBUG: WASMP_ASSERT is compiled in
  Calls,        \* instruction calls of the client
  BlockTypes,   \* block types of the client
  LocalTypes,   \* value types it declares locals of
  LocalCounts,  \* how many at a time
  Sigs,         \* signatures it binds the emitter to
  MaxTargets,   \* targets of a br_table besides the default
  StaleBranches,\* TRUE if it branches to handles that are no longer live
  LiveResets,   \* TRUE if it calls Reset() while it holds live handles
  Moves,        \* what else it does with handles: "construct", "assign", "detach"
  MaxCode,      \* bound: instructions in one body
  MaxScope,     \* bound: handles in scope
  MaxLocals,    \* bound: locals in one body
  U32           \* 2^32 in the code; any number above MaxCode in a model

FrameKinds == {"Block", "Loop", "If"}
BranchOps == {"Br", "BrIf", "BrTable"}

\* The calls are rows of the table; structured control is not.
ASSUME EmitterAssumption ==
  /\ Policy \in {"Validate", "Trust"}
  /\ ErrorPolicy \in {"abort", "throw"}
  /\ {Debug, AllocFails, StaleBranches, LiveResets} \subseteq BOOLEAN
  /\ Moves \subseteq {"construct", "assign", "detach"}
  /\ Calls \subseteq Instructions
  /\ \A i \in Calls : i.op \notin FrameKinds \cup BranchOps \cup {"End", "Else"}
  /\ BlockTypes \subseteq BlockType
  /\ LocalTypes \subseteq ValTypes
  /\ LocalCounts \subseteq Nat
  /\ Sigs \subseteq TypeIdx
  /\ {MaxTargets, MaxCode, MaxScope, MaxLocals} \subseteq Nat
  /\ U32 \in Nat /\ U32 > MaxCode + 1

VARIABLES
  v,         \* v_, the validator
  code,      \* code_, as instructions
  control,   \* control_, with the identity of each frame
  runs,      \* local_runs_
  numLocals, \* num_locals_
  sig,       \* sig_
  scope,     \* the client's handles, in order of construction
  status,    \* see Status
  tainted,   \* an error was thrown since the last Reset()
  refused,   \* the calls that raised the error, for the properties
  body       \* the FunctionBody of the last Finish()

vars == <<v, code, control, runs, numLocals, sig, scope, status, tainted,
          refused, body>>
emission == <<runs, numLocals, sig, body>>

Validating == Policy = "Validate"

(***************************************************************************)
(* unbound: constructed without a signature.  unwinding: wasmp::Error is   *)
(* on its way to a handler.  The last four end the program: ReportError    *)
(* aborted, a WASMP_ASSERT fired, an exception left a destructor, or the   *)
(* call has undefined behaviour.                                           *)
(***************************************************************************)
Status == {"unbound", "running", "finished", "unwinding",
           "aborted", "asserted", "terminated", "undefined"}

End == [op |-> "End"]
Else == [op |-> "Else"]
FinishCall == [op |-> "Finish"]
Opening == [op : FrameKinds, bt : BlockTypes]
\* `to' names the frames the client meant, the default of a br_table last.
Branch == [op : BranchOps, rels : Seq(Nat), to : Seq(Nat)]
Token == Calls \cup Opening \cup Branch \cup {End, Else, FinishCall}

Handle == [owned : BOOLEAN, live : BOOLEAN, depth : Nat, at : Nat]
NoBody == [runs |-> <<>>, code |-> <<>>]

Front(s) == SubSeq(s, 1, Len(s) - 1)

Init ==
  /\ sig \in Sigs
  /\ \/ status = "running" /\ v = IF Validating THEN InitValidator(sig) ELSE NoValidator
     \/ status = "unbound" /\ v = NoValidator
  /\ code = <<>> /\ control = <<>> /\ runs = <<>> /\ numLocals = 0
  /\ scope = <<>> /\ tainted = FALSE /\ refused = <<>> /\ body = NoBody

(***************************************************************************)
(* Errors and the end of the program.                                      *)
(***************************************************************************)
Rejects(w) == Validating /\ ~w.ok

\* An object whose control stack is gone: the next hook reads ctrls_.back()
\* of an empty vector.
Hollow == Validating /\ v.ctrls = <<>>

Stop(s) == status' = s /\ UNCHANGED <<v, code, control, tainted, refused>>

\* The status a ReportError leads to outside a destructor.
Reported == IF ErrorPolicy = "abort" THEN "aborted" ELSE "unwinding"

\* ReportError in a call that is not a destructor.
Raise(w, token) ==
  /\ v' = [w EXCEPT !.ok = TRUE]
  /\ status' = Reported /\ tainted' = TRUE /\ refused' = <<token>>
  /\ UNCHANGED <<code, control>>

\* The validator accepted, the bytes are written.
Accept(w, token) ==
  /\ v' = IF Validating THEN w ELSE v
  /\ code' = Append(code, token)
  /\ UNCHANGED <<status, tainted, refused>>

\* The validator accepted, the buffer could not grow: the validator stays one
\* instruction ahead of the body.  s is where ReportError leads.  Bound: it is
\* the first error of its body.
RunOut(w, s) ==
  /\ AllocFails /\ ~tainted
  /\ v' = IF Validating THEN w ELSE v
  /\ status' = s /\ tainted' = TRUE /\ refused' = <<>>
  /\ UNCHANGED <<code, control>>

CanEmit == status = "running" /\ Len(code) < MaxCode /\ ~Hollow

(***************************************************************************)
(* Instructions without a frame, and locals.                               *)
(***************************************************************************)
Emit(i) ==
  LET w == Hook(v, i)
  IN  /\ CanEmit
      /\ \/ Rejects(w) /\ Raise(w, i)
         \/ ~Rejects(w) /\ Accept(w, i) /\ UNCHANGED control
         \/ ~Rejects(w) /\ RunOut(w, Reported)
      /\ UNCHANGED <<emission, scope>>

DeclareLocals(t, count) ==
  LET n == Len(runs)
      merges == n > 0 /\ runs[n].type = t
  IN  /\ status = "running"
      /\ numLocals + count <= MaxLocals /\ n < MaxLocals
      /\ runs' = IF merges THEN [runs EXCEPT ![n].count = @ + count]
                 ELSE Append(runs, [type |-> t, count |-> count])
      /\ numLocals' = numLocals + count
      /\ v' = IF Validating THEN AddLocals(v, t, count) ELSE v
      /\ UNCHANGED <<code, control, sig, scope, status, tainted, refused, body>>

(***************************************************************************)
(* Opening a frame, and branches to one.                                   *)
(***************************************************************************)
PushFrame(kind, bt) ==
  LET w == OnCtrlStart(v, kind, bt)
      token == [op |-> kind, bt |-> bt]
      at == Len(code) + 1
  IN  /\ CanEmit /\ Len(scope) < MaxScope
      /\ \/ Rejects(w) /\ Raise(w, token) /\ UNCHANGED scope
         \/ ~Rejects(w) /\ RunOut(w, Reported) /\ UNCHANGED scope
         \/ /\ ~Rejects(w) /\ Accept(w, token)
            /\ control' = Append(control, [kind |-> kind, at |-> at])
            /\ scope' = Append(scope, [owned |-> TRUE, live |-> TRUE,
                                       depth |-> Len(control), at |-> at])
      /\ UNCHANGED emission

\* A faulty variant: the innermost frame is label 1.
RelDepthFromOne(h) == (Len(control) - h.depth) % U32

\* An unsigned subtraction: it wraps for a handle deeper than the stack.
RelDepth(h) == (Len(control) - 1 - h.depth) % U32

Live(h) == h.owned /\ h.live
MayTarget(h) == StaleBranches \/ Live(h)

OnBranch(op, rels) == CASE op = "Br" -> OnBr(v, rels[1])
                        [] op = "BrIf" -> OnBrIf(v, rels[1])
                        [] op = "BrTable" -> OnBrTable(v, rels)

\* hs indexes the handles passed; the last one is the default of br_table.
EmitBranch(op, hs) ==
  LET rels == [k \in 1 .. Len(hs) |-> RelDepth(scope[hs[k]])]
      w == OnBranch(op, rels)
      token == [op |-> op, rels |-> rels,
                to |-> [k \in 1 .. Len(hs) |-> scope[hs[k]].at]]
  IN  /\ CanEmit
      /\ \A k \in 1 .. Len(hs) : MayTarget(scope[hs[k]])
      /\ \/ Rejects(w) /\ Raise(w, token)
         \/ ~Rejects(w) /\ Accept(w, token) /\ UNCHANGED control
         \/ ~Rejects(w) /\ RunOut(w, Reported)
      /\ UNCHANGED <<emission, scope>>

Br == \E h \in 1 .. Len(scope) : EmitBranch("Br", <<h>>)
BrIf == \E h \in 1 .. Len(scope) : EmitBranch("BrIf", <<h>>)
BrTable == \E n \in 1 .. MaxTargets + 1 :
             \E hs \in [1 .. n -> 1 .. Len(scope)] : EmitBranch("BrTable", hs)

(***************************************************************************)
(* Closing frames.  FrameEnd(d, s) is FunctionEmitter::FrameEnd(d) with s  *)
(* the status that a ReportError inside it leads to.                       *)
(***************************************************************************)
Innermost(depth) == depth + 1 = Len(control)

FrameEnd(depth, s) ==
  LET w == OnEnd(v)
  IN  \/ Debug /\ ~Innermost(depth) /\ Stop("asserted")
      \/ /\ Debug => Innermost(depth)
         /\ \/ Hollow /\ Stop("undefined")
            \/ /\ ~Hollow /\ Rejects(w)
               /\ v' = [w EXCEPT !.ok = TRUE] /\ status' = s
               /\ tainted' = TRUE /\ refused' = <<End>>
               /\ UNCHANGED <<code, control>>
            \/ ~Hollow /\ ~Rejects(w) /\ RunOut(w, s)
            \/ ~Hollow /\ ~Rejects(w) /\ control = <<>> /\ Stop("undefined")
            \/ /\ ~Hollow /\ ~Rejects(w) /\ control # <<>>
               /\ Accept(w, End)
               /\ control' = Front(control)

\* A faulty variant: the handle stays live and ends the frame again.
EndFrameTwice(i) ==
  /\ status = "running" /\ Live(scope[i])
  /\ FrameEnd(scope[i].depth, Reported)
  /\ UNCHANGED <<emission, scope>>

\* ControlFrame::End() gives up the handle before it calls FrameEnd.
EndFrame(i) ==
  /\ status = "running" /\ Live(scope[i])
  /\ scope' = [scope EXCEPT ![i].live = FALSE]
  /\ FrameEnd(scope[i].depth, Reported)
  /\ UNCHANGED emission

\* A faulty variant: a handle that leaves scope ends nothing.
ForgetHandle ==
  /\ status \in {"running", "finished", "unwinding"}
  /\ scope # <<>> /\ scope' = Front(scope)
  /\ UNCHANGED <<v, code, control, status, tainted, refused, emission>>

\* ~ControlFrame() is noexcept: an exception that leaves it is std::terminate.
\* Handles leave scope in reverse order of construction, also while an
\* exception unwinds.
LeaveScope ==
  LET h == scope[Len(scope)]
  IN  /\ status \in {"running", "finished", "unwinding"}
      /\ scope # <<>> /\ scope' = Front(scope)
      /\ \/ /\ ~Live(h)
            /\ UNCHANGED <<v, code, control, status, tainted, refused>>
         \/ /\ Live(h)
            /\ FrameEnd(h.depth, IF ErrorPolicy = "abort" THEN "aborted"
                                 ELSE "terminated")
      /\ UNCHANGED emission

ElseFrame(i) ==
  LET h == scope[i]
      w == OnElse(v)
      legal == Live(h) /\ Innermost(h.depth) /\ control[Len(control)].kind = "If"
  IN  /\ CanEmit
      /\ \/ Debug /\ ~legal /\ Stop("asserted")
         \/ ~Debug /\ ~h.owned /\ Stop("undefined")
         \/ /\ Debug => legal
            /\ h.owned
            /\ \/ Rejects(w) /\ Raise(w, Else)
               \/ ~Rejects(w) /\ Accept(w, Else) /\ UNCHANGED control
               \/ ~Rejects(w) /\ RunOut(w, Reported)
      /\ UNCHANGED <<emission, scope>>

(***************************************************************************)
(* Moving and giving up handles.  A move assignment overwrites the target  *)
(* without ending the frame that the target held.                          *)
(***************************************************************************)
\* A faulty variant: the source of a move still owns the frame.
CopiedFrom(h) == h

MovedFrom(h) == [h EXCEPT !.owned = FALSE, !.live = FALSE]

MoveHandle(i) ==
  /\ "construct" \in Moves /\ status = "running" /\ Len(scope) < MaxScope
  /\ scope' = Append([scope EXCEPT ![i] = MovedFrom(@)], scope[i])
  /\ UNCHANGED <<v, code, control, status, tainted, refused, emission>>

MoveAssign(i, j) ==
  /\ "assign" \in Moves /\ status = "running" /\ i # j
  /\ scope' = [scope EXCEPT ![j] = scope[i], ![i] = MovedFrom(@)]
  /\ UNCHANGED <<v, code, control, status, tainted, refused, emission>>

Detach(i) ==
  /\ "detach" \in Moves /\ status = "running" /\ Live(scope[i])
  /\ scope' = [scope EXCEPT ![i].live = FALSE]
  /\ UNCHANGED <<v, code, control, status, tainted, refused, emission>>

(***************************************************************************)
(* Finish, reuse and recovery.                                             *)
(***************************************************************************)

\* The End is written and the buffer of the local declarations cannot grow.
RunOutOfLocals(w) ==
  /\ AllocFails /\ ~tainted
  /\ v' = IF Validating THEN w ELSE v
  /\ code' = Append(code, End)
  /\ status' = Reported /\ tainted' = TRUE /\ refused' = <<>>
  /\ UNCHANGED control

Finish ==
  LET w == OnFunctionEnd(v)
  IN  /\ status = "running" /\ ~Hollow
      /\ \/ Debug /\ control # <<>> /\ Stop("asserted") /\ UNCHANGED body
         \/ /\ Debug => control = <<>>
            /\ \/ Rejects(w) /\ Raise(w, FinishCall) /\ UNCHANGED body
               \/ ~Rejects(w) /\ RunOut(w, Reported) /\ UNCHANGED body
               \/ ~Rejects(w) /\ RunOutOfLocals(w) /\ UNCHANGED body
               \/ /\ ~Rejects(w)
                  /\ v' = IF Validating THEN w ELSE v
                  /\ body' = [runs |-> runs, code |-> Append(code, End)]
                  /\ code' = <<>>          \* code_ is moved into the body
                  /\ status' = "finished"
                  /\ UNCHANGED <<control, tainted, refused>>
      /\ UNCHANGED <<runs, numLocals, sig, scope>>

\* Faulty variants: Reset() forgets to clear control_, or code_.
RebindOverFrames(s) ==
  /\ status \in {"unbound", "running", "finished"}
  /\ LiveResets \/ \A i \in 1 .. Len(scope) : ~Live(scope[i])
  /\ sig' = s /\ code' = <<>> /\ runs' = <<>> /\ numLocals' = 0
  /\ v' = IF Validating THEN InitValidator(s) ELSE v
  /\ status' = "running" /\ tainted' = FALSE /\ refused' = <<>> /\ body' = NoBody
  /\ UNCHANGED <<scope, control>>

RebindOverCode(s) ==
  /\ status \in {"unbound", "running", "finished"}
  /\ LiveResets \/ \A i \in 1 .. Len(scope) : ~Live(scope[i])
  /\ sig' = s /\ control' = <<>> /\ runs' = <<>> /\ numLocals' = 0
  /\ v' = IF Validating THEN InitValidator(s) ELSE v
  /\ status' = "running" /\ tainted' = FALSE /\ refused' = <<>> /\ body' = NoBody
  /\ UNCHANGED <<scope, code>>

\* SetSignature(s); Reset() is the case s = sig_.
Rebind(s) ==
  /\ status \in {"unbound", "running", "finished"}
  /\ LiveResets \/ \A i \in 1 .. Len(scope) : ~Live(scope[i])
  /\ sig' = s /\ code' = <<>> /\ control' = <<>> /\ runs' = <<>> /\ numLocals' = 0
  /\ v' = IF Validating THEN InitValidator(s) ELSE v
  /\ status' = "running" /\ tainted' = FALSE /\ refused' = <<>> /\ body' = NoBody
  /\ UNCHANGED scope

\* A handler somewhere up the stack catches wasmp::Error and goes on.
Catch ==
  /\ status = "unwinding" /\ status' = "running" /\ refused' = <<>>
  /\ UNCHANGED <<v, code, control, scope, tainted, emission>>

\* A call on an emitter whose validator has no frame left.
UseHollow == status = "running" /\ Hollow /\ Stop("undefined") /\ UNCHANGED <<emission, scope>>

Next ==
  \/ \E i \in Calls : Emit(i)
  \/ \E t \in LocalTypes, count \in LocalCounts : DeclareLocals(t, count)
  \/ \E kind \in FrameKinds, bt \in BlockTypes : PushFrame(kind, bt)
  \/ Br \/ BrIf \/ BrTable
  \/ \E i \in 1 .. Len(scope) : EndFrame(i) \/ ElseFrame(i) \/ MoveHandle(i) \/ Detach(i)
  \/ \E i, j \in 1 .. Len(scope) : MoveAssign(i, j)
  \/ LeaveScope \/ Finish \/ Catch \/ UseHollow
  \/ \E s \in Sigs : Rebind(s)

Spec == Init /\ [][Next]_vars
-----------------------------------------------------------------------------
(***************************************************************************)
(* Properties.                                                             *)
(***************************************************************************)
\* Every variable has its type; `ok' is a transient of the hooks.
TypeOK ==
  /\ v \in Validators /\ v.ok
  /\ code \in Seq(Token)
  /\ control \in Seq([kind : FrameKinds, at : Nat])
  /\ runs \in Seq([type : LocalTypes, count : Nat]) /\ numLocals \in Nat
  /\ sig \in Sigs /\ scope \in Seq(Handle)
  /\ status \in Status /\ tainted \in BOOLEAN
  /\ refused \in Seq(Token)
  /\ body \in [runs : Seq([type : LocalTypes, count : Nat]), code : Seq(Token)]

\* Frame heights nest and stay within the operand stack, whatever calls failed
\* before: so Unreachable() never grows vals_ with made-up operands, and
\* PopVal()'s test for equality with the height never misses it.
HeightsNest == Nested(v)

\* The emitter and its validator keep separate control stacks.  While no error
\* was thrown they describe the same frames, and those frames have the kinds
\* and types of the opening instructions that were written to the body.
MirrorAt(k) ==
  LET opening == code[control[k].at]
      frame == v.ctrls[k + 1]
  IN  /\ control[k].at \in 1 .. Len(code)
      /\ opening.op = frame.kind /\ control[k].kind = frame.kind
      /\ frame.in = BlockIn(opening.bt) /\ frame.out = BlockOut(opening.bt)

Mirror ==
  /\ Len(v.ctrls) = Len(control) + 1
  /\ v.ctrls[1].kind = "Func" /\ v.ctrls[1].out = TypeResults(sig)
  /\ \A k \in 1 .. Len(control) : MirrorAt(k)

StacksMirror == Validating /\ status = "running" /\ ~tainted => Mirror

\* What a reader makes of local declarations, behind the parameters.
Expand(rs) ==
  LET upTo[n \in 0 .. Len(rs)] ==
        IF n = 0 THEN <<>> ELSE upTo[n - 1] \o [k \in 1 .. rs[n].count |-> rs[n].type]
  IN  upTo[Len(rs)]
LocalsOf(rs) == TypeParams(sig) \o Expand(rs)

\* The local declarations of the body decode to the locals the validator
\* resolved indices with, and num_locals_ counts them.
LocalsDecode ==
  /\ Validating /\ status # "unbound" => v.locals = LocalsOf(runs)
  /\ Len(Expand(runs)) = numLocals

\* In a debug build a live handle denotes the frame it was made for, however
\* handles were moved, ended or abandoned and wherever an exception passed.
\* LiveResets is excluded: Reset() forgets frames that handles still name.
HandlesDenoteFrames ==
  Debug /\ ~LiveResets =>
    \A i \in 1 .. Len(scope) : Live(scope[i]) =>
       /\ scope[i].depth < Len(control)
       /\ control[scope[i].depth + 1].at = scope[i].at

(***************************************************************************)
(* What the label rel of the branch at place k of c denotes: the opening   *)
(* instruction that encloses k with rel frames between them.               *)
(***************************************************************************)
Count(c, ops, lo, hi) == Cardinality({m \in lo .. hi : c[m].op \in ops})

Denotes(c, k, rel, p) ==
  /\ p \in 1 .. k - 1 /\ c[p].op \in FrameKinds
  /\ \A m \in p + 1 .. k - 1 :
       Count(c, {"End"}, p + 1, m) <= Count(c, FrameKinds, p + 1, m)
  /\ Count(c, FrameKinds, p + 1, k - 1) = Count(c, {"End"}, p + 1, k - 1) + rel

\* "Branch targets are frames": every label in a body denotes the frame whose
\* handle was passed, as a reader of the finished bytes resolves it.
LabelsDenoteTargets ==
  \A c \in {code, body.code} : \A k \in 1 .. Len(c) :
    c[k].op \in BranchOps =>
      \A n \in 1 .. Len(c[k].rels) : Denotes(c, k, c[k].rels[n], c[k].to[n])

\* It holds in a debug build of a client that branches to live handles only.
BranchesHitFrames == Debug /\ ~StaleBranches /\ ~LiveResets => LabelsDenoteTargets

LiveHandles == {i \in 1 .. Len(scope) : Live(scope[i])}

\* control_.pop_back() always has a frame to pop: there are never more live
\* handles than open frames, in every build and policy, errors and a failing
\* realloc() included.
NoUnderflow == ~LiveResets => Cardinality(LiveHandles) <= Len(control)

\* No frame is forgotten: while no error was thrown and the client neither
\* detaches handles nor assigns over them, each open frame has a live handle
\* that will end it, in every build and policy.
FramesHaveHandles ==
  Moves \subseteq {"construct"} /\ ~LiveResets /\ ~tainted /\ status = "running" =>
    Len(control) <= Cardinality(LiveHandles)

\* A finished body closes exactly the frames it opened, then itself; a debug
\* build sees to that even with no validator and after errors, unless Finish()
\* itself ran out of memory behind its End and is called again.
Balanced(c) ==
  /\ Count(c, {"End"}, 1, Len(c)) = Count(c, FrameKinds, 1, Len(c)) + 1
  /\ \A m \in 1 .. Len(c) - 1 : Count(c, {"End"}, 1, m) <= Count(c, FrameKinds, 1, m)

FinishedIsBalanced ==
  (/\ status = "finished"
   /\ IF Debug THEN ~tainted \/ ~AllocFails ELSE Validating /\ ~tainted) =>
     Balanced(body.code)

\* Until the first error a debug build has defined behaviour, whatever the client
\* does with its handles: no hook reads the back of an empty control stack, none is
\* popped, and no moved-from handle is asked for an else.  A release build has, too,
\* as long as the client neither resets under live handles nor keeps a moved-from one.
DefinedUntilError ==
  ~tainted /\ status = "undefined" =>
    ~Debug /\ (LiveResets \/ \E i \in 1 .. Len(scope) : ~scope[i].owned)

\* WASMP_THROW_ON_ERROR throws wasmp::Error: the program is not terminated.
ErrorsAreThrown == ErrorPolicy = "throw" => status # "terminated"
=============================================================================
