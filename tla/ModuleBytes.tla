---------------------------- MODULE ModuleBytes -----------------------------
(***************************************************************************)
(* The bytes of a module by their number: instructions written through raw *)
(* cursors into the emitter's buffer (function_emitter.hpp), bodies handed *)
(* over by Finish(), and Assemble()'s sections, which are built apart,     *)
(* sized, and written in one pass into one reservation (module.hpp).       *)
(*                                                                         *)
(* The encoders do not check bounds: each instruction reserves the most    *)
(* that its shape can take and writes what its immediates do take.         *)
(***************************************************************************)
EXTENDS CodeBuffer, Sequences

CONSTANTS
  Targets,      \* target counts of a br_table, the default not counted
  LocalCounts,  \* how many locals a run declares
  OtherSizes,   \* sizes of the sections besides the code section
  MaxCode,      \* bound: instructions in one body
  MaxRuns,      \* bound: runs of locals in one body
  MaxBodies,    \* bound: functions
  MaxOther      \* bound: other sections

ASSUME SizesAssumption ==
  /\ Targets \subseteq Nat /\ LocalCounts \subseteq Nat /\ OtherSizes \subseteq Nat
  /\ {MaxCode, MaxRuns, MaxBodies, MaxOther} \subseteq Nat

VARIABLES
  phase,   \* see Phases
  code,    \* code_ of the emitter
  count,   \* instructions in it, for the bound
  runs,    \* the counts in local_runs_
  bodies,  \* the FunctionBody of each function
  sec,     \* the buffer under construction: local declarations, code section
  at,      \* the counter of the running loop
  secs,    \* sizes of the collected sections
  totals,  \* the precomputed size, after the preamble and after each section
  out      \* the buffer of the module

vars == <<phase, code, count, runs, bodies, sec, at, secs, totals, out>>
emitter == <<code, count, runs>>
assembly == <<sec, at, secs, totals, out>>

Phases == {"emit", "locals", "finished", "build", "size", "write", "done"}

Init ==
  /\ phase = "emit" /\ code = Fresh /\ count = 0 /\ runs = <<>> /\ bodies = <<>>
  /\ sec = Fresh /\ at = 0 /\ secs = <<>> /\ totals = <<>> /\ out = Fresh

(***************************************************************************)
(* Instructions.  Lengths is what one of a shape can take and Room what    *)
(* its method reserves; n is the number of targets of a br_table.          *)
(***************************************************************************)
Shapes == {"NONE", "IDX", "I32", "I64", "F32", "F64", "BYTE", "MEMARG",
           "MEMARG_LANE", "MEMINIT", "BYTES16", "TWO_IDX", "SELECT_T",
           "BLOCK_TYPE", "BR_TABLE"}

Plus(A, B) == {a + b : a \in A, b \in B}

\* One byte, or a prefix and a sub-opcode of 24 bits.
OpLengths == {1} \cup Plus({1}, Leb(24))

\* The alignment is a byte, the memory index is there if it is not 0.
MemArgLengths == Plus(Leb(8), Plus({0} \cup Leb(32), Leb(64)))

Immediates(shape, n) ==
  CASE shape = "NONE" -> {0}
    [] shape = "IDX" -> Leb(32)
    [] shape = "I32" -> Leb(32)
    [] shape = "I64" -> Leb(64)
    [] shape = "F32" -> {4}
    [] shape = "F64" -> {8}
    [] shape = "BYTE" -> {1}
    [] shape = "MEMARG" -> MemArgLengths
    [] shape = "MEMARG_LANE" -> Plus(MemArgLengths, {1})
    [] shape = "MEMINIT" -> Plus(Leb(32), {1})
    [] shape = "BYTES16" -> {16}
    [] shape = "TWO_IDX" -> Plus(Leb(32), Leb(32))
    [] shape = "SELECT_T" -> {2}
    [] shape = "BLOCK_TYPE" -> {1} \cup Leb(33)
    [] shape = "BR_TABLE" -> n + 2 .. 5 * (n + 2)

kMaxOpBytes == 1 + kMaxULEB32
kMaxMemArg == kMaxULEB32 + kMaxULEB32 + kMaxULEB64

\* A faulty variant: br_table forgets its count and its default target.
RoomOfTargets(shape, n) ==
  IF shape = "BR_TABLE" THEN kMaxOpBytes + kMaxULEB32 * n ELSE kMaxOpBytes + 21

Room(shape, n) ==
  kMaxOpBytes +
  CASE shape = "NONE" -> 0
    [] shape = "IDX" -> kMaxULEB32
    [] shape = "I32" -> kMaxSLEB32
    [] shape = "I64" -> kMaxSLEB64
    [] shape = "F32" -> 4
    [] shape = "F64" -> 8
    [] shape = "BYTE" -> 1
    [] shape = "MEMARG" -> kMaxMemArg
    [] shape = "MEMARG_LANE" -> kMaxMemArg + 1
    [] shape = "MEMINIT" -> kMaxULEB32 + 1
    [] shape = "BYTES16" -> 16
    [] shape = "TWO_IDX" -> 2 * kMaxULEB32
    [] shape = "SELECT_T" -> 2
    [] shape = "BLOCK_TYPE" -> 1 + kMaxSLEB33
    [] shape = "BR_TABLE" -> kMaxULEB32 * (n + 2)

Emitting == phase = "emit" /\ Len(bodies) < MaxBodies

Emit(shape, n) ==
  /\ Emitting /\ count < MaxCode
  /\ \E op \in OpLengths, imm \in Immediates(shape, n) :
       code' = Write(code, Room(shape, n), op + imm)
  /\ count' = count + 1
  /\ UNCHANGED <<phase, runs, bodies, assembly>>

\* Else and End of a frame are single checked bytes.
Delimit ==
  /\ Emitting /\ count < MaxCode
  /\ code' = PutU8(code) /\ count' = count + 1
  /\ UNCHANGED <<phase, runs, bodies, assembly>>

\* A run of a new type; runs of the same type merge in FunctionEmitter.
DeclareLocals(n) ==
  /\ Emitting /\ Len(runs) < MaxRuns /\ runs' = Append(runs, n)
  /\ UNCHANGED <<phase, code, count, bodies, assembly>>

(***************************************************************************)
(* Finish() closes the body, writes the local declarations to a buffer of  *)
(* their own, one step per run, and moves both out.                        *)
(***************************************************************************)
Finish ==
  /\ Emitting /\ phase' = "locals"
  /\ code' = PutU8(code) /\ sec' = PutULEB(Fresh, Len(runs)) /\ at' = 0
  /\ UNCHANGED <<count, runs, bodies, secs, totals, out>>

PutRun ==
  /\ phase = "locals" /\ at < Len(runs) /\ at' = at + 1
  /\ sec' = PutU8(PutULEB(sec, runs[at + 1]))
  /\ UNCHANGED <<phase, emitter, bodies, secs, totals, out>>

HandOver ==
  /\ phase = "locals" /\ at = Len(runs) /\ phase' = "finished"
  /\ bodies' = Append(bodies, [locals |-> sec.size, code |-> code.size])
  /\ code' = Fresh /\ sec' = Fresh
  /\ UNCHANGED <<count, runs, at, secs, totals, out>>

\* Reset() before the next body, or of one that is given up.
ResetEmitter ==
  /\ phase \in {"emit", "finished"}
  /\ code' = Reset(code) /\ count' = 0 /\ runs' = <<>> /\ phase' = "emit"
  /\ UNCHANGED <<bodies, assembly>>

(***************************************************************************)
(* Assemble: build the sections, each in a buffer of its own.              *)
(***************************************************************************)
EncodedSize(body) == body.locals + body.code

Assemble ==
  /\ phase = "finished" /\ phase' = "build"
  /\ sec' = PutULEB(Fresh, Len(bodies)) /\ at' = 0
  /\ UNCHANGED <<emitter, bodies, secs, totals, out>>

\* A section before or after code.
OtherSection(size) ==
  /\ phase = "build"
  /\ \/ at = 0 /\ Len(secs) < MaxOther
     \/ at = Len(bodies) + 1 /\ Len(secs) <= MaxOther
  /\ secs' = Append(secs, size)
  /\ UNCHANGED <<phase, emitter, bodies, sec, at, totals, out>>

\* A faulty variant: the local declarations are announced and not written.
PutCodeOnly ==
  LET body == bodies[at + 1]
  IN  /\ phase = "build" /\ at < Len(bodies) /\ at' = at + 1
      /\ sec' = PutBytes(PutULEB(sec, EncodedSize(body)), body.code)
      /\ UNCHANGED <<phase, emitter, bodies, secs, totals, out>>

\* One body of the code section.
PutBody ==
  LET body == bodies[at + 1]
  IN  /\ phase = "build" /\ at < Len(bodies) /\ at' = at + 1
      /\ sec' = PutBytes(PutBytes(PutULEB(sec, EncodedSize(body)), body.locals), body.code)
      /\ UNCHANGED <<phase, emitter, bodies, secs, totals, out>>

\* EmitSection moves the buffer to the collected sections.
CodeSection ==
  /\ phase = "build" /\ at = Len(bodies)
  /\ secs' = Append(secs, sec.size) /\ sec' = Fresh /\ at' = at + 1
  /\ UNCHANGED <<phase, emitter, bodies, totals, out>>

(***************************************************************************)
(* Size everything, reserve once, and write the module in a single pass.   *)
(***************************************************************************)
Preamble == 8

\* A faulty variant: the id byte of a section is not counted.
SectionWithoutId(size) == SizeULEB(size) + size

SectionBytes(size) == 1 + SizeULEB(size) + size

StartSizing ==
  /\ phase = "build" /\ at = Len(bodies) + 1 /\ phase' = "size"
  /\ totals' = <<Preamble>>
  /\ UNCHANGED <<emitter, bodies, sec, at, secs, out>>

SizeSection ==
  LET n == Len(totals)
  IN  /\ phase = "size"
      /\ \/ /\ n <= Len(secs) /\ totals' = Append(totals, totals[n] + SectionBytes(secs[n]))
            /\ UNCHANGED <<phase, at, out>>
         \/ /\ n = Len(secs) + 1 /\ phase' = "write" /\ at' = 0
            /\ out' = PutBytes(Reserve(Fresh, totals[n]), Preamble)
            /\ UNCHANGED totals
      /\ UNCHANGED <<emitter, bodies, sec, secs>>

WriteSection ==
  /\ phase = "write"
  /\ \/ /\ at < Len(secs) /\ at' = at + 1 /\ UNCHANGED phase
        /\ out' = PutBytes(PutULEB(PutU8(out), secs[at + 1]), secs[at + 1])
     \/ at = Len(secs) /\ phase' = "done" /\ UNCHANGED <<out, at>>
  /\ UNCHANGED <<emitter, bodies, sec, secs, totals>>

Next ==
  \/ \E shape \in Shapes : \E n \in IF shape = "BR_TABLE" THEN Targets ELSE {0} :
       Emit(shape, n)
  \/ Delimit
  \/ \E n \in LocalCounts : DeclareLocals(n)
  \/ Finish \/ PutRun \/ HandOver \/ ResetEmitter \/ Assemble
  \/ \E size \in OtherSizes : OtherSection(size)
  \/ PutBody \/ CodeSection \/ StartSizing \/ SizeSection \/ WriteSection

Spec == Init /\ [][Next]_vars
-----------------------------------------------------------------------------
TypeOK ==
  /\ phase \in Phases
  /\ code \in Buffer /\ count \in Nat /\ runs \in Seq(Nat)
  /\ bodies \in Seq([locals : Nat, code : Nat])
  /\ sec \in Buffer /\ at \in Nat /\ secs \in Seq(Nat)
  /\ totals \in Seq(Nat) /\ out \in Buffer

\* No raw write leaves the allocation: every method reserves at least the bytes
\* that its longest opcode and immediates take, at any fill of the buffer.
NoOverrun == \A b \in {code, sec, out} : b.size <= b.capacity

\* The size computed before the pass is the size written by it, section for
\* section (that PutULEB takes what SizeULEB says is shown with Leb128).
SizedExactly == phase = "done" => out.size = totals[Len(totals)]

\* A body takes the bytes its length prefix announces: the code section is the
\* number of bodies and, for each, the prefix and the two parts.
BodiesDelimited ==
  phase = "build" /\ at <= Len(bodies) =>
    LET sum[k \in 0 .. at] ==
          IF k = 0 THEN SizeULEB(Len(bodies))
          ELSE LET n == bodies[k].locals + bodies[k].code
               IN  sum[k - 1] + SizeULEB(n) + n
    IN  sec.size = sum[at]

\* Why SizedExactly holds: at every section of the pass, what is written is what
\* was predicted up to there.
Predicted ==
  phase \in {"size", "write", "done"} =>
    /\ Len(totals) \in 1 .. Len(secs) + 1 /\ totals[1] = Preamble
    /\ \A n \in 1 .. Len(totals) - 1 : totals[n + 1] = totals[n] + SectionBytes(secs[n])
    /\ phase # "size" => /\ Len(totals) = Len(secs) + 1 /\ at <= Len(secs)
                         /\ out.size = totals[at + 1]
    /\ phase = "done" => at = Len(secs)
=============================================================================
