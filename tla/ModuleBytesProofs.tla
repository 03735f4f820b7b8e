------------------------- MODULE ModuleBytesProofs --------------------------
(***************************************************************************)
(* Raw writes stay inside the allocation, and the precomputed size of a    *)
(* module is the size written, for bodies and sections of any number and   *)
(* any size and for every initial capacity.                                *)
(***************************************************************************)
EXTENDS ModuleBytes, TLAPS

(***************************************************************************)
(* CodeBuffer.                                                             *)
(***************************************************************************)
\* A buffer is the record of its two sizes.
LEMMA BufferRecord ==
  ASSUME NEW b \in Buffer
  PROVE  /\ b.size \in Nat /\ b.capacity \in Nat
         /\ b = [size |-> b.size, capacity |-> b.capacity]
BY DEF Buffer

\* After Ensure(n) there is room for n more bytes.
LEMMA EnsureRoom ==
  ASSUME NEW b \in Buffer, NEW n \in Nat
  PROVE  /\ Ensure(b, n) \in Buffer /\ Ensure(b, n).size = b.size
         /\ b.size + n <= Ensure(b, n).capacity
BY CapacityAssumption DEF Ensure, GrowTo, Buffer

\* A write of at most the reserved bytes stays inside the allocation.
LEMMA WriteFits ==
  ASSUME NEW b \in Buffer, NEW room \in Nat, NEW n \in Nat, n <= room
  PROVE  /\ Write(b, room, n) \in Buffer /\ Write(b, room, n).size = b.size + n
         /\ Write(b, room, n).size <= Write(b, room, n).capacity
<1> DEFINE e == Ensure(b, room)
<1>1. e \in Buffer /\ e.size = b.size /\ b.size + room <= e.capacity BY EnsureRoom
<1> HIDE DEF e
<1>2. /\ [e EXCEPT !.size = @ + n] \in Buffer
      /\ [e EXCEPT !.size = @ + n].size = e.size + n
      /\ [e EXCEPT !.size = @ + n].capacity = e.capacity
  BY <1>1 DEF Buffer
<1>3. b.size \in Nat /\ e.capacity \in Nat BY <1>1, BufferRecord
<1>4. QED BY <1>1, <1>2, <1>3 DEF Write, e

LEMMA SizeULEBRange ==
  ASSUME NEW n \in Nat
  PROVE  SizeULEB(n) \in 1 .. 5
BY DEF SizeULEB

\* The checked puts.
LEMMA PutFits ==
  ASSUME NEW b \in Buffer, NEW n \in Nat
  PROVE  /\ PutU8(b) \in Buffer /\ PutU8(b).size = b.size + 1
         /\ PutU8(b).size <= PutU8(b).capacity
         /\ PutULEB(b, n) \in Buffer /\ PutULEB(b, n).size = b.size + SizeULEB(n)
         /\ PutULEB(b, n).size <= PutULEB(b, n).capacity
         /\ PutBytes(b, n) \in Buffer /\ PutBytes(b, n).size = b.size + n
         /\ PutBytes(b, n).size <= PutBytes(b, n).capacity
<1>1. SizeULEB(n) \in Nat /\ SizeULEB(n) <= kMaxULEB64
  BY SizeULEBRange DEF kMaxULEB64
<1>2. kMaxULEB64 \in Nat BY DEF kMaxULEB64
<1>3. PutU8(b) \in Buffer /\ PutU8(b).size = b.size + 1 /\ PutU8(b).size <= PutU8(b).capacity
  BY WriteFits DEF PutU8
<1>4. /\ PutULEB(b, n) \in Buffer /\ PutULEB(b, n).size = b.size + SizeULEB(n)
      /\ PutULEB(b, n).size <= PutULEB(b, n).capacity
  <2> HIDE DEF kMaxULEB64
  <2> DEFINE len == SizeULEB(n)
  <2>1. len \in Nat /\ len <= kMaxULEB64 BY <1>1
  <2> HIDE DEF len
  <2>2. /\ Write(b, kMaxULEB64, len) \in Buffer
        /\ Write(b, kMaxULEB64, len).size = b.size + len
        /\ Write(b, kMaxULEB64, len).size <= Write(b, kMaxULEB64, len).capacity
    BY <1>2, <2>1, WriteFits
  <2>3. QED BY <2>2 DEF PutULEB, len
<1>5. PutBytes(b, n) \in Buffer /\ PutBytes(b, n).size = b.size + n /\ PutBytes(b, n).size <= PutBytes(b, n).capacity
  BY WriteFits DEF PutBytes
<1>6. QED BY <1>3, <1>4, <1>5

LEMMA FreshBuffer == Fresh \in Buffer /\ Fresh.size = 0 /\ Fresh.capacity = 0
BY DEF Fresh, Buffer

LEMMA ReserveBuffer ==
  ASSUME NEW n \in Nat
  PROVE  Reserve(Fresh, n) \in Buffer /\ Reserve(Fresh, n).size = 0
BY CapacityAssumption DEF Reserve, GrowTo, Fresh, Buffer

(***************************************************************************)
(* Every method reserves enough.                                           *)
(***************************************************************************)
LEMMA LebLengths ==
  /\ Leb(8) = 1 .. 2 /\ Leb(24) = 1 .. 4 /\ Leb(32) = 1 .. 5
  /\ Leb(33) = 1 .. 5 /\ Leb(64) = 1 .. 10
BY DEF Leb

LEMMA OpFits == \A op \in OpLengths : op \in Nat /\ op <= kMaxOpBytes
BY LebLengths DEF OpLengths, Plus, kMaxOpBytes, kMaxULEB32

LEMMA MemArgFits == \A imm \in MemArgLengths : imm \in Nat /\ imm <= kMaxMemArg
BY LebLengths DEF MemArgLengths, Plus, kMaxMemArg, kMaxULEB32, kMaxULEB64

\* Whatever its opcode and immediates take, an instruction of a shape takes at
\* most the bytes that its method reserves, any number of targets included.
LEMMA RoomSuffices ==
  ASSUME NEW shape \in Shapes, NEW n \in Nat,
         NEW op \in OpLengths, NEW imm \in Immediates(shape, n)
  PROVE  Room(shape, n) \in Nat /\ op + imm \in Nat /\ op + imm <= Room(shape, n)
<1> DEFINE rest == Room(shape, n) - kMaxOpBytes
<1>1. op \in Nat /\ op <= kMaxOpBytes /\ kMaxOpBytes = 6
  BY OpFits DEF kMaxOpBytes, kMaxULEB32
<1>2. Room(shape, n) \in Nat /\ imm \in Nat /\ imm <= Room(shape, n) - kMaxOpBytes
  <2> USE <1>1 DEF kMaxULEB32, kMaxULEB64, kMaxSLEB32, kMaxSLEB64, kMaxSLEB33
  <2>1. CASE shape = "NONE" BY <2>1 DEF Immediates, Room
  <2>2. CASE shape = "F32" BY <2>2 DEF Immediates, Room
  <2>3. CASE shape = "F64" BY <2>3 DEF Immediates, Room
  <2>4. CASE shape = "BYTE" BY <2>4 DEF Immediates, Room
  <2>5. CASE shape = "BYTES16" BY <2>5 DEF Immediates, Room
  <2>6. CASE shape = "SELECT_T" BY <2>6 DEF Immediates, Room
  <2>7. CASE shape = "IDX" BY <2>7, LebLengths DEF Immediates, Room
  <2>8. CASE shape = "I32" BY <2>8, LebLengths DEF Immediates, Room
  <2>9. CASE shape = "I64" BY <2>9, LebLengths DEF Immediates, Room
  <2>10. CASE shape = "MEMARG" BY <2>10, MemArgFits DEF Immediates, Room, kMaxMemArg
  <2>11. CASE shape = "MEMARG_LANE" BY <2>11, MemArgFits DEF Immediates, Room, kMaxMemArg, Plus
  <2>12. CASE shape = "MEMINIT" BY <2>12, LebLengths DEF Immediates, Room, Plus
  <2>13. CASE shape = "TWO_IDX" BY <2>13, LebLengths DEF Immediates, Room, Plus
  <2>14. CASE shape = "BLOCK_TYPE" BY <2>14, LebLengths DEF Immediates, Room
  <2>15. CASE shape = "BR_TABLE" BY <2>15 DEF Immediates, Room
  <2>16. QED BY <2>1, <2>2, <2>3, <2>4, <2>5, <2>6, <2>7, <2>8, <2>9,
               <2>10, <2>11, <2>12, <2>13, <2>14, <2>15 DEF Shapes
<1>3. QED BY <1>1, <1>2

(***************************************************************************)
(* The invariant.                                                          *)
(***************************************************************************)
BytesInv == TypeOK /\ NoOverrun /\ Predicted

LEMMA InitInv == Init => BytesInv
BY FreshBuffer DEF Init, BytesInv, TypeOK, NoOverrun, Predicted, Phases

LEMMA EmitInv ==
  ASSUME BytesInv, NEW shape \in Shapes, NEW n \in Nat, Emit(shape, n)
  PROVE  BytesInv'
<1> USE DEF BytesInv
<1>1. PICK op \in OpLengths, imm \in Immediates(shape, n) :
        code' = Write(code, Room(shape, n), op + imm)
  BY DEF Emit
<1>2. Room(shape, n) \in Nat /\ op + imm \in Nat /\ op + imm <= Room(shape, n)
  BY RoomSuffices
<1>3. code' \in Buffer /\ code'.size <= code'.capacity
  BY <1>1, <1>2, WriteFits DEF TypeOK
<1>4. phase' = "emit" /\ count' = count + 1 /\ UNCHANGED <<runs, bodies, sec, at, secs, totals, out>>
  BY DEF Emit, Emitting, assembly
<1>5. QED BY <1>3, <1>4 DEF TypeOK, NoOverrun, Predicted, Phases

LEMMA EmitterInv ==
  ASSUME BytesInv,
         Delimit \/ (\E n \in LocalCounts : DeclareLocals(n)) \/ ResetEmitter
  PROVE  BytesInv'
<1> USE DEF BytesInv
<1>1. /\ code \in Buffer /\ PutU8(code) \in Buffer
      /\ PutU8(code).size <= PutU8(code).capacity
  BY PutFits DEF TypeOK
<1>2. CASE Delimit
  BY <1>1, <1>2 DEF Delimit, Emitting, assembly, TypeOK, NoOverrun, Predicted, Phases
<1>3. CASE \E n \in LocalCounts : DeclareLocals(n)
  <2>1. PICK n \in LocalCounts : DeclareLocals(n) BY <1>3
  <2>2. n \in Nat BY SizesAssumption
  <2>3. Append(runs, n) \in Seq(Nat) BY <2>2 DEF TypeOK
  <2>4. QED BY <2>1, <2>3 DEF DeclareLocals, Emitting, assembly, TypeOK, NoOverrun,
                              Predicted, Phases
<1>4. CASE ResetEmitter
  <2>1. /\ Reset(code) \in Buffer /\ Reset(code).size = 0
        /\ Reset(code).capacity \in Nat
    BY <1>1 DEF Reset, Buffer
  <2>2. <<>> \in Seq(Nat) OBVIOUS
  <2>3. QED BY <1>4, <2>1, <2>2 DEF ResetEmitter, assembly, TypeOK, NoOverrun,
                                    Predicted, Phases
<1>5. QED BY <1>2, <1>3, <1>4

LEMMA FinishInv ==
  ASSUME BytesInv, Finish \/ PutRun \/ HandOver
  PROVE  BytesInv'
<1> USE DEF BytesInv
<1>1. code \in Buffer /\ sec \in Buffer /\ runs \in Seq(Nat) /\ Len(runs) \in Nat
  BY DEF TypeOK
<1>2. CASE Finish
  <2>1. PutU8(code) \in Buffer /\ PutU8(code).size <= PutU8(code).capacity
    BY <1>1, PutFits
  <2>2. /\ PutULEB(Fresh, Len(runs)) \in Buffer
        /\ PutULEB(Fresh, Len(runs)).size <= PutULEB(Fresh, Len(runs)).capacity
    BY <1>1, FreshBuffer, PutFits
  <2>3. QED BY <1>2, <2>1, <2>2 DEF Finish, Emitting, TypeOK, NoOverrun, Predicted, Phases
<1>3. CASE PutRun
  <2> DEFINE mid == PutULEB(sec, runs[at + 1])
  <2>1. runs[at + 1] \in Nat BY <1>1, <1>3 DEF PutRun, TypeOK
  <2>2. mid \in Buffer BY <1>1, <2>1, PutFits
  <2> HIDE DEF mid
  <2>3. PutU8(mid) \in Buffer /\ PutU8(mid).size <= PutU8(mid).capacity
    BY <2>2, PutFits
  <2>4. QED BY <1>3, <2>3 DEF PutRun, emitter, TypeOK, NoOverrun, Predicted, Phases, mid
<1>4. CASE HandOver
  <2>1. [locals |-> sec.size, code |-> code.size] \in [locals : Nat, code : Nat]
    BY <1>1, BufferRecord
  <2>2. Append(bodies, [locals |-> sec.size, code |-> code.size])
          \in Seq([locals : Nat, code : Nat])
    BY <2>1 DEF TypeOK
  <2>3. QED BY <1>4, <2>2, FreshBuffer DEF HandOver, TypeOK, NoOverrun, Predicted, Phases
<1>5. QED BY <1>2, <1>3, <1>4

LEMMA BuildInv ==
  ASSUME BytesInv,
         Assemble \/ (\E size \in OtherSizes : OtherSection(size)) \/ PutBody \/ CodeSection
  PROVE  BytesInv'
<1> USE DEF BytesInv
<1>1. sec \in Buffer /\ Len(bodies) \in Nat /\ sec.size \in Nat
  BY BufferRecord DEF TypeOK
<1>2. CASE Assemble
  <2>1. /\ PutULEB(Fresh, Len(bodies)) \in Buffer
        /\ PutULEB(Fresh, Len(bodies)).size <= PutULEB(Fresh, Len(bodies)).capacity
    BY <1>1, FreshBuffer, PutFits
  <2>2. QED BY <1>2, <2>1 DEF Assemble, emitter, TypeOK, NoOverrun, Predicted, Phases
<1>3. CASE \E size \in OtherSizes : OtherSection(size)
  <2>1. PICK size \in OtherSizes : OtherSection(size) BY <1>3
  <2>2. Append(secs, size) \in Seq(Nat) BY SizesAssumption DEF TypeOK
  <2>3. QED BY <2>1, <2>2 DEF OtherSection, emitter, TypeOK, NoOverrun, Predicted, Phases
<1>4. CASE PutBody
  <2>1. at + 1 \in 1 .. Len(bodies) BY <1>1, <1>4 DEF PutBody, TypeOK
  <2>2. bodies[at + 1] \in [locals : Nat, code : Nat]
    <3> DEFINE B == [locals : Nat, code : Nat]
               n == at + 1
    <3>1. bodies \in Seq(B) BY DEF TypeOK
    <3>2. n \in 1 .. Len(bodies) BY <2>1
    <3> HIDE DEF B, n
    <3>3. bodies[n] \in B BY <3>1, <3>2
    <3>4. QED BY <3>3 DEF B, n
  <2> DEFINE body == bodies[at + 1]
             b1 == PutULEB(sec, EncodedSize(body))
             b2 == PutBytes(b1, body.locals)
             b3 == PutBytes(b2, body.code)
  <2>3. body.locals \in Nat /\ body.code \in Nat /\ EncodedSize(body) \in Nat
    BY <2>2 DEF EncodedSize
  <2>4. sec' = b3 BY <1>4 DEF PutBody
  <2> HIDE DEF body
  <2>5. b1 \in Buffer BY <1>1, <2>3, PutFits
  <2> HIDE DEF b1
  <2>6. b2 \in Buffer BY <2>3, <2>5, PutFits
  <2> HIDE DEF b2
  <2>7. b3 \in Buffer /\ b3.size <= b3.capacity BY <2>3, <2>6, PutFits
  <2> HIDE DEF b3
  <2>8. /\ phase = "build" /\ at' = at + 1
        /\ UNCHANGED <<phase, code, count, runs, bodies, secs, totals, out>>
    BY <1>4 DEF PutBody, emitter
  <2>9. QED BY <2>4, <2>7, <2>8 DEF TypeOK, NoOverrun, Predicted, Phases
<1>5. CASE CodeSection
  <2>1. Append(secs, sec.size) \in Seq(Nat) BY <1>1 DEF TypeOK
  <2>2. QED BY <1>5, <2>1, FreshBuffer DEF CodeSection, emitter, TypeOK, NoOverrun,
                                           Predicted, Phases
<1>6. QED BY <1>2, <1>3, <1>4, <1>5

LEMMA SectionBytesNat ==
  ASSUME NEW n \in Nat
  PROVE  SectionBytes(n) \in Nat
BY SizeULEBRange DEF SectionBytes

LEMMA SizingInv ==
  ASSUME BytesInv, StartSizing \/ SizeSection
  PROVE  BytesInv'
<1> USE DEF BytesInv
<1> DEFINE n == Len(totals)
<1>1. totals \in Seq(Nat) /\ n \in Nat /\ secs \in Seq(Nat) /\ Len(secs) \in Nat
  BY DEF TypeOK
<1>2. CASE StartSizing
  <2>1. /\ totals' = <<Preamble>> /\ phase' = "size"
        /\ UNCHANGED <<code, count, runs, bodies, sec, at, secs, out>>
    BY <1>2 DEF StartSizing, emitter
  <2>2. /\ totals' \in Seq(Nat) /\ Len(totals') = 1 /\ totals'[1] = Preamble
    BY <2>1 DEF Preamble
  <2>3. TypeOK' /\ NoOverrun' BY <2>1, <2>2 DEF TypeOK, NoOverrun, Phases
  <2>4. Predicted' BY <1>1, <2>1, <2>2 DEF Predicted
  <2>5. QED BY <2>3, <2>4
<1>3. CASE /\ phase = "size" /\ n <= Len(secs)
           /\ totals' = Append(totals, totals[n] + SectionBytes(secs[n]))
           /\ UNCHANGED <<phase, at, out, code, count, runs, bodies, sec, secs>>
  <2>1. n \in 1 .. Len(secs) BY <1>1, <1>3 DEF Predicted
  <2>2. totals[n] \in Nat /\ secs[n] \in Nat BY <1>1, <2>1
  <2>3. totals[n] + SectionBytes(secs[n]) \in Nat
    <3>1. SectionBytes(secs[n]) \in Nat BY <2>2, SectionBytesNat
    <3>2. QED BY <2>2, <3>1
  <2>4. /\ totals' \in Seq(Nat) /\ Len(totals') = n + 1
        /\ totals'[n + 1] = totals[n] + SectionBytes(secs[n])
        /\ \A m \in 1 .. n : totals'[m] = totals[m]
    BY <1>1, <1>3, <2>3
  <2>5. TypeOK' /\ NoOverrun' BY <1>3, <2>4 DEF TypeOK, NoOverrun, Phases
  <2>6. ASSUME NEW m \in 1 .. n
        PROVE  totals'[m + 1] = totals'[m] + SectionBytes(secs[m])
    <3>1. CASE m = n BY <2>1, <2>4, <3>1
    <3>2. CASE m # n
      <4>1. m \in 1 .. n - 1 /\ m + 1 \in 1 .. n BY <1>1, <3>2
      <4>2. totals[m + 1] = totals[m] + SectionBytes(secs[m])
        BY <1>3, <4>1 DEF Predicted
      <4>3. QED BY <2>4, <4>1, <4>2
    <3>3. QED BY <3>1, <3>2
  <2>7. totals'[1] = Preamble BY <1>3, <2>1, <2>4 DEF Predicted
  <2>8. Len(totals') - 1 = n BY <1>1, <2>4
  <2>9. Predicted'
    <3>1. phase' = "size" /\ secs' = secs BY <1>3
    <3>2. Len(totals') \in 1 .. Len(secs') + 1
      <4>1. Len(totals') = n + 1 /\ n + 1 \in 1 .. Len(secs) + 1 BY <1>1, <2>1, <2>4
      <4>2. QED BY <3>1, <4>1
    <3>3. \A m \in 1 .. Len(totals') - 1 :
            totals'[m + 1] = totals'[m] + SectionBytes(secs'[m])
      BY <2>6, <2>8, <3>1
    <3>4. QED BY <2>7, <3>1, <3>2, <3>3, Zenon DEF Predicted
  <2>10. QED BY <2>5, <2>9
<1>4. CASE /\ phase = "size" /\ n = Len(secs) + 1 /\ phase' = "write" /\ at' = 0
           /\ out' = PutBytes(Reserve(Fresh, totals[n]), Preamble)
           /\ UNCHANGED <<totals, code, count, runs, bodies, sec, secs>>
  <2>1. totals[n] \in Nat BY <1>1, <1>4
  <2>2. Preamble \in Nat BY DEF Preamble
  <2>3. Reserve(Fresh, totals[n]) \in Buffer /\ Reserve(Fresh, totals[n]).size = 0
    BY <2>1, ReserveBuffer
  <2>4. out' \in Buffer /\ out'.size = Preamble /\ out'.size <= out'.capacity
    BY <1>4, <2>2, <2>3, PutFits
  <2>5. TypeOK' /\ NoOverrun' BY <1>4, <2>4 DEF TypeOK, NoOverrun, Phases
  <2>6. Predicted'
    <3>1. /\ Len(totals) \in 1 .. Len(secs) + 1 /\ totals[1] = Preamble
          /\ \A m \in 1 .. n - 1 : totals[m + 1] = totals[m] + SectionBytes(secs[m])
      BY <1>4 DEF Predicted
    <3>2. /\ UNCHANGED <<totals, secs>> /\ phase' = "write" /\ at' = 0
          /\ out'.size = Preamble
      BY <1>4, <2>4
    <3>3. Len(totals') = Len(secs') + 1 /\ at' <= Len(secs') BY <1>1, <1>4, <3>2
    <3>4. out'.size = totals'[at' + 1] BY <3>1, <3>2
    <3>5. QED BY <3>1, <3>2, <3>3, <3>4 DEF Predicted
  <2>7. QED BY <2>5, <2>6
<1>5. QED BY <1>2, <1>3, <1>4 DEF SizeSection, emitter

LEMMA SizeInSeq == \A s \in Seq(Nat) : \A k \in 1 .. Len(s) : s[k] \in Nat
OBVIOUS

LEMMA WriteInv ==
  ASSUME BytesInv, WriteSection
  PROVE  BytesInv'
<1> USE DEF BytesInv
<1>1. /\ totals \in Seq(Nat) /\ secs \in Seq(Nat) /\ Len(secs) \in Nat /\ at \in Nat
      /\ out \in Buffer /\ Len(totals) = Len(secs) + 1 /\ at <= Len(secs)
      /\ out.size = totals[at + 1] /\ phase = "write"
      /\ UNCHANGED <<code, count, runs, bodies, sec, secs, totals>>
  BY DEF TypeOK, Predicted, WriteSection, emitter
<1>2. CASE /\ at < Len(secs) /\ at' = at + 1 /\ UNCHANGED phase
           /\ out' = PutBytes(PutULEB(PutU8(out), secs[at + 1]), secs[at + 1])
  <2> DEFINE n == secs[at + 1]
             b1 == PutU8(out)
             b2 == PutULEB(b1, n)
             b3 == PutBytes(b2, n)
  <2>1. n \in Nat /\ at + 1 \in 1 .. Len(totals) - 1
    <3>1. at + 1 \in 1 .. Len(secs) /\ Len(totals) - 1 = Len(secs) BY <1>1, <1>2
    <3>2. secs[at + 1] \in Nat BY <1>1, <3>1, SizeInSeq, Zenon
    <3>3. QED BY <3>1, <3>2
  <2>2. SizeULEB(n) \in 1 .. 5 BY <2>1, SizeULEBRange
  <2>3. SizeULEB(n) \in Nat /\ out.size \in Nat
    <3>1. SizeULEB(n) \in Nat BY <2>2
    <3>2. out.size \in Nat BY <1>1, BufferRecord
    <3>3. QED BY <3>1, <3>2
  <2>4. totals[at + 1 + 1] = totals[at + 1] + SectionBytes(n)
    BY <1>1, <2>1 DEF Predicted
  <2>5. out' = b3 BY <1>2
  <2> HIDE DEF n
  <2>6. b1 \in Buffer /\ b1.size = out.size + 1 BY <1>1, <2>1, PutFits
  <2> HIDE DEF b1
  <2>7. b2 \in Buffer /\ b2.size = b1.size + SizeULEB(n) BY <2>1, <2>6, PutFits
  <2> HIDE DEF b2
  <2>8. b3 \in Buffer /\ b3.size = b2.size + n /\ b3.size <= b3.capacity
    BY <2>1, <2>7, PutFits
  <2> HIDE DEF b3
  <2>9. out'.size = totals[at' + 1]
    BY <1>1, <1>2, <2>1, <2>3, <2>4, <2>5, <2>6, <2>7, <2>8 DEF SectionBytes
  <2>10. TypeOK' /\ NoOverrun' BY <1>1, <1>2, <2>5, <2>8 DEF TypeOK, NoOverrun, Phases
  <2>11. at' <= Len(secs) BY <1>1, <1>2
  <2>12. Predicted' BY <1>1, <1>2, <2>9, <2>11 DEF Predicted
  <2>13. QED BY <2>10, <2>12
<1>3. CASE at = Len(secs) /\ phase' = "done" /\ UNCHANGED <<out, at>>
  BY <1>1, <1>3 DEF TypeOK, NoOverrun, Predicted, Phases
<1>4. QED BY <1>2, <1>3 DEF WriteSection

LEMMA NextInv == BytesInv /\ [Next]_vars => BytesInv'
<1> SUFFICES ASSUME BytesInv, [Next]_vars PROVE BytesInv' OBVIOUS
<1>1. CASE \E shape \in Shapes : \E n \in IF shape = "BR_TABLE" THEN Targets ELSE {0} :
             Emit(shape, n)
  <2>1. PICK shape \in Shapes, n \in Nat : Emit(shape, n) BY <1>1, SizesAssumption
  <2>2. QED BY <2>1, EmitInv
<1>2. CASE Delimit \/ (\E n \in LocalCounts : DeclareLocals(n)) \/ ResetEmitter
  BY <1>2, EmitterInv
<1>3. CASE Finish \/ PutRun \/ HandOver BY <1>3, FinishInv
<1>4. CASE Assemble \/ (\E size \in OtherSizes : OtherSection(size)) \/ PutBody \/ CodeSection
  BY <1>4, BuildInv
<1>5. CASE StartSizing \/ SizeSection BY <1>5, SizingInv
<1>6. CASE WriteSection BY <1>6, WriteInv
<1>7. CASE UNCHANGED vars
  BY <1>7 DEF vars, BytesInv, TypeOK, NoOverrun, Predicted
<1>8. QED BY <1>1, <1>2, <1>3, <1>4, <1>5, <1>6, <1>7 DEF Next

LEMMA AlwaysBytesInv == Spec => []BytesInv
BY InitInv, NextInv, PTL DEF Spec

\* The unchecked stores of the emitter and of Assemble() never leave the
\* allocation, for immediates of every width and br_tables of every length.
THEOREM StoresStayInside == Spec => []NoOverrun
<1>1. BytesInv => NoOverrun BY DEF BytesInv
<1>2. QED BY <1>1, AlwaysBytesInv, PTL

\* Assemble() writes exactly the bytes that it reserved for.
THEOREM PrecomputedSizeExact == Spec => []SizedExactly
<1>1. BytesInv => SizedExactly
  <2> SUFFICES ASSUME BytesInv, phase = "done" PROVE out.size = totals[Len(totals)]
    BY DEF SizedExactly
  <2>1. Len(totals) = Len(secs) + 1 /\ at = Len(secs) /\ out.size = totals[at + 1]
    BY DEF BytesInv, Predicted
  <2>2. QED BY <2>1
<1>2. QED BY <1>1, AlwaysBytesInv, PTL

(***************************************************************************)
(* The code section.  A function that meets the recursion of the sum up to *)
(* a is cut to one up to a - 1 and extended to one up to a + 1.  So that   *)
(* there is one, and that each of them counts the buffer, pass from state  *)
(* to state, and no induction is needed.                                   *)
(***************************************************************************)
Term(k) == bodies[k].locals + bodies[k].code
SumTo(g, a) ==
  g = [k \in 0 .. a |-> IF k = 0 THEN SizeULEB(Len(bodies))
                        ELSE g[k - 1] + SizeULEB(Term(k)) + Term(k)]
HasSum == \E g : SumTo(g, at)
Counts == \A g : SumTo(g, at) => sec.size = g[at]
Delimited == phase = "build" /\ at <= Len(bodies) => HasSum /\ Counts

LEMMA SumValues ==
  ASSUME NEW a \in Nat, NEW g, SumTo(g, a)
  PROVE  /\ g[0] = SizeULEB(Len(bodies))
         /\ \A k \in 1 .. a : g[k] = g[k - 1] + SizeULEB(Term(k)) + Term(k)
<1> DEFINE F == [k \in 0 .. a |-> IF k = 0 THEN SizeULEB(Len(bodies))
                                  ELSE g[k - 1] + SizeULEB(Term(k)) + Term(k)]
<1>1. g = F BY Zenon DEF SumTo
<1>2. F[0] = SizeULEB(Len(bodies)) OBVIOUS
<1>3. ASSUME NEW k \in 1 .. a PROVE F[k] = g[k - 1] + SizeULEB(Term(k)) + Term(k)
  BY <1>3
<1> HIDE DEF F
<1>4. QED BY <1>1, <1>2, <1>3

LEMMA SumCut ==
  ASSUME NEW a \in Nat, NEW g, SumTo(g, a + 1)
  PROVE  SumTo([k \in 0 .. a |-> g[k]], a)
<1> DEFINE h == [k \in 0 .. a |-> g[k]]
           F == [k \in 0 .. a |-> IF k = 0 THEN SizeULEB(Len(bodies))
                                  ELSE h[k - 1] + SizeULEB(Term(k)) + Term(k)]
<1>1. ASSUME NEW k \in 0 .. a PROVE h[k] = F[k]
  <2>1. CASE k = 0
    <3>1. g[k] = SizeULEB(Len(bodies)) BY <2>1, SumValues
    <3>2. QED BY <2>1, <3>1
  <2>2. CASE k # 0
    <3>1. k \in 1 .. a + 1 /\ k - 1 \in 0 .. a BY <1>1, <2>2
    <3>2. g[k] = g[k - 1] + SizeULEB(Term(k)) + Term(k) BY <3>1, SumValues
    <3>3. h[k - 1] = g[k - 1] BY <3>1
    <3>4. h[k] = g[k] OBVIOUS
    <3>5. F[k] = h[k - 1] + SizeULEB(Term(k)) + Term(k) BY <2>2
    <3> HIDE DEF h, F
    <3>6. QED BY <3>2, <3>3, <3>4, <3>5
  <2>3. QED BY <2>1, <2>2
<1>2. h = F
  <2>1. DOMAIN h = 0 .. a /\ DOMAIN F = 0 .. a OBVIOUS
  <2>2. h = [k \in 0 .. a |-> h[k]] /\ F = [k \in 0 .. a |-> F[k]] OBVIOUS
  <2> HIDE DEF h, F
  <2>3. QED BY <1>1, <2>2
<1>3. QED BY <1>2, Zenon DEF SumTo

LEMMA SumExtend ==
  ASSUME NEW a \in Nat, NEW g, SumTo(g, a)
  PROVE  \E h : SumTo(h, a + 1)
<1> DEFINE next == g[a] + SizeULEB(Term(a + 1)) + Term(a + 1)
           h == [k \in 0 .. a + 1 |-> IF k = a + 1 THEN next ELSE g[k]]
           F == [k \in 0 .. a + 1 |-> IF k = 0 THEN SizeULEB(Len(bodies))
                                      ELSE h[k - 1] + SizeULEB(Term(k)) + Term(k)]
<1>1. ASSUME NEW k \in 0 .. a + 1 PROVE h[k] = F[k]
  <2>1. CASE k = 0
    <3>1. h[k] = g[0] BY <2>1
    <3>2. F[k] = SizeULEB(Len(bodies)) BY <2>1
    <3> HIDE DEF h, F
    <3>3. QED BY <3>1, <3>2, SumValues
  <2>2. CASE k # 0
    <3>1. k - 1 \in 0 .. a /\ k - 1 # a + 1 BY <1>1, <2>2
    <3>2. h[k - 1] = g[k - 1] BY <3>1
    <3>3. F[k] = h[k - 1] + SizeULEB(Term(k)) + Term(k) BY <2>2
    <3>4. h[k] = g[k - 1] + SizeULEB(Term(k)) + Term(k)
      <4>1. CASE k = a + 1
        <5>1. h[k] = next /\ k - 1 = a BY <4>1
        <5>2. QED BY <4>1, <5>1
      <4>2. CASE k # a + 1
        <5>1. k \in 1 .. a BY <1>1, <2>2, <4>2
        <5>2. h[k] = g[k] BY <4>2
        <5> HIDE DEF h, F
        <5>3. QED BY <5>1, <5>2, SumValues
      <4>3. QED BY <4>1, <4>2
    <3> HIDE DEF h, F
    <3>5. QED BY <3>2, <3>3, <3>4
  <2>3. QED BY <2>1, <2>2
<1>2. h = F
  <2>1. h = [k \in 0 .. a + 1 |-> h[k]] /\ F = [k \in 0 .. a + 1 |-> F[k]] OBVIOUS
  <2> HIDE DEF h, F
  <2>2. QED BY <1>1, <2>1
<1>3. SumTo(h, a + 1) BY <1>2, Zenon DEF SumTo
<1> HIDE DEF h
<1>4. QED BY <1>3

\* The count of the bodies.
LEMMA DelimitedFirst ==
  ASSUME BytesInv, Assemble
  PROVE  Delimited'
<1>1. phase' = "build" /\ at' = 0 /\ bodies' = bodies
  BY DEF Assemble
<1>2. sec' = PutULEB(Fresh, Len(bodies)) BY DEF Assemble
<1>3. sec'.size = SizeULEB(Len(bodies))
  <2>1. Len(bodies) \in Nat BY DEF BytesInv, TypeOK
  <2>2. PutULEB(Fresh, Len(bodies)).size = Fresh.size + SizeULEB(Len(bodies))
    BY <2>1, FreshBuffer, PutFits
  <2>3. SizeULEB(Len(bodies)) \in Nat BY <2>1, SizeULEBRange
  <2>4. QED BY <1>2, <2>2, <2>3, FreshBuffer
<1>4. ASSUME NEW g PROVE SumTo(g, at)' <=> SumTo(g, 0)
  BY <1>1 DEF SumTo, Term
<1>5. \E g : SumTo(g, 0)
  <2> DEFINE g == [k \in 0 .. 0 |-> SizeULEB(Len(bodies))]
             F == [k \in 0 .. 0 |-> IF k = 0 THEN SizeULEB(Len(bodies))
                                    ELSE g[k - 1] + SizeULEB(Term(k)) + Term(k)]
  <2>1. \A k \in 0 .. 0 : k = 0 OBVIOUS
  <2>2. g = F BY <2>1
  <2>3. SumTo(g, 0) BY <2>2, Zenon DEF SumTo
  <2> HIDE DEF g
  <2>4. QED BY <2>3
<1>6. ASSUME NEW g, SumTo(g, 0) PROVE g[0] = SizeULEB(Len(bodies)) BY <1>6, SumValues
<1>7. HasSum' BY <1>4, <1>5 DEF HasSum
<1>8. Counts'
  <2> SUFFICES ASSUME NEW g, SumTo(g, at)' PROVE sec'.size = g[at'] BY DEF Counts
  <2>1. SumTo(g, 0) BY <1>4
  <2>2. QED BY <1>1, <1>3, <1>6, <2>1
<1>9. QED BY <1>7, <1>8 DEF Delimited

\* One more body.
LEMMA DelimitedNext ==
  ASSUME BytesInv, Delimited, PutBody
  PROVE  Delimited'
<1> DEFINE size == Term(at + 1)
<1>1. /\ phase = "build" /\ at < Len(bodies) /\ at' = at + 1 /\ bodies' = bodies
      /\ at \in Nat /\ Len(bodies) \in Nat
  BY DEF PutBody, BytesInv, TypeOK
<1>2. sec'.size = sec.size + SizeULEB(size) + size
  <2> DEFINE B == [locals : Nat, code : Nat]
             n == at + 1
  <2>1. bodies \in Seq(B) /\ n \in 1 .. Len(bodies) BY <1>1 DEF BytesInv, TypeOK
  <2>2. bodies[n].locals \in Nat /\ bodies[n].code \in Nat
    <3> HIDE DEF B, n
    <3>1. bodies[n] \in B BY <2>1
    <3>2. QED BY <3>1 DEF B
  <2>3. sec \in Buffer /\ sec.size \in Nat BY BufferRecord DEF BytesInv, TypeOK
  <2> DEFINE locals == bodies[n].locals
             rest == bodies[n].code
             b1 == PutULEB(sec, size)
             b2 == PutBytes(b1, locals)
             b3 == PutBytes(b2, rest)
  <2>4. sec' = b3 BY DEF PutBody, EncodedSize, Term
  <2>5. size = locals + rest BY DEF Term
  <2>6. locals \in Nat /\ rest \in Nat BY <2>2
  <2> HIDE DEF size, locals, rest
  <2>7. size \in Nat BY <2>5, <2>6
  <2>8. b1 \in Buffer /\ b1.size = sec.size + SizeULEB(size) BY <2>3, <2>7, PutFits
  <2> HIDE DEF b1
  <2>9. b2 \in Buffer /\ b2.size = b1.size + locals BY <2>6, <2>8, PutFits
  <2> HIDE DEF b2
  <2>10. b3.size = b2.size + rest BY <2>6, <2>9, PutFits
  <2> HIDE DEF b3
  <2>11. SizeULEB(size) \in Nat BY <2>7, SizeULEBRange
  <2> DEFINE prefix == SizeULEB(size)
  <2> HIDE DEF prefix
  <2>12. sec'.size = sec.size + prefix + locals + rest
    BY <2>3, <2>4, <2>6, <2>8, <2>9, <2>10, <2>11 DEF prefix
  <2>13. prefix \in Nat BY <2>11 DEF prefix
  <2>14. sec'.size = sec.size + prefix + size BY <2>3, <2>5, <2>6, <2>12, <2>13
  <2>15. QED BY <2>14 DEF prefix
<1>3. HasSum /\ Counts BY <1>1 DEF Delimited
<1>4. ASSUME NEW g PROVE SumTo(g, at)' <=> SumTo(g, at + 1)
  BY <1>1 DEF SumTo, Term
<1>5. HasSum'
  <2>1. PICK g : SumTo(g, at) BY <1>3 DEF HasSum
  <2>2. \E h : SumTo(h, at + 1) BY <1>1, <2>1, SumExtend
  <2>3. QED BY <1>4, <2>2 DEF HasSum
<1>6. Counts'
  <2> SUFFICES ASSUME NEW g, SumTo(g, at)' PROVE sec'.size = g[at'] BY DEF Counts
  <2>1. SumTo(g, at + 1) BY <1>4
  <2> DEFINE h == [k \in 0 .. at |-> g[k]]
  <2>2. h[at] = g[at] BY <1>1
  <2>3. SumTo(h, at) BY <1>1, <2>1, SumCut
  <2> HIDE DEF h
  <2>4. sec.size = h[at] BY <1>3, <2>3 DEF Counts
  <2>5. at + 1 \in 1 .. at + 1 /\ (at + 1) - 1 = at BY <1>1
  <2>6. g[at + 1] = g[at] + SizeULEB(size) + size BY <1>1, <2>1, <2>5, SumValues
  <2> HIDE DEF size
  <2>7. QED BY <1>1, <1>2, <2>2, <2>4, <2>6
<1>7. QED BY <1>5, <1>6 DEF Delimited

LEMMA DelimitedStep == BytesInv /\ Delimited /\ [Next]_vars => Delimited'
<1> SUFFICES ASSUME BytesInv, Delimited, [Next]_vars PROVE Delimited' OBVIOUS
<1>1. CASE Assemble BY <1>1, DelimitedFirst
<1>2. CASE PutBody BY <1>2, DelimitedNext
<1>3. CASE phase' # "build" \/ ~(at' <= Len(bodies')) BY <1>3 DEF Delimited
<1>4. CASE UNCHANGED <<phase, sec, bodies, at>>
  BY <1>4 DEF Delimited, HasSum, Counts, SumTo, Term
<1>5. CASE \E size \in OtherSizes : OtherSection(size) BY <1>4, <1>5 DEF OtherSection
<1>6. CASE CodeSection
  <2>1. at \in Nat /\ at' = at + 1 /\ at = Len(bodies) /\ bodies' = bodies
    BY <1>6 DEF CodeSection, BytesInv, TypeOK
  <2>2. QED BY <1>3, <2>1
<1>7. CASE UNCHANGED vars BY <1>4, <1>7 DEF vars
<1>8. CASE \E shape \in Shapes : \E n \in IF shape = "BR_TABLE" THEN Targets ELSE {0} :
             Emit(shape, n)
  BY <1>3, <1>8 DEF Emit, Emitting
<1>9. CASE Delimit \/ (\E n \in LocalCounts : DeclareLocals(n)) \/ ResetEmitter
  BY <1>3, <1>9 DEF Delimit, DeclareLocals, ResetEmitter, Emitting
<1>10. CASE Finish \/ PutRun \/ HandOver BY <1>3, <1>10 DEF Finish, PutRun, HandOver
<1>11. CASE StartSizing \/ SizeSection \/ WriteSection
  BY <1>3, <1>11 DEF StartSizing, SizeSection, WriteSection
<1>12. QED
  BY <1>1, <1>2, <1>5, <1>6, <1>7, <1>8, <1>9, <1>10, <1>11 DEF Next

\* The code section is the number of bodies and each body behind the size that
\* was announced for it, for any number of bodies of any size.
THEOREM BodiesAnnounced == Spec => []BodiesDelimited
<1>1. Init => Delimited BY DEF Init, Delimited
<1>2. Spec => [](BytesInv /\ Delimited)
  <2>1. Init => BytesInv /\ Delimited BY <1>1, InitInv
  <2>2. BytesInv /\ Delimited /\ [Next]_vars => (BytesInv /\ Delimited)'
    BY NextInv, DelimitedStep
  <2>3. QED BY <2>1, <2>2, PTL DEF Spec
<1>3. ASSUME Delimited PROVE BodiesDelimited
  <2> SUFFICES ASSUME phase = "build" /\ at <= Len(bodies) PROVE BodiesDelimited
    BY DEF BodiesDelimited
  <2> DEFINE Recursion(g) ==
        g = [k \in 0 .. at |-> IF k = 0 THEN SizeULEB(Len(bodies))
                               ELSE LET n == bodies[k].locals + bodies[k].code
                                    IN  g[k - 1] + SizeULEB(n) + n]
             sum == CHOOSE g : Recursion(g)
  <2>1. \A g : Recursion(g) <=> SumTo(g, at) BY DEF SumTo, Term
  <2>2. HasSum /\ Counts BY <1>3 DEF Delimited
  <2> HIDE DEF Recursion
  <2>3. Recursion(sum) BY <2>1, <2>2 DEF HasSum
  <2>4. SumTo(sum, at) BY <2>1, <2>3
  <2> HIDE DEF sum
  <2>5. sec.size = sum[at] BY <2>2, <2>4 DEF Counts
  <2>6. QED BY <2>5, Zenon DEF BodiesDelimited, sum, Recursion
<1>4. QED BY <1>2, <1>3, PTL
=============================================================================
