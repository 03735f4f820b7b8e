------------------------------- MODULE Leb128 -------------------------------
(***************************************************************************)
(* The LEB128 encoders and the sizing loop of leb128.hpp, one action per   *)
(* iteration.  A 64-bit number is the sequence of its groups of seven      *)
(* bits, least significant first; the tenth group holds bit 63 alone,      *)
(* extended by zero or by the sign.  So `v & 0x7F' is the first group and  *)
(* `v >> 7' drops it; for an i64 the shift repeats the sign.               *)
(***************************************************************************)
EXTENDS Integers, Sequences

CONSTANT Numbers  \* what clients encode: records [signed, groups]

Groups == 10
Group == 0 .. 127

\* What fills an i64 or u64 from above.
Fill(x) == IF x.signed THEN x.groups[Groups] ELSE 0

ASSUME NumbersAssumption ==
  \A x \in Numbers :
    /\ x.signed \in BOOLEAN /\ x.groups \in [1 .. Groups -> Group]
    /\ x.groups[Groups] \in IF x.signed THEN {0, 127} ELSE {0, 1}

VARIABLES number,  \* the argument
          v,       \* what is left of it
          bytes,   \* the bytes written: group and continuation bit
          size,    \* the count of SizeULEB or SizeSLEB
          pc       \* "put", "loop", "size", "done"

vars == <<number, v, bytes, size, pc>>

Init == /\ number \in Numbers /\ v = number.groups
        /\ bytes = <<>> /\ size = 0 /\ pc = "put"

All(w, g) == \A k \in 1 .. Groups : w[k] = g
Above(w, g) == \A k \in 2 .. Groups : w[k] = g

\* v >>= 7
Shift(w) == [k \in 1 .. Groups |-> IF k < Groups THEN w[k + 1] ELSE Fill(number)]

Byte(g, more) == [group |-> g, more |-> more]

\* Bit 6 of the group is the sign that a reader will extend.
SignBit(g) == g >= 64

\* Faulty variants: the sign bit of the last byte is forgotten; the loop looks
\* at the value before the shift; the case of negative numbers is missing.
EndsAtFill(g, rest) ==
  IF number.signed THEN All(rest, 0) \/ All(rest, 127) ELSE All(rest, 0)
EndsLate(g, rest) == (All(rest, 0) /\ g = 0) \/ (All(rest, 127) /\ g = 127)
EndsAtZero(g, rest) == All(rest, 0) /\ (number.signed => ~SignBit(g))

\* The group g is the last one when rest is left: readers extend the rest.
Ends(g, rest) ==
  IF number.signed
  THEN (All(rest, 0) /\ ~SignBit(g)) \/ (All(rest, 127) /\ SignBit(g))
  ELSE All(rest, 0)

\* v < 0x80, and v in [-64, 64).
Small == IF number.signed
         THEN (Above(v, 0) /\ v[1] < 64) \/ (Above(v, 127) /\ v[1] >= 64)
         ELSE Above(v, 0)

\* The single-byte fast path.
Fast == /\ pc = "put" /\ Small
        /\ bytes' = <<Byte(v[1], FALSE)>> /\ pc' = "size" /\ v' = number.groups
        /\ UNCHANGED <<number, size>>

Slow == pc = "put" /\ ~Small /\ pc' = "loop" /\ UNCHANGED <<number, v, bytes, size>>

PutByte ==
  LET last == Ends(v[1], Shift(v))
  IN  /\ pc = "loop"
      /\ bytes' = Append(bytes, Byte(v[1], ~last))
      /\ v' = IF last THEN number.groups ELSE Shift(v)
      /\ pc' = IF last THEN "size" ELSE "loop"
      /\ UNCHANGED <<number, size>>

(***************************************************************************)
(* SizeULEB tests before it shifts, SizeSLEB after; both start at 1.       *)
(***************************************************************************)
\* A faulty variant: -64 to 63 are not told from -128 to 127.
CountedAtFill(w) == Above(w, 0) \/ (number.signed /\ Above(w, 127))

Counted(w) == IF number.signed THEN Ends(w[1], Shift(w)) ELSE Above(w, 0)

CountByte ==
  LET last == Counted(v)
  IN  /\ pc = "size" /\ size' = size + 1
      /\ v' = IF last THEN v ELSE Shift(v)
      /\ pc' = IF last THEN "done" ELSE "size"
      /\ UNCHANGED <<number, bytes>>

Next == Fast \/ Slow \/ PutByte \/ CountByte

Spec == Init /\ [][Next]_vars
-----------------------------------------------------------------------------
TypeOK ==
  /\ number \in Numbers /\ v \in [1 .. Groups -> Group]
  /\ bytes \in Seq([group : Group, more : BOOLEAN]) /\ size \in Nat
  /\ pc \in {"put", "loop", "size", "done"}

Encoded == pc \in {"size", "done"}

\* What a reader makes of bytes: the groups, extended by zero or by bit 6 of
\* the last one.
Read(bs) ==
  LET n == Len(bs)
      fill == IF number.signed /\ SignBit(bs[n].group) THEN 127 ELSE 0
  IN  [k \in 1 .. Groups |->
         IF k > n THEN fill
         ELSE IF k = Groups /\ number.signed
              THEN (IF bs[k].group % 2 = 1 THEN 127 ELSE 0)
              ELSE bs[k].group]

\* A reader stops at the last byte and gets the number back, also where the
\* top bit of a group looks like a sign.
ReadsBack ==
  Encoded => /\ \A k \in 1 .. Len(bytes) : bytes[k].more <=> k < Len(bytes)
             /\ Read(bytes) = number.groups

\* Canonical: no shorter encoding is read as the same number.
Shortest ==
  Encoded => \A n \in 1 .. Len(bytes) - 1 :
               Read(SubSeq(bytes, 1, n)) # number.groups

\* The number is one of w bits: those above are zero or copies of the sign.
PowersOf2 == <<1, 2, 4, 8, 16, 32, 64>>
HasBits(w) ==
  LET g == (IF number.signed THEN w - 1 ELSE w) \div 7  \* whole groups below
      low == PowersOf2[((IF number.signed THEN w - 1 ELSE w) % 7) + 1]
      top == number.groups[g + 1]
  IN  \E fill \in IF number.signed THEN {0, 127} ELSE {0} :
        /\ \A k \in g + 2 .. Groups : number.groups[k] = fill
        /\ IF fill = 0 THEN top < low ELSE top >= 128 - low

\* The room that callers reserve: kMaxULEB32, kMaxSLEB32, kMaxSLEB33 and the
\* 64-bit lengths bound what is written for numbers of those widths.
\* So the loops, which count nothing, end.
WithinMax ==
  /\ Len(bytes) <= Groups
  /\ HasBits(32) \/ (number.signed /\ HasBits(33)) => Len(bytes) <= 5

\* The size loop, which Assemble() reserves by, agrees with the encoder.
SizesAgree == pc = "done" => size = Len(bytes)
=============================================================================
