----------------------------- MODULE CodeBuffer -----------------------------
(***************************************************************************)
(* class CodeBuffer (code_buffer.hpp) by its sizes: a record of the bytes  *)
(* written and the bytes allocated.  A method is an operator from the      *)
(* buffer before the call to the buffer after it.  realloc() succeeds.     *)
(***************************************************************************)
EXTENDS Integers

CONSTANT InitialCapacity  \* kInitialCapacity, 64 in the code

ASSUME CapacityAssumption == InitialCapacity \in Nat \ {0}

Buffer == [size : Nat, capacity : Nat]

\* Also what a buffer is after it was moved from.
Fresh == [size |-> 0, capacity |-> 0]

\* At least double, at least what is needed.
GrowTo(b, min) ==
  LET new == IF b.capacity > 0 THEN 2 * b.capacity ELSE InitialCapacity
  IN  [b EXCEPT !.capacity = IF new < min THEN min ELSE new]

Reserve(b, n) == IF n > b.capacity THEN GrowTo(b, n) ELSE b
Ensure(b, n) == IF b.size + n > b.capacity THEN GrowTo(b, b.size + n) ELSE b

\* Reset() keeps the allocation.
Reset(b) == [b EXCEPT !.size = 0]

\* CursorEnsure(room), n bytes through the raw cursor, SetEnd.  Nothing checks
\* that n is at most room.
Write(b, room, n) == [Ensure(b, room) EXCEPT !.size = @ + n]

(***************************************************************************)
(* The length of a LEB128 number: what PutULEB writes and SizeULEB says of *)
(* v, below 2^35; and all that a value of some bits may take.              *)
(***************************************************************************)
SizeULEB(v) == CASE v < 128 -> 1
                 [] 128 <= v /\ v < 16384 -> 2
                 [] 16384 <= v /\ v < 2097152 -> 3
                 [] 2097152 <= v /\ v < 268435456 -> 4
                 [] 268435456 <= v -> 5
Leb(bits) == 1 .. (bits + 6) \div 7

kMaxULEB32 == 5
kMaxULEB64 == 10
kMaxSLEB32 == 5
kMaxSLEB64 == 10
kMaxSLEB33 == 5

PutU8(b) == Write(b, 1, 1)
PutULEB(b, v) == Write(b, kMaxULEB64, SizeULEB(v))
PutBytes(b, n) == Write(b, n, n)
=============================================================================
