----------------------------- MODULE HostTraits -----------------------------
(***************************************************************************)
(* One C++ function type, four readings of it: the type the module is      *)
(* built with (host_traits.hpp), the signature string for WAMR             *)
(* (interop/wamr.hpp), the value kinds that wasmtime is told and the       *)
(* conversion of each argument and result (interop/wasmtime.hpp).          *)
(*                                                                         *)
(* A signature is the list of its argument types and the list of its       *)
(* result types: none for void, several for a std::tuple.  A C++ value is  *)
(* a type and a number; each sign of an integer type has Half numbers.     *)
(***************************************************************************)
EXTENDS Integers, SequencesExt

CONSTANTS Half32, Half64  \* 2^31 and 2^63

ASSUME WidthAssumption == {Half32, Half64} \subseteq Nat \ {0}

ScalarTypes == {"i32", "u32", "i64", "u64", "f32", "f64", "v128"}

WasmValType(T) == CASE T \in {"i32", "u32"} -> "I32" [] T \in {"i64", "u64"} -> "I64"
                    [] T = "f32" -> "F32" [] T = "f64" -> "F64" [] T = "v128" -> "V128"

MapSeq(ts, op(_)) == [k \in 1 .. Len(ts) |-> op(ts[k])]

SignatureTraits(sig) == [params |-> MapSeq(sig.args, WasmValType),
                         results |-> MapSeq(sig.rets, WasmValType)]

(***************************************************************************)
(* WAMR: one character for each type between and behind the brackets.      *)
(***************************************************************************)
\* A faulty variant: long integers in lower case.
SigCharLower(v) == CASE v \in {"I32", "I64"} -> "i" [] v = "F32" -> "f" [] v = "F64" -> "F"
                     [] v = "V128" -> "?"

SigChar(v) == CASE v = "I32" -> "i" [] v = "I64" -> "I" [] v = "F32" -> "f"
                [] v = "F64" -> "F" [] v = "V128" -> "?"

\* For at most one result; more are rejected when the client is compiled.
SigString(sig) == <<"(">> \o MapSeq(SignatureTraits(sig).params, SigChar) \o <<")">>
                          \o MapSeq(SignatureTraits(sig).results, SigChar)
SigStringLen(sig) == Len(sig.args) + Len(sig.rets) + 2

(***************************************************************************)
(* wasmtime: kinds, and the conversions to and from its value union.       *)
(***************************************************************************)
ValKindOf(v) == CASE v = "I32" -> 0 [] v = "I64" -> 1 [] v = "F32" -> 2 [] v = "F64" -> 3
                  [] v = "V128" -> 4
Kinds(ts) == MapSeq(ts, LAMBDA T : ValKindOf(WasmValType(T)))

HalfOf(T) == IF T \in {"i32", "u32"} THEN Half32 ELSE Half64
Signed(n, half) == ((n + half) % (2 * half)) - half

\* A faulty variant: unsigned arguments are all taken for 32 bits.
MakeValShort(a) ==
  CASE a.type \in {"i32", "u32", "u64"} -> [kind |-> 0, n |-> Signed(a.n, Half32)]
    [] a.type = "i64" -> [kind |-> 1, n |-> Signed(a.n, Half64)]
    [] a.type \in {"f32", "f64", "v128"} -> [kind |-> ValKindOf(WasmValType(a.type)), n |-> a.n]

\* The kind comes from the type of the argument that is passed, and not from
\* the signature of the callee.
MakeVal(a) ==
  CASE a.type \in {"i32", "u32"} -> [kind |-> 0, n |-> Signed(a.n, Half32)]
    [] a.type \in {"i64", "u64"} -> [kind |-> 1, n |-> Signed(a.n, Half64)]
    [] a.type = "f32" -> [kind |-> 2, n |-> a.n]
    [] a.type = "f64" -> [kind |-> 3, n |-> a.n]
    [] a.type = "v128" -> [kind |-> 4, n |-> a.n]

\* A faulty variant: the union member is handed out as it is.
ReadValSigned(T, v) == [type |-> T, n |-> v.n]

\* The kind of v is not looked at.
ReadVal(T, v) ==
  CASE T \in {"u32", "u64"} -> [type |-> T, n |-> v.n % (2 * HalfOf(T))]
    [] T \notin {"u32", "u64"} -> [type |-> T, n |-> v.n]
=============================================================================
