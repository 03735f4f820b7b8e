----------------------------- MODULE MCInterop ------------------------------
(***************************************************************************)
(* Integers of two and three bits, and signatures that differ in their     *)
(* signs, in their lengths, and in what the adapters can describe.         *)
(***************************************************************************)
EXTENDS Interop

Sig(args, rets) == [args |-> args, rets |-> rets]
Callable ==
  {Sig(<<"u32">>, <<"i32">>), Sig(<<"i32">>, <<"u32">>), Sig(<<"i64", "u32">>, <<"u64">>),
   Sig(<<"u64", "i32">>, <<"i64">>), Sig(<<>>, <<>>), Sig(<<"f32">>, <<"u32", "i64">>),
   Sig(<<"v128">>, <<>>)}
Several == Callable \cup {Sig(<<"f64", "f64", "f64">>, <<"f64">>)}

Number(T, n) == [type |-> T, n |-> n]
Extremes == {Number("i32", -2), Number("u32", 3), Number("i64", -1), Number("u64", 4),
             Number("f32", 1), Number("f64", 2), Number("v128", 3)}
=============================================================================
