---------------------------- MODULE InteropProofs ----------------------------
(***************************************************************************)
(* The wasmtime adapter leaks nothing, throws into no frame of the runtime *)
(* unless an error is reported inside a closure, is refused only for       *)
(* arguments of another type, and passes numbers unharmed: for integers of *)
(* every width, any signatures and any nesting of calls.                   *)
(***************************************************************************)
EXTENDS Interop, TLAPS

Number == [type : ScalarTypes, n : Int]
WasmVal == [kind : 0 .. 4, n : Int]
Given == [cpp : Seq(Number), vals : Seq(WasmVal)]
WasmFrame == [at : {"wasm"}, sig : Signatures, args : Seq(Number),
              vals : Seq(WasmVal), given : Seq(Given)]
ClosureFrame == [at : {"closure"}, sig : Signatures, args : Seq(Number)]
Frame == WasmFrame \cup ClosureFrame

Places == {Run} \cup [at : {"functype"}, sig : Signatures]
                \cup [at : {"failed", "copied"}, with : {"error", "trap"},
                      sig : Signatures, args : Seq(Number)]

\* The values have the wasm types of the C++ types ts, and were converted to vals.
Agree(values, ts) ==
  /\ Len(values) = Len(ts)
  /\ \A k \in 1 .. Len(ts) : WasmValType(values[k].type) = WasmValType(ts[k])
Converted(values, vals) ==
  /\ Len(vals) = Len(values)
  /\ \A k \in 1 .. Len(values) : vals[k] = MakeVal(values[k])

Sound(f) ==
  /\ Agree(f.args, f.sig.args) /\ Converted(f.args, f.vals)
  /\ f.given # <<>> => Agree(f.given[1].cpp, f.sig.rets)
                       /\ Converted(f.given[1].cpp, f.given[1].vals)

\* A closure is called by the wasm frame below it, under its own wasm type.
Nested(caller, f) ==
  /\ caller.at = "wasm" /\ SignatureTraits(f.sig) = SignatureTraits(caller.sig)
  /\ AllSame(f.args, caller.args)

\* What the adapter owns while it is in a call.
Holds == CASE pc.at = "client" -> {}
           [] pc.at = "functype" -> {"functype"}
           [] pc.at = "failed" -> {pc.with}
           [] pc.at = "copied" -> {pc.with, "message"}

Refused == MapSeq(pc.args, LAMBDA a : WasmValType(a.type)) # SignatureTraits(pc.sig).params

StackOK(s) ==
  /\ s \in Seq(Frame)
  /\ \A n \in 1 .. Len(s) :
       /\ s[n].at = "wasm" => Sound(s[n])
       /\ s[n].at = "closure" => n > 1 /\ Nested(s[n - 1], s[n])

(***************************************************************************)
(* Numbers.                                                                *)
(***************************************************************************)
LEMMA ModFacts ==
  ASSUME NEW m \in Nat \ {0}, NEW a \in Int
  PROVE  a % m \in 0 .. m - 1 /\ a \div m \in Int /\ a = m * (a \div m) + (a % m)
  OBVIOUS

LEMMA ModUnique ==
  ASSUME NEW m \in Nat \ {0}, NEW q \in Int, NEW r \in 0 .. m - 1
  PROVE  (m * q + r) % m = r
  <1> DEFINE a == m * q + r
             p == a \div m
  <1>1. a \in Int /\ p \in Int /\ a % m \in 0 .. m - 1 /\ a = m * p + (a % m)
    BY ModFacts
  <1>2. m * (q - p) = (a % m) - r
    BY <1>1
  <1>3. (q - p >= 1 => m * (q - p) >= m) /\ (q - p <= -1 => m * (q - p) <= -m)
    BY <1>1
  <1>4. q = p
    BY <1>1, <1>2, <1>3
  <1>5. QED
    BY <1>1, <1>2, <1>4

LEMMA MultipleMod ==
  ASSUME NEW m \in Nat \ {0}, NEW q \in Int
  PROVE  (m * q) % m = 0
  <1>1. 0 \in 0 .. m - 1 /\ m * q + 0 = m * q
    OBVIOUS
  <1>2. QED
    BY <1>1, ModUnique

\* a % m is a, up to a multiple of m.
LEMMA ModSame ==
  ASSUME NEW m \in Nat \ {0}, NEW a \in Int
  PROVE  ((a % m) - a) % m = 0
  <1>1. a \div m \in Int /\ -(a \div m) \in Int /\ a = m * (a \div m) + (a % m)
    BY ModFacts
  <1>2. (a % m) - a = m * (-(a \div m))
    BY <1>1
  <1>3. QED
    BY <1>1, <1>2, MultipleMod

LEMMA SignedFacts ==
  ASSUME NEW h \in Nat \ {0}, NEW a \in Int
  PROVE  Signed(a, h) \in -h .. h - 1 /\ (Signed(a, h) - a) % (2 * h) = 0
  <1>1. 2 * h \in Nat \ {0} /\ a + h \in Int
    OBVIOUS
  <1>2. (a + h) % (2 * h) \in 0 .. 2 * h - 1 /\ (((a + h) % (2 * h)) - (a + h)) % (2 * h) = 0
    BY <1>1, ModFacts, ModSame
  <1>3. Signed(a, h) \in -h .. h - 1
    BY <1>2 DEF Signed
  <1>4. Signed(a, h) - a = ((a + h) % (2 * h)) - (a + h)
    BY <1>2 DEF Signed
  <1>5. QED
    BY <1>2, <1>3, <1>4

\* The sum of two multiples of m is one.
LEMMA SumMod ==
  ASSUME NEW m \in Nat \ {0}, NEW a \in Int, NEW b \in Int, a % m = 0, b % m = 0
  PROVE  (a + b) % m = 0
  <1>1. /\ a \div m \in Int /\ b \div m \in Int
        /\ a = m * (a \div m) /\ b = m * (b \div m)
    BY ModFacts
  <1>2. a + b = m * ((a \div m) + (b \div m)) /\ (a \div m) + (b \div m) \in Int
    BY <1>1
  <1>3. QED
    BY <1>2, MultipleMod

(***************************************************************************)
(* Conversions.                                                            *)
(***************************************************************************)
LEMMA MadeValue ==
  ASSUME NEW a \in Number
  PROVE  /\ MakeVal(a) \in WasmVal
         /\ MakeVal(a).kind = ValKindOf(WasmValType(a.type))
         /\ MakeVal(a).n = IF WasmValType(a.type) \in {"I32", "I64"}
                           THEN Signed(a.n, HalfOf(a.type)) ELSE a.n
  <1>1. a.type \in ScalarTypes /\ a.n \in Int
    BY DEF Number
  <1>2. Signed(a.n, Half32) \in Int /\ Signed(a.n, Half64) \in Int
    <2>1. Half32 \in Nat \ {0} /\ Half64 \in Nat \ {0}
      BY WidthAssumption
    <2>2. QED
      BY <1>1, <2>1, SignedFacts
  <1>3. QED
    BY <1>1, <1>2 DEF ScalarTypes, MakeVal, WasmVal, WasmValType, ValKindOf, HalfOf

LEMMA RoundTrip ==
  ASSUME NEW a \in Number, NEW T \in ScalarTypes, WasmValType(a.type) = WasmValType(T)
  PROVE  ReadVal(T, MakeVal(a)) \in Number /\ Same(ReadVal(T, MakeVal(a)), a)
  <1> DEFINE r == ReadVal(T, MakeVal(a))
             n == MakeVal(a).n
  <1>1. a.type \in ScalarTypes /\ a.n \in Int /\ n \in Int
    BY MadeValue DEF Number, WasmVal
  <1>2. CASE T \in {"f32", "f64", "v128"}
    <2>1. n = a.n
      <3>1. WasmValType(T) \notin {"I32", "I64"}
        BY <1>2 DEF WasmValType
      <3>2. QED
        BY <3>1, MadeValue
    <2>2. r = [type |-> T, n |-> n]
      BY <1>2 DEF ReadVal
    <2>3. r \in Number /\ r.type = T /\ r.n = a.n
      BY <1>1, <2>1, <2>2 DEF Number
    <2>4. WasmValType(r.type) \notin {"I32", "I64"}
      BY <1>2, <2>3 DEF WasmValType
    <2>5. QED
      BY <2>3, <2>4 DEF Same
  <1>3. CASE T \in {"i32", "u32", "i64", "u64"}
    <2> DEFINE h == HalfOf(T)
    <2>1. h \in Nat \ {0} /\ 2 * h \in Nat \ {0} /\ n = Signed(a.n, h)
      <3>1. HalfOf(a.type) = h /\ WasmValType(a.type) \in {"I32", "I64"}
        BY <1>1, <1>3 DEF WasmValType, HalfOf, ScalarTypes
      <3>2. h \in Nat \ {0}
        BY WidthAssumption DEF HalfOf
      <3>3. QED
        BY <3>1, <3>2, MadeValue
    <2> HIDE DEF h
    <2>2. n \in -h .. h - 1 /\ (n - a.n) % (2 * h) = 0
      BY <1>1, <2>1, SignedFacts
    <2>3. CASE T \in {"i32", "i64"}
      <3>1. r = [type |-> T, n |-> n]
        BY <2>3 DEF ReadVal
      <3>2. n \in Numbers(T)
        BY <2>2, <2>3 DEF Numbers, h
      <3>3. r \in Number /\ r.type = T /\ r.n = n
        BY <1>1, <3>1 DEF Number
      <3>4. QED
        BY <1>3, <2>2, <3>2, <3>3 DEF Same, WasmValType, h
    <2>4. CASE T \in {"u32", "u64"}
      <3>1. r = [type |-> T, n |-> n % (2 * h)]
        BY <2>4 DEF ReadVal, h
      <3>2. n % (2 * h) \in 0 .. 2 * h - 1 /\ ((n % (2 * h)) - n) % (2 * h) = 0
        BY <1>1, <2>1, ModFacts, ModSame
      <3>3. n % (2 * h) \in Numbers(T)
        BY <2>4, <3>2 DEF Numbers, h
      <3>4. ((n % (2 * h)) - a.n) % (2 * h) = 0
        <4>1. ((n % (2 * h)) - n) \in Int /\ n - a.n \in Int
          BY <1>1, <3>2
        <4>2. (((n % (2 * h)) - n) + (n - a.n)) % (2 * h) = 0
          BY <2>1, <2>2, <3>2, <4>1, SumMod
        <4>3. ((n % (2 * h)) - n) + (n - a.n) = (n % (2 * h)) - a.n
          BY <1>1, <3>2
        <4>4. QED
          BY <4>2, <4>3
      <3>5. r \in Number /\ r.type = T /\ r.n = n % (2 * h)
        BY <3>1, <3>2 DEF Number
      <3>6. QED
        BY <1>3, <3>3, <3>4, <3>5 DEF Same, WasmValType, h
    <2>5. QED
      BY <1>3, <2>3, <2>4
  <1>4. QED
    BY <1>2, <1>3 DEF ScalarTypes

\* A list of values read back as types that have the same wasm types.
LEMMA ReadBack ==
  ASSUME NEW values \in Seq(Number), NEW ts \in Seq(ScalarTypes), NEW vals,
         Agree(values, ts), Converted(values, vals)
  PROVE  LET read == [k \in 1 .. Len(ts) |-> ReadVal(ts[k], vals[k])]
         IN  read \in Seq(Number) /\ AllSame(read, values)
  <1> DEFINE read == [k \in 1 .. Len(ts) |-> ReadVal(ts[k], vals[k])]
  <1>1. Len(ts) \in Nat /\ Len(values) = Len(ts)
    BY DEF Agree
  <1>2. ASSUME NEW k \in 1 .. Len(ts)
        PROVE  ReadVal(ts[k], vals[k]) \in Number /\ Same(ReadVal(ts[k], vals[k]), values[k])
    <2>1. values[k] \in Number /\ ts[k] \in ScalarTypes
      BY <1>1
    <2>2. WasmValType(values[k].type) = WasmValType(ts[k]) /\ vals[k] = MakeVal(values[k])
      BY <1>1 DEF Agree, Converted
    <2>3. QED
      BY <2>1, <2>2, RoundTrip
  <1>3. read \in Seq(Number) /\ Len(read) = Len(ts)
    BY <1>1, <1>2
  <1>4. \A k \in 1 .. Len(ts) : read[k] = ReadVal(ts[k], vals[k])
    OBVIOUS
  <1>5. AllSame(read, values)
    BY <1>1, <1>2, <1>3, <1>4 DEF AllSame
  <1>6. QED
    BY <1>3, <1>5

LEMMA TraitsFacts ==
  ASSUME NEW sig \in Signatures
  PROVE  /\ sig.args \in Seq(ScalarTypes) /\ sig.rets \in Seq(ScalarTypes)
         /\ SignatureTraits(sig).params = [k \in 1 .. Len(sig.args) |-> WasmValType(sig.args[k])]
         /\ SignatureTraits(sig).results = [k \in 1 .. Len(sig.rets) |-> WasmValType(sig.rets[k])]
  <1>1. sig \in [args : Seq(ScalarTypes), rets : Seq(ScalarTypes)]
    BY InteropAssumption
  <1>2. QED
    BY <1>1 DEF SignatureTraits, MapSeq

LEMMA SameDomains ==
  ASSUME NEW m \in Nat, NEW n \in Nat, NEW f, NEW g,
         f = g, DOMAIN f = 1 .. m, DOMAIN g = 1 .. n
  PROVE  m = n
  OBVIOUS

\* Values have the wasm types of the list ts just when they agree with it.
LEMMA AgreeMeaning ==
  ASSUME NEW values, Len(values) \in Nat, NEW ts \in Seq(ScalarTypes)
  PROVE  Agree(values, ts) <=> [k \in 1 .. Len(values) |-> WasmValType(values[k].type)]
                               = [k \in 1 .. Len(ts) |-> WasmValType(ts[k])]
  <1> DEFINE f == [k \in 1 .. Len(values) |-> WasmValType(values[k].type)]
             g == [k \in 1 .. Len(ts) |-> WasmValType(ts[k])]
  <1>1. Len(ts) \in Nat /\ DOMAIN f = 1 .. Len(values) /\ DOMAIN g = 1 .. Len(ts)
    OBVIOUS
  <1>2. ASSUME f = g PROVE Agree(values, ts)
    <2>1. Len(values) = Len(ts)
      BY <1>1, <1>2, SameDomains
    <2>2. \A k \in 1 .. Len(ts) : f[k] = WasmValType(values[k].type) /\ g[k] = WasmValType(ts[k])
      BY <2>1
    <2>3. QED
      BY <1>2, <2>1, <2>2 DEF Agree
  <1>3. ASSUME Agree(values, ts) PROVE f = g
    BY <1>3 DEF Agree
  <1>4. QED
    BY <1>2, <1>3

\* Signatures with equal traits describe the same values.
LEMMA TraitsAgree ==
  ASSUME NEW a \in Signatures, NEW b \in Signatures, SignatureTraits(a) = SignatureTraits(b),
         NEW values, Len(values) \in Nat
  PROVE  (Agree(values, a.args) <=> Agree(values, b.args)) /\
         (Agree(values, a.rets) <=> Agree(values, b.rets))
  <1>1. /\ [k \in 1 .. Len(a.args) |-> WasmValType(a.args[k])]
           = [k \in 1 .. Len(b.args) |-> WasmValType(b.args[k])]
        /\ [k \in 1 .. Len(a.rets) |-> WasmValType(a.rets[k])]
           = [k \in 1 .. Len(b.rets) |-> WasmValType(b.rets[k])]
    BY TraitsFacts
  <1>2. /\ a.args \in Seq(ScalarTypes) /\ a.rets \in Seq(ScalarTypes)
        /\ b.args \in Seq(ScalarTypes) /\ b.rets \in Seq(ScalarTypes)
    BY TraitsFacts
  <1>3. QED
    BY <1>1, <1>2, AgreeMeaning

\* The kinds that wasmtime compares are those of the types.
LEMMA KindsAgree ==
  ASSUME NEW args \in Seq(Number), NEW ts \in Seq(ScalarTypes), Len(args) = Len(ts)
  PROVE  Agree(args, ts) <=> [k \in 1 .. Len(args) |-> MakeVal(args[k]).kind] = Kinds(ts)
  <1> DEFINE f == [k \in 1 .. Len(args) |-> MakeVal(args[k]).kind]
  <1>1. Kinds(ts) = [k \in 1 .. Len(ts) |-> ValKindOf(WasmValType(ts[k]))]
    BY DEF Kinds, MapSeq
  <1>2. \A k \in 1 .. Len(ts) : f[k] = ValKindOf(WasmValType(args[k].type))
    BY MadeValue
  <1>3. f = [k \in 1 .. Len(ts) |-> ValKindOf(WasmValType(args[k].type))]
    BY MadeValue
  <1>4. \A T, U \in ScalarTypes : ValKindOf(WasmValType(T)) = ValKindOf(WasmValType(U))
                                  <=> WasmValType(T) = WasmValType(U)
    BY DEF ScalarTypes, WasmValType, ValKindOf
  <1>5. ASSUME NEW k \in 1 .. Len(ts)
        PROVE  args[k].type \in ScalarTypes /\ ts[k] \in ScalarTypes
    <2>1. args[k] \in Number /\ ts[k] \in ScalarTypes
      OBVIOUS
    <2>2. QED
      BY <2>1 DEF Number
  <1>6. ASSUME f = Kinds(ts) PROVE Agree(args, ts)
    <2>1. \A k \in 1 .. Len(ts) : Kinds(ts)[k] = ValKindOf(WasmValType(ts[k]))
      BY <1>1
    <2>2. QED
      BY <1>2, <1>4, <1>5, <1>6, <2>1 DEF Agree
  <1>7. ASSUME Agree(args, ts) PROVE f = Kinds(ts)
    BY <1>1, <1>3, <1>7 DEF Agree
  <1>8. QED
    BY <1>6, <1>7

LEMMA ConvertedFacts ==
  ASSUME NEW values \in Seq(Number)
  PROVE  LET vals == [k \in 1 .. Len(values) |-> MakeVal(values[k])]
         IN  vals \in Seq(WasmVal) /\ Len(vals) = Len(values) /\ Converted(values, vals)
  <1> DEFINE vals == [k \in 1 .. Len(values) |-> MakeVal(values[k])]
  <1>1. \A k \in 1 .. Len(values) : MakeVal(values[k]) \in WasmVal
    BY MadeValue
  <1>2. Len(values) \in Nat
    OBVIOUS
  <1>3. vals \in Seq(WasmVal) /\ Len(vals) = Len(values)
    BY <1>1, <1>2
  <1>4. QED
    BY <1>3 DEF Converted

(***************************************************************************)
(* The stack of frames.                                                    *)
(***************************************************************************)
LEMMA FrameTypes ==
  ASSUME NEW f \in Frame
  PROVE  /\ f.at = "wasm" => f \in WasmFrame
         /\ f.at = "closure" => f \in ClosureFrame
         /\ f.at \in {"wasm", "closure"} /\ f.sig \in Signatures /\ f.args \in Seq(Number)
  BY DEF Frame, WasmFrame, ClosureFrame

LEMMA Pushed ==
  ASSUME NEW s, StackOK(s), NEW f \in Frame, f.at = "wasm" => Sound(f),
         f.at = "closure" => s # <<>> /\ Nested(s[Len(s)], f)
  PROVE  StackOK(Append(s, f))
  <1> DEFINE t == Append(s, f)
             m == Len(s)
  <1>1. s \in Seq(Frame) /\ m \in Nat
    BY DEF StackOK
  <1>2. t \in Seq(Frame) /\ Len(t) = m + 1 /\ t[m + 1] = f /\ \A k \in 1 .. m : t[k] = s[k]
    BY <1>1
  <1>3. s # <<>> => m > 0
    BY <1>1
  <1> HIDE DEF t, m
  <1>4. ASSUME NEW n \in 1 .. m + 1
        PROVE  /\ t[n].at = "wasm" => Sound(t[n])
               /\ t[n].at = "closure" => n > 1 /\ Nested(t[n - 1], t[n])
    <2>1. CASE n = m + 1
      <3>1. t[n] = f
        BY <1>2, <2>1
      <3>2. ASSUME f.at = "closure" PROVE n > 1 /\ Nested(t[n - 1], f)
        <4>1. m > 0 /\ Nested(s[m], f)
          BY <1>3, <3>2 DEF m
        <4>2. m \in 1 .. m /\ n - 1 = m /\ n > 1
          BY <1>1, <2>1, <4>1
        <4>3. t[n - 1] = s[m]
          BY <1>2, <4>2
        <4>4. QED
          BY <4>1, <4>2, <4>3
      <3>3. QED
        BY <3>1, <3>2
    <2>2. CASE n # m + 1
      <3>1. n \in 1 .. m /\ t[n] = s[n]
        BY <1>1, <1>2, <2>2
      <3>2. n > 1 => n - 1 \in 1 .. m /\ t[n - 1] = s[n - 1]
        BY <1>1, <1>2, <3>1
      <3>3. /\ s[n].at = "wasm" => Sound(s[n])
            /\ s[n].at = "closure" => n > 1 /\ Nested(s[n - 1], s[n])
        BY <3>1 DEF StackOK, m
      <3>4. QED
        BY <3>1, <3>2, <3>3
    <2>3. QED
      BY <2>1, <2>2
  <1>5. StackOK(t)
    BY <1>2, <1>4 DEF StackOK
  <1>6. QED
    BY <1>5 DEF t

LEMMA Cut ==
  ASSUME NEW s, StackOK(s), NEW m \in 0 .. Len(s)
  PROVE  StackOK(SubSeq(s, 1, m))
  <1> DEFINE t == SubSeq(s, 1, m)
  <1>1. s \in Seq(Frame) /\ Len(s) \in Nat
    BY DEF StackOK
  <1>2. t \in Seq(Frame) /\ Len(t) = m /\ \A k \in 1 .. m : t[k] = s[k] /\ k \in 1 .. Len(s)
    BY <1>1
  <1> HIDE DEF t
  <1>3. ASSUME NEW n \in 1 .. m
        PROVE  /\ t[n].at = "wasm" => Sound(t[n])
               /\ t[n].at = "closure" => n > 1 /\ Nested(t[n - 1], t[n])
    <2>1. t[n] = s[n] /\ n \in 1 .. Len(s)
      BY <1>2
    <2>2. n > 1 => n - 1 \in 1 .. m
      OBVIOUS
    <2>3. n > 1 => t[n - 1] = s[n - 1]
      BY <1>2, <2>2
    <2>4. QED
      BY <2>1, <2>3 DEF StackOK
  <1>4. StackOK(t)
    BY <1>2, <1>3 DEF StackOK
  <1>5. QED
    BY <1>4 DEF t

\* The innermost frame, and the stack without it.
LEMMA TopFacts ==
  ASSUME NEW s, StackOK(s), s # <<>>
  PROVE  /\ Last(s) = s[Len(s)] /\ Last(s) \in Frame /\ Len(s) \in 1 .. Len(s)
         /\ Last(s).at = "wasm" => Sound(Last(s)) /\ Last(s) \in WasmFrame
         /\ Last(s).at = "closure" => Len(s) > 1 /\ Nested(s[Len(s) - 1], Last(s))
         /\ StackOK(Front(s))
  <1>1. s \in Seq(Frame) /\ Len(s) \in Nat /\ Len(s) > 0
    BY DEF StackOK
  <1>2. Len(s) \in 1 .. Len(s) /\ Len(s) - 1 \in 0 .. Len(s)
    BY <1>1
  <1>3. Last(s) = s[Len(s)] /\ s[Len(s)] \in Frame
    BY <1>1, <1>2 DEF Last
  <1>4. StackOK(Front(s))
    BY <1>2, Cut DEF Front
  <1>5. QED
    BY <1>2, <1>3, <1>4, FrameTypes DEF StackOK

(***************************************************************************)
(* The steps.                                                              *)
(***************************************************************************)
LEMMA ErrorsStep == ErrorsStayInCpp /\ [Next]_vars => ErrorsStayInCpp'
  <1> SUFFICES ASSUME ErrorsStayInCpp, [Next]_vars PROVE ErrorsStayInCpp'
    OBVIOUS
  <1>1. ASSUME NEW sig, NewFuncType(sig) PROVE ErrorsStayInCpp'
    BY <1>1 DEF NewFuncType, InClient, ErrorsStayInCpp, modes
  <1>2. ASSUME NEW sig, NEW args, TypedCall(sig, args) PROVE ErrorsStayInCpp'
    BY <1>2 DEF TypedCall, InClient, ErrorsStayInCpp, modes
  <1>3. ASSUME NEW sig, CallClosure(sig) PROVE ErrorsStayInCpp'
    BY <1>3 DEF CallClosure, InWasm, ErrorsStayInCpp, modes
  <1>4. ASSUME NEW res, ReturnToWasm(res) PROVE ErrorsStayInCpp'
    BY <1>4 DEF ReturnToWasm, InClient, ErrorsStayInCpp, modes
  <1>5. ASSUME NEW res, ReturnToHost(res) PROVE ErrorsStayInCpp'
    BY <1>5 DEF ReturnToHost, InWasm, ErrorsStayInCpp, modes
  <1>6. CASE NewClosure
    BY <1>6 DEF NewClosure, OutOfMemory, Throw, ErrorsStayInCpp, modes
  <1>7. CASE DeleteStore
    BY <1>7 DEF DeleteStore, InClient, ErrorsStayInCpp, modes
  <1>8. CASE WasmTraps
    BY <1>8 DEF WasmTraps, InWasm, ErrorsStayInCpp, modes
  <1>9. CASE CopyMessage
    BY <1>9 DEF CopyMessage, OutOfMemory, Throw, ErrorsStayInCpp, modes
  <1>10. CASE Fail
    BY <1>10 DEF Fail, ReportError, Throw, ErrorsStayInCpp, modes
  <1>11. CASE UNCHANGED vars
    BY <1>11 DEF vars, ErrorsStayInCpp
  <1>12. QED
    BY <1>1, <1>2, <1>3, <1>4, <1>5, <1>6, <1>7, <1>8, <1>9, <1>10, <1>11 DEF Next

\* Everything but the errors, of a state in which the adapter read nothing.
Kept ==
  /\ closures \subseteq Signatures /\ pc \in Places /\ StackOK(stack)
  /\ ~starved => owned = Holds
  /\ pc.at = "failed" /\ pc.with = "error" => Refused

Reads == \A l \in ToSet(last) : AllSame(l.read, l.given)

LEMMA NothingRead ==
  ASSUME last' = <<>>
  PROVE  Reads'
  BY DEF Reads, ToSet

LEMMA RunFacts ==
  /\ Run \in Places /\ Run.at = "client"
  /\ \A p \in Places : p.at = "client" <=> p = Run
  BY DEF Places, Run, In

LEMMA HoldsFacts ==
  /\ pc.at = "client" => Holds = {}
  /\ pc.at = "functype" => Holds = {"functype"}
  /\ pc.at = "failed" => Holds = {pc.with}
  /\ pc.at = "copied" => Holds = {pc.with, "message"}
  BY DEF Holds

\* A step of client or wasm code that leaves the adapter alone.
LEMMA QuietStep ==
  ASSUME Kept, pc = Run, pc' = Run, UNCHANGED <<owned, starved>>,
         closures' \subseteq Signatures, StackOK(stack')
  PROVE  Kept'
  <1>1. Holds = {} /\ Holds' = {}
    BY RunFacts DEF Holds
  <1>2. pc'.at = "client" /\ pc' \in Places
    BY RunFacts
  <1>3. QED
    BY <1>1, <1>2 DEF Kept

LEMMA FuncTypeStep ==
  ASSUME Kept, NEW sig \in Signatures, NewFuncType(sig)
  PROVE  Kept' /\ Reads'
  <1>1. Reads'
    BY NothingRead DEF NewFuncType
  <1>2. pc = Run /\ UNCHANGED <<closures, stack, starved>> /\ Holds = {}
    BY RunFacts DEF NewFuncType, InClient, Holds
  <1>3. CASE UNCHANGED <<pc, owned>>
    <2>1. pc' = Run /\ closures' \subseteq Signatures /\ StackOK(stack')
      BY <1>2, <1>3 DEF Kept
    <2>2. QED
      BY <1>1, <1>2, <1>3, <2>1, QuietStep
  <1>4. CASE pc' = [at |-> "functype", sig |-> sig] /\ owned' = {"functype"} \cup owned
    <2>1. pc' \in Places /\ pc'.at = "functype"
      BY <1>4 DEF Places
    <2>2. Holds' = {"functype"}
      BY <2>1 DEF Holds
    <2>3. ~starved' => owned' = {"functype"}
      BY <1>2, <1>4 DEF Kept
    <2>4. QED
      BY <1>1, <1>2, <2>1, <2>2, <2>3 DEF Kept
  <1>5. QED
    BY <1>1, <1>3, <1>4 DEF NewFuncType

LEMMA ClosureStep ==
  ASSUME Kept, NewClosure
  PROVE  Kept' /\ Reads'
  <1>1. Reads'
    BY NothingRead DEF NewClosure
  <1>2. pc \in [at : {"functype"}, sig : Signatures] /\ Holds = {"functype"}
    BY RunFacts DEF NewClosure, Kept, Places, Holds
  <1>3. pc' = Run /\ stack' = stack /\ Holds' = {}
    BY RunFacts DEF NewClosure, OutOfMemory, Throw, Holds
  <1>4. closures' \subseteq Signatures
    BY <1>2 DEF NewClosure, Kept
  <1>5. ~starved' => owned' = {}
    BY <1>2 DEF NewClosure, OutOfMemory, Kept
  <1>6. QED
    BY <1>1, <1>3, <1>4, <1>5, RunFacts DEF Kept

LEMMA TrapStep ==
  ASSUME Kept, WasmTraps
  PROVE  Kept' /\ Reads'
  <1>1. Reads'
    BY NothingRead DEF WasmTraps
  <1>2. pc = Run /\ stack # <<>> /\ StackOK(stack)
    BY DEF WasmTraps, InWasm, Kept
  <1>3. StackOK(Front(stack)) /\ Last(stack).sig \in Signatures /\ Last(stack).args \in Seq(Number)
    BY <1>2, TopFacts, FrameTypes
  <1>4. pc' = [at |-> "failed", with |-> "trap", sig |-> Last(stack).sig, args |-> Last(stack).args]
    BY DEF WasmTraps
  <1>5. pc' \in Places /\ pc'.at = "failed" /\ pc'.with = "trap"
    BY <1>3, <1>4 DEF Places
  <1>6. Holds = {} /\ Holds' = {"trap"}
    BY <1>2, <1>5, RunFacts DEF Holds
  <1>7. ~starved' => owned' = {"trap"}
    BY <1>6 DEF WasmTraps, Kept
  <1>8. QED
    BY <1>1, <1>3, <1>5, <1>6, <1>7 DEF Kept, WasmTraps

LEMMA CopyStep ==
  ASSUME Kept, CopyMessage
  PROVE  Kept' /\ Reads'
  <1>1. Reads'
    BY NothingRead DEF CopyMessage
  <1>2. /\ pc \in [at : {"failed", "copied"}, with : {"error", "trap"},
                   sig : Signatures, args : Seq(Number)]
        /\ pc.at = "failed" /\ Holds = {pc.with} /\ stack' = stack /\ closures' = closures
    BY RunFacts DEF CopyMessage, OutOfMemory, Throw, Kept, Places, Holds
  <1>3. CASE OutOfMemory
    <2>1. pc' = Run /\ starved'
      BY <1>3 DEF OutOfMemory, Throw
    <2>2. QED
      BY <1>1, <1>2, <2>1, RunFacts DEF Kept
  <1>4. CASE pc' = [pc EXCEPT !.at = "copied"] /\ UNCHANGED starved
    <2>1. pc' \in Places /\ pc'.at = "copied" /\ pc'.with = pc.with
      BY <1>2, <1>4 DEF Places
    <2>2. Holds' = {pc.with, "message"}
      BY <2>1 DEF Holds
    <2>3. ~starved' => owned' = {pc.with, "message"}
      BY <1>2, <1>4 DEF Kept, CopyMessage
    <2>4. QED
      BY <1>1, <1>2, <2>1, <2>2, <2>3 DEF Kept
  <1>5. QED
    BY <1>3, <1>4 DEF CopyMessage

LEMMA FailStep ==
  ASSUME Kept, Fail
  PROVE  Kept' /\ Reads'
  <1>1. Reads'
    BY NothingRead DEF Fail
  <1>2. /\ pc.at = "copied" /\ pc' = Run /\ UNCHANGED <<stack, closures, starved>>
        /\ owned' = owned \ {"message", pc.with}
    BY DEF Fail, ReportError, Throw, Deleted
  <1>3. Holds = {pc.with, "message"} /\ Holds' = {}
    BY <1>2, RunFacts DEF Holds
  <1>4. ~starved' => owned' = {}
    BY <1>2, <1>3 DEF Kept
  <1>5. QED
    BY <1>1, <1>2, <1>3, <1>4, RunFacts DEF Kept

LEMMA ListTypes ==
  ASSUME NEW n \in Nat, NEW args \in Lists(n)
  PROVE  args \in Seq(Number) /\ Len(args) = n
  <1>1. Values \subseteq Number
    BY InteropAssumption DEF Number
  <1>2. args \in [1 .. n -> Number]
    BY <1>1 DEF Lists
  <1>3. QED
    BY <1>2

LEMMA CallStep ==
  ASSUME Kept, NEW sig \in Called, NEW args \in Lists(Len(sig.args)), TypedCall(sig, args)
  PROVE  Kept' /\ Reads'
  <1> DEFINE vals == [k \in 1 .. Len(args) |-> MakeVal(args[k])]
             f == [at |-> "wasm", sig |-> sig, args |-> args, vals |-> vals, given |-> <<>>]
             failed == [at |-> "failed", with |-> "error", sig |-> sig, args |-> args]
  <1>1. Reads'
    BY NothingRead DEF TypedCall
  <1>2. sig \in Signatures /\ sig.args \in Seq(ScalarTypes)
    BY InteropAssumption, TraitsFacts
  <1>3. args \in Seq(Number) /\ Len(args) = Len(sig.args)
    BY <1>2, ListTypes
  <1>4. vals \in Seq(WasmVal) /\ Len(vals) = Len(args) /\ Converted(args, vals)
    BY <1>3, ConvertedFacts
  <1>5. [k \in 1 .. Len(vals) |-> vals[k].kind] = [k \in 1 .. Len(args) |-> MakeVal(args[k]).kind]
    BY <1>4
  <1>6. [k \in 1 .. Len(vals) |-> vals[k].kind] = Kinds(sig.args) <=> Agree(args, sig.args)
    BY <1>2, <1>3, <1>5, KindsAgree
  <1>7. pc = Run /\ StackOK(stack) /\ UNCHANGED <<closures, starved>> /\ Holds = {}
    BY RunFacts DEF TypedCall, InClient, Kept, Holds
  <1>8. CASE Agree(args, sig.args)
    <2>1. stack' = Append(stack, f) /\ UNCHANGED <<pc, owned>>
      BY <1>6, <1>8 DEF TypedCall
    <2>2. f \in Frame /\ f.at = "wasm"
      <3>1. <<>> \in Seq(Given)
        OBVIOUS
      <3> HIDE DEF vals
      <3>2. QED
        BY <1>2, <1>3, <1>4, <3>1 DEF Frame, WasmFrame
    <2>3. Sound(f)
      <3> HIDE DEF vals
      <3>1. QED
        BY <1>4, <1>8 DEF Sound
    <2>4. StackOK(stack')
      <3> HIDE DEF f
      <3>1. QED
        BY <1>7, <2>1, <2>2, <2>3, Pushed
    <2>5. closures' \subseteq Signatures /\ pc' = Run
      BY <1>7, <2>1 DEF Kept
    <2>6. QED
      BY <1>1, <1>7, <2>1, <2>4, <2>5, QuietStep
  <1>9. CASE ~Agree(args, sig.args)
    <2>1. pc' = failed /\ owned' = owned \cup {"error"} /\ stack' = stack
      BY <1>6, <1>9 DEF TypedCall
    <2>2. pc' \in Places /\ pc'.at = "failed" /\ pc'.with = "error"
          /\ pc'.sig = sig /\ pc'.args = args
      BY <1>2, <1>3, <2>1 DEF Places
    <2>3. Holds' = {"error"}
      BY <2>2 DEF Holds
    <2>4. Refused'
      <3>1. Refused' <=> [k \in 1 .. Len(args) |-> WasmValType(args[k].type)]
                           # SignatureTraits(sig).params
        BY <2>2 DEF Refused, MapSeq
      <3>2. SignatureTraits(sig).params = [k \in 1 .. Len(sig.args) |-> WasmValType(sig.args[k])]
        BY <1>2, TraitsFacts
      <3>3. Len(args) \in Nat
        BY <1>3
      <3>4. [k \in 1 .. Len(args) |-> WasmValType(args[k].type)]
            # [k \in 1 .. Len(sig.args) |-> WasmValType(sig.args[k])]
        BY <1>2, <1>9, <3>3, AgreeMeaning
      <3>5. QED
        BY <3>1, <3>2, <3>4, Zenon
    <2>5. ~starved' => owned' = {"error"}
      BY <1>7, <2>1 DEF Kept
    <2>6. QED
      BY <1>1, <1>7, <2>1, <2>2, <2>3, <2>4, <2>5 DEF Kept
  <1>10. QED
    BY <1>8, <1>9

LEMMA ClosureCallStep ==
  ASSUME Kept, NEW sig \in closures, CallClosure(sig)
  PROVE  Kept' /\ Reads'
  <1> DEFINE f == Last(stack)
             read == [k \in 1 .. Len(sig.args) |-> ReadVal(sig.args[k], f.vals[k])]
             g == [at |-> "closure", sig |-> sig, args |-> read]
  <1>1. Reads'
    BY NothingRead DEF CallClosure
  <1>2. /\ sig \in Signatures /\ sig.args \in Seq(ScalarTypes)
        /\ pc = Run /\ StackOK(stack) /\ stack # <<>> /\ f.at = "wasm"
        /\ UNCHANGED <<closures, pc, owned, starved>> /\ stack' = Append(stack, g)
        /\ SignatureTraits(sig) = SignatureTraits(f.sig)
    BY TraitsFacts DEF Kept, CallClosure, InWasm
  <1>3. f = stack[Len(stack)] /\ f \in Frame /\ Sound(f) /\ f.sig \in Signatures /\ f.args \in Seq(Number)
    BY <1>2, TopFacts, FrameTypes
  <1> HIDE DEF f
  <1>4. Agree(f.args, sig.args) /\ Converted(f.args, f.vals)
    <2>1. Agree(f.args, f.sig.args) /\ Converted(f.args, f.vals) /\ Len(f.args) \in Nat
      BY <1>3 DEF Sound
    <2>2. QED
      BY <1>2, <1>3, <2>1, TraitsAgree
  <1>5. read \in Seq(Number) /\ AllSame(read, f.args)
    BY <1>2, <1>3, <1>4, ReadBack
  <1> HIDE DEF read
  <1>6. g \in Frame /\ g.at = "closure" /\ Nested(f, g)
    BY <1>2, <1>5 DEF Frame, ClosureFrame, Nested
  <1> HIDE DEF g
  <1>7. StackOK(stack')
    BY <1>2, <1>3, <1>6, Pushed
  <1>8. closures' \subseteq Signatures /\ pc' = Run
    BY <1>2 DEF Kept
  <1>9. QED
    BY <1>1, <1>2, <1>7, <1>8, QuietStep

\* None or one result, or as many as the list has.
LEMMA ResultTypes ==
  ASSUME Kept, stack # <<>>, NEW res \in Lists(Len(Last(stack).sig.rets)) \cup {<<>>}
  PROVE  res \in Seq(Number)
  <1>1. Last(stack).sig \in Signatures
    BY TopFacts, FrameTypes DEF Kept
  <1>2. Len(Last(stack).sig.rets) \in Nat
    BY <1>1, TraitsFacts
  <1>3. <<>> \in Seq(Number)
    OBVIOUS
  <1>4. QED
    BY <1>2, <1>3, ListTypes

LEMMA GivenTypes ==
  ASSUME NEW res \in Seq(Number)
  PROVE  LET vals == MapSeq(res, MakeVal)
         IN  /\ [cpp |-> res, vals |-> vals] \in Given /\ Converted(res, vals)
  <1>1. MapSeq(res, MakeVal) = [k \in 1 .. Len(res) |-> MakeVal(res[k])]
    BY DEF MapSeq
  <1>2. MapSeq(res, MakeVal) \in Seq(WasmVal) /\ Converted(res, MapSeq(res, MakeVal))
    BY <1>1, ConvertedFacts
  <1>3. QED
    BY <1>2 DEF Given

LEMMA WasmReturnStep ==
  ASSUME Kept, stack # <<>>, NEW res \in Lists(Len(Last(stack).sig.rets)) \cup {<<>>},
         ReturnToWasm(res)
  PROVE  Kept' /\ Reads'
  <1> DEFINE m == Len(stack)
             f == Last(stack)
             caller == stack[m - 1]
             given == [cpp |-> res, vals |-> MapSeq(res, MakeVal)]
             c == [caller EXCEPT !.given = <<given>>]
  <1>1. Reads'
    BY NothingRead DEF ReturnToWasm
  <1>2. /\ pc = Run /\ StackOK(stack) /\ f.at = "closure"
        /\ UNCHANGED <<closures, pc, owned, starved>>
        /\ stack' = Append(SubSeq(stack, 1, m - 2), c)
        /\ MapSeq(res, LAMBDA v : v.type) = f.sig.rets
    BY DEF Kept, ReturnToWasm, InClient
  <1>3. /\ m > 1 /\ Nested(caller, f) /\ f.sig \in Signatures
        /\ stack \in Seq(Frame) /\ m \in Nat
    BY <1>2, TopFacts, FrameTypes DEF StackOK
  <1>4. m - 1 \in 1 .. m /\ m - 2 \in 0 .. m
    BY <1>3
  <1>5. caller \in WasmFrame /\ Sound(caller) /\ caller.sig \in Signatures
    <2>1. caller \in Frame /\ caller.at = "wasm"
      BY <1>3, <1>4 DEF Nested
    <2>2. Sound(caller)
      BY <1>2, <1>4, <2>1 DEF StackOK
    <2>3. QED
      BY <2>1, <2>2, FrameTypes
  <1> HIDE DEF m, f, caller
  <1>6. res \in Seq(Number)
    BY ResultTypes
  <1>7. Agree(res, caller.sig.rets)
    <2> HIDE DEF c, given
    <2>1. f.sig.rets \in Seq(ScalarTypes) /\ Len(res) \in Nat
      <3>1. f.sig.rets \in Seq(ScalarTypes)
        BY <1>3, TraitsFacts
      <3>2. QED
        BY <1>6, <3>1
    <2>2. f.sig.rets = [k \in 1 .. Len(res) |-> res[k].type]
      BY <1>2 DEF MapSeq
    <2>3. Len(f.sig.rets) = Len(res)
      BY <2>1, <2>2
    <2>4. \A k \in 1 .. Len(f.sig.rets) : f.sig.rets[k] = res[k].type
      BY <2>2, <2>3
    <2>5. Agree(res, f.sig.rets)
      BY <2>3, <2>4 DEF Agree
    <2>6. SignatureTraits(f.sig) = SignatureTraits(caller.sig)
      BY <1>3 DEF Nested
    <2>7. QED
      BY <1>3, <1>5, <2>1, <2>5, <2>6, TraitsAgree
  <1>8. given \in Given /\ Converted(res, given.vals) /\ given.cpp = res
    BY <1>6, GivenTypes
  <1> HIDE DEF given
  <1>9. c \in WasmFrame /\ c.at = "wasm" /\ Sound(c)
    <2>1. <<given>> \in Seq(Given) /\ <<given>>[1] = given
      BY <1>8
    <2>2. /\ c \in WasmFrame /\ c.at = "wasm" /\ c.sig = caller.sig /\ c.args = caller.args
          /\ c.vals = caller.vals /\ c.given = <<given>>
      BY <1>5, <2>1 DEF WasmFrame
    <2> HIDE DEF c
    <2>3. Sound(c)
      BY <1>5, <1>7, <1>8, <2>1, <2>2 DEF Sound
    <2>4. QED
      BY <2>2, <2>3
  <1> HIDE DEF c
  <1>10. StackOK(stack')
    <2>1. StackOK(SubSeq(stack, 1, m - 2))
      BY <1>2, <1>4, Cut DEF m
    <2>2. c \in Frame /\ c.at # "closure"
      BY <1>9 DEF Frame
    <2>3. QED
      BY <1>2, <1>9, <2>1, <2>2, Pushed
  <1>11. closures' \subseteq Signatures /\ pc' = Run
    BY <1>2 DEF Kept
  <1>12. QED
    BY <1>1, <1>2, <1>10, <1>11, QuietStep

LEMMA HostReturnStep ==
  ASSUME Kept, stack # <<>>, NEW res \in Lists(Len(Last(stack).sig.rets)) \cup {<<>>},
         ReturnToHost(res)
  PROVE  Kept' /\ Reads'
  <1> DEFINE f == Last(stack)
             given == IF f.given # <<>> THEN f.given[1]
                      ELSE [cpp |-> res, vals |-> MapSeq(res, MakeVal)]
             read == [k \in 1 .. Len(f.sig.rets) |-> ReadVal(f.sig.rets[k], given.vals[k])]
  <1>1. /\ pc = Run /\ StackOK(stack) /\ f.at = "wasm"
        /\ UNCHANGED <<closures, pc, owned, starved>> /\ stack' = Front(stack)
        /\ last' = <<[given |-> given.cpp, read |-> read]>>
    BY DEF Kept, ReturnToHost, InWasm
  <1>2. /\ f \in WasmFrame /\ Sound(f) /\ f.sig \in Signatures /\ f.sig.rets \in Seq(ScalarTypes)
        /\ StackOK(Front(stack))
    BY <1>1, TopFacts, FrameTypes, TraitsFacts
  <1>3. f.given = <<>> =>
          [k \in 1 .. Len(res) |-> WasmValType(res[k].type)] = SignatureTraits(f.sig).results
    BY DEF ReturnToHost, MapSeq
  <1> HIDE DEF f
  <1>4. /\ given.cpp \in Seq(Number) /\ Agree(given.cpp, f.sig.rets)
        /\ Converted(given.cpp, given.vals)
    <2>1. CASE f.given # <<>>
      <3>1. f.given \in Seq(Given)
        BY <1>2 DEF WasmFrame
      <3>2. f.given[1] \in Given
        BY <2>1, <3>1
      <3>3. f.given[1].cpp \in Seq(Number)
        BY <3>2 DEF Given
      <3>4. QED
        BY <1>2, <2>1, <3>3 DEF Sound
    <2>2. CASE f.given = <<>>
      <3>1. res \in Seq(Number) /\ Len(res) \in Nat
        BY ResultTypes
      <3>2. given.cpp = res /\ Converted(res, given.vals)
        BY <2>2, <3>1, GivenTypes
      <3>3. Agree(res, f.sig.rets)
        <4>1. SignatureTraits(f.sig).results
              = [k \in 1 .. Len(f.sig.rets) |-> WasmValType(f.sig.rets[k])]
          BY <1>2, TraitsFacts
        <4>2. [k \in 1 .. Len(res) |-> WasmValType(res[k].type)]
              = [k \in 1 .. Len(f.sig.rets) |-> WasmValType(f.sig.rets[k])]
          BY <1>3, <2>2, <4>1, Zenon
        <4>3. QED
          BY <1>2, <3>1, <4>2, AgreeMeaning
      <3>4. QED
        BY <3>1, <3>2, <3>3
    <2>3. QED
      BY <2>1, <2>2
  <1> HIDE DEF given
  <1>5. AllSame(read, given.cpp)
    BY <1>2, <1>4, ReadBack
  <1> HIDE DEF read
  <1>6. Reads'
    BY <1>1, <1>5 DEF Reads, ToSet
  <1>7. StackOK(stack') /\ closures' \subseteq Signatures /\ pc' = Run
    BY <1>1, <1>2 DEF Kept
  <1>8. QED
    BY <1>1, <1>6, <1>7, QuietStep

(***************************************************************************)
(* The theorems.                                                           *)
(***************************************************************************)
LEMMA KeptStep == Kept /\ Reads /\ [Next]_vars => Kept' /\ Reads'
  <1> SUFFICES ASSUME Kept, Reads, [Next]_vars PROVE Kept' /\ Reads'
    OBVIOUS
  <1>1. CASE \E sig \in Signatures : NewFuncType(sig)
    BY <1>1, FuncTypeStep
  <1>2. CASE \E sig \in Called : \E args \in Lists(Len(sig.args)) : TypedCall(sig, args)
    BY <1>2, CallStep
  <1>3. CASE \E sig \in closures : CallClosure(sig)
    BY <1>3, ClosureCallStep
  <1>4. CASE stack # <<>> /\ \E res \in Lists(Len(Last(stack).sig.rets)) \cup {<<>>} :
               ReturnToWasm(res) \/ ReturnToHost(res)
    BY <1>4, WasmReturnStep, HostReturnStep
  <1>5. CASE NewClosure
    BY <1>5, ClosureStep
  <1>6. CASE DeleteStore
    <2>1. /\ last' = <<>> /\ pc = Run /\ pc' = Run /\ UNCHANGED <<owned, starved>>
          /\ closures' \subseteq Signatures /\ StackOK(stack')
      BY <1>6 DEF DeleteStore, InClient, Kept
    <2>2. QED
      BY <2>1, NothingRead, QuietStep
  <1>7. CASE WasmTraps
    BY <1>7, TrapStep
  <1>8. CASE CopyMessage
    BY <1>8, CopyStep
  <1>9. CASE Fail
    BY <1>9, FailStep
  <1>10. CASE UNCHANGED vars
    <2>1. UNCHANGED <<closures, stack, pc, owned, last, starved>>
      BY <1>10 DEF vars
    <2>2. Holds' = Holds
      BY <2>1 DEF Holds
    <2>3. Refused' <=> Refused
      BY <2>1 DEF Refused, MapSeq
    <2>4. Kept'
      BY <2>1, <2>2, <2>3 DEF Kept
    <2>5. QED
      BY <2>1, <2>4 DEF Reads
  <1>11. QED
    BY <1>1, <1>2, <1>3, <1>4, <1>5, <1>6, <1>7, <1>8, <1>9, <1>10 DEF Next

LEMMA InvHolds == Spec => [](Kept /\ Reads /\ ErrorsStayInCpp)
  <1>1. Init => Kept /\ Reads /\ ErrorsStayInCpp
    <2> SUFFICES ASSUME Init PROVE Kept /\ Reads /\ ErrorsStayInCpp
      OBVIOUS
    <2>1. StackOK(<<>>)
      BY DEF StackOK
    <2>2. Holds = {} /\ pc.at = "client" /\ pc \in Places
      BY RunFacts DEF Holds, Init
    <2>3. Kept
      BY <2>1, <2>2 DEF Kept, Init
    <2>4. Reads
      BY DEF Reads, ToSet, Init
    <2>5. QED
      BY <2>3, <2>4 DEF ErrorsStayInCpp, Init
  <1>2. Kept /\ Reads /\ ErrorsStayInCpp /\ [Next]_vars => (Kept /\ Reads /\ ErrorsStayInCpp)'
    BY KeptStep, ErrorsStep
  <1>3. QED
    BY <1>1, <1>2, PTL DEF Spec

\* The adapter deletes every error, trap, message and function type of a call
\* that it has left, unless an allocation has failed.
THEOREM AlwaysReleased == Spec => []Released
  <1>1. Kept => Released
    BY RunFacts, HoldsFacts DEF Kept, Released
  <1>2. QED
    BY <1>1, InvHolds, PTL

\* The adapter throws through frames of wasmtime only from inside a closure, by a
\* thrown error or a failed allocation.
THEOREM ErrorsAlwaysStay == Spec => []ErrorsStayInCpp
  BY InvHolds, PTL

\* wasmtime refuses only arguments that have other wasm types than the signature.
THEOREM ExactAlwaysAccepted == Spec => []ExactCallsAccepted
  <1>1. Kept => ExactCallsAccepted
    BY DEF Kept, ExactCallsAccepted, Refused
  <1>2. QED
    BY <1>1, InvHolds, PTL

\* A number arrives as the number that was sent, up to its sign, through any
\* nesting of calls and for integers of any width.
THEOREM ValuesAlwaysSurvive == Spec => []ValuesSurvive
  <1>1. ASSUME Kept, Reads PROVE ValuesSurvive
    <2>1. ASSUME NEW n \in 2 .. Len(stack), stack[n].at = "closure"
          PROVE  AllSame(stack[n].args, stack[n - 1].args)
      <3>1. n \in 1 .. Len(stack)
        BY <1>1, <2>1 DEF Kept, StackOK
      <3>2. Nested(stack[n - 1], stack[n])
        BY <1>1, <2>1, <3>1 DEF Kept, StackOK
      <3>3. QED
        BY <3>2 DEF Nested
    <2>2. QED
      BY <1>1, <2>1 DEF ValuesSurvive, Reads
  <1>2. QED
    BY <1>1, InvHolds, PTL

(***************************************************************************)
(* Descriptions of a type: WAMR's string, wasmtime's kinds.                *)
(***************************************************************************)
Letters == {"i", "I", "f", "F"}
Described == {"I32", "I64", "F32", "F64"}

LEMMA Letter ==
  ASSUME NEW T \in Described
  PROVE  SigChar(T) \in Letters /\ TypeOf[SigChar(T)] = T
  BY DEF Described, Letters, SigChar, TypeOf

LEMMA DescribedTypes ==
  ASSUME NEW T \in ScalarTypes, T # "v128"
  PROVE  WasmValType(T) \in Described
  BY DEF ScalarTypes, Described, WasmValType

\* A list between two brackets, and a list behind them.
Chars == Letters \cup {"(", ")"}
Wrapped(s, t) == <<"(">> \o s \o <<")">> \o t

LEMMA CharFacts == "(" \in Chars /\ ")" \in Chars /\ "(" # ")" /\ ")" \notin Letters
  BY DEF Chars, Letters

LEMMA WrappedLength ==
  ASSUME NEW s \in Seq(Chars), NEW t \in Seq(Chars)
  PROVE  Wrapped(s, t) \in Seq(Chars) /\ Len(Wrapped(s, t)) = Len(s) + Len(t) + 2
  <1>1. <<"(">> \in Seq(Chars) /\ <<")">> \in Seq(Chars) /\ Len(<<"(">>) = 1 /\ Len(<<")">>) = 1
    BY CharFacts
  <1>2. QED
    BY <1>1 DEF Wrapped

LEMMA WrappedAt ==
  ASSUME NEW s \in Seq(Chars), NEW t \in Seq(Chars), NEW k \in 1 .. Len(Wrapped(s, t))
  PROVE  Wrapped(s, t)[k] = CASE k = 1 -> "("
                              [] k \in 2 .. Len(s) + 1 -> s[k - 1]
                              [] k = Len(s) + 2 -> ")"
                              [] k > Len(s) + 2 -> t[k - (Len(s) + 2)]
  <1> DEFINE u == <<"(">> \o s
             x == u \o <<")">>
             n == Len(s)
  <1>1. <<"(">> \in Seq(Chars) /\ <<")">> \in Seq(Chars)
    BY CharFacts
  <1>2. /\ u \in Seq(Chars) /\ Len(u) = n + 1 /\ u[1] = "("
        /\ \A m \in 2 .. n + 1 : u[m] = s[m - 1]
    BY <1>1
  <1> HIDE DEF u
  <1>3. /\ x \in Seq(Chars) /\ Len(x) = n + 2 /\ x[n + 2] = ")"
        /\ \A m \in 1 .. n + 1 : x[m] = u[m]
    BY <1>1, <1>2
  <1> HIDE DEF x
  <1>4. Wrapped(s, t) = x \o t /\ Len(Wrapped(s, t)) = n + 2 + Len(t) /\ n \in Nat /\ Len(t) \in Nat
    BY <1>3, WrappedLength DEF Wrapped, x, u
  <1>5. k \in 1 .. n + 2 => Wrapped(s, t)[k] = x[k]
    BY <1>3, <1>4
  <1>6. k > n + 2 => Wrapped(s, t)[k] = t[k - (n + 2)]
    BY <1>3, <1>4
  <1>7. CASE k = 1
    <2>1. 1 \in 1 .. n + 1 /\ 1 \in 1 .. n + 2
      BY <1>4
    <2>2. Wrapped(s, t)[1] = "("
      BY <1>2, <1>3, <1>5, <1>7, <2>1
    <2>3. QED
      BY <1>7, <2>2
  <1>8. CASE k \in 2 .. n + 1
    BY <1>2, <1>3, <1>4, <1>5, <1>8
  <1>9. CASE k = n + 2
    BY <1>3, <1>4, <1>5, <1>9
  <1>10. CASE k > n + 2
    BY <1>4, <1>6, <1>10
  <1>11. QED
    BY <1>4, <1>7, <1>8, <1>9, <1>10

\* A reader of the string finds the one closing bracket and both lists.
LEMMA StringReads ==
  ASSUME NEW ps \in Seq(Described), NEW rs \in Seq(Described)
  PROVE  LET s == [k \in 1 .. Len(ps) |-> SigChar(ps[k])]
             t == [k \in 1 .. Len(rs) |-> SigChar(rs[k])]
         IN  /\ Decoded(Wrapped(s, t)) = [params |-> ps, results |-> rs]
             /\ Len(Wrapped(s, t)) = Len(ps) + Len(rs) + 2
  <1> DEFINE s == [k \in 1 .. Len(ps) |-> SigChar(ps[k])]
             t == [k \in 1 .. Len(rs) |-> SigChar(rs[k])]
             close == Len(ps) + 2
  <1>1. \A T \in Described : SigChar(T) \in Letters /\ SigChar(T) \in Chars
    BY Letter DEF Chars
  <1>2. s \in Seq(Chars) /\ Len(s) = Len(ps) /\ \A k \in 1 .. Len(ps) : s[k] = SigChar(ps[k]) /\ s[k] \in Letters
    BY <1>1
  <1>3. t \in Seq(Chars) /\ Len(t) = Len(rs) /\ \A k \in 1 .. Len(rs) : t[k] = SigChar(rs[k]) /\ t[k] \in Letters
    BY <1>1
  <1> HIDE DEF s, t
  <1>4. PICK w : w = Wrapped(s, t)
    OBVIOUS
  <1>5. Len(w) = Len(ps) + Len(rs) + 2 /\ Len(ps) \in Nat /\ Len(rs) \in Nat
    <2>1. s \in Seq(Chars) /\ t \in Seq(Chars) /\ Len(ps) \in Nat /\ Len(rs) \in Nat
      BY <1>2, <1>3
    <2>2. Len(Wrapped(s, t)) = Len(s) + Len(t) + 2
      BY <2>1, WrappedLength, Zenon
    <2>3. QED
      BY <1>2, <1>3, <1>4, <2>1, <2>2
  <1>6. ASSUME NEW k \in 1 .. Len(w)
        PROVE  w[k] = CASE k = 1 -> "("
                        [] k \in 2 .. Len(ps) + 1 -> s[k - 1]
                        [] k = close -> ")"
                        [] k > close -> t[k - close]
    BY <1>2, <1>3, <1>4, WrappedAt
  <1>7. close \in 1 .. Len(w) /\ w[close] = ")"
    BY <1>5, <1>6
  <1>8. ASSUME NEW k \in 1 .. Len(ps) PROVE w[k + 1] = SigChar(ps[k])
    <2>1. k + 1 \in 1 .. Len(w) /\ k + 1 \in 2 .. Len(ps) + 1 /\ (k + 1) - 1 = k /\ k + 1 # 1
      BY <1>5
    <2>2. w[k + 1] = s[k]
      BY <1>6, <2>1
    <2>3. QED
      BY <1>2, <2>2
  <1>9. ASSUME NEW k \in 1 .. Len(rs) PROVE w[close + k] = SigChar(rs[k])
    <2>1. close + k \in 1 .. Len(w) /\ close + k > close /\ (close + k) - close = k
      BY <1>5
    <2>2. close + k # 1 /\ close + k \notin 2 .. Len(ps) + 1 /\ close + k # close
      BY <1>5
    <2>3. w[close + k] = t[k]
      BY <1>6, <2>1, <2>2
    <2>4. QED
      BY <1>3, <2>3
  <1>10. ASSUME NEW k \in 1 .. Len(w), w[k] = ")" PROVE k = close
    <2>1. CASE k = 1
      BY <1>6, <1>10, <2>1, CharFacts
    <2>2. CASE k \in 2 .. Len(ps) + 1
      <3>1. k - 1 \in 1 .. Len(ps) /\ k # 1
        BY <1>5, <2>2
      <3>2. w[k] = s[k - 1] /\ s[k - 1] \in Letters
        BY <1>2, <1>6, <2>2, <3>1
      <3>3. QED
        BY <1>10, <3>2, CharFacts
    <2>3. CASE k > close
      <3>1. k - close \in 1 .. Len(rs) /\ k # 1 /\ k \notin 2 .. Len(ps) + 1 /\ k # close
        BY <1>5, <2>3
      <3>2. w[k] = t[k - close] /\ t[k - close] \in Letters
        BY <1>3, <1>6, <2>3, <3>1
      <3>3. QED
        BY <1>10, <3>2, CharFacts
    <2>4. QED
      BY <1>5, <2>1, <2>2, <2>3
  <1>11. (CHOOSE k \in 1 .. Len(w) : w[k] = ")") = close
    BY <1>7, <1>10
  <1>12. close - 2 = Len(ps) /\ Len(w) - close = Len(rs)
    BY <1>5
  <1>13. \A k \in 1 .. Len(ps) : TypeOf[w[k + 1]] = ps[k]
    <2>1. \A k \in 1 .. Len(ps) : ps[k] \in Described
      OBVIOUS
    <2>2. QED
      BY <1>8, <2>1, Letter
  <1> HIDE DEF close
  <1>14. \A k \in 1 .. Len(rs) : TypeOf[w[close + k]] = rs[k]
    <2>1. \A k \in 1 .. Len(rs) : rs[k] \in Described
      OBVIOUS
    <2>2. QED
      BY <1>9, <2>1, Letter
  <1>15. [k \in 1 .. close - 2 |-> TypeOf[w[k + 1]]] = ps
    <2>1. [k \in 1 .. Len(ps) |-> TypeOf[w[k + 1]]] = [k \in 1 .. Len(ps) |-> ps[k]]
      BY <1>13
    <2>2. ps = [k \in 1 .. Len(ps) |-> ps[k]]
      OBVIOUS
    <2>3. QED
      BY <1>12, <2>1, <2>2, Zenon
  <1>16. [k \in 1 .. Len(w) - close |-> TypeOf[w[close + k]]] = rs
    <2>1. [k \in 1 .. Len(rs) |-> TypeOf[w[close + k]]] = [k \in 1 .. Len(rs) |-> rs[k]]
      BY <1>14
    <2>2. rs = [k \in 1 .. Len(rs) |-> rs[k]]
      OBVIOUS
    <2>3. QED
      BY <1>12, <2>1, <2>2, Zenon
  <1>17. Decoded(w) = [params |-> ps, results |-> rs]
    <2>1. PICK c : c = CHOOSE k \in 1 .. Len(w) : w[k] = ")"
      OBVIOUS
    <2>2. Decoded(w) = [params |-> [k \in 1 .. c - 2 |-> TypeOf[w[k + 1]]],
                        results |-> [k \in 1 .. Len(w) - c |-> TypeOf[w[c + k]]]]
      BY <2>1 DEF Decoded
    <2>3. c = close
      BY <1>11, <2>1, Zenon
    <2>4. QED
      BY <1>15, <1>16, <2>2, <2>3, Zenon
  <1>18. QED
    BY <1>4, <1>5, <1>17 DEF s, t

\* The descriptions of a signature agree, whatever its types.
LEMMA OneType ==
  ASSUME NEW sig \in Signatures, "v128" \notin ToSet(sig.args) \cup ToSet(sig.rets)
  PROVE  LET type == Decoded(SigString(sig))
         IN  /\ type = SignatureTraits(sig) /\ Len(SigString(sig)) = SigStringLen(sig)
             /\ MapSeq(type.params, ValKindOf) = Kinds(sig.args)
             /\ MapSeq(type.results, ValKindOf) = Kinds(sig.rets)
  <1> DEFINE ps == SignatureTraits(sig).params
             rs == SignatureTraits(sig).results
  <1>1. /\ sig.args \in Seq(ScalarTypes) /\ sig.rets \in Seq(ScalarTypes)
        /\ ps = [k \in 1 .. Len(sig.args) |-> WasmValType(sig.args[k])]
        /\ rs = [k \in 1 .. Len(sig.rets) |-> WasmValType(sig.rets[k])]
    BY TraitsFacts
  <1>2. \A k \in 1 .. Len(sig.args) : sig.args[k] \in ScalarTypes /\ sig.args[k] # "v128"
    BY <1>1 DEF ToSet
  <1>3. \A k \in 1 .. Len(sig.rets) : sig.rets[k] \in ScalarTypes /\ sig.rets[k] # "v128"
    BY <1>1 DEF ToSet
  <1>4. ps \in Seq(Described) /\ Len(ps) = Len(sig.args)
    <2>1. \A k \in 1 .. Len(sig.args) : WasmValType(sig.args[k]) \in Described
      BY <1>2, DescribedTypes
    <2>2. QED
      BY <1>1, <2>1
  <1>5. rs \in Seq(Described) /\ Len(rs) = Len(sig.rets)
    <2>1. \A k \in 1 .. Len(sig.rets) : WasmValType(sig.rets[k]) \in Described
      BY <1>3, DescribedTypes
    <2>2. QED
      BY <1>1, <2>1
  <1>6. SigString(sig) = <<"(">> \o [k \in 1 .. Len(ps) |-> SigChar(ps[k])]
                         \o <<")">> \o [k \in 1 .. Len(rs) |-> SigChar(rs[k])]
    BY Zenon DEF SigString, MapSeq
  <1>7. SignatureTraits(sig) = [params |-> ps, results |-> rs]
    BY DEF SignatureTraits
  <1>8. MapSeq(ps, ValKindOf) = Kinds(sig.args) /\ MapSeq(rs, ValKindOf) = Kinds(sig.rets)
    BY <1>1, <1>4, <1>5 DEF MapSeq, Kinds
  <1> HIDE DEF ps, rs
  <1>9. /\ Decoded(SigString(sig)) = [params |-> ps, results |-> rs]
        /\ Len(SigString(sig)) = Len(ps) + Len(rs) + 2
    <2>1. SigString(sig) = Wrapped([k \in 1 .. Len(ps) |-> SigChar(ps[k])],
                                   [k \in 1 .. Len(rs) |-> SigChar(rs[k])])
      BY <1>6, Zenon DEF Wrapped
    <2>2. QED
      BY <1>4, <1>5, <2>1, StringReads, Zenon
  <1>10. Len(SigString(sig)) = SigStringLen(sig)
    BY <1>4, <1>5, <1>9 DEF SigStringLen
  <1>11. QED
    BY <1>7, <1>8, <1>9, <1>10

\* WAMR's string and wasmtime's kinds describe the type that the module is built
\* with, for every registered closure and signatures of any length.
THEOREM DescriptionsAlwaysAgree == Spec => []DescriptionsAgree
  <1>1. Kept => DescriptionsAgree
    BY OneType DEF Kept, DescriptionsAgree
  <1>2. QED
    BY <1>1, InvHolds, PTL
=============================================================================
