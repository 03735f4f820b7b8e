------------------------------ MODULE Interop -------------------------------
(***************************************************************************)
(* The wasmtime adapter (interop/wasmtime.hpp) at work: C++ calls exports  *)
(* with TypedCall, wasm calls C++ closures through HostTramp, and either   *)
(* may happen inside the other.  The runtime and the module are external:  *)
(* a wasm function checks the kinds of its arguments, may hand them to the *)
(* imported closure of its own type, and returns the closure's result or   *)
(* any other.  wasmtime's frames are foreign to C++ exceptions.            *)
(***************************************************************************)
EXTENDS HostTraits, FiniteSets

CONSTANTS Signatures,  \* the C++ function types of the client
          Called,      \* those it calls exports with
          Values,      \* the C++ values it passes and returns
          KindRoom,    \* 16, the room for value types in FillValtypeVec
          MaxDepth,    \* bound: frames
          MaxClosures  \* bound: closures in the store

ASSUME InteropAssumption ==
  /\ Signatures \subseteq [args : Seq(ScalarTypes), rets : Seq(ScalarTypes)]
  /\ Called \subseteq Signatures
  /\ Values \subseteq [type : ScalarTypes, n : Int]
  /\ {KindRoom, MaxDepth, MaxClosures} \subseteq Nat

VARIABLES
  policy,     \* of errors: "abort" or "throw"; does not change
  careful,    \* the closures let no exception of the adapter out; does not change
  closures,   \* signatures of the closures that the store owns
  stack,      \* frames of wasm code and of closures, outermost first
  pc,         \* where the adapter is
  owned,      \* the C objects it has to delete
  last,       \* history: the results that were returned and read in this step
  starved,    \* history: an allocation has failed
  status      \* "running", "aborted", "overrun" (of a buffer), "undefined"

vars == <<policy, careful, closures, stack, pc, owned, last, starved, status>>
modes == <<policy, careful>>

In(place) == [at |-> place]
Run == In("client")

Init ==
  /\ policy \in {"abort", "throw"} /\ careful \in BOOLEAN
  /\ closures = {} /\ stack = <<>> /\ pc = Run /\ owned = {}
  /\ last = <<>> /\ starved = FALSE /\ status = "running"

InClient == /\ status = "running" /\ pc = Run
            /\ stack # <<>> => Last(stack).at = "closure"
InWasm == status = "running" /\ pc = Run /\ stack # <<>> /\ Last(stack).at = "wasm"

\* An exception passes up to the client, unless a careful closure is on the way.
\* HostTramp::Call does not catch: behind a closure come frames of wasmtime.
Throw(below) ==
  /\ stack' = below /\ pc' = Run
  /\ status' = IF below = <<>> \/ careful THEN status ELSE "undefined"

\* std::bad_alloc jumps over the code that deletes what the adapter has.
OutOfMemory == Throw(stack) /\ starved' = TRUE

\* A faulty variant: errors are thrown under either policy.
ReportThrows(below) == Throw(below)

ReportError(below) ==
  IF policy = "throw" THEN Throw(below)
  ELSE stack' = below /\ pc' = Run /\ status' = "aborted"

(***************************************************************************)
(* MakeHostFunc.                                                           *)
(***************************************************************************)
\* FillValtypeVec, twice, and wasm_functype_new, which takes both vectors.
NewFuncType(sig) ==
  /\ InClient /\ stack = <<>> /\ Len(sig.rets) <= 1 /\ Cardinality(closures) < MaxClosures
  /\ IF Len(sig.args) > KindRoom
     THEN status' = "overrun" /\ UNCHANGED <<pc, owned>>
     ELSE /\ pc' = [at |-> "functype", sig |-> sig] /\ owned' = {"functype"} \cup owned
          /\ UNCHANGED status
  /\ last' = <<>> /\ UNCHANGED <<modes, closures, stack, starved>>

\* The closure is copied to the heap and given to the store; the type is deleted.
NewClosure ==
  /\ status = "running" /\ pc.at = "functype"
  /\ \/ /\ closures' = closures \cup {pc.sig} /\ owned' = owned \ {"functype"}
        /\ pc' = Run /\ UNCHANGED <<stack, starved, status>>
     \/ OutOfMemory /\ UNCHANGED <<closures, owned>>
  /\ last' = <<>> /\ UNCHANGED modes

\* The client deletes the store, which runs every Finalize.
DeleteStore ==
  /\ InClient /\ stack = <<>> /\ closures # {} /\ closures' = {}
  /\ last' = <<>> /\ UNCHANGED <<modes, stack, pc, owned, starved, status>>

(***************************************************************************)
(* Calls.  A wasm frame: the signature the C++ caller used, its arguments, *)
(* and the closure's result once there is one.                             *)
(***************************************************************************)
\* The compiler compares the number of arguments with the signature; wasmtime
\* compares their kinds with the type of the function.
TypedCall(sig, args) ==
  LET vals == [k \in 1 .. Len(args) |-> MakeVal(args[k])]
  IN  /\ InClient /\ Len(args) = Len(sig.args) /\ Len(stack) < MaxDepth
      /\ IF [k \in 1 .. Len(vals) |-> vals[k].kind] = Kinds(sig.args)
         THEN /\ stack' = Append(stack, [at |-> "wasm", sig |-> sig, args |-> args,
                                         vals |-> vals, given |-> <<>>])
              /\ UNCHANGED <<pc, owned>>
         ELSE /\ pc' = [at |-> "failed", with |-> "error", sig |-> sig, args |-> args]
              /\ owned' = owned \cup {"error"} /\ UNCHANGED stack
      /\ last' = <<>> /\ UNCHANGED <<modes, closures, starved, status>>

\* Wasm code passes its arguments to the import of its own type; HostTramp::Call
\* reads them as the closure's types.
CallClosure(sig) ==
  LET f == Last(stack)
  IN  /\ InWasm /\ f.given = <<>> /\ Len(stack) < MaxDepth
      /\ SignatureTraits(sig) = SignatureTraits(f.sig)
      /\ stack' = Append(stack, [at |-> "closure", sig |-> sig,
                                 args |-> [k \in 1 .. Len(sig.args) |->
                                             ReadVal(sig.args[k], f.vals[k])]])
      /\ last' = <<>> /\ UNCHANGED <<modes, closures, pc, owned, starved, status>>

\* The closure returns res: none or one value of its type.
ReturnToWasm(res) ==
  LET caller == stack[Len(stack) - 1]
  IN  /\ InClient /\ stack # <<>> /\ MapSeq(res, LAMBDA v : v.type) = Last(stack).sig.rets
      /\ stack' = Append(SubSeq(stack, 1, Len(stack) - 2),
                         [caller EXCEPT !.given = <<[cpp |-> res, vals |-> MapSeq(res, MakeVal)]>>])
      /\ last' = <<>> /\ UNCHANGED <<modes, closures, pc, owned, starved, status>>

\* Wasm code returns what the closure gave it, or any results of its type, and
\* TypedCall reads them as the types of its signature.
ReturnToHost(res) ==
  LET f == Last(stack)
      given == IF f.given # <<>> THEN f.given[1]
               ELSE [cpp |-> res, vals |-> MapSeq(res, MakeVal)]
  IN  /\ InWasm
      /\ IF f.given # <<>> THEN res = <<>>
         ELSE MapSeq(res, LAMBDA v : WasmValType(v.type)) = SignatureTraits(f.sig).results
      /\ last' = <<[given |-> given.cpp,
                    read |-> [k \in 1 .. Len(f.sig.rets) |->
                                ReadVal(f.sig.rets[k], given.vals[k])]]>>
      /\ stack' = Front(stack)
      /\ UNCHANGED <<modes, closures, pc, owned, starved, status>>

WasmTraps ==
  /\ InWasm
  /\ stack' = Front(stack) /\ owned' = owned \cup {"trap"}
  /\ pc' = [at |-> "failed", with |-> "trap", sig |-> Last(stack).sig,
            args |-> Last(stack).args]
  /\ last' = <<>> /\ UNCHANGED <<modes, closures, starved, status>>

(***************************************************************************)
(* FailError and FailTrap: get the message, copy it, delete both objects,  *)
(* report the copy.                                                        *)
(***************************************************************************)
CopyMessage ==
  /\ status = "running" /\ pc.at = "failed"
  /\ owned' = owned \cup {"message"}
  /\ \/ pc' = [pc EXCEPT !.at = "copied"] /\ UNCHANGED <<stack, starved, status>>
     \/ OutOfMemory
  /\ last' = <<>> /\ UNCHANGED <<modes, closures>>

\* A faulty variant: the error is left to the client.
DeleteMessageOnly(objects) == objects \ {"message"}

Deleted(objects) == objects \ {"message", pc.with}

Fail ==
  /\ status = "running" /\ pc.at = "copied"
  /\ owned' = Deleted(owned) /\ ReportError(stack)
  /\ last' = <<>> /\ UNCHANGED <<modes, closures, starved>>

Lists(n) == [1 .. n -> Values]

Next ==
  \/ \E sig \in Signatures : NewFuncType(sig)
  \/ \E sig \in Called : \E args \in Lists(Len(sig.args)) : TypedCall(sig, args)
  \/ \E sig \in closures : CallClosure(sig)
  \/ stack # <<>> /\ \E res \in Lists(Len(Last(stack).sig.rets)) \cup {<<>>} :
       ReturnToWasm(res) \/ ReturnToHost(res)
  \/ NewClosure \/ DeleteStore \/ WasmTraps \/ CopyMessage \/ Fail

Spec == Init /\ [][Next]_vars
-----------------------------------------------------------------------------
(***************************************************************************)
(* Properties.                                                             *)
(***************************************************************************)
\* Both values are the same number of the same wasm type, up to the sign.
Numbers(T) == CASE T \in {"u32", "u64"} -> 0 .. 2 * HalfOf(T) - 1
                [] T \in {"i32", "i64"} -> -HalfOf(T) .. HalfOf(T) - 1
Same(a, b) ==
  /\ WasmValType(a.type) = WasmValType(b.type)
  /\ IF WasmValType(a.type) \in {"I32", "I64"}
     THEN a.n \in Numbers(a.type) /\ (a.n - b.n) % (2 * HalfOf(a.type)) = 0
     ELSE a.n = b.n
AllSame(s, t) == Len(s) = Len(t) /\ \A k \in 1 .. Len(s) : Same(s[k], t[k])

\* Values pass the border four times unharmed: a closure gets the numbers that
\* the C++ code below the wasm frame passed, and the C++ caller gets the numbers
\* the closure or the wasm code returned, with any mix of signed and unsigned
\* types on the two sides and any nesting.
ValuesSurvive ==
  /\ \A n \in 2 .. Len(stack) :
       stack[n].at = "closure" => AllSame(stack[n].args, stack[n - 1].args)
  /\ \A l \in ToSet(last) : AllSame(l.read, l.given)

\* wasmtime refuses a call only when the arguments have other wasm types than
\* the signature: the table in MakeVal agrees with the traits the function type
\* was derived from.
ExactCallsAccepted ==
  pc.at = "failed" /\ pc.with = "error" =>
    MapSeq(pc.args, LAMBDA a : WasmValType(a.type)) # SignatureTraits(pc.sig).params

\* Whenever the adapter has left a call, by a return, a report or an exception,
\* it has deleted every error, trap, message and function type it was given,
\* but for what the exception of a failed allocation left behind.
Released == pc = Run /\ owned # {} => starved

\* Exceptions meet no frame of wasmtime when errors abort and the memory lasts,
\* or when closures let none out: a nested call that fails inside a closure is
\* the one way the adapter itself throws.
ErrorsStayInCpp ==
  status = "undefined" => ~careful /\ (policy = "throw" \/ starved)

\* The string for WAMR and the kinds for wasmtime describe the same type, the
\* one the module is built with, for each closure the client has registered.
TypeOf == [i |-> "I32", I |-> "I64", f |-> "F32", F |-> "F64"]
Decoded(string) ==
  LET close == CHOOSE k \in 1 .. Len(string) : string[k] = ")"
  IN  [params |-> [k \in 1 .. close - 2 |-> TypeOf[string[k + 1]]],
       results |-> [k \in 1 .. Len(string) - close |-> TypeOf[string[close + k]]]]
DescriptionsAgree ==
  \A sig \in closures :
    "v128" \notin ToSet(sig.args) \cup ToSet(sig.rets) =>
      LET type == Decoded(SigString(sig))
      IN  /\ type = SignatureTraits(sig) /\ Len(SigString(sig)) = SigStringLen(sig)
          /\ MapSeq(type.params, ValKindOf) = Kinds(sig.args)
          /\ MapSeq(type.results, ValKindOf) = Kinds(sig.rets)
=============================================================================
