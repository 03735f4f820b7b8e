------------------------------ MODULE Interning ------------------------------
(***************************************************************************)
(* What Module::FuncType promises (the comment at module.hpp:113-115): a   *)
(* signature has one index, and indices are assigned in first-intern       *)
(* order, so the output of a module is deterministic.  There is no hash    *)
(* table here.                                                             *)
(***************************************************************************)
EXTENDS Naturals, Sequences

CONSTANT Sigs

VARIABLES types,  \* the distinct signatures, in the order of their first call
          given   \* the answers so far: pairs of a signature and its index

vars == <<types, given>>

Answer == [sig : Sigs, idx : Nat]

Init == types = <<>> /\ given = {}

\* The signature is known: the call returns its index again.
Lookup(s) ==
  /\ \E n \in 1 .. Len(types) : /\ types[n] = s
                                /\ given' = given \cup {[sig |-> s, idx |-> n - 1]}
  /\ UNCHANGED types

\* It is new: it gets the next index.
Add(s) ==
  /\ \A n \in 1 .. Len(types) : types[n] # s
  /\ types' = Append(types, s)
  /\ given' = given \cup {[sig |-> s, idx |-> Len(types)]}

Next == \E s \in Sigs : Lookup(s) \/ Add(s)

Spec == Init /\ [][Next]_vars
=============================================================================
