---------------------------- MODULE TypeInterner -----------------------------
(***************************************************************************)
(* Module::FuncType and EnsureSlots: the flat open-addressing table that   *)
(* interns function types (module.hpp).  One action per iteration of each  *)
(* loop, so that the invariants are those of the loops.  A signature is a  *)
(* value; its FNV-1a hash is any number.                                   *)
(*                                                                         *)
(* The number of slots is a power of two, and `x & mask' is x modulo it.   *)
(***************************************************************************)
EXTENDS Integers, Sequences

CONSTANTS Sigs,          \* the signatures clients ask for
          Hash,          \* HashSig
          InitialSlots   \* 16 in EnsureSlots

ASSUME InternerAssumption ==
  /\ Hash \in [Sigs -> Nat]
  /\ InitialSlots \in Nat \ {0}

VARIABLES types,  \* types_
          slots,  \* type_slots_
          next,   \* the table that a rehash fills
          pc,     \* where the running call is
          sig,    \* its argument
          i, k,   \* its loop counters
          given   \* history: the answers so far

vars == <<types, slots, next, pc, sig, i, k, given>>
call == <<sig, i, k, next>>

Free == -1
Blank(n) == [size |-> n, at |-> [j \in 0 .. n - 1 |-> Free]]
IsTable(tab) == /\ tab = [size |-> tab.size, at |-> tab.at]
                /\ tab.size \in Nat /\ tab.at \in [0 .. tab.size - 1 -> Int]

Home(s, n) == Hash[s] % n
\* A faulty variant: probes pass over every other slot.
AfterNext(j, n) == (j + 2) % n

After(j, n) == IF j + 1 = n THEN 0 ELSE j + 1

\* Slot j holds the type at index t.
Put(tab, j, t) == [tab EXCEPT !.at = [@ EXCEPT ![j] = t]]

Init ==
  /\ types = <<>> /\ slots = Blank(0) /\ next = Blank(0)
  /\ pc = "idle" /\ sig \in Sigs /\ i = 0 /\ k = 0 /\ given = {}

(***************************************************************************)
(* EnsureSlots.  The load stays below 0.75 counting the type to come.      *)
(***************************************************************************)
\* A faulty variant: the table may fill up.
FitsFull(count, size) == count <= size

FitsLoad(count, size) == (count + 1) * 4 <= size * 3

StartProbe(s, n) == pc' = "probe" /\ i' = Home(s, n) /\ UNCHANGED <<k, next>>

FuncType(s) ==
  /\ pc = "idle" /\ sig' = s
  /\ \/ /\ slots.size = 0
        /\ slots' = Blank(InitialSlots) /\ StartProbe(s, InitialSlots)
     \/ /\ slots.size > 0 /\ FitsLoad(Len(types), slots.size)
        /\ StartProbe(s, slots.size) /\ UNCHANGED slots
     \/ /\ slots.size > 0 /\ ~FitsLoad(Len(types), slots.size)
        /\ pc' = "rehash" /\ next' = Blank(2 * slots.size) /\ k' = 0
        /\ UNCHANGED <<i, slots>>
  /\ UNCHANGED <<types, given>>

\* A faulty variant: the last type is not carried over.
RehashAllButLast ==
  /\ pc = "rehash"
  /\ \/ /\ k < Len(types) - 1
        /\ pc' = "place" /\ i' = Home(types[k + 1], next.size)
        /\ UNCHANGED <<slots, next, k>>
     \/ /\ k >= Len(types) - 1
        /\ slots' = next /\ StartProbe(sig, next.size)
  /\ UNCHANGED <<types, sig, given>>

\* The head of the rehash loop.
Rehash ==
  /\ pc = "rehash"
  /\ \/ /\ k < Len(types)
        /\ pc' = "place" /\ i' = Home(types[k + 1], next.size)
        /\ UNCHANGED <<slots, next, k>>
     \/ /\ k = Len(types)
        /\ slots' = next /\ StartProbe(sig, next.size)
  /\ UNCHANGED <<types, sig, given>>

\* Its inner loop: look for a free slot for type k.
Place ==
  /\ pc = "place"
  /\ \/ /\ next.at[i] # Free
        /\ i' = After(i, next.size) /\ UNCHANGED <<next, k, pc>>
     \/ /\ next.at[i] = Free
        /\ next' = Put(next, i, k) /\ k' = k + 1 /\ pc' = "rehash"
        /\ UNCHANGED i
  /\ UNCHANGED <<types, slots, sig, given>>

(***************************************************************************)
(* The probe loop of FuncType.                                             *)
(***************************************************************************)
\* A faulty variant: every call returns the number of types.
ReturnCount(idx) ==
  /\ pc' = "idle" /\ given' = given \cup {[sig |-> sig, idx |-> Len(types)]}
  /\ UNCHANGED call

Return(idx) ==
  /\ pc' = "idle" /\ given' = given \cup {[sig |-> sig, idx |-> idx]}
  /\ UNCHANGED call

Probe ==
  LET slot == slots.at[i]
  IN  /\ pc = "probe"
      /\ \/ /\ slot = Free
            /\ types' = Append(types, sig) /\ slots' = Put(slots, i, Len(types))
            /\ Return(Len(types))
         \/ /\ slot # Free /\ types[slot + 1] = sig
            /\ Return(slot) /\ UNCHANGED <<types, slots>>
         \/ /\ slot # Free /\ types[slot + 1] # sig
            /\ i' = After(i, slots.size)
            /\ UNCHANGED <<types, slots, next, pc, sig, k, given>>

Step == Rehash \/ Place \/ Probe
Next == (\E s \in Sigs : FuncType(s)) \/ Step

Spec == Init /\ [][Next]_vars

\* A call runs on one thread and does not block: it keeps taking steps.
FairSpec == Spec /\ WF_vars(Step)
-----------------------------------------------------------------------------
\* The table behaves as the plain list of Interning: the same answers, and
\* indices in the order of the first calls, through every collision and rehash.
Abstract == INSTANCE Interning WITH Sigs <- Sigs, types <- types, given <- given
Interns == Abstract!Spec

\* Two calls get the same index exactly when they asked for the same signature,
\* and the index still denotes it now, however often the table was rebuilt
\* between the calls.
Canonical ==
  \A a \in given :
    /\ a.idx < Len(types) /\ types[a.idx + 1] = a.sig
    /\ \A b \in given : a.sig = b.sig <=> a.idx = b.idx

\* The probe loops have no bound of their own: they end because the load rule
\* always leaves a free slot to stop at.
CallsReturn == pc # "idle" ~> pc = "idle"

(***************************************************************************)
(* The invariant behind them.  Walk(h, j, n) holds the slots that a probe  *)
(* from h has passed when it stands at j.                                  *)
(***************************************************************************)
Walk(h, j, n) == {x \in 0 .. n - 1 : IF h <= j THEN h <= x /\ x < j ELSE h <= x \/ x < j}

\* A probe for the type at index t of ts stops at it, and slots hold no other index.
Finds(tab, ts, t) ==
  LET h == Home(ts[t + 1], tab.size)
  IN  \E j \in 0 .. tab.size - 1 :
        tab.at[j] = t /\ \A x \in Walk(h, j, tab.size) : tab.at[x] # Free

Holds(tab, ts, count) ==
  /\ \A j \in 0 .. tab.size - 1 : tab.at[j] \in {Free} \cup 0 .. count - 1
  /\ \A t \in 0 .. count - 1 : Finds(tab, ts, t)

\* A probe from h that stands at j has passed no free slot.
Passed(tab, h, j) ==
  j < tab.size /\ \A x \in Walk(h, j, tab.size) : tab.at[x] # Free

TypeOK ==
  /\ types \in Seq(Sigs) /\ IsTable(slots) /\ IsTable(next)
  /\ pc \in {"idle", "rehash", "place", "probe"}
  /\ sig \in Sigs /\ i \in Nat /\ k \in Nat
  /\ given \subseteq [sig : Sigs, idx : Nat]

NoDuplicates == \A m, n \in 1 .. Len(types) : types[m] = types[n] => m = n
AnswersHold == \A a \in given : a.idx < Len(types) /\ types[a.idx + 1] = a.sig
Rehashing == pc \in {"rehash", "place"} =>
               next.size > 0 /\ k <= Len(types) /\ Holds(next, types, k)
Placing == pc = "place" =>
             k < Len(types) /\ Passed(next, Home(types[k + 1], next.size), i)
Probing == pc = "probe" =>
             /\ Passed(slots, Home(sig, slots.size), i)
             /\ \A x \in Walk(Home(sig, slots.size), i, slots.size) :
                  types[slots.at[x] + 1] # sig

\* Every known type can be found, no probe has overlooked one, and so none is
\* added twice.
LoopInv ==
  /\ TypeOK /\ Holds(slots, types, Len(types)) /\ NoDuplicates /\ AnswersHold
  /\ Rehashing /\ Placing /\ Probing

\* An index stands in one slot only.
Once(tab) ==
  \A x, y \in 0 .. tab.size - 1 : tab.at[x] = tab.at[y] => x = y \/ tab.at[x] = Free

\* The table that is walked has more slots than there are types.
Spare == /\ Once(slots) /\ Len(types) <= slots.size
         /\ pc = "probe" => Len(types) < slots.size
         /\ pc \in {"rehash", "place"} => Once(next) /\ Len(types) < next.size

\* The table is right and no probe goes round in it.
InternerInv == LoopInv /\ Spare

(***************************************************************************)
(* How long a call still takes: each type that is not carried over costs a *)
(* walk of the new table at most, and the probe one of the table it reads. *)
(***************************************************************************)
\* The slots not yet passed by a probe for s in tab that stands at j.
Unseen(tab, s, j) ==
  LET h == Home(s, tab.size)
  IN  tab.size - (IF h <= j THEN j - h ELSE j + tab.size - h)

StepsLeft ==
  CASE pc = "idle" -> 0
    [] pc = "probe" -> Unseen(slots, sig, i)
    [] pc = "place" -> (Len(types) - k) * (next.size + 1) + Unseen(next, types[k + 1], i)
    [] pc = "rehash" -> (Len(types) + 1 - k) * (next.size + 1)

\* Every step of a call brings it nearer to its end, through both loops of a
\* rehash and the probe that follows: none goes round for ever in a full table,
\* and none takes more steps than it started with.
CallsProgress == [][pc # "idle" => StepsLeft' \in 0 .. StepsLeft - 1]_vars
=============================================================================
