------------------------- MODULE TypeInternerProofs --------------------------
(***************************************************************************)
(* FuncType's hash table is correct for every set of signatures, every     *)
(* hash function and every initial size: InternerInv is inductive, and     *)
(* every step of the table is a step of Interning or a stutter.            *)
(***************************************************************************)
EXTENDS TypeInterner, FiniteSetTheorems, TLAPS

(***************************************************************************)
(* Slots and walks.                                                        *)
(***************************************************************************)
\* A signature's home is a slot.
LEMMA HomeInRange ==
  ASSUME NEW s \in Sigs, NEW n \in Nat \ {0}
  PROVE  Home(s, n) \in 0 .. n - 1
<1>1. Hash[s] \in Nat BY InternerAssumption
<1>2. QED BY <1>1 DEF Home

\* The next slot of a probe is a slot.
LEMMA AfterInRange ==
  ASSUME NEW n \in Nat \ {0}, NEW j \in 0 .. n - 1
  PROVE  After(j, n) \in 0 .. n - 1
BY DEF After

\* A probe that has not moved has passed nothing.
LEMMA WalkStart ==
  ASSUME NEW n \in Nat \ {0}, NEW h \in 0 .. n - 1
  PROVE  Walk(h, h, n) = {}
BY DEF Walk

\* Moving on adds only the slot left behind, also where the probe wraps.
LEMMA WalkStep ==
  ASSUME NEW n \in Nat \ {0}, NEW h \in 0 .. n - 1, NEW j \in 0 .. n - 1,
         NEW x \in Walk(h, After(j, n), n)
  PROVE  x \in Walk(h, j, n) \/ x = j
BY DEF Walk, After

\* Of two slots on the walk from h, one is passed before the other.
LEMMA WalkOrder ==
  ASSUME NEW n \in Nat \ {0}, NEW h \in 0 .. n - 1,
         NEW p \in 0 .. n - 1, NEW q \in 0 .. n - 1
  PROVE  p \in Walk(h, q, n) \/ p = q \/ q \in Walk(h, p, n)
BY DEF Walk

LEMMA WalkSlots ==
  ASSUME NEW n \in Nat, NEW h, NEW j, NEW x \in Walk(h, j, n)
  PROVE  x \in 0 .. n - 1
BY DEF Walk

\* A blank table of any size is a table and holds nothing.
LEMMA BlankHolds ==
  ASSUME NEW n \in Nat, NEW ts
  PROVE  IsTable(Blank(n)) /\ Blank(n).size = n /\ Holds(Blank(n), ts, 0)
BY DEF Blank, IsTable, Holds, Free

\* Filling a free slot changes only that slot.
LEMMA PutSlot ==
  ASSUME NEW tab, IsTable(tab), NEW j \in 0 .. tab.size - 1, NEW t \in Nat
  PROVE  /\ IsTable(Put(tab, j, t)) /\ Put(tab, j, t).size = tab.size
         /\ \A x \in 0 .. tab.size - 1 :
              Put(tab, j, t).at[x] = IF x = j THEN t ELSE tab.at[x]
<1> DEFINE at2 == [tab.at EXCEPT ![j] = t]
<1>1. /\ tab = [size |-> tab.size, at |-> tab.at]
      /\ tab.size \in Nat /\ tab.at \in [0 .. tab.size - 1 -> Int]
  BY DEF IsTable
<1>2. Put(tab, j, t) = [size |-> tab.size, at |-> at2]
  <2> DEFINE n == tab.size
             a == tab.at
  <2>1. tab = [size |-> n, at |-> a] BY <1>1
  <2> HIDE DEF n, a
  <2>2. [[size |-> n, at |-> a] EXCEPT !.at = [@ EXCEPT ![j] = t]]
          = [size |-> n, at |-> [a EXCEPT ![j] = t]]
    OBVIOUS
  <2>3. QED BY <2>1, <2>2 DEF Put, n, a
<1>3. at2 \in [0 .. tab.size - 1 -> Int] BY <1>1
<1>4. \A x \in 0 .. tab.size - 1 : at2[x] = IF x = j THEN t ELSE tab.at[x]
  BY <1>1
<1> HIDE DEF at2
<1>5. Put(tab, j, t).size = tab.size /\ Put(tab, j, t).at = at2 BY <1>2
<1>6. QED BY <1>1, <1>2, <1>3, <1>4, <1>5 DEF IsTable

\* The types of ts are still found when ts2 extends ts.
LEMMA HoldsExtends ==
  ASSUME NEW tab, NEW count \in Nat, NEW ts, NEW ts2, Holds(tab, ts, count),
         \A n \in 1 .. count : ts2[n] = ts[n]
  PROVE  Holds(tab, ts2, count)
<1>1. ASSUME NEW t \in 0 .. count - 1 PROVE Finds(tab, ts2, t)
  <2>1. Finds(tab, ts, t) BY DEF Holds
  <2>2. ts2[t + 1] = ts[t + 1] OBVIOUS
  <2>3. QED BY <2>1, <2>2 DEF Finds
<1>2. QED BY <1>1 DEF Holds

\* The type after the last, put in the free slot where the walk from its home
\* ends, is found, and the others still are.
LEMMA PutHolds ==
  ASSUME NEW tab, IsTable(tab), NEW ts, NEW count \in Nat, Holds(tab, ts, count),
         ts[count + 1] \in Sigs, NEW j \in 0 .. tab.size - 1, tab.at[j] = Free,
         Passed(tab, Home(ts[count + 1], tab.size), j)
  PROVE  Holds(Put(tab, j, count), ts, count + 1)
<1> DEFINE new == Put(tab, j, count)
<1>1. /\ IsTable(new) /\ new.size = tab.size
      /\ \A x \in 0 .. tab.size - 1 : new.at[x] = IF x = j THEN count ELSE tab.at[x]
  <2> HIDE DEF new
  <2>1. \A t \in Nat :
          /\ IsTable(Put(tab, j, t)) /\ Put(tab, j, t).size = tab.size
          /\ \A x \in 0 .. tab.size - 1 :
               Put(tab, j, t).at[x] = IF x = j THEN t ELSE tab.at[x]
    BY PutSlot
  <2>2. QED BY <2>1 DEF new
<1>2. tab.size \in Nat BY DEF IsTable
<1>3. \A x \in 0 .. new.size - 1 : new.at[x] \in {Free} \cup 0 .. count
  BY <1>1 DEF Holds
<1>4. ASSUME NEW t \in 0 .. count - 1 PROVE Finds(new, ts, t)
  <2> DEFINE h == Home(ts[t + 1], tab.size)
  <2>1. PICK p \in 0 .. tab.size - 1 :
          tab.at[p] = t /\ \A x \in Walk(h, p, tab.size) : tab.at[x] # Free
    BY DEF Holds, Finds
  <2>2. p # j BY <2>1 DEF Free
  <2>3. new.at[p] = t BY <1>1, <2>1, <2>2
  <2>4. ASSUME NEW x \in Walk(h, p, tab.size) PROVE new.at[x] # Free
    <3>1. x \in 0 .. tab.size - 1 BY <1>2, WalkSlots
    <3>2. tab.at[x] # Free BY <2>1
    <3>3. QED BY <1>1, <3>1, <3>2 DEF Free
  <2>5. QED BY <1>1, <2>3, <2>4 DEF Finds
<1>5. Finds(new, ts, count)
  <2> DEFINE h == Home(ts[count + 1], tab.size)
  <2>1. ASSUME NEW x \in Walk(h, j, tab.size) PROVE new.at[x] # Free
    <3>1. x \in 0 .. tab.size - 1 BY <1>2, WalkSlots
    <3>2. tab.at[x] # Free BY DEF Passed
    <3>3. QED BY <1>1, <3>1, <3>2 DEF Free
  <2>2. new.at[j] = count BY <1>1
  <2>3. QED BY <1>1, <2>1, <2>2 DEF Finds
<1>6. QED BY <1>3, <1>4, <1>5 DEF Holds

\* A probe that ends at a free slot has proved that no known type equals s.
LEMMA NotThere ==
  ASSUME NEW tab, IsTable(tab), NEW ts, NEW count \in Nat, Holds(tab, ts, count),
         NEW s \in Sigs, NEW j \in 0 .. tab.size - 1, tab.at[j] = Free,
         \A x \in Walk(Home(s, tab.size), j, tab.size) : ts[tab.at[x] + 1] # s,
         NEW t \in 0 .. count - 1
  PROVE  ts[t + 1] # s
<1> DEFINE h == Home(s, tab.size)
<1>1. SUFFICES ASSUME ts[t + 1] = s PROVE FALSE OBVIOUS
<1>2. PICK p \in 0 .. tab.size - 1 :
        tab.at[p] = t /\ \A x \in Walk(h, p, tab.size) : tab.at[x] # Free
  BY <1>1 DEF Holds, Finds
<1>3. tab.size \in Nat \ {0} BY DEF IsTable
<1>4. h \in 0 .. tab.size - 1 BY <1>3, HomeInRange
<1> HIDE DEF h
<1>5. p \in Walk(h, j, tab.size) \/ p = j \/ j \in Walk(h, p, tab.size)
  BY <1>3, <1>4, WalkOrder
<1>6. CASE p \in Walk(h, j, tab.size) BY <1>1, <1>2, <1>6 DEF h
<1>7. CASE p = j BY <1>2, <1>7 DEF Free
<1>8. CASE j \in Walk(h, p, tab.size) BY <1>2, <1>8
<1>9. QED BY <1>5, <1>6, <1>7, <1>8

\* A probe that starts at its home has passed no slot.
LEMMA PassedStart ==
  ASSUME NEW tab, NEW s \in Sigs, tab.size \in Nat \ {0}
  PROVE  /\ Home(s, tab.size) \in Nat
         /\ Walk(Home(s, tab.size), Home(s, tab.size), tab.size) = {}
         /\ Passed(tab, Home(s, tab.size), Home(s, tab.size))
<1>1. Home(s, tab.size) \in 0 .. tab.size - 1 BY HomeInRange
<1>2. Walk(Home(s, tab.size), Home(s, tab.size), tab.size) = {} BY <1>1, WalkStart
<1>3. QED BY <1>1, <1>2 DEF Passed

\* Passing one more occupied slot.
LEMMA PassedStep ==
  ASSUME NEW tab, IsTable(tab), NEW s \in Sigs, NEW j \in Nat,
         Passed(tab, Home(s, tab.size), j), tab.at[j] # Free
  PROVE  /\ After(j, tab.size) \in Nat
         /\ Passed(tab, Home(s, tab.size), After(j, tab.size))
         /\ \A x \in Walk(Home(s, tab.size), After(j, tab.size), tab.size) :
              x \in Walk(Home(s, tab.size), j, tab.size) \/ x = j
<1> DEFINE h == Home(s, tab.size)
<1>1. tab.size \in Nat \ {0} /\ j \in 0 .. tab.size - 1 BY DEF IsTable, Passed
<1>2. h \in 0 .. tab.size - 1 BY <1>1, HomeInRange
<1>3. After(j, tab.size) \in 0 .. tab.size - 1 BY <1>1, AfterInRange
<1> HIDE DEF h
<1>4. \A x \in Walk(h, After(j, tab.size), tab.size) :
        x \in Walk(h, j, tab.size) \/ x = j
  BY <1>1, <1>2, WalkStep
<1>5. \A x \in Walk(h, j, tab.size) : tab.at[x] # Free BY DEF Passed, h
<1>6. Passed(tab, h, After(j, tab.size)) BY <1>1, <1>3, <1>4, <1>5 DEF Passed
<1>7. QED BY <1>3, <1>4, <1>6 DEF h

(***************************************************************************)
(* The invariant of the loops.                                             *)
(***************************************************************************)
LEMMA LoopInvStarts == Init => LoopInv
<1> SUFFICES ASSUME Init PROVE LoopInv OBVIOUS
<1> USE DEF Init
<1>1. types \in Seq(Sigs) /\ Len(types) = 0 OBVIOUS
<1>2. IsTable(slots) /\ IsTable(next) /\ Holds(slots, types, 0) BY BlankHolds
<1>3. TypeOK BY <1>1, <1>2 DEF TypeOK
<1>4. QED BY <1>1, <1>2, <1>3
         DEF LoopInv, NoDuplicates, AnswersHold, Rehashing, Placing, Probing

\* The start of a probe establishes Probing.
LEMMA StartsProbing ==
  ASSUME pc' = "probe", sig' \in Sigs, IsTable(slots'), slots'.size > 0,
         i' = Home(sig', slots'.size)
  PROVE  i' \in Nat /\ Probing' /\ Rehashing' /\ Placing'
<1>1. slots'.size \in Nat \ {0} BY DEF IsTable
<1>2. /\ Home(sig', slots'.size) \in Nat
      /\ Walk(Home(sig', slots'.size), Home(sig', slots'.size), slots'.size) = {}
      /\ Passed(slots', Home(sig', slots'.size), Home(sig', slots'.size))
  BY <1>1, PassedStart
<1>3. QED BY <1>2 DEF Probing, Rehashing, Placing

\* No type is known as long as there is no table.
LEMMA NoTableNoTypes ==
  ASSUME LoopInv, slots.size = 0
  PROVE  Len(types) = 0
<1>1. Len(types) \in Nat BY DEF LoopInv, TypeOK
<1>2. \A t \in 0 .. Len(types) - 1 : Finds(slots, types, t) BY DEF LoopInv, Holds
<1>3. \A t \in 0 .. Len(types) - 1 : FALSE BY <1>2 DEF Finds
<1>4. QED BY <1>1, <1>3

LEMMA FuncTypeInv ==
  ASSUME LoopInv, NEW s \in Sigs, FuncType(s)
  PROVE  LoopInv'
<1> USE DEF LoopInv
<1>1. /\ UNCHANGED <<types, given>> /\ NoDuplicates' /\ AnswersHold' /\ sig' = s
      /\ types \in Seq(Sigs) /\ Len(types) \in Nat /\ IsTable(slots) /\ slots.size \in Nat
  BY DEF FuncType, NoDuplicates, AnswersHold, TypeOK, IsTable
<1>2. CASE slots.size = 0 /\ slots' = Blank(InitialSlots) /\ StartProbe(s, InitialSlots)
  <2>1. InitialSlots \in Nat \ {0} BY InternerAssumption
  <2>2. Len(types) = 0 BY <1>2, NoTableNoTypes
  <2>3. IsTable(slots') /\ slots'.size = InitialSlots /\ Holds(slots', types, 0)
    BY <1>2, <2>1, BlankHolds
  <2>4. i' \in Nat /\ Probing' /\ Rehashing' /\ Placing'
    BY <1>1, <1>2, <2>1, <2>3, StartsProbing DEF StartProbe
  <2>5. TypeOK' BY <1>1, <1>2, <2>3, <2>4 DEF TypeOK, StartProbe
  <2>6. QED BY <1>1, <2>2, <2>3, <2>4, <2>5
<1>3. CASE slots.size > 0 /\ StartProbe(s, slots.size) /\ UNCHANGED slots
  <2>1. i' \in Nat /\ Probing' /\ Rehashing' /\ Placing'
    BY <1>1, <1>3, StartsProbing DEF StartProbe
  <2>2. TypeOK' BY <1>1, <1>3, <2>1 DEF TypeOK, StartProbe
  <2>3. QED BY <1>1, <1>3, <2>1, <2>2
<1>4. CASE /\ slots.size > 0 /\ pc' = "rehash" /\ next' = Blank(2 * slots.size)
           /\ k' = 0 /\ UNCHANGED <<i, slots>>
  <2>1. 2 * slots.size \in Nat /\ 2 * slots.size > 0 BY <1>1, <1>4
  <2>2. IsTable(next') /\ next'.size = 2 * slots.size /\ Holds(next', types, 0)
    BY <1>4, <2>1, BlankHolds
  <2>3. TypeOK' BY <1>1, <1>4, <2>2 DEF TypeOK
  <2>4. Rehashing' /\ Placing' /\ Probing'
    BY <1>1, <1>4, <2>1, <2>2 DEF Rehashing, Placing, Probing
  <2>5. QED BY <1>1, <1>4, <2>3, <2>4
<1>5. QED BY <1>2, <1>3, <1>4 DEF FuncType

LEMMA RehashInv ==
  ASSUME LoopInv, Rehash
  PROVE  LoopInv'
<1> USE DEF LoopInv
<1>1. /\ UNCHANGED <<types, given, sig>> /\ NoDuplicates' /\ AnswersHold'
      /\ types \in Seq(Sigs) /\ Len(types) \in Nat /\ sig \in Sigs /\ k \in Nat
      /\ IsTable(next) /\ next.size \in Nat \ {0} /\ Holds(next, types, k)
  BY DEF Rehash, NoDuplicates, AnswersHold, TypeOK, IsTable, Rehashing
<1>2. CASE /\ k < Len(types) /\ pc' = "place" /\ i' = Home(types[k + 1], next.size)
           /\ UNCHANGED <<slots, next, k>>
  <2>1. types[k + 1] \in Sigs BY <1>1, <1>2
  <2>2. /\ Home(types[k + 1], next.size) \in Nat
        /\ Passed(next, Home(types[k + 1], next.size), Home(types[k + 1], next.size))
    BY <1>1, <2>1, PassedStart
  <2>3. TypeOK' BY <1>1, <1>2, <2>2 DEF TypeOK
  <2>4. Rehashing' /\ Placing' /\ Probing'
    BY <1>1, <1>2, <2>2 DEF Rehashing, Placing, Probing
  <2>5. QED BY <1>1, <1>2, <2>3, <2>4
<1>3. CASE k = Len(types) /\ slots' = next /\ StartProbe(sig, next.size)
  <2>1. i' \in Nat /\ Probing' /\ Rehashing' /\ Placing'
    BY <1>1, <1>3, StartsProbing DEF StartProbe
  <2>2. TypeOK' BY <1>1, <1>3, <2>1 DEF TypeOK, StartProbe
  <2>3. QED BY <1>1, <1>3, <2>1, <2>2
<1>4. QED BY <1>2, <1>3 DEF Rehash

LEMMA PlaceInv ==
  ASSUME LoopInv, Place
  PROVE  LoopInv'
<1> USE DEF LoopInv
<1> DEFINE h == Home(types[k + 1], next.size)
<1>1. /\ UNCHANGED <<types, given, sig, slots>> /\ NoDuplicates' /\ AnswersHold'
      /\ types \in Seq(Sigs) /\ Len(types) \in Nat /\ k \in Nat /\ i \in Nat
      /\ IsTable(next) /\ next.size \in Nat \ {0} /\ Holds(next, types, k)
      /\ k < Len(types) /\ Passed(next, h, i) /\ i \in 0 .. next.size - 1
  BY DEF Place, NoDuplicates, AnswersHold, TypeOK, IsTable, Rehashing, Placing, Passed
<1>2. types[k + 1] \in Sigs BY <1>1
<1>3. CASE next.at[i] # Free /\ i' = After(i, next.size) /\ UNCHANGED <<next, k, pc>>
  <2>1. After(i, next.size) \in Nat /\ Passed(next, h, After(i, next.size))
    BY <1>1, <1>2, <1>3, PassedStep
  <2>2. TypeOK' BY <1>1, <1>3, <2>1 DEF TypeOK
  <2>3. Rehashing' /\ Placing' /\ Probing'
    BY <1>1, <1>3, <2>1 DEF Place, Rehashing, Placing, Probing
  <2>4. QED BY <1>1, <1>3, <2>2, <2>3
<1>4. CASE /\ next.at[i] = Free /\ next' = Put(next, i, k) /\ k' = k + 1
           /\ pc' = "rehash" /\ UNCHANGED i
  <2>1. IsTable(next') /\ next'.size = next.size BY <1>1, <1>4, PutSlot
  <2>2. Holds(next', types, k + 1) BY <1>1, <1>2, <1>4, PutHolds
  <2>3. TypeOK' BY <1>1, <1>4, <2>1 DEF TypeOK
  <2>4. Rehashing' /\ Placing' /\ Probing'
    BY <1>1, <1>4, <2>1, <2>2 DEF Rehashing, Placing, Probing
  <2>5. QED BY <1>1, <1>4, <2>3, <2>4
<1>5. QED BY <1>3, <1>4 DEF Place

\* What a probe knows of the slot it stands at.
LEMMA ProbeFacts ==
  ASSUME LoopInv, pc = "probe"
  PROVE  /\ types \in Seq(Sigs) /\ Len(types) \in Nat /\ sig \in Sigs
         /\ IsTable(slots) /\ slots.size \in Nat \ {0}
         /\ i \in 0 .. slots.size - 1 /\ Holds(slots, types, Len(types))
         /\ slots.at[i] # Free => slots.at[i] \in 0 .. Len(types) - 1
         /\ Passed(slots, Home(sig, slots.size), i)
         /\ \A x \in Walk(Home(sig, slots.size), i, slots.size) :
              types[slots.at[x] + 1] # sig
BY DEF LoopInv, TypeOK, IsTable, Probing, Passed, Holds

\* The signature is new when its probe stops at a free slot.
LEMMA FreeSlotIsNew ==
  ASSUME LoopInv, pc = "probe", slots.at[i] = Free,
         NEW n \in 1 .. Len(types)
  PROVE  types[n] # sig
<1>1. n - 1 \in 0 .. Len(types) - 1 /\ (n - 1) + 1 = n BY ProbeFacts
<1>2. types[(n - 1) + 1] # sig BY <1>1, ProbeFacts, NotThere
<1>3. QED BY <1>1, <1>2

LEMMA ProbeInv ==
  ASSUME LoopInv, Probe
  PROVE  LoopInv'
<1> DEFINE slot == slots.at[i]
           n == Len(types)
           h == Home(sig, slots.size)
<1>1. /\ types \in Seq(Sigs) /\ n \in Nat /\ sig \in Sigs /\ IsTable(next)
      /\ IsTable(slots) /\ slots.size \in Nat \ {0} /\ i \in 0 .. slots.size - 1
      /\ Holds(slots, types, n) /\ Passed(slots, h, i)
      /\ k \in Nat /\ given \subseteq [sig : Sigs, idx : Nat] /\ pc = "probe"
  BY ProbeFacts DEF Probe, LoopInv, TypeOK
<1>2. CASE /\ slot = Free /\ types' = Append(types, sig) /\ slots' = Put(slots, i, n)
           /\ Return(n)
  <2>1. /\ types' \in Seq(Sigs) /\ Len(types') = n + 1 /\ types'[n + 1] = sig
        /\ \A m \in 1 .. n : types'[m] = types[m]
    BY <1>1, <1>2
  <2>2. IsTable(slots') /\ slots'.size = slots.size BY <1>1, <1>2, PutSlot
  <2>3. Holds(slots, types', n) BY <1>1, <2>1, HoldsExtends
  <2>4. Holds(slots', types', n + 1) BY <1>1, <1>2, <2>1, <2>3, PutHolds
  <2>5. /\ UNCHANGED <<sig, i, k, next>> /\ pc' = "idle"
        /\ given' = given \cup {[sig |-> sig, idx |-> n]}
    BY <1>2 DEF Return, call
  <2>6. TypeOK' BY <1>1, <2>1, <2>2, <2>5 DEF TypeOK
  <2>7. NoDuplicates'
    <3>1. \A m \in 1 .. n : types[m] # sig BY <1>1, <1>2, FreeSlotIsNew
    <3>2. \A m1, m2 \in 1 .. n : types[m1] = types[m2] => m1 = m2
      BY DEF LoopInv, NoDuplicates
    <3>3. ASSUME NEW m1 \in 1 .. n + 1, NEW m2 \in 1 .. n + 1, types'[m1] = types'[m2]
          PROVE  m1 = m2
      <4>1. CASE m1 = n + 1 /\ m2 = n + 1 BY <4>1
      <4>2. CASE m1 = n + 1 /\ m2 # n + 1
        <5>1. m2 \in 1 .. n BY <1>1, <4>2
        <5>2. QED BY <2>1, <3>1, <3>3, <4>2, <5>1
      <4>3. CASE m1 # n + 1 /\ m2 = n + 1
        <5>1. m1 \in 1 .. n BY <1>1, <4>3
        <5>2. QED BY <2>1, <3>1, <3>3, <4>3, <5>1
      <4>4. CASE m1 # n + 1 /\ m2 # n + 1
        <5>1. m1 \in 1 .. n /\ m2 \in 1 .. n BY <1>1, <4>4
        <5>2. QED BY <2>1, <3>2, <3>3, <5>1
      <4>5. QED BY <4>1, <4>2, <4>3, <4>4
    <3>4. QED BY <2>1, <3>3 DEF NoDuplicates
  <2>8. AnswersHold'
    <3>1. ASSUME NEW a \in given PROVE a.idx < n + 1 /\ types'[a.idx + 1] = a.sig
      <4>1. a.idx < n /\ types[a.idx + 1] = a.sig BY DEF LoopInv, AnswersHold
      <4>2. a.idx \in Nat BY <1>1
      <4>3. a.idx + 1 \in 1 .. n BY <1>1, <4>1, <4>2
      <4>4. QED BY <1>1, <2>1, <4>1, <4>2, <4>3
    <3>2. QED BY <1>1, <2>1, <2>5, <3>1 DEF AnswersHold
  <2>9. Rehashing' /\ Placing' /\ Probing' BY <2>5 DEF Rehashing, Placing, Probing
  <2>10. QED BY <2>1, <2>4, <2>6, <2>7, <2>8, <2>9 DEF LoopInv
<1>3. CASE /\ slot # Free /\ types[slot + 1] = sig /\ Return(slot)
           /\ UNCHANGED <<types, slots>>
  <2>1. slot \in 0 .. n - 1 BY <1>1, <1>3, ProbeFacts
  <2>2. /\ UNCHANGED <<sig, i, k, next>> /\ pc' = "idle"
        /\ given' = given \cup {[sig |-> sig, idx |-> slot]}
    BY <1>3 DEF Return, call
  <2>3. TypeOK' BY <1>1, <1>3, <2>1, <2>2 DEF TypeOK
  <2>4. AnswersHold' BY <1>1, <1>3, <2>1, <2>2 DEF AnswersHold, LoopInv
  <2>5. Rehashing' /\ Placing' /\ Probing' BY <2>2 DEF Rehashing, Placing, Probing
  <2>6. NoDuplicates' /\ Holds(slots', types', Len(types'))
    BY <1>1, <1>3 DEF LoopInv, NoDuplicates
  <2>7. QED BY <2>3, <2>4, <2>5, <2>6 DEF LoopInv
<1>4. CASE /\ slot # Free /\ types[slot + 1] # sig /\ i' = After(i, slots.size)
           /\ UNCHANGED <<types, slots, next, pc, sig, k, given>>
  <2>1. /\ After(i, slots.size) \in Nat /\ Passed(slots, h, After(i, slots.size))
        /\ \A x \in Walk(h, After(i, slots.size), slots.size) :
             x \in Walk(h, i, slots.size) \/ x = i
    <3>1. IsTable(slots) /\ sig \in Sigs /\ i \in Nat /\ Passed(slots, h, i)
          /\ slots.at[i] # Free
      BY <1>1, <1>4, ProbeFacts
    <3>2. QED BY <3>1, PassedStep
  <2>2. \A x \in Walk(h, i, slots.size) : types[slots.at[x] + 1] # sig
    BY <1>1, ProbeFacts
  <2>3. Probing' BY <1>4, <2>1, <2>2 DEF Probing
  <2>4. TypeOK' BY <1>1, <1>4, <2>1 DEF TypeOK
  <2>5. /\ Rehashing' /\ Placing' /\ NoDuplicates' /\ AnswersHold'
        /\ Holds(slots', types', Len(types'))
    BY <1>1, <1>4 DEF LoopInv, Rehashing, Placing, NoDuplicates, AnswersHold
  <2>6. QED BY <2>3, <2>4, <2>5 DEF LoopInv
<1>5. QED BY <1>2, <1>3, <1>4 DEF Probe

LEMMA LoopInvKept == LoopInv /\ [Next]_vars => LoopInv'
<1> SUFFICES ASSUME LoopInv, [Next]_vars PROVE LoopInv' OBVIOUS
<1>1. CASE \E s \in Sigs : FuncType(s) BY <1>1, FuncTypeInv
<1>2. CASE Rehash BY <1>2, RehashInv
<1>3. CASE Place BY <1>3, PlaceInv
<1>4. CASE Probe BY <1>4, ProbeInv
<1>5. CASE UNCHANGED vars
  BY <1>5 DEF vars, LoopInv, TypeOK, NoDuplicates, AnswersHold, Rehashing,
              Placing, Probing
<1>6. QED BY <1>1, <1>2, <1>3, <1>4, <1>5 DEF Next, Step

(***************************************************************************)
(* Room in the table: no probe goes round.                                 *)
(***************************************************************************)
\* A table that holds fewer indices than it has slots, each in one of them, has
\* a slot to stop at.
LEMMA FreeSlot ==
  ASSUME NEW tab, IsTable(tab), NEW ts, NEW count \in Nat, Holds(tab, ts, count),
         Once(tab), count < tab.size
  PROVE  \E f \in 0 .. tab.size - 1 : tab.at[f] = Free
<1> SUFFICES ASSUME \A f \in 0 .. tab.size - 1 : tab.at[f] # Free PROVE FALSE
  OBVIOUS
<1> DEFINE n == tab.size
           at == tab.at
<1>1. n \in Nat /\ at \in [0 .. n - 1 -> Int] /\ count < n BY DEF IsTable
<1>2. \A f \in 0 .. n - 1 : at[f] \in 0 .. count - 1 BY DEF Holds
<1>3. \A x, y \in 0 .. n - 1 : at[x] = at[y] => x = y BY DEF Once
<1> HIDE DEF n, at
<1>4. at \in [0 .. n - 1 -> 0 .. count - 1] BY <1>1, <1>2
<1>5. /\ IsFiniteSet(0 .. n - 1) /\ Cardinality(0 .. n - 1) = n
      /\ IsFiniteSet(0 .. count - 1) /\ Cardinality(0 .. count - 1) = count
  <2>1. /\ IsFiniteSet(0 .. n - 1)
        /\ Cardinality(0 .. n - 1) = IF 0 > n - 1 THEN 0 ELSE n - 1 - 0 + 1
    BY <1>1, FS_Interval
  <2>2. /\ IsFiniteSet(0 .. count - 1)
        /\ Cardinality(0 .. count - 1) = IF 0 > count - 1 THEN 0 ELSE count - 1 - 0 + 1
    BY FS_Interval
  <2>3. QED BY <1>1, <2>1, <2>2
<1>6. Cardinality(0 .. count - 1) < Cardinality(0 .. n - 1) BY <1>1, <1>5
<1>7. \E x, y \in 0 .. n - 1 : x # y /\ at[x] = at[y]
  BY <1>4, <1>5, <1>6, FS_PigeonHole
<1>8. QED BY <1>3, <1>7

\* A walk that is back at its home has passed every slot but the one it left.
LEMMA WalkRound ==
  ASSUME NEW n \in Nat \ {0}, NEW h \in 0 .. n - 1, NEW j \in 0 .. n - 1,
         After(j, n) = h, NEW x \in 0 .. n - 1
  PROVE  x \in Walk(h, j, n) \/ x = j
BY DEF Walk, After

\* So a probe that passes one more occupied slot is not back at its home.
LEMMA NotRound ==
  ASSUME NEW tab, IsTable(tab), NEW ts, NEW count \in Nat, Holds(tab, ts, count),
         Once(tab), count < tab.size, NEW s \in Sigs, NEW j \in Nat,
         Passed(tab, Home(s, tab.size), j), tab.at[j] # Free
  PROVE  After(j, tab.size) # Home(s, tab.size)
<1> DEFINE h == Home(s, tab.size)
<1>1. tab.size \in Nat \ {0} /\ j \in 0 .. tab.size - 1 BY DEF IsTable, Passed
<1>2. h \in 0 .. tab.size - 1 BY <1>1, HomeInRange
<1>3. PICK f \in 0 .. tab.size - 1 : tab.at[f] = Free BY FreeSlot
<1>4. f # j BY <1>3
<1>5. f \notin Walk(h, j, tab.size) BY <1>3 DEF Passed
<1> HIDE DEF h
<1>6. After(j, tab.size) # h BY <1>1, <1>2, <1>4, <1>5, WalkRound
<1>7. QED BY <1>6 DEF h

(***************************************************************************)
(* What is left to walk.                                                   *)
(***************************************************************************)
LEMMA UnseenRange ==
  ASSUME NEW tab, NEW s \in Sigs, tab.size \in Nat \ {0}, NEW j \in 0 .. tab.size - 1
  PROVE  Unseen(tab, s, j) \in 1 .. tab.size
<1>1. Home(s, tab.size) \in 0 .. tab.size - 1 BY HomeInRange
<1>2. QED BY <1>1 DEF Unseen

LEMMA UnseenStart ==
  ASSUME NEW tab, NEW s \in Sigs, tab.size \in Nat \ {0}
  PROVE  Unseen(tab, s, Home(s, tab.size)) = tab.size
<1>1. Home(s, tab.size) \in 0 .. tab.size - 1 BY HomeInRange
<1>2. QED BY <1>1 DEF Unseen

\* Passing a slot leaves one fewer, as long as the probe does not go round.
LEMMA UnseenStep ==
  ASSUME NEW tab, NEW s \in Sigs, tab.size \in Nat \ {0}, NEW j \in 0 .. tab.size - 1,
         After(j, tab.size) # Home(s, tab.size)
  PROVE  Unseen(tab, s, After(j, tab.size)) = Unseen(tab, s, j) - 1
<1> DEFINE h == Home(s, tab.size)
           n == tab.size
           left(x) == n - (IF h <= x THEN x - h ELSE x + n - h)
<1>1. h \in 0 .. n - 1 /\ n \in Nat \ {0} /\ j \in 0 .. n - 1 /\ After(j, n) # h
  BY HomeInRange
<1>2. \A x : Unseen(tab, s, x) = left(x) BY DEF Unseen
<1> HIDE DEF h, n
<1>3. left(After(j, n)) = left(j) - 1 BY <1>1 DEF After
<1>4. QED BY <1>2, <1>3 DEF n

LEMMA BlankOnce ==
  ASSUME NEW n \in Nat
  PROVE  Once(Blank(n))
BY DEF Once, Blank

\* An index that no slot holds is put in one.
LEMMA PutOnce ==
  ASSUME NEW tab, IsTable(tab), NEW ts, NEW count \in Nat, Holds(tab, ts, count),
         Once(tab), NEW j \in 0 .. tab.size - 1
  PROVE  Once(Put(tab, j, count))
<1>1. /\ Put(tab, j, count).size = tab.size
      /\ \A x \in 0 .. tab.size - 1 :
           Put(tab, j, count).at[x] = IF x = j THEN count ELSE tab.at[x]
  BY PutSlot
<1>2. \A x \in 0 .. tab.size - 1 : tab.at[x] # count BY DEF Holds, Free
<1>3. QED BY <1>1, <1>2 DEF Once

LEMMA FuncTypeSpare ==
  ASSUME InternerInv, NEW s \in Sigs, FuncType(s)
  PROVE  Spare'
<1> DEFINE n == Len(types)
<1>1. /\ types' = types /\ n \in Nat /\ slots.size \in Nat /\ Once(slots)
      /\ n <= slots.size
  BY DEF FuncType, InternerInv, LoopInv, TypeOK, IsTable, Spare
<1>2. CASE slots.size = 0 /\ slots' = Blank(InitialSlots) /\ StartProbe(s, InitialSlots)
  <2>1. InitialSlots \in Nat \ {0} BY InternerAssumption
  <2>2. Once(slots') /\ slots'.size = InitialSlots BY <1>2, <2>1, BlankOnce DEF Blank
  <2>3. QED BY <1>1, <1>2, <2>1, <2>2 DEF Spare, StartProbe
<1>3. CASE FitsLoad(Len(types), slots.size) /\ StartProbe(s, slots.size) /\ UNCHANGED slots
  BY <1>1, <1>3 DEF Spare, StartProbe, FitsLoad
<1>4. CASE /\ slots.size > 0 /\ pc' = "rehash" /\ next' = Blank(2 * slots.size)
           /\ UNCHANGED slots
  <2>1. Once(next') /\ next'.size = 2 * slots.size BY <1>1, <1>4, BlankOnce DEF Blank
  <2>2. QED BY <1>1, <1>4, <2>1 DEF Spare
<1>5. QED BY <1>2, <1>3, <1>4 DEF FuncType

LEMMA StepSpare ==
  ASSUME InternerInv, Step
  PROVE  Spare'
<1> DEFINE n == Len(types)
<1>1. n \in Nat /\ IsTable(slots) /\ IsTable(next) /\ slots.size \in Nat /\ next.size \in Nat
  BY DEF InternerInv, LoopInv, TypeOK, IsTable
<1>2. CASE Rehash
  <2>1. types' = types /\ Once(next) /\ n < next.size /\ Once(slots) /\ n <= slots.size
    BY <1>2 DEF Rehash, InternerInv, Spare
  <2>2. QED BY <1>1, <1>2, <2>1 DEF Rehash, StartProbe, Spare
<1>3. CASE Place
  <2>1. /\ UNCHANGED <<types, slots>> /\ Once(next) /\ n < next.size /\ Once(slots)
        /\ n <= slots.size /\ k \in Nat /\ Holds(next, types, k) /\ i \in 0 .. next.size - 1
    BY <1>1, <1>3 DEF Place, InternerInv, LoopInv, TypeOK, Spare, Rehashing, Placing, Passed
  <2>2. CASE UNCHANGED next /\ UNCHANGED pc
    BY <1>3, <2>1, <2>2 DEF Place, Spare
  <2>3. CASE next' = Put(next, i, k) /\ pc' = "rehash"
    <3>1. Once(next') BY <1>1, <2>1, <2>3, PutOnce
    <3>2. next'.size = next.size BY <1>1, <2>1, <2>3, PutSlot
    <3>3. QED BY <2>1, <2>3, <3>1, <3>2 DEF Spare
  <2>4. QED BY <1>3, <2>2, <2>3 DEF Place
<1>4. CASE Probe
  <2>1. /\ Once(slots) /\ n < slots.size /\ i \in 0 .. slots.size - 1
        /\ Holds(slots, types, n)
    BY <1>4, ProbeFacts DEF Probe, InternerInv, Spare
  <2>2. CASE UNCHANGED <<types, slots>> /\ pc' \in {"idle", "probe"}
    BY <1>1, <2>1, <2>2 DEF Spare
  <2>3. CASE types' = Append(types, sig) /\ slots' = Put(slots, i, n) /\ pc' = "idle"
    <3>1. Once(slots') BY <1>1, <2>1, <2>3, PutOnce
    <3>2. slots'.size = slots.size BY <1>1, <2>1, <2>3, PutSlot
    <3>3. Len(types') = n + 1 BY <2>3 DEF InternerInv, LoopInv, TypeOK
    <3>4. QED BY <1>1, <2>1, <2>3, <3>1, <3>2, <3>3 DEF Spare
  <2>4. QED BY <1>4, <2>2, <2>3 DEF Probe, Return
<1>5. QED BY <1>2, <1>3, <1>4 DEF Step

LEMMA InitInv == Init => InternerInv
<1> SUFFICES ASSUME Init PROVE InternerInv OBVIOUS
<1>1. Once(Blank(0)) /\ Blank(0).size = 0 BY BlankOnce DEF Blank
<1>2. Spare BY <1>1 DEF Init, Spare
<1>3. QED BY <1>2, LoopInvStarts DEF InternerInv

LEMMA NextInv == InternerInv /\ [Next]_vars => InternerInv'
<1> SUFFICES ASSUME InternerInv, [Next]_vars PROVE Spare'
  BY LoopInvKept DEF InternerInv
<1>1. CASE \E s \in Sigs : FuncType(s) BY <1>1, FuncTypeSpare
<1>2. CASE Step BY <1>2, StepSpare
<1>3. CASE UNCHANGED vars BY <1>3 DEF vars, InternerInv, Spare
<1>4. QED BY <1>1, <1>2, <1>3 DEF Next

(***************************************************************************)
(* A call comes nearer to its end.                                         *)
(***************************************************************************)
LEMMA OneMore ==
  ASSUME NEW a \in Nat, NEW b \in Nat
  PROVE  a * b \in Nat /\ (a + 1) * b = a * b + b
OBVIOUS

LEMMA RehashProgress ==
  ASSUME InternerInv, Rehash
  PROVE  StepsLeft' \in 0 .. StepsLeft - 1
<1> DEFINE n == next.size
           a == Len(types) - k
<1>1. /\ types \in Seq(Sigs) /\ Len(types) \in Nat /\ k \in Nat /\ k <= Len(types)
      /\ n \in Nat \ {0} /\ sig \in Sigs /\ UNCHANGED <<types, sig>>
  BY DEF Rehash, InternerInv, LoopInv, TypeOK, IsTable, Rehashing
<1>2. a \in Nat /\ a * (n + 1) \in Nat /\ (a + 1) * (n + 1) = a * (n + 1) + (n + 1)
  <2>1. a \in Nat /\ n + 1 \in Nat BY <1>1
  <2> HIDE DEF a, n
  <2>2. QED BY <2>1, OneMore
<1>3. StepsLeft = (a + 1) * (n + 1)
  <2>1. StepsLeft = (Len(types) + 1 - k) * (n + 1) BY DEF Rehash, StepsLeft
  <2>2. Len(types) + 1 - k = a + 1 BY <1>1
  <2>3. QED BY <2>1, <2>2
<1>4. CASE /\ k < Len(types) /\ pc' = "place" /\ i' = Home(types[k + 1], next.size)
           /\ UNCHANGED <<next, k>>
  <2>1. types[k + 1] \in Sigs BY <1>1, <1>4
  <2>2. Unseen(next, types[k + 1], i') = n BY <1>1, <1>4, <2>1, UnseenStart
  <2>3. StepsLeft' = a * (n + 1) + n BY <1>1, <1>4, <2>2 DEF StepsLeft
  <2> HIDE DEF a, n
  <2>4. QED BY <1>1, <1>2, <1>3, <2>3
<1>5. CASE k = Len(types) /\ slots' = next /\ StartProbe(sig, next.size)
  <2>1. Unseen(next, sig, i') = n BY <1>1, <1>5, UnseenStart DEF StartProbe
  <2>2. StepsLeft' = n BY <1>1, <1>5, <2>1 DEF StepsLeft, StartProbe
  <2> HIDE DEF a, n
  <2>3. QED BY <1>1, <1>2, <1>3, <2>2
<1>6. QED BY <1>4, <1>5 DEF Rehash

LEMMA PlaceProgress ==
  ASSUME InternerInv, Place
  PROVE  StepsLeft' \in 0 .. StepsLeft - 1
<1> DEFINE n == next.size
           a == Len(types) - k
           t == types[k + 1]
           u == Unseen(next, t, i)
<1>1. /\ types \in Seq(Sigs) /\ Len(types) \in Nat /\ k \in Nat /\ k < Len(types)
      /\ IsTable(next) /\ n \in Nat \ {0} /\ i \in 0 .. n - 1 /\ UNCHANGED <<types, sig>>
      /\ Holds(next, types, k) /\ Passed(next, Home(t, n), i) /\ Once(next) /\ k < n
      /\ pc = "place"
  BY DEF Place, InternerInv, LoopInv, TypeOK, IsTable, Rehashing, Placing, Passed, Spare
<1>2. a \in Nat /\ a * (n + 1) \in Nat
  <2>1. a \in Nat /\ n + 1 \in Nat BY <1>1
  <2> HIDE DEF a, n
  <2>2. QED BY <2>1, OneMore
<1>3. t \in Sigs BY <1>1
<1>4. u \in 1 .. n BY <1>1, <1>3, UnseenRange
<1>5. StepsLeft = a * (n + 1) + u BY <1>1 DEF StepsLeft
<1>6. CASE next.at[i] # Free /\ i' = After(i, next.size) /\ UNCHANGED <<next, k, pc>>
  <2>1. After(i, n) # Home(t, n) BY <1>1, <1>3, <1>6, NotRound
  <2>2. Unseen(next, t, i') = u - 1 BY <1>1, <1>3, <1>6, <2>1, UnseenStep
  <2>3. StepsLeft' = a * (n + 1) + Unseen(next, t, i') BY <1>1, <1>6 DEF StepsLeft
  <2> HIDE DEF a, n, u
  <2>4. QED BY <1>1, <1>2, <1>4, <1>5, <2>2, <2>3
<1>7. CASE next' = Put(next, i, k) /\ k' = k + 1 /\ pc' = "rehash"
  <2>1. next'.size = n BY <1>1, <1>7, PutSlot
  <2>2. StepsLeft' = (Len(types) + 1 - (k + 1)) * (n + 1)
    BY <1>1, <1>7, <2>1 DEF StepsLeft
  <2>3. Len(types) + 1 - (k + 1) = a BY <1>1
  <2>4. StepsLeft' = a * (n + 1) BY <2>2, <2>3
  <2> HIDE DEF a, n, u
  <2>5. QED BY <1>1, <1>2, <1>4, <1>5, <2>4
<1>8. QED BY <1>6, <1>7 DEF Place

LEMMA ProbeProgress ==
  ASSUME InternerInv, Probe
  PROVE  StepsLeft' \in 0 .. StepsLeft - 1
<1> DEFINE n == slots.size
           u == Unseen(slots, sig, i)
<1>1. /\ sig \in Sigs /\ IsTable(slots) /\ n \in Nat \ {0} /\ i \in 0 .. n - 1
      /\ Holds(slots, types, Len(types)) /\ Len(types) \in Nat /\ Passed(slots, Home(sig, n), i)
      /\ Once(slots) /\ Len(types) < n /\ pc = "probe"
  BY ProbeFacts DEF Probe, InternerInv, Spare
<1>2. u \in 1 .. n BY <1>1, UnseenRange
<1>3. StepsLeft = u BY <1>1 DEF StepsLeft
<1>4. CASE pc' = "idle"
  <2>1. StepsLeft' = 0 BY <1>4 DEF StepsLeft
  <2> HIDE DEF n, u
  <2>2. QED BY <1>1, <1>2, <1>3, <2>1
<1>5. CASE /\ slots.at[i] # Free /\ i' = After(i, slots.size)
           /\ UNCHANGED <<slots, pc, sig>>
  <2>1. After(i, n) # Home(sig, n) BY <1>1, <1>5, NotRound
  <2>2. Unseen(slots, sig, i') = u - 1 BY <1>1, <1>5, <2>1, UnseenStep
  <2>3. StepsLeft' = u - 1 BY <1>1, <1>5, <2>2 DEF StepsLeft
  <2> HIDE DEF n, u
  <2>4. QED BY <1>1, <1>2, <1>3, <2>3
<1>6. QED BY <1>4, <1>5 DEF Probe, Return

\* The loops of FuncType and EnsureSlots keep the table consistent: every known
\* type can be found, and no probe has overlooked one.
THEOREM TableCorrect == Spec => []InternerInv
<1>1. Init => InternerInv BY InitInv
<1>2. InternerInv /\ [Next]_vars => InternerInv' BY NextInv
<1>3. QED BY <1>1, <1>2, PTL DEF Spec

\* FuncType gives equal signatures equal indices and different ones different
\* indices, and an index denotes its signature for good.
THEOREM IndicesCanonical == Spec => []Canonical
<1>1. InternerInv => Canonical
  <2> SUFFICES ASSUME InternerInv PROVE Canonical OBVIOUS
  <2>1. \A a \in given : a.idx \in Nat /\ a.idx < Len(types) /\ types[a.idx + 1] = a.sig
    BY DEF InternerInv, LoopInv, TypeOK, AnswersHold
  <2>2. Len(types) \in Nat BY DEF InternerInv, LoopInv, TypeOK
  <2>3. ASSUME NEW a \in given, NEW b \in given, a.sig = b.sig PROVE a.idx = b.idx
    <3>1. a.idx + 1 \in 1 .. Len(types) /\ b.idx + 1 \in 1 .. Len(types) BY <2>1, <2>2
    <3>2. types[a.idx + 1] = types[b.idx + 1] BY <2>1, <2>3
    <3>3. a.idx + 1 = b.idx + 1 BY <3>1, <3>2 DEF InternerInv, LoopInv, NoDuplicates
    <3>4. QED BY <2>1, <3>3
  <2>4. ASSUME NEW a \in given, NEW b \in given, a.idx = b.idx PROVE a.sig = b.sig
    BY <2>1, <2>4
  <2>5. QED BY <2>1, <2>3, <2>4 DEF Canonical
<1>2. QED BY <1>1, TableCorrect, PTL

\* A probe that ends adds its signature to the list of Interning or looks it up.
LEMMA ProbeImplements ==
  ASSUME InternerInv, Probe
  PROVE  Abstract!Next \/ UNCHANGED <<types, given>>
<1>1. pc = "probe" /\ sig \in Sigs BY ProbeFacts DEF Probe, InternerInv
<1>2. CASE /\ slots.at[i] = Free /\ types' = Append(types, sig)
           /\ Return(Len(types))
  <2>1. \A n \in 1 .. Len(types) : types[n] # sig BY <1>1, <1>2, FreeSlotIsNew DEF InternerInv
  <2>2. given' = given \cup {[sig |-> sig, idx |-> Len(types)]}
    BY <1>2 DEF Return
  <2>3. Abstract!Add(sig) BY <1>2, <2>1, <2>2 DEF Abstract!Add
  <2>4. QED BY <1>1, <2>3 DEF Abstract!Next
<1>3. CASE /\ slots.at[i] # Free /\ types[slots.at[i] + 1] = sig
           /\ Return(slots.at[i]) /\ UNCHANGED types
  <2>1. slots.at[i] \in 0 .. Len(types) - 1 /\ Len(types) \in Nat
    BY <1>1, <1>3, ProbeFacts DEF InternerInv
  <2>2. given' = given \cup {[sig |-> sig, idx |-> slots.at[i]]}
    BY <1>3 DEF Return
  <2>3. /\ slots.at[i] + 1 \in 1 .. Len(types)
        /\ (slots.at[i] + 1) - 1 = slots.at[i]
    BY <2>1
  <2>4. Abstract!Lookup(sig) BY <1>3, <2>2, <2>3 DEF Abstract!Lookup
  <2>5. QED BY <1>1, <2>4 DEF Abstract!Next
<1>4. CASE UNCHANGED <<types, given>> BY <1>4
<1>5. QED BY <1>2, <1>3, <1>4 DEF Probe

\* The table implements the list of Interning: FuncType assigns indices in the
\* order of the first calls, which is what module.hpp:115 promises.
THEOREM TableImplementsList == Spec => Interns
<1>1. Init => Abstract!Init BY DEF Init, Abstract!Init
<1>2. InternerInv /\ [Next]_vars => [Abstract!Next]_(Abstract!vars)
  <2> SUFFICES ASSUME InternerInv, [Next]_vars
               PROVE  Abstract!Next \/ UNCHANGED <<types, given>>
    BY DEF Abstract!vars
  <2>1. Probe => Abstract!Next \/ UNCHANGED <<types, given>> BY ProbeImplements
  <2>2. (\E s \in Sigs : FuncType(s)) \/ Rehash \/ Place \/ UNCHANGED vars
          => UNCHANGED <<types, given>>
    BY DEF FuncType, Rehash, Place, vars
  <2>3. QED BY <2>1, <2>2 DEF Next, Step
<1>3. QED BY <1>1, <1>2, TableCorrect, PTL DEF Spec, Interns, Abstract!Spec

\* No loop of FuncType and EnsureSlots runs for ever, whatever the hashes: the
\* probe loop of module.hpp:119 and the two of a rehash have no bound of their
\* own, but every step uses up one of a number fixed when the call began.
THEOREM CallsAlwaysProgress == Spec => CallsProgress
<1>1. InternerInv /\ [Next]_vars
        => [pc # "idle" => StepsLeft' \in 0 .. StepsLeft - 1]_vars
  <2> SUFFICES ASSUME InternerInv, [Next]_vars, pc # "idle", vars' # vars
               PROVE  StepsLeft' \in 0 .. StepsLeft - 1
    OBVIOUS
  <2>1. Step BY DEF Next, FuncType
  <2>2. QED BY <2>1, RehashProgress, PlaceProgress, ProbeProgress DEF Step
<1>2. QED BY <1>1, TableCorrect, PTL DEF Spec, CallsProgress
=============================================================================
