---------------------------- MODULE Leb128Proofs -----------------------------
(***************************************************************************)
(* The encoders and the size loops are right for every 64-bit number.      *)
(*                                                                         *)
(* Rest(n) is what n shifts leave of the number, and EndsAt(n) says that   *)
(* its n-th group may be the last byte.  Both loops look for the least n   *)
(* with EndsAt(n); a reader gets the number back from n bytes if and only  *)
(* if EndsAt(n).                                                           *)
(***************************************************************************)
EXTENDS Leb128, TLAPS

Rest(n) == [k \in 1 .. Groups |->
              IF k + n <= Groups THEN number.groups[k + n] ELSE Fill(number)]

EndsAt(n) == Ends(number.groups[n], Rest(n))

\* The first n bytes are the first n groups, and none of them was the last.
Begun(n) == \A k \in 1 .. n : bytes[k] = Byte(number.groups[k], TRUE) /\ ~EndsAt(k)

Complete ==
  LET n == Len(bytes)
  IN  /\ n \in 1 .. Groups /\ EndsAt(n)
      /\ bytes[n] = Byte(number.groups[n], FALSE) /\ Begun(n - 1)

LebInv ==
  /\ TypeOK
  /\ pc = "put" => bytes = <<>> /\ size = 0 /\ v = Rest(0)
  /\ pc = "loop" => /\ Len(bytes) < Groups /\ size = 0 /\ v = Rest(Len(bytes))
                    /\ Begun(Len(bytes))
  /\ pc = "size" => Complete /\ size < Len(bytes) /\ v = Rest(size)
  /\ pc = "done" => Complete /\ size = Len(bytes)

(***************************************************************************)
(* Numbers and shifts.                                                     *)
(***************************************************************************)
LEMMA NumberFacts ==
  ASSUME number \in Numbers
  PROVE  /\ number.signed \in BOOLEAN
         /\ number.groups \in [1 .. Groups -> Group]
         /\ \A k \in 1 .. Groups : number.groups[k] \in Group
         /\ Fill(number) \in {0, 127}
         /\ number.signed => Fill(number) = number.groups[Groups]
         /\ ~number.signed => Fill(number) = 0
  <1>1. /\ number.signed \in BOOLEAN
        /\ number.groups \in [1 .. Groups -> Group]
        /\ number.groups[Groups] \in IF number.signed THEN {0, 127} ELSE {0, 1}
    BY NumbersAssumption
  <1>2. \A k \in 1 .. Groups : number.groups[k] \in Group
    BY <1>1
  <1>3. /\ Fill(number) \in {0, 127}
        /\ number.signed => Fill(number) = number.groups[Groups]
        /\ ~number.signed => Fill(number) = 0
    BY <1>1 DEF Fill
  <1>4. QED
    BY <1>1, <1>2, <1>3

LEMMA RestFacts ==
  ASSUME number \in Numbers, NEW n \in 0 .. Groups
  PROVE  /\ Rest(n) \in [1 .. Groups -> Group]
         /\ n < Groups => /\ Rest(n)[1] = number.groups[n + 1]
                          /\ Shift(Rest(n)) = Rest(n + 1)
         /\ Rest(0) = number.groups
  <1>1. Rest(n) \in [1 .. Groups -> Group]
    <2>1. \A k \in 1 .. Groups : k + n <= Groups => number.groups[k + n] \in Group
      BY NumberFacts DEF Groups
    <2>2. Fill(number) \in Group
      BY NumberFacts DEF Group
    <2>3. QED
      BY <2>1, <2>2 DEF Rest
  <1>2. ASSUME n < Groups PROVE Rest(n)[1] = number.groups[n + 1]
    BY <1>2 DEF Rest, Groups
  <1>3. ASSUME n < Groups PROVE Shift(Rest(n)) = Rest(n + 1)
    <2>1. ASSUME NEW k \in 1 .. Groups PROVE Shift(Rest(n))[k] = Rest(n + 1)[k]
      BY <1>3 DEF Rest, Shift, Groups
    <2>2. QED
      BY <2>1 DEF Shift, Rest
  <1>4. Rest(0) = number.groups
    <2>1. \A k \in 1 .. Groups : Rest(0)[k] = number.groups[k]
      BY DEF Rest, Groups
    <2>2. Rest(0) = [k \in 1 .. Groups |-> Rest(0)[k]]
      BY Zenon DEF Rest
    <2>3. number.groups = [k \in 1 .. Groups |-> number.groups[k]]
      <3>1. number.groups \in [1 .. Groups -> Group]
        BY NumberFacts
      <3>2. QED
        BY <3>1, Zenon
    <2>4. [k \in 1 .. Groups |-> Rest(0)[k]] = [k \in 1 .. Groups |-> number.groups[k]]
      BY <2>1, Zenon
    <2>5. QED
      BY <2>2, <2>3, <2>4, Zenon
  <1>5. QED
    BY <1>1, <1>2, <1>3, <1>4

\* What is left after n groups is g throughout.
LEMMA RestIsAll ==
  ASSUME number \in Numbers, NEW n \in 0 .. Groups, NEW g
  PROVE  All(Rest(n), g) <=>
           /\ \A k \in n + 1 .. Groups : number.groups[k] = g
           /\ n > 0 => Fill(number) = g
  <1>1. ASSUME All(Rest(n), g)
        PROVE  /\ \A k \in n + 1 .. Groups : number.groups[k] = g
               /\ n > 0 => Fill(number) = g
    <2>1. ASSUME NEW k \in n + 1 .. Groups PROVE number.groups[k] = g
      <3>1. k - n \in 1 .. Groups /\ (k - n) + n = k /\ k <= Groups
        BY DEF Groups
      <3>2. Rest(n)[k - n] = number.groups[k]
        BY <3>1 DEF Rest
      <3>3. QED
        BY <1>1, <3>1, <3>2 DEF All
    <2>2. ASSUME n > 0 PROVE Fill(number) = g
      <3>1. Groups \in 1 .. Groups /\ ~(Groups + n <= Groups)
        BY <2>2 DEF Groups
      <3>2. Rest(n)[Groups] = Fill(number)
        BY <3>1 DEF Rest
      <3>3. QED
        BY <1>1, <3>1, <3>2 DEF All
    <2>3. QED
      BY <2>1, <2>2
  <1>2. ASSUME \A k \in n + 1 .. Groups : number.groups[k] = g, n > 0 => Fill(number) = g,
               NEW k \in 1 .. Groups
        PROVE  Rest(n)[k] = g
    BY <1>2 DEF Rest, Groups
  <1>3. QED
    BY <1>1, <1>2 DEF All

\* The tenth group is the last at the latest.
LEMMA LastGroupEnds ==
  ASSUME number \in Numbers
  PROVE  EndsAt(Groups)
  <1>1. Groups \in 0 .. Groups /\ Groups \in 1 .. Groups /\ Groups > 0
    BY DEF Groups
  <1>2. \A g : All(Rest(Groups), g) <=> Fill(number) = g
    <2>1. Groups + 1 .. Groups = {}
      BY DEF Groups
    <2>2. QED
      BY <1>1, <2>1, RestIsAll
  <1>3. QED
    BY <1>2, NumberFacts DEF EndsAt, Ends, SignBit

\* The test before the loop, and the one in SizeULEB, look above the first group
\* and so agree with the test after a shift.
LEMMA AboveIsRest ==
  ASSUME number \in Numbers, NEW n \in 0 .. Groups - 1, NEW g, g = 0 \/ number.signed
  PROVE  Above(Rest(n), g) <=> All(Rest(n + 1), g)
  <1>1. \A k \in 2 .. Groups : Rest(n)[k] = Rest(n + 1)[k - 1]
    BY DEF Rest, Groups
  <1>2. Rest(n + 1)[Groups] = Fill(number)
    BY DEF Rest, Groups
  <1>3. ASSUME Above(Rest(n), g) PROVE All(Rest(n + 1), g)
    <2>1. ASSUME NEW k \in 1 .. Groups - 1 PROVE Rest(n + 1)[k] = g
      <3>1. k + 1 \in 2 .. Groups /\ (k + 1) - 1 = k
        BY DEF Groups
      <3>2. QED
        BY <1>1, <1>3, <3>1 DEF Above
    <2>2. Groups \in 2 .. Groups
      BY DEF Groups
    <2>3. Rest(n)[Groups] = g
      BY <1>3, <2>2 DEF Above
    <2>4. Rest(n)[Groups] = IF n = 0 THEN number.groups[Groups] ELSE Fill(number)
      BY DEF Rest, Groups
    <2>5. Fill(number) = g
      BY <2>3, <2>4, NumberFacts
    <2>6. QED
      BY <1>2, <2>1, <2>5 DEF All, Groups
  <1>4. ASSUME All(Rest(n + 1), g), NEW k \in 2 .. Groups PROVE Rest(n)[k] = g
    BY <1>1, <1>4 DEF All, Groups
  <1>5. QED
    BY <1>3, <1>4 DEF Above

LEMMA SmallEnds ==
  ASSUME number \in Numbers, v = Rest(0)
  PROVE  Small <=> EndsAt(1)
  <1>1. 0 \in 0 .. Groups - 1 /\ 0 \in 0 .. Groups /\ 0 < Groups /\ 0 + 1 = 1
    BY DEF Groups
  <1>2. v[1] = number.groups[1] /\ v[1] \in Nat
    <2>1. Rest(0)[1] = number.groups[1]
      BY <1>1, RestFacts
    <2>2. number.groups[1] \in Nat
      <3>1. 1 \in 1 .. Groups
        BY DEF Groups
      <3>2. number.groups[1] \in Group
        BY <3>1, NumberFacts
      <3>3. QED
        BY <3>2 DEF Group
    <2>3. QED
      BY <2>1, <2>2
  <1>3. \A g : g = 0 \/ number.signed => (Above(v, g) <=> All(Rest(1), g))
    BY <1>1, AboveIsRest
  <1>4. QED
    BY <1>2, <1>3, NumberFacts DEF Small, EndsAt, Ends, SignBit

LEMMA CountedEnds ==
  ASSUME number \in Numbers, NEW n \in 0 .. Groups - 1, v = Rest(n)
  PROVE  Counted(v) <=> EndsAt(n + 1)
  <1>1. n \in 0 .. Groups /\ n < Groups
    BY DEF Groups
  <1>2. v[1] = number.groups[n + 1] /\ Shift(v) = Rest(n + 1)
    BY <1>1, RestFacts
  <1>3. Above(v, 0) <=> All(Rest(n + 1), 0)
    BY AboveIsRest
  <1>4. QED
    BY <1>2, <1>3 DEF Counted, EndsAt, Ends

(***************************************************************************)
(* A reader extends the last group to the number just when it may end.     *)
(***************************************************************************)
LEMMA EndsMeaning ==
  ASSUME number \in Numbers, NEW n \in 1 .. Groups
  PROVE  EndsAt(n) <=>
           \A k \in n + 1 .. Groups :
             number.groups[k] = IF number.signed /\ SignBit(number.groups[n]) THEN 127 ELSE 0
  <1>1. n \in 0 .. Groups /\ n > 0
    BY DEF Groups
  <1>2. \A g : All(Rest(n), g) <=> /\ \A k \in n + 1 .. Groups : number.groups[k] = g
                                   /\ Fill(number) = g
    BY <1>1, RestIsAll
  <1>3. CASE n = Groups
    BY <1>3, LastGroupEnds DEF Groups
  <1>4. CASE n # Groups
    <2>1. Groups \in n + 1 .. Groups
      BY <1>4 DEF Groups
    <2>2. CASE ~number.signed
      BY <1>2, <2>2, NumberFacts DEF EndsAt, Ends
    <2>3. CASE number.signed /\ SignBit(number.groups[n])
      BY <1>2, <2>1, <2>3, NumberFacts DEF EndsAt, Ends
    <2>4. CASE number.signed /\ ~SignBit(number.groups[n])
      BY <1>2, <2>1, <2>4, NumberFacts DEF EndsAt, Ends
    <2>5. QED
      BY <2>2, <2>3, <2>4, NumberFacts
  <1>5. QED
    BY <1>3, <1>4

LEMMA ReadIff ==
  ASSUME number \in Numbers, NEW n \in 1 .. Groups, NEW bs, Len(bs) = n,
         \A k \in 1 .. n : bs[k].group = number.groups[k]
  PROVE  Read(bs) = number.groups <=> EndsAt(n)
  <1> DEFINE fill == IF number.signed /\ SignBit(number.groups[n]) THEN 127 ELSE 0
  <1>1. bs[n].group = number.groups[n]
    BY DEF Groups
  <1>2. \A k \in 1 .. Groups : k > n => Read(bs)[k] = fill
    BY <1>1 DEF Read
  <1>3. ASSUME NEW k \in 1 .. n PROVE Read(bs)[k] = number.groups[k]
    <2>1. k \in 1 .. Groups /\ ~(k > n) /\ bs[k].group = number.groups[k]
      BY DEF Groups
    <2>2. CASE k = Groups /\ number.signed
      <3>1. number.groups[k] \in {0, 127}
        BY <2>2, NumberFacts
      <3>2. Read(bs)[k] = IF number.groups[k] % 2 = 1 THEN 127 ELSE 0
        BY <2>1, <2>2 DEF Read
      <3>3. 0 % 2 = 0 /\ 127 % 2 = 1
        OBVIOUS
      <3>4. QED
        BY <3>1, <3>2, <3>3
    <2>3. CASE ~(k = Groups /\ number.signed)
      BY <2>1, <2>3 DEF Read
    <2>4. QED
      BY <2>2, <2>3
  <1>4. Read(bs) = number.groups <=> \A k \in 1 .. Groups : Read(bs)[k] = number.groups[k]
    <2>1. Read(bs) = [k \in 1 .. Groups |-> Read(bs)[k]]
      BY DEF Read
    <2>2. number.groups = [k \in 1 .. Groups |-> number.groups[k]]
      <3>1. number.groups \in [1 .. Groups -> Group]
        BY NumberFacts
      <3>2. QED
        BY <3>1, Zenon
    <2>3. QED
      BY <2>1, <2>2
  <1>5. \A k \in 1 .. Groups : ~(k > n) => k \in 1 .. n
    BY DEF Groups
  <1>6. \A k : k \in n + 1 .. Groups <=> k \in 1 .. Groups /\ k > n
    BY SMTT(40) DEF Groups
  <1>7. Read(bs) = number.groups <=> \A k \in n + 1 .. Groups : number.groups[k] = fill
    <2>1. \A k \in 1 .. Groups :
            Read(bs)[k] = number.groups[k] <=> (k > n => number.groups[k] = fill)
      BY <1>2, <1>3, <1>5
    <2>2. QED
      BY <1>4, <1>6, <2>1
  <1>8. QED
    BY <1>7, EndsMeaning

(***************************************************************************)
(* The invariant.                                                          *)
(***************************************************************************)
LEMMA Same ==
  ASSUME number' = number, NEW n
  PROVE  Rest(n)' = Rest(n) /\ (EndsAt(n)' <=> EndsAt(n))
  <1>1. Fill(number)' = Fill(number)
    BY DEF Fill
  <1>2. Rest(n)' = Rest(n)
    BY <1>1 DEF Rest
  <1>3. \A g : All(Rest(n), g)' <=> All(Rest(n), g)
    BY <1>2 DEF All
  <1>4. QED
    BY <1>2, <1>3 DEF EndsAt, Ends

\* One more byte: the last one, or one that a longer encoding needs.
LEMMA Written ==
  ASSUME TypeOK, number' = number, NEW n \in 0 .. Groups - 1, Len(bytes) = n, Begun(n),
         NEW more \in BOOLEAN, bytes' = Append(bytes, Byte(number.groups[n + 1], more)),
         more <=> ~EndsAt(n + 1)
  PROVE  /\ bytes' \in Seq([group : Group, more : BOOLEAN])
         /\ ~more => Complete'
         /\ more => Begun(n + 1)' /\ Len(bytes') = n + 1 /\ n + 1 < Groups
  <1>1. n + 1 \in 1 .. Groups /\ number.groups[n + 1] \in Group
    BY NumberFacts DEF TypeOK, Groups
  <1>2. Byte(number.groups[n + 1], more) \in [group : Group, more : BOOLEAN]
    BY <1>1 DEF Byte
  <1>3. bytes \in Seq([group : Group, more : BOOLEAN])
    BY DEF TypeOK
  <1>4. /\ bytes' \in Seq([group : Group, more : BOOLEAN])
        /\ Len(bytes') = n + 1
        /\ bytes'[n + 1] = Byte(number.groups[n + 1], more)
        /\ \A k \in 1 .. n : bytes'[k] = bytes[k]
    BY <1>2, <1>3
  <1>5. \A k \in 1 .. n : bytes'[k] = Byte(number.groups[k], TRUE) /\ ~EndsAt(k)'
    BY <1>4, Same DEF Begun
  <1>6. \A k : Byte(number.groups[k], TRUE)' = Byte(number.groups[k], TRUE)
    BY DEF Byte
  <1>7. Begun(n)'
    BY <1>5, <1>6 DEF Begun
  <1>8. ASSUME ~more PROVE Complete'
    <2>1. EndsAt(n + 1)'
      BY <1>8, Same
    <2>2. bytes'[n + 1] = Byte(number.groups[n + 1], FALSE)'
      BY <1>4, <1>8 DEF Byte
    <2>3. (n + 1) - 1 = n
      OBVIOUS
    <2>4. QED
      BY <1>1, <1>4, <1>7, <2>1, <2>2, <2>3 DEF Complete
  <1>9. ASSUME more PROVE Begun(n + 1)' /\ n + 1 < Groups
    <2>1. ~EndsAt(n + 1) /\ ~EndsAt(n + 1)'
      BY <1>9, Same
    <2>2. number \in Numbers
      BY DEF TypeOK
    <2>3. n + 1 < Groups
      BY <2>1, <2>2, LastGroupEnds DEF Groups
    <2>4. bytes'[n + 1] = Byte(number.groups[n + 1], TRUE)'
      BY <1>4, <1>9 DEF Byte
    <2>5. \A k \in 1 .. n + 1 : k \in 1 .. n \/ k = n + 1
      OBVIOUS
    <2>6. QED
      BY <1>7, <2>1, <2>3, <2>4, <2>5 DEF Begun
  <1>10. QED
    BY <1>4, <1>8, <1>9

\* A count below another that is at most ten.
LEMMA Below ==
  ASSUME NEW m \in Nat, NEW l \in 1 .. Groups, m < l
  PROVE  /\ m \in 0 .. Groups - 1 /\ m \in 0 .. Groups
         /\ m + 1 \in 1 .. l /\ m + 1 \in 0 .. Groups
  BY DEF Groups

LEMMA Within ==
  ASSUME NEW l \in 0 .. Groups
  PROVE  l <= Groups /\ \A k \in 1 .. l - 1 : k \in 1 .. Groups /\ k \in 1 .. l
  BY DEF Groups

LEMMA InitInv == Init => LebInv
  <1> SUFFICES ASSUME Init PROVE LebInv
    OBVIOUS
  <1>1. v = Rest(0) /\ Rest(0) \in [1 .. Groups -> Group]
    BY RestFacts DEF Init, Groups
  <1>2. <<>> \in Seq([group : Group, more : BOOLEAN])
    OBVIOUS
  <1>3. QED
    BY <1>1, <1>2 DEF Init, LebInv, TypeOK

LEMMA StepInv == LebInv /\ [Next]_vars => LebInv'
  <1> SUFFICES ASSUME LebInv, [Next]_vars PROVE LebInv'
    OBVIOUS
  <1>n. number \in Numbers /\ TypeOK
    BY DEF LebInv, TypeOK
  <1>1. Rest(0) = number.groups /\ \A n \in 0 .. Groups : Rest(n) \in [1 .. Groups -> Group]
    BY <1>n, RestFacts DEF Groups
  <1>2. CASE Fast
    <2>1. v = Rest(0) /\ bytes = <<>> /\ size = 0 /\ number' = number
      BY <1>2 DEF Fast, LebInv
    <2>2. EndsAt(1) /\ v[1] = number.groups[1]
      BY <1>2, <1>n, <1>1, <2>1, SmallEnds DEF Fast
    <2>3. bytes' = Append(bytes, Byte(number.groups[0 + 1], FALSE))
      <3>1. \A x : Append(<<>>, x) = <<x>>
        OBVIOUS
      <3>2. 0 + 1 = 1
        OBVIOUS
      <3>3. bytes' = <<Byte(number.groups[1], FALSE)>>
        BY <1>2, <2>2 DEF Fast
      <3>4. QED
        BY <2>1, <3>1, <3>2, <3>3
    <2>4. Begun(0) /\ 0 \in 0 .. Groups - 1 /\ Len(bytes) = 0 /\ 0 + 1 = 1
      BY <2>1 DEF Begun, Groups
    <2>5. Complete' /\ bytes' \in Seq([group : Group, more : BOOLEAN])
      <3>1. FALSE <=> ~EndsAt(0 + 1)
        BY <2>2, <2>4
      <3>2. QED
        BY <1>n, <2>1, <2>3, <2>4, <3>1, Written
    <2>6. Len(bytes') = 1
      BY <2>1, <2>3
    <2>7. /\ v' = Rest(0)' /\ v' \in [1 .. Groups -> Group]
          /\ pc' = "size" /\ size' = 0
      BY <1>2, <1>1, <2>1, Same DEF Fast, Groups
    <2>8. QED
      BY <1>n, <2>1, <2>5, <2>6, <2>7 DEF LebInv, TypeOK
  <1>3. CASE Slow
    <2>1. v = Rest(0) /\ bytes = <<>> /\ size = 0
      BY <1>3 DEF Slow, LebInv
    <2>2. /\ number' = number /\ v' = Rest(0)' /\ bytes' = <<>> /\ size' = 0 /\ pc' = "loop"
          /\ v' = v /\ bytes' = bytes
      BY <1>3, <2>1, Same DEF Slow
    <2>3. Begun(0)' /\ Len(bytes') = 0 /\ 0 < Groups
      BY <2>2 DEF Begun, Groups
    <2>4. QED
      BY <1>n, <2>2, <2>3 DEF LebInv, TypeOK
  <1>4. CASE PutByte
    <2>1. Len(bytes) \in 0 .. Groups - 1
      <3>1. Len(bytes) < Groups /\ Len(bytes) \in Nat
        BY <1>4 DEF PutByte, LebInv, TypeOK
      <3>2. Groups \in 1 .. Groups
        BY DEF Groups
      <3>3. QED
        BY <3>1, <3>2, Below
    <2>p. PICK n \in 0 .. Groups - 1 : n = Len(bytes)
      BY <2>1
    <2>b. PICK last \in BOOLEAN : last = Ends(v[1], Shift(v))
      <3>1. Ends(v[1], Shift(v)) \in BOOLEAN
        BY DEF Ends, All
      <3>2. QED
        BY <3>1, Zenon
    <2>2. /\ n < Groups /\ size = 0 /\ v = Rest(n) /\ Begun(n) /\ number' = number
      BY <1>4, <2>p DEF PutByte, LebInv, TypeOK
    <2>3. n \in 0 .. Groups /\ n + 1 \in 0 .. Groups
      BY DEF Groups
    <2>4. v[1] = number.groups[n + 1] /\ Shift(v) = Rest(n + 1)
      BY <1>n, <2>2, <2>3, RestFacts
    <2>5. last <=> EndsAt(n + 1)
      BY <2>b, <2>4 DEF EndsAt
    <2>6. bytes' = Append(bytes, Byte(number.groups[n + 1], ~last))
      <3>1. bytes' = Append(bytes, Byte(v[1], ~Ends(v[1], Shift(v))))
        BY <1>4, Zenon DEF PutByte
      <3>2. bytes' = Append(bytes, Byte(v[1], ~last))
        BY <2>b, <3>1, Zenon
      <3>3. QED
        BY <2>4, <3>2, Zenon
    <2>7. /\ bytes' \in Seq([group : Group, more : BOOLEAN])
          /\ last => Complete'
          /\ ~last => Begun(n + 1)' /\ Len(bytes') = n + 1 /\ n + 1 < Groups
      <3>1. (~last) \in BOOLEAN
        OBVIOUS
      <3>2. (~last) <=> ~EndsAt(n + 1)
        BY <2>5
      <3>3. QED
        BY <1>n, <2>p, <2>2, <2>6, <3>1, <3>2, Written
    <2>8. /\ v' = IF last THEN number.groups ELSE Rest(n + 1)
          /\ pc' = IF last THEN "size" ELSE "loop"
          /\ size' = 0
      BY <1>4, <2>b, <2>2, <2>4 DEF PutByte
    <2>9. v' \in [1 .. Groups -> Group]
      BY <1>n, <1>1, <2>3, <2>8, NumberFacts
    <2>10. CASE last
      <3>1. Complete' /\ v' = Rest(0)' /\ pc' = "size"
        BY <1>1, <2>2, <2>7, <2>8, <2>10, Same
      <3>2. 0 < Len(bytes')
        BY <3>1 DEF Complete
      <3>3. QED
        BY <1>n, <2>2, <2>7, <2>8, <2>9, <3>1, <3>2 DEF LebInv, TypeOK
    <2>11. CASE ~last
      <3>1. v' = Rest(n + 1)' /\ pc' = "loop" /\ Begun(n + 1)' /\ Len(bytes') = n + 1
        BY <2>2, <2>7, <2>8, <2>11, Same
      <3>2. Rest(Len(bytes))' = Rest(n + 1)' /\ (Begun(Len(bytes))' <=> Begun(n + 1)')
        BY <3>1
      <3>3. QED
        BY <1>n, <2>2, <2>7, <2>8, <2>9, <2>11, <3>1, <3>2 DEF LebInv, TypeOK
    <2>12. QED
      BY <2>10, <2>11
  <1>5. CASE CountByte
    <2>1. /\ Complete /\ size < Len(bytes) /\ v = Rest(size) /\ size \in Nat
          /\ number' = number /\ bytes' = bytes /\ size' = size + 1
      BY <1>5 DEF CountByte, LebInv, TypeOK
    <2>2. /\ Len(bytes) \in 1 .. Groups /\ EndsAt(Len(bytes))
          /\ \A k \in 1 .. Len(bytes) - 1 : ~EndsAt(k)
      BY <2>1 DEF Complete, Begun
    <2>3. /\ size \in 0 .. Groups - 1 /\ size \in 0 .. Groups
          /\ size + 1 \in 1 .. Len(bytes) /\ size + 1 \in 0 .. Groups
      <3>1. size \in Nat /\ Len(bytes) \in 1 .. Groups /\ size < Len(bytes)
        BY <2>1, <2>2
      <3>2. QED
        BY <3>1, Below
    <2>4. Counted(v) <=> EndsAt(size + 1)
      BY <1>n, <2>1, <2>3, CountedEnds
    <2>5. Counted(v) <=> size + 1 = Len(bytes)
      BY <2>2, <2>3, <2>4
    <2>6. Shift(v) = Rest(size + 1) /\ Rest(size + 1) \in [1 .. Groups -> Group]
      BY <1>n, <1>1, <2>1, <2>3, RestFacts DEF Groups
    <2>7. Complete'
      BY <2>1, Same DEF Complete, Begun, Byte
    <2>8. CASE Counted(v)
      <3>1. pc' = "done" /\ v' = v
        BY <1>5, <2>8 DEF CountByte
      <3>2. QED
        BY <1>n, <2>1, <2>5, <2>7, <2>8, <3>1 DEF LebInv, TypeOK
    <2>9. CASE ~Counted(v)
      <3>1. pc' = "size" /\ v' = Rest(size + 1)
        BY <1>5, <2>6, <2>9 DEF CountByte
      <3>2. v' = Rest(size)' /\ size' < Len(bytes')
        BY <2>1, <2>2, <2>3, <2>5, <2>9, <3>1, Same
      <3>3. QED
        BY <1>n, <2>1, <2>6, <2>7, <3>1, <3>2 DEF LebInv, TypeOK
    <2>10. QED
      BY <2>8, <2>9
  <1>6. CASE UNCHANGED vars
    <2>1. \A n : Rest(n)' = Rest(n) /\ (EndsAt(n)' <=> EndsAt(n))
      BY <1>6, Same DEF vars
    <2>2. QED
      BY <1>6, <2>1 DEF vars, LebInv, TypeOK, Complete, Begun, Byte
  <1>7. QED
    BY <1>2, <1>3, <1>4, <1>5, <1>6 DEF Next

LEMMA InvHolds == Spec => []LebInv
  <1>1. Init => LebInv
    BY InitInv
  <1>2. LebInv /\ [Next]_vars => LebInv'
    BY StepInv
  <1>3. QED
    BY <1>1, <1>2, PTL DEF Spec

(***************************************************************************)
(* What the invariant says of the bytes.                                   *)
(***************************************************************************)
\* The variables have their types: at most ten groups, each with its bit.
THEOREM TypeCorrect == Spec => []TypeOK
  <1>1. LebInv => TypeOK
    BY DEF LebInv
  <1>2. QED
    BY <1>1, InvHolds, PTL

LEMMA EncodedFacts ==
  ASSUME LebInv, Encoded
  PROVE  /\ Complete /\ number \in Numbers
         /\ bytes \in Seq([group : Group, more : BOOLEAN])
         /\ \A k \in 1 .. Len(bytes) : /\ bytes[k].group = number.groups[k]
                                       /\ bytes[k].more <=> k < Len(bytes)
  <1>1. Complete /\ TypeOK
    BY DEF LebInv, Encoded
  <1>2. Len(bytes) \in Nat
    BY <1>1 DEF TypeOK
  <1>3. ASSUME NEW k \in 1 .. Len(bytes)
        PROVE  /\ bytes[k].group = number.groups[k]
               /\ bytes[k].more <=> k < Len(bytes)
    <2>1. CASE k = Len(bytes)
      BY <1>1, <1>2, <2>1 DEF Complete, Byte
    <2>2. CASE k # Len(bytes)
      <3>1. k \in 1 .. Len(bytes) - 1 /\ k < Len(bytes)
        BY <1>2, <2>2
      <3>2. bytes[k] = Byte(number.groups[k], TRUE)
        BY <1>1, <3>1 DEF Complete, Begun
      <3>3. QED
        BY <3>1, <3>2 DEF Byte
    <2>3. QED
      BY <2>1, <2>2
  <1>4. QED
    BY <1>1, <1>3 DEF TypeOK

\* The bytes that EmitULEB or EmitSLEB writes are read back as the number.
THEOREM EncodersReadBack == Spec => []ReadsBack
  <1>1. ASSUME LebInv, Encoded PROVE Read(bytes) = number.groups
    <2>1. Len(bytes) \in 1 .. Groups /\ EndsAt(Len(bytes))
      BY <1>1, EncodedFacts DEF Complete
    <2>2. QED
      BY <1>1, <2>1, EncodedFacts, ReadIff
  <1>2. LebInv => ReadsBack
    BY <1>1, EncodedFacts DEF ReadsBack
  <1>3. QED
    BY <1>2, InvHolds, PTL

\* No proper prefix is read as the number: the encoding is the canonical one.
THEOREM EncodersShortest == Spec => []Shortest
  <1>1. ASSUME LebInv, Encoded, NEW n \in 1 .. Len(bytes) - 1
        PROVE  Read(SubSeq(bytes, 1, n)) # number.groups
    <2>1. Len(bytes) \in 1 .. Groups /\ ~EndsAt(n)
      BY <1>1, EncodedFacts DEF Complete, Begun
    <2>2. n \in 1 .. Groups /\ n \in 1 .. Len(bytes)
      <3>1. \A l \in 1 .. Groups : l \in 0 .. Groups
        BY DEF Groups
      <3>2. QED
        BY <2>1, <3>1, Within
    <2>3. /\ Len(SubSeq(bytes, 1, n)) = n
          /\ \A k \in 1 .. n : SubSeq(bytes, 1, n)[k] = bytes[k] /\ k \in 1 .. Len(bytes)
      BY <1>1, <2>1, <2>2, EncodedFacts
    <2>4. \A k \in 1 .. n : SubSeq(bytes, 1, n)[k].group = number.groups[k]
      BY <1>1, <2>3, EncodedFacts
    <2>5. QED
      BY <1>1, <2>1, <2>2, <2>3, <2>4, EncodedFacts, ReadIff
  <1>2. LebInv => Shortest
    BY <1>1 DEF Shortest
  <1>3. QED
    BY <1>2, InvHolds, PTL

(***************************************************************************)
(* Widths.                                                                 *)
(***************************************************************************)
LEMMA FiveGroups ==
  ASSUME number \in Numbers, HasBits(32) \/ (number.signed /\ HasBits(33))
  PROVE  EndsAt(5)
  <1>1. /\ 31 \div 7 = 4 /\ 31 % 7 = 3 /\ 32 \div 7 = 4 /\ 32 % 7 = 4
        /\ 32 - 1 = 31 /\ 33 - 1 = 32
    OBVIOUS
  <1>2. PowersOf2[3 + 1] = 8 /\ PowersOf2[4 + 1] = 16 /\ 4 + 1 = 5 /\ 4 + 2 = 6
    BY DEF PowersOf2
  <1>3. PICK fill \in IF number.signed THEN {0, 127} ELSE {0}, low \in {8, 16} :
          /\ \A k \in 6 .. Groups : number.groups[k] = fill
          /\ IF fill = 0 THEN number.groups[5] < low ELSE number.groups[5] >= 128 - low
    <2>1. CASE HasBits(32) /\ number.signed
      BY <1>1, <1>2, <2>1 DEF HasBits
    <2>2. CASE HasBits(32) /\ ~number.signed
      BY <1>1, <1>2, <2>2 DEF HasBits
    <2>3. CASE HasBits(33) /\ number.signed
      BY <1>1, <1>2, <2>3 DEF HasBits
    <2>4. QED
      BY <2>1, <2>2, <2>3, NumberFacts
  <1>4. 5 \in 1 .. Groups /\ 5 + 1 = 6
    BY DEF Groups
  <1>5. number.groups[5] \in 0 .. 127
    BY <1>4, NumberFacts DEF Group
  <1>6. fill = IF number.signed /\ SignBit(number.groups[5]) THEN 127 ELSE 0
    BY <1>3, <1>5 DEF SignBit
  <1>7. QED
    BY <1>3, <1>4, <1>6, EndsMeaning

\* Ten bytes are always enough, and five for the widths kMaxULEB32, kMaxSLEB32
\* and kMaxSLEB33 stand for: the unchecked loops stay in the reserved room.
THEOREM EncodersWithinMax == Spec => []WithinMax
  <1>1. ASSUME LebInv PROVE WithinMax
    <2>1. number \in Numbers /\ Len(bytes) \in Nat
      BY <1>1 DEF LebInv, TypeOK
    <2>2. Len(bytes) \in 0 .. Groups /\ \A k \in 1 .. Len(bytes) - 1 : ~EndsAt(k)
      <3>1. CASE pc = "put"
        <4>1. Len(bytes) = 0
          BY <1>1, <3>1 DEF LebInv
        <4>2. QED
          BY <4>1 DEF Groups
      <3>2. CASE pc = "loop"
        <4>1. Len(bytes) < Groups /\ \A k \in 1 .. Len(bytes) : ~EndsAt(k)
          BY <1>1, <3>2 DEF LebInv, Begun
        <4>2. Len(bytes) \in 0 .. Groups /\ \A k \in 1 .. Len(bytes) - 1 : k \in 1 .. Len(bytes)
          <5>1. Groups \in 1 .. Groups
            BY DEF Groups
          <5>2. Len(bytes) \in 0 .. Groups
            BY <2>1, <4>1, <5>1, Below
          <5>3. QED
            BY <5>2, Within
        <4>3. QED
          BY <4>1, <4>2
      <3>3. CASE pc \in {"size", "done"}
        <4>1. Complete
          BY <1>1, <3>3 DEF LebInv
        <4>2. Len(bytes) \in 1 .. Groups /\ \A k \in 1 .. Len(bytes) - 1 : ~EndsAt(k)
          BY <4>1 DEF Complete, Begun
        <4>3. QED
          BY <4>2 DEF Groups
      <3>4. QED
        BY <1>1, <3>1, <3>2, <3>3 DEF LebInv, TypeOK
    <2>3. ASSUME HasBits(32) \/ (number.signed /\ HasBits(33)) PROVE Len(bytes) <= 5
      <3>1. EndsAt(5)
        BY <2>1, <2>3, FiveGroups
      <3>2. ~(5 \in 1 .. Len(bytes) - 1)
        BY <2>2, <3>1
      <3>3. QED
        BY <2>1, <3>2
    <2>4. Len(bytes) <= Groups
      BY <2>2, Within
    <2>5. QED
      BY <2>3, <2>4 DEF WithinMax
  <1>2. QED
    BY <1>1, InvHolds, PTL

\* SizeULEB and SizeSLEB, which test at another place of the loop, count what
\* the encoders write.
THEOREM SizesCorrect == Spec => []SizesAgree
  <1>1. LebInv => SizesAgree
    BY DEF LebInv, SizesAgree
  <1>2. QED
    BY <1>1, InvHolds, PTL
=============================================================================
