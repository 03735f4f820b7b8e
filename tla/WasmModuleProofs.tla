-------------------------- MODULE WasmModuleProofs --------------------------
(***************************************************************************)
(* What is assembled is what the client meant, for every number of         *)
(* entities, references and bodies: the invariant Consistent relates the   *)
(* index spaces, the handles and what was written, and out is a function   *)
(* of the state.  The sections are sequences that a loop selects or        *)
(* std::sort arranges, so the proofs begin with both.                      *)
(***************************************************************************)
EXTENDS WasmModule, FiniteSetTheorems, WellFoundedInduction, TLAPS

(***************************************************************************)
(* Induction, over sets of naturals: the library's induction theorem takes *)
(* an operator, this one takes a set.                                      *)
(***************************************************************************)
\* Every set of naturals has a least one.
LEMMA LeastNatural ==
  ASSUME NEW S, S \subseteq Nat, S # {}
  PROVE  \E m \in S : \A k \in S : m <= k
<1> DEFINE R == OpToRel(<, Nat)
<1>1. \A a, b \in Nat : a < b => <<a, b>> \in R BY DEF OpToRel
<1>2. IsWellFoundedOn(R, Nat) BY NatLessThanWellFounded
<1> HIDE DEF R
<1>3. PICK m \in S : \A k \in S : ~ (<<k, m>> \in R) BY <1>2, WFMin
<1>4. ASSUME NEW k \in S PROVE m <= k
  <2>1. k \in Nat /\ m \in Nat /\ ~ (<<k, m>> \in R) BY <1>3
  <2>2. ~ (k < m) BY <2>1, <1>1, Zenon
  <2>3. QED BY <2>1, <2>2
<1>5. QED BY <1>3, <1>4

LEMMA Induction ==
  ASSUME NEW S, 0 \in S, \A n \in Nat : n \in S => n + 1 \in S
  PROVE  \A n \in Nat : n \in S
<1>1. SUFFICES ASSUME Nat \ S # {} PROVE FALSE OBVIOUS
<1>2. PICK m \in Nat \ S : \A k \in Nat \ S : m <= k BY <1>1, LeastNatural
<1>3. m - 1 \in Nat /\ m - 1 \in S BY <1>2
<1>4. QED BY <1>2, <1>3

\* A function that is defined from its value before: f[0] is a, and the n-th
\* step leads from f[n - 1] to f[n].
Iterates(f, N, V, a, step) ==
  f \in [0 .. N -> V] /\ f[0] = a /\ \A n \in 1 .. N : f[n] = step[n][f[n - 1]]

LEMMA RecursionExists ==
  ASSUME NEW N \in Nat, NEW V, NEW a \in V, NEW step \in [1 .. N -> [V -> V]]
  PROVE  \E f : Iterates(f, N, V, a, step)
<1> DEFINE S == {m \in Nat : m <= N => \E f : Iterates(f, m, V, a, step)}
<1>1. 0 \in S
  <2>1. Iterates([n \in 0 .. 0 |-> a], 0, V, a, step) BY DEF Iterates
  <2>2. QED BY <2>1
<1>2. ASSUME NEW m \in Nat, m \in S PROVE m + 1 \in S
  <2>1. SUFFICES ASSUME m + 1 <= N PROVE \E f : Iterates(f, m + 1, V, a, step) OBVIOUS
  <2>2. PICK f : Iterates(f, m, V, a, step) BY <1>2, <2>1
  <2> DEFINE g == [n \in 0 .. m + 1 |-> IF n <= m THEN f[n] ELSE step[n][f[n - 1]]]
  <2>3. m + 1 \in 1 .. N /\ f[m] \in V BY <2>1, <2>2 DEF Iterates
  <2>4. step[m + 1][f[m]] \in V BY <2>3
  <2>5. g \in [0 .. m + 1 -> V] BY <2>2, <2>4 DEF Iterates
  <2>6. ASSUME NEW n \in 1 .. m + 1 PROVE g[n] = step[n][g[n - 1]] BY <2>2 DEF Iterates
  <2>7. g[0] = a BY <2>2 DEF Iterates
  <2> HIDE DEF g
  <2>8. Iterates(g, m + 1, V, a, step) BY <2>5, <2>6, <2>7 DEF Iterates
  <2>9. QED BY <2>8
<1> HIDE DEF S
<1>3. N \in S BY <1>1, <1>2, Induction
<1>4. QED BY <1>3 DEF S

(***************************************************************************)
(* Selecting.                                                              *)
(***************************************************************************)
\* The loop that selects, iteration by iteration.
LEMMA SelectedSteps ==
  ASSUME NEW T, NEW s \in Seq(T), NEW S
  PROVE  \E f \in [0 .. Len(s) -> Seq(T)] :
           /\ f[0] = <<>> /\ Selected(s, S) = f[Len(s)]
           /\ \A n \in 1 .. Len(s) : f[n] = IF n \in S THEN Append(f[n - 1], s[n])
                                                       ELSE f[n - 1]
<1> DEFINE Body(h) == [n \in 0 .. Len(s) |->
                         IF n = 0 THEN <<>>
                         ELSE IF n \in S THEN Append(h[n - 1], s[n]) ELSE h[n - 1]]
           step == [n \in 1 .. Len(s) |-> [q \in Seq(T) |-> IF n \in S THEN Append(q, s[n]) ELSE q]]
           f == CHOOSE h : h = Body(h)
<1>1. step \in [1 .. Len(s) -> [Seq(T) -> Seq(T)]] OBVIOUS
<1>2. Len(s) \in Nat /\ <<>> \in Seq(T) OBVIOUS
<1>3. PICK g : Iterates(g, Len(s), Seq(T), <<>>, step)
  <2> HIDE DEF step
  <2>1. QED BY <1>1, <1>2, RecursionExists
<1>4. /\ g \in [0 .. Len(s) -> Seq(T)] /\ g[0] = <<>>
      /\ \A n \in 1 .. Len(s) : g[n] = step[n][g[n - 1]]
  BY <1>3 DEF Iterates
<1>5. ASSUME NEW n \in 1 .. Len(s)
      PROVE  g[n] = IF n \in S THEN Append(g[n - 1], s[n]) ELSE g[n - 1]
  <2>1. n - 1 \in 0 .. Len(s) BY <1>2
  <2>2. g[n - 1] \in Seq(T) BY <1>4, <2>1
  <2>3. g[n] = step[n][g[n - 1]] BY <1>4
  <2>4. QED BY <2>2, <2>3
<1>6. \A n \in 0 .. Len(s) : n # 0 => n \in 1 .. Len(s) BY <1>2
<1>7. g = Body(g)
  <2>1. ASSUME NEW n \in 0 .. Len(s) PROVE g[n] = Body(g)[n] BY <1>4, <1>5, <1>6
  <2>2. g = [n \in 0 .. Len(s) |-> g[n]] BY <1>4, Zenon
  <2>3. QED BY <2>1, <2>2
<1>8. f = Body(f) BY <1>7
<1>9. Selected(s, S) = f[Len(s)] BY DEF Selected
<1> HIDE DEF f
<1>10. DOMAIN f = 0 .. Len(s) BY <1>8
<1>11. ASSUME NEW n \in 0 .. Len(s)
       PROVE  f[n] = IF n = 0 THEN <<>>
                     ELSE IF n \in S THEN Append(f[n - 1], s[n]) ELSE f[n - 1]
  <2>1. f[n] = Body(f)[n] BY <1>8
  <2>2. QED BY <2>1
<1>12. f[0] = <<>> BY <1>2, <1>11
<1>13. \A n \in 1 .. Len(s) : f[n] = IF n \in S THEN Append(f[n - 1], s[n]) ELSE f[n - 1]
  BY <1>2, <1>11
<1> HIDE DEF Body
<1> DEFINE Q == {n \in Nat : n <= Len(s) => f[n] \in Seq(T)}
<1>14. 0 \in Q BY <1>2, <1>12
<1>15. ASSUME NEW n \in Nat, n \in Q PROVE n + 1 \in Q
  <2>1. SUFFICES ASSUME n + 1 <= Len(s) PROVE f[n + 1] \in Seq(T) OBVIOUS
  <2>2. n + 1 \in 1 .. Len(s) /\ s[n + 1] \in T /\ f[n] \in Seq(T) BY <1>2, <1>15, <2>1
  <2>3. f[n + 1] = IF n + 1 \in S THEN Append(f[n], s[n + 1]) ELSE f[n] BY <1>13, <2>2
  <2>4. QED BY <2>2, <2>3
<1> HIDE DEF Q
<1>16. \A n \in Nat : n \in Q BY <1>14, <1>15, Induction
<1>17. \A n \in 0 .. Len(s) : f[n] \in Seq(T) BY <1>2, <1>16 DEF Q
<1>18. f = [n \in 0 .. Len(s) |-> f[n]] BY <1>8, <1>10 DEF Body
<1>19. f \in [0 .. Len(s) -> Seq(T)] BY <1>17, <1>18
<1>20. QED BY <1>9, <1>12, <1>13, <1>19

\* at lists the members of S, n numbers, in order.
Lists(at, n, S) ==
  /\ at \in [1 .. n -> S]
  /\ \A i, j \in 1 .. n : i < j => at[i] < at[j]
  /\ \A m \in S : \E i \in 1 .. n : at[i] = m

LEMMA ListingExtends ==
  ASSUME NEW n \in Nat, NEW m \in Nat, NEW S, S \subseteq 1 .. m, NEW at, Lists(at, n, S)
  PROVE  Lists([k \in 1 .. n + 1 |-> IF k <= n THEN at[k] ELSE m + 1], n + 1, S \cup {m + 1})
<1> DEFINE new == [k \in 1 .. n + 1 |-> IF k <= n THEN at[k] ELSE m + 1]
<1>1. ASSUME NEW k \in 1 .. n PROVE at[k] \in S /\ at[k] \in 1 .. m /\ new[k] = at[k]
  <2>1. at[k] \in S BY DEF Lists
  <2>2. k \in 1 .. n + 1 /\ k <= n OBVIOUS
  <2>3. QED BY <2>1, <2>2
<1>2. new[n + 1] = m + 1 OBVIOUS
<1>3. \A k \in 1 .. n + 1 : k \in 1 .. n \/ k = n + 1 OBVIOUS
<1>4. new \in [1 .. n + 1 -> S \cup {m + 1}]
  <2>1. ASSUME NEW k \in 1 .. n + 1 PROVE new[k] \in S \cup {m + 1}
    BY <1>1, <1>2, <1>3
  <2>2. new = [k \in 1 .. n + 1 |-> new[k]] OBVIOUS
  <2> HIDE DEF new
  <2>3. QED BY <2>1, <2>2
<1> HIDE DEF new
<1>5. ASSUME NEW i \in 1 .. n + 1, NEW j \in 1 .. n + 1, i < j PROVE new[i] < new[j]
  <2>1. i \in 1 .. n BY <1>5
  <2>2. CASE j \in 1 .. n BY <1>1, <1>5, <2>1, <2>2 DEF Lists
  <2>3. CASE j = n + 1 BY <1>1, <1>2, <2>1, <2>3
  <2>4. QED BY <1>3, <2>2, <2>3
<1>6. ASSUME NEW l \in S \cup {m + 1} PROVE \E i \in 1 .. n + 1 : new[i] = l
  <2>1. CASE l \in S
    <3>1. PICK i \in 1 .. n : at[i] = l BY <2>1 DEF Lists
    <3>2. i \in 1 .. n + 1 /\ new[i] = l BY <1>1, <3>1
    <3>3. QED BY <3>2
  <2>2. CASE l = m + 1 BY <1>2, <2>2
  <2>3. QED BY <2>1, <2>2
<1>7. Lists(new, n + 1, S \cup {m + 1}) BY <1>4, <1>5, <1>6 DEF Lists
<1>8. QED BY <1>7 DEF new

\* at tells where in s the elements of q were found.
Picks(at, q, s, S) == Lists(at, Len(q), S) /\ \A n \in 1 .. Len(q) : q[n] = s[at[n]]

\* What is selected are the elements at the positions in S, in order.
LEMMA SelectedAt ==
  ASSUME NEW T, NEW s \in Seq(T), NEW S, S \subseteq 1 .. Len(s)
  PROVE  /\ Selected(s, S) \in Seq(T)
         /\ \E at : Picks(at, Selected(s, S), s, S)
<1>1. PICK f \in [0 .. Len(s) -> Seq(T)] :
        /\ f[0] = <<>> /\ Selected(s, S) = f[Len(s)]
        /\ \A n \in 1 .. Len(s) : f[n] = IF n \in S THEN Append(f[n - 1], s[n]) ELSE f[n - 1]
  BY SelectedSteps
<1>2. Len(s) \in Nat OBVIOUS
<1> DEFINE Q == {n \in Nat : n <= Len(s) => \E at : Picks(at, f[n], s, S \cap (1 .. n))}
<1>3. 0 \in Q
  <2>1. Picks(<<>>, f[0], s, S \cap (1 .. 0)) BY <1>1 DEF Picks, Lists
  <2>2. QED BY <2>1
<1>4. ASSUME NEW n \in Nat, n \in Q PROVE n + 1 \in Q
  <2>1. SUFFICES ASSUME n + 1 <= Len(s) PROVE \E at : Picks(at, f[n + 1], s, S \cap (1 .. n + 1))
    OBVIOUS
  <2>2. n \in 0 .. Len(s) /\ n + 1 \in 1 .. Len(s) /\ (n + 1) - 1 = n BY <1>2, <2>1
  <2>3. f[n] \in Seq(T) /\ s[n + 1] \in T BY <1>1, <2>2
  <2>4. f[n + 1] = IF n + 1 \in S THEN Append(f[n], s[n + 1]) ELSE f[n] BY <1>1, <2>2
  <2>5. PICK at : Picks(at, f[n], s, S \cap (1 .. n))
    <3>1. n <= Len(s) BY <2>2
    <3>2. QED BY <1>4, <3>1
  <2>6. CASE n + 1 \in S
    <3> DEFINE N == Len(f[n])
               new == [k \in 1 .. N + 1 |-> IF k <= N THEN at[k] ELSE n + 1]
    <3>1. N \in Nat /\ f[n + 1] = Append(f[n], s[n + 1]) BY <2>3, <2>4, <2>6
    <3>2. Len(f[n + 1]) = N + 1 BY <2>3, <3>1
    <3>3. S \cap (1 .. n + 1) = (S \cap (1 .. n)) \cup {n + 1} BY <2>6
    <3>4. Lists(new, N + 1, (S \cap (1 .. n)) \cup {n + 1})
      <4>1. S \cap (1 .. n) \subseteq 1 .. n OBVIOUS
      <4>2. Lists(at, N, S \cap (1 .. n)) BY <2>5 DEF Picks
      <4>3. N \in Nat BY <3>1
      <4> HIDE DEF N
      <4>4. QED BY <4>1, <4>2, <4>3, ListingExtends
    <3>5. ASSUME NEW k \in 1 .. N + 1 PROVE f[n + 1][k] = s[new[k]]
      <4>1. CASE k <= N
        <5>1. k \in 1 .. N BY <3>1, <4>1
        <5>2. f[n + 1][k] = f[n][k] BY <2>3, <3>1, <5>1
        <5>3. QED BY <2>5, <4>1, <5>1, <5>2 DEF Picks
      <4>2. CASE k = N + 1
        <5>1. f[n + 1][k] = s[n + 1] BY <2>3, <3>1, <4>2
        <5>2. new[k] = n + 1 BY <3>1, <4>2
        <5>3. QED BY <5>1, <5>2
      <4>3. QED BY <3>1, <4>1, <4>2
    <3> HIDE DEF new, N
    <3>6. Picks(new, f[n + 1], s, S \cap (1 .. n + 1)) BY <3>2, <3>3, <3>4, <3>5 DEF Picks
    <3>7. QED BY <3>6
  <2>7. CASE n + 1 \notin S
    <3>1. S \cap (1 .. n + 1) = S \cap (1 .. n) BY <2>7
    <3>2. f[n + 1] = f[n] BY <2>4, <2>7
    <3>3. Picks(at, f[n + 1], s, S \cap (1 .. n + 1)) BY <2>5, <3>1, <3>2
    <3>4. QED BY <3>3
  <2>8. QED BY <2>6, <2>7
<1> HIDE DEF Q
<1>5. Len(s) \in Q BY <1>2, <1>3, <1>4, Induction
<1>6. PICK at : Picks(at, f[Len(s)], s, S \cap (1 .. Len(s))) BY <1>2, <1>5 DEF Q
<1>7. S \cap (1 .. Len(s)) = S OBVIOUS
<1>8. Selected(s, S) \in Seq(T) BY <1>1, <1>2
<1>9. QED BY <1>1, <1>6, <1>7, <1>8

\* As many are selected as there are positions.
LEMMA ListingCounts ==
  ASSUME NEW n \in Nat, NEW S, S \subseteq Nat, NEW at, Lists(at, n, S)
  PROVE  IsFiniteSet(S) /\ Cardinality(S) = n
<1>1. \A i, j \in 1 .. n : at[i] = at[j] => i = j
  <2>1. SUFFICES ASSUME NEW i \in 1 .. n, NEW j \in 1 .. n, at[i] = at[j], i < j PROVE FALSE
    <3>1. ASSUME NEW i \in 1 .. n, NEW j \in 1 .. n, at[i] = at[j] PROVE i = j
      <4>1. ~ (i < j) BY <2>1, <3>1
      <4>2. ~ (j < i) BY <2>1, <3>1
      <4>3. QED BY <4>1, <4>2
    <3>2. QED BY <3>1
  <2>2. at[i] \in Nat /\ at[i] < at[j] BY <2>1 DEF Lists
  <2>3. QED BY <2>1, <2>2
<1>2. at \in Bijection(1 .. n, S)
  BY <1>1 DEF Lists, Bijection, Injection, Surjection, IsInjective
<1>3. ExistsBijection(1 .. n, S) BY <1>2 DEF ExistsBijection
<1>4. QED BY <1>3, FS_CountingElements, FS_NatBijection

Below(S, m) == {l \in S : l < m}

\* Before the k-th member of S come k - 1 members.
LEMMA ListingRank ==
  ASSUME NEW n \in Nat, NEW S, S \subseteq Nat, NEW at, Lists(at, n, S), NEW k \in 1 .. n
  PROVE  Cardinality(Below(S, at[k])) = k - 1
<1> DEFINE first == [i \in 1 .. k - 1 |-> at[i]]
           lower == {l \in S : l < at[k]}
<1>1. k - 1 \in Nat /\ \A i \in 1 .. k - 1 : i \in 1 .. n /\ i < k /\ first[i] = at[i] OBVIOUS
<1>2. \A i \in 1 .. k - 1 : first[i] \in lower
  <2>1. ASSUME NEW i \in 1 .. k - 1 PROVE at[i] \in lower
    <3>1. i \in 1 .. n /\ i < k BY <1>1
    <3>2. at[i] \in S /\ at[i] < at[k] BY <3>1 DEF Lists
    <3>3. QED BY <3>2
  <2>2. QED BY <1>1, <2>1
<1>3. \A i, j \in 1 .. k - 1 : i < j => first[i] < first[j]
  <2>1. ASSUME NEW i \in 1 .. k - 1, NEW j \in 1 .. k - 1, i < j PROVE at[i] < at[j]
    <3>1. i \in 1 .. n /\ j \in 1 .. n BY <1>1
    <3>2. QED BY <2>1, <3>1 DEF Lists
  <2>2. QED BY <1>1, <2>1
<1>4. ASSUME NEW m \in lower PROVE \E i \in 1 .. k - 1 : first[i] = m
  <2>1. PICK i \in 1 .. n : at[i] = m BY <1>4 DEF Lists
  <2>2. ~ (at[k] < at[i]) /\ at[k] # at[i]
    <3>1. at[k] \in Nat /\ m \in Nat /\ m < at[k] BY <1>4 DEF Lists
    <3>2. QED BY <2>1, <3>1
  <2>3. i < k BY <2>2 DEF Lists
  <2>4. i \in 1 .. k - 1 BY <2>3
  <2>5. QED BY <1>1, <2>1, <2>4
<1>5. first \in [1 .. k - 1 -> lower] BY <1>2
<1> HIDE DEF first
<1>6. Lists(first, k - 1, lower) BY <1>3, <1>4, <1>5 DEF Lists
<1>7. QED BY <1>1, <1>6, ListingCounts DEF Below

(***************************************************************************)
(* Sorting.                                                                *)
(***************************************************************************)
\* Whatever is compared by a total preorder R can be put in order.
LEMMA SortExists ==
  ASSUME NEW n \in Nat, NEW R,
         \A i, j \in 1 .. n : <<i, j>> \in R \/ <<j, i>> \in R,
         \A i, j, k \in 1 .. n : <<i, j>> \in R /\ <<j, k>> \in R => <<i, k>> \in R
  PROVE  \E p \in Bijection(1 .. n, 1 .. n) :
           \A i, j \in 1 .. n : i < j => <<p[i], p[j]>> \in R
<1> DEFINE Prec(i, j) == <<i, j>> \in R /\ (<<j, i>> \in R => i < j)
           Low(j) == {i \in 1 .. n : Prec(i, j)}
           r == [j \in 1 .. n |-> Cardinality(Low(j)) + 1]
<1>1. ASSUME NEW i \in 1 .. n, NEW j \in 1 .. n, i # j PROVE Prec(i, j) \/ Prec(j, i)
  <2>1. <<i, j>> \in R \/ <<j, i>> \in R OBVIOUS
  <2>2. i < j \/ j < i BY <1>1
  <2>3. QED BY <2>1, <2>2
<1>2. \A i, j, k \in 1 .. n : Prec(i, j) /\ Prec(j, k) => Prec(i, k)
  <2>1. SUFFICES ASSUME NEW i \in 1 .. n, NEW j \in 1 .. n, NEW k \in 1 .. n,
                        Prec(i, j), Prec(j, k)
                 PROVE  Prec(i, k)
    OBVIOUS
  <2>2. <<i, k>> \in R BY <2>1
  <2>3. ASSUME <<k, i>> \in R PROVE i < k
    <3>1. <<j, i>> \in R /\ <<k, j>> \in R BY <2>1, <2>3
    <3>2. QED BY <2>1, <3>1
  <2>4. QED BY <2>2, <2>3
<1>3. \A i \in 1 .. n : ~ Prec(i, i) OBVIOUS
<1>4. ASSUME NEW j \in 1 .. n
      PROVE  IsFiniteSet(Low(j)) /\ Cardinality(Low(j)) \in Nat /\ r[j] \in 1 .. n
  <2>1. IsFiniteSet(1 .. n) /\ Cardinality(1 .. n) = n BY FS_Interval
  <2>2. IsFiniteSet((1 .. n) \ {j}) /\ Cardinality((1 .. n) \ {j}) = n - 1
    BY <2>1, FS_RemoveElement
  <2>3. Low(j) \subseteq (1 .. n) \ {j} BY <1>3
  <2> HIDE DEF Low
  <2>4. IsFiniteSet(Low(j)) /\ Cardinality(Low(j)) <= n - 1 BY <2>2, <2>3, FS_Subset
  <2>5. Cardinality(Low(j)) \in Nat BY <2>4, FS_CardinalityType
  <2>6. QED BY <2>4, <2>5
<1>5. ASSUME NEW i \in 1 .. n, NEW j \in 1 .. n, Prec(i, j) PROVE r[i] < r[j]
  <2>1. Low(i) \cup {i} \subseteq Low(j) BY <1>2, <1>5
  <2>2. i \notin Low(i) BY <1>3
  <2> HIDE DEF Low
  <2>3. Cardinality(Low(i) \cup {i}) = Cardinality(Low(i)) + 1
    BY <1>4, <2>2, FS_AddElement
  <2>4. Cardinality(Low(i) \cup {i}) <= Cardinality(Low(j)) BY <1>4, <2>1, FS_Subset
  <2>5. Cardinality(Low(i)) \in Nat /\ Cardinality(Low(j)) \in Nat BY <1>4
  <2>6. QED BY <2>3, <2>4, <2>5
<1> HIDE DEF Low
<1>6. r \in [1 .. n -> 1 .. n] BY <1>4
<1> HIDE DEF r, Prec
<1>7. \A i, j \in 1 .. n : r[i] = r[j] => i = j
  <2>1. ASSUME NEW i \in 1 .. n, NEW j \in 1 .. n, r[i] = r[j], i # j PROVE FALSE
    <3>1. r[i] < r[j] \/ r[j] < r[i] BY <1>1, <1>5, <2>1
    <3>2. r[i] \in Nat BY <1>6
    <3>3. QED BY <2>1, <3>1, <3>2
  <2>2. QED BY <2>1
<1>8. r \in Injection(1 .. n, 1 .. n) BY <1>6, <1>7 DEF Injection, IsInjective
<1>9. r \in Surjection(1 .. n, 1 .. n)
  <2>1. IsFiniteSet(1 .. n) BY FS_Interval
  <2>2. QED BY <1>8, <2>1, FS_Injection
<1>10. \A m \in 1 .. n : \E i \in 1 .. n : r[i] = m BY <1>9 DEF Surjection
<1> DEFINE p == [m \in 1 .. n |-> CHOOSE i \in 1 .. n : r[i] = m]
<1>11. ASSUME NEW m \in 1 .. n PROVE p[m] \in 1 .. n /\ r[p[m]] = m BY <1>10
<1>12. p \in [1 .. n -> 1 .. n] BY <1>11
<1> HIDE DEF p
<1>13. ASSUME NEW i \in 1 .. n PROVE p[r[i]] = i
  <2>1. r[i] \in 1 .. n BY <1>6
  <2>2. p[r[i]] \in 1 .. n /\ r[p[r[i]]] = r[i] BY <1>11, <2>1
  <2>3. QED BY <1>7, <2>2
<1>14. \A i, j \in 1 .. n : p[i] = p[j] => i = j BY <1>11
<1>15. \A i \in 1 .. n : \E m \in 1 .. n : p[m] = i BY <1>6, <1>13
<1>16. p \in Bijection(1 .. n, 1 .. n)
  BY <1>12, <1>14, <1>15 DEF Bijection, Injection, Surjection, IsInjective
<1>17. ASSUME NEW i \in 1 .. n, NEW j \in 1 .. n, i < j PROVE <<p[i], p[j]>> \in R
  <2>1. r[p[i]] < r[p[j]] BY <1>11, <1>17
  <2>2. p[i] \in 1 .. n /\ p[j] \in 1 .. n /\ p[i] # p[j] BY <1>11, <1>17
  <2>3. ~ Prec(p[j], p[i])
    <3>1. ASSUME Prec(p[j], p[i]) PROVE FALSE
      <4>1. r[p[j]] < r[p[i]] BY <1>5, <2>2, <3>1
      <4>2. r[p[i]] = i /\ r[p[j]] = j BY <1>11
      <4>3. QED BY <2>1, <4>1, <4>2
    <3>2. QED BY <3>1
  <2>4. Prec(p[i], p[j]) BY <1>1, <2>2, <2>3
  <2>5. QED BY <2>4 DEF Prec
<1>18. QED BY <1>16, <1>17

(***************************************************************************)
(* The invariant.  Handles are in range and, as long as imports come       *)
(* before definitions, number the entity they were made for; whatever      *)
(* refers to an entity holds a handle that the client was given.           *)
(***************************************************************************)
AnyKind == ExternalKinds \cup {"Elem", "Data"}
Ids == {<<>>} \cup (AnyKind \X Nat)
Handles == [kind : AnyKind, idx : Nat, id : Ids]
Tellings == [about : Handles, id : Ids]
Bodies == [of : Ids, uses : SUBSET Handles, told : SUBSET Tellings]
SegmentRecords == [passive : BOOLEAN, where : Handles, offset : Seq(Handles), funcs : Seq(Handles)]
Rows == [func : Handles, local : Nat]
Members == [exports : Seq(Handles), start : Seq(Handles), elem : Seq(SegmentRecords),
            data : Seq(SegmentRecords), names : Seq(Handles), locals : Seq(Rows),
            title : Seq({"title"}), customs : Seq({"custom"})]

TypeOK ==
  /\ debug \in BOOLEAN /\ late \in BOOLEAN /\ phase2 \in BOOLEAN
  /\ imports \in Seq([kind : ExternalKinds, id : Ids])
  /\ imp \in [ExternalKinds -> Nat]
  /\ defs \in [ExternalKinds -> Seq([id : Ids, init : Seq(Handles)])]
  /\ bodies \in Seq(Bodies)
  /\ refs \in Members
  /\ held \subseteq Handles
  /\ pending \subseteq [f : Handles, uses : SUBSET Handles, told : SUBSET Tellings]

\* The counters of imports are right.
ImportsOf(k) == {n \in 1 .. Len(imports) : imports[n].kind = k}
Counted == \A k \in ExternalKinds : imp[k] = Cardinality(ImportsOf(k))

\* Entities are numbered as they are declared.
SameKind(s, n) == {m \in 1 .. n : s[m].kind = s[n].kind}
Numbered ==
  InOrder =>
    /\ \A n \in 1 .. Len(imports) :
         imports[n].id = <<imports[n].kind, Cardinality(SameKind(imports, n))>>
    /\ \A k \in ExternalKinds : \A n \in 1 .. Len(defs[k]) : defs[k][n].id = <<k, imp[k] + n>>

\* A handle denotes the entity it was made for.
Denotes(h) ==
  /\ h.kind \in ExternalKinds => /\ h.idx < CountOf(h.kind)
                                 /\ InOrder => h.id = <<h.kind, h.idx + 1>>
  /\ h.kind = "Elem" => h.idx < Len(refs.elem) /\ h.id = <<"Elem", h.idx + 1>>
  /\ h.kind = "Data" => /\ h.idx < Len(refs.data) /\ h.id = <<"Data", h.idx + 1>>
                        /\ refs.data[h.idx + 1].passive
HeldDenote == \A h \in held : Denotes(h)

\* References, initializers and bodies use handles of the client.
SegmentHeld(seg) ==
  /\ \A i \in 1 .. Len(seg.offset) : seg.offset[i] \in held
  /\ \A i \in 1 .. Len(seg.funcs) : seg.funcs[i] \in held
  /\ ~seg.passive => seg.where \in held
RefsHeld ==
  /\ \A n \in 1 .. Len(refs.exports) : refs.exports[n] \in held
  /\ \A n \in 1 .. Len(refs.start) : refs.start[n] \in held
  /\ \A n \in 1 .. Len(refs.names) : refs.names[n] \in held
  /\ \A n \in 1 .. Len(refs.locals) : refs.locals[n].func \in HeldOf({"Function"})
  /\ \A n \in 1 .. Len(refs.elem) : SegmentHeld(refs.elem[n])
  /\ \A n \in 1 .. Len(refs.data) : SegmentHeld(refs.data[n])
InitsHeld == \A k \in ExternalKinds : \A n \in 1 .. Len(defs[k]) :
               \A i \in 1 .. Len(defs[k][n].init) : defs[k][n].init[i] \in held

\* What the validator was told is what the index space holds.
Truthful(t) == /\ t.about \in HeldOf(ExternalKinds)
               /\ InOrder => t.id = <<t.about.kind, t.about.idx + 1>>
UsesHeld(b) == b.uses \subseteq held /\ \A t \in b.told : Truthful(t)
BodiesHeld == /\ \A b \in pending : UsesHeld(b) /\ b.f \in HeldOf({"Function"})
              /\ \A n \in 1 .. Len(bodies) : UsesHeld(bodies[n])

\* There is a place for a body for each function, and it has the function's body.
BodiesMatch ==
  /\ Len(bodies) = Len(defs["Function"])
  /\ InOrder => \A n \in 1 .. Len(bodies) :
                  bodies[n] # NoBody => bodies[n].of = <<"Function", imp["Function"] + n>>

\* What was assembled last is what would be assembled now.
OutCurrent == out # <<>> => out = Sections /\ ~FindError

Consistent ==
  /\ TypeOK /\ Counted /\ Numbered /\ HeldDenote /\ RefsHeld /\ InitsHeld
  /\ BodiesHeld /\ BodiesMatch /\ OutCurrent

LEMMA ElementOf ==
  ASSUME NEW T, NEW s \in Seq(T), NEW n \in 1 .. Len(s)
  PROVE  s[n] \in T
OBVIOUS

LEMMA AppendIs ==
  ASSUME NEW T, NEW s \in Seq(T), NEW x \in T
  PROVE  /\ Append(s, x) \in Seq(T) /\ Len(s) \in Nat /\ Len(Append(s, x)) = Len(s) + 1
         /\ \A n \in 1 .. Len(s) : Append(s, x)[n] = s[n]
         /\ Append(s, x)[Len(s) + 1] = x
OBVIOUS

(***************************************************************************)
(* Looking entities up.                                                    *)
(***************************************************************************)
LEMMA ImportsListed ==
  ASSUME TypeOK, Counted, NEW k \in ExternalKinds
  PROVE  \E at : Lists(at, imp[k], ImportsOf(k))
<1>1. imports \in Seq([kind : ExternalKinds, id : Ids]) BY DEF TypeOK
<1>2. ImportsOf(k) \subseteq 1 .. Len(imports) /\ ImportsOf(k) \subseteq Nat BY DEF ImportsOf
<1> DEFINE q == Selected(imports, ImportsOf(k))
<1>3. Len(q) \in Nat /\ \E at : Picks(at, q, imports, ImportsOf(k))
  BY <1>1, <1>2, SelectedAt
<1> HIDE DEF q
<1>4. PICK at : Lists(at, Len(q), ImportsOf(k)) BY <1>3 DEF Picks
<1>5. Cardinality(ImportsOf(k)) = Len(q) BY <1>2, <1>3, <1>4, ListingCounts
<1>6. QED BY <1>4, <1>5 DEF Counted

\* NthImport() finds the import that n imports of its kind precede.
LEMMA NthImportAt ==
  ASSUME NEW k, NEW N \in Nat, NEW at, Lists(at, N, ImportsOf(k)), NEW n \in 0 .. N - 1
  PROVE  NthImport(k, n) = imports[at[n + 1]].id
<1> DEFINE m == CHOOSE m \in ImportsOf(k) : Cardinality(Below(ImportsOf(k), m)) = n
<1>1. ImportsOf(k) \subseteq Nat BY DEF ImportsOf
<1>2. ASSUME NEW j \in 1 .. N
      PROVE  at[j] \in ImportsOf(k) /\ Cardinality(Below(ImportsOf(k), at[j])) = j - 1
  <2>1. at[j] \in ImportsOf(k) BY DEF Lists
  <2>2. Cardinality(Below(ImportsOf(k), at[j])) = j - 1 BY <1>1, ListingRank
  <2>3. QED BY <2>1, <2>2
<1>3. n + 1 \in 1 .. N OBVIOUS
<1>4. m \in ImportsOf(k) /\ Cardinality(Below(ImportsOf(k), m)) = n
  <2>1. at[n + 1] \in ImportsOf(k) /\ Cardinality(Below(ImportsOf(k), at[n + 1])) = n
    BY <1>2, <1>3
  <2>2. QED BY <2>1
<1>5. NthImport(k, n) = imports[m].id BY DEF NthImport, ImportsOf, Below
<1> HIDE DEF m
<1>6. PICK j \in 1 .. N : at[j] = m BY <1>4 DEF Lists
<1>7. j = n + 1 BY <1>2, <1>4, <1>6
<1>8. QED BY <1>5, <1>6, <1>7

LEMMA LookupIs ==
  ASSUME TypeOK, Counted, Numbered, NEW k \in ExternalKinds, NEW i \in 0 .. CountOf(k) - 1
  PROVE  Lookup(k, i) \in Ids /\ (InOrder => Lookup(k, i) = <<k, i + 1>>)
<1>1. imp[k] \in Nat /\ Len(defs[k]) \in Nat BY DEF TypeOK
<1>2. CASE i < imp[k]
  <2>1. PICK at : Lists(at, imp[k], ImportsOf(k)) BY ImportsListed
  <2>2. i \in 0 .. imp[k] - 1 /\ i + 1 \in 1 .. imp[k] BY <1>1, <1>2
  <2>3. Lookup(k, i) = imports[at[i + 1]].id BY <1>1, <1>2, <2>1, <2>2, NthImportAt DEF Lookup
  <2>4. PICK m \in ImportsOf(k) : m = at[i + 1] BY <2>1, <2>2 DEF Lists
  <2>5. m \in 1 .. Len(imports) /\ imports[m].kind = k /\ imports[m].id \in Ids
    <3>1. m \in 1 .. Len(imports) /\ imports[m].kind = k BY DEF ImportsOf
    <3>2. imports[m] \in [kind : ExternalKinds, id : Ids] BY <3>1, ElementOf DEF TypeOK
    <3>3. QED BY <3>1, <3>2
  <2>6. ASSUME InOrder PROVE imports[m].id = <<k, i + 1>>
    <3>1. imports[m].id = <<k, Cardinality(SameKind(imports, m))>>
      BY <2>5, <2>6 DEF Numbered
    <3>2. ImportsOf(k) \subseteq Nat BY DEF ImportsOf
    <3> DEFINE L == Below(ImportsOf(k), m)
    <3>3. Cardinality(L) = i
      <4>1. Cardinality(Below(ImportsOf(k), at[i + 1])) = (i + 1) - 1
        BY <1>1, <2>1, <2>2, <3>2, ListingRank
      <4>2. QED BY <2>4, <4>1
    <3>4. SameKind(imports, m) = L \cup {m} BY <2>5 DEF ImportsOf, Below, SameKind
    <3>5. IsFiniteSet(L)
      <4>1. IsFiniteSet(ImportsOf(k)) BY <1>1, <2>1, <3>2, ListingCounts
      <4>2. L \subseteq ImportsOf(k) BY DEF Below
      <4>3. QED BY <4>1, <4>2, FS_Subset
    <3>6. m \notin L BY <2>5 DEF Below
    <3> HIDE DEF L
    <3>7. i \in Nat BY <1>1
    <3>8. Cardinality(L \cup {m}) = i + 1 BY <3>3, <3>5, <3>6, <3>7, FS_AddElement
    <3>9. QED BY <3>1, <3>4, <3>8
  <2>7. QED BY <2>3, <2>4, <2>5, <2>6
<1>3. CASE ~ (i < imp[k])
  <2>1. i - imp[k] + 1 \in 1 .. Len(defs[k]) BY <1>1, <1>3 DEF CountOf
  <2>2. Lookup(k, i) = defs[k][i - imp[k] + 1].id BY <1>3 DEF Lookup
  <2>3. defs[k][i - imp[k] + 1].id \in Ids
    <3>1. defs[k] \in Seq([id : Ids, init : Seq(Handles)]) BY DEF TypeOK
    <3>2. defs[k][i - imp[k] + 1] \in [id : Ids, init : Seq(Handles)]
      BY <2>1, <3>1, ElementOf
    <3>3. QED BY <3>2
  <2>4. InOrder => defs[k][i - imp[k] + 1].id = <<k, imp[k] + (i - imp[k] + 1)>>
    BY <2>1 DEF Numbered
  <2>5. imp[k] + (i - imp[k] + 1) = i + 1 BY <1>1
  <2>6. QED BY <2>2, <2>3, <2>4, <2>5
<1>4. QED BY <1>2, <1>3

(***************************************************************************)
(* The invariant is inductive.                                             *)
(***************************************************************************)
LEMMA InitConsistent == ASSUME Init PROVE Consistent
<1>1. TypeOK
  <2>1. NoRefs \in Members BY DEF NoRefs, Members
  <2>2. <<>> \in Seq([kind : ExternalKinds, id : Ids]) /\ <<>> \in Seq(Bodies) OBVIOUS
  <2>3. imp \in [ExternalKinds -> Nat] BY DEF Init
  <2>4. \A T : [k \in ExternalKinds |-> <<>>] \in [ExternalKinds -> Seq(T)] OBVIOUS
  <2>5. defs \in [ExternalKinds -> Seq([id : Ids, init : Seq(Handles)])] BY <2>4 DEF Init
  <2>6. QED BY <2>1, <2>2, <2>3, <2>5 DEF Init, TypeOK
<1>2. Counted
  <2>1. \A k \in ExternalKinds : ImportsOf(k) = {} BY DEF Init, ImportsOf
  <2>2. QED BY <2>1, FS_EmptySet DEF Init, Counted
<1>3. Numbered /\ HeldDenote /\ InitsHeld /\ BodiesHeld
  BY DEF Init, Numbered, HeldDenote, InitsHeld, BodiesHeld
<1>4. RefsHeld BY DEF Init, RefsHeld, NoRefs
<1>5. BodiesMatch /\ OutCurrent BY DEF Init, BodiesMatch, OutCurrent, ExternalKinds
<1>6. QED BY <1>1, <1>2, <1>3, <1>4, <1>5 DEF Consistent

\* A call that stops, or that only hands over a body, changes nothing of it.
LEMMA IdleStep ==
  ASSUME Consistent, UNCHANGED <<debug, declared, bodies, refs, held, late>>,
         phase2' \in BOOLEAN, pending' \subseteq pending, out' = <<>>
  PROVE  Consistent'
<1>1. TypeOK' BY DEF Consistent, TypeOK, declared
<1>2. Counted' BY DEF Consistent, Counted, ImportsOf, declared
<1>3. Numbered' BY DEF Consistent, Numbered, ImportsOf, InOrder, declared
<1>4. HeldDenote' BY DEF Consistent, HeldDenote, Denotes, CountOf, InOrder, declared
<1>5. RefsHeld' BY DEF Consistent, RefsHeld, SegmentHeld, HeldOf
<1>6. InitsHeld' BY DEF Consistent, InitsHeld, declared
<1>7. BodiesHeld' BY DEF Consistent, BodiesHeld, UsesHeld, Truthful, HeldOf, InOrder
<1>8. BodiesMatch' BY DEF Consistent, BodiesMatch, InOrder, declared
<1>9. OutCurrent' BY DEF OutCurrent
<1>10. QED BY <1>1, <1>2, <1>3, <1>4, <1>5, <1>6, <1>7, <1>8, <1>9 DEF Consistent

\* New handles keep the old ones.
LEMMA HeldGrows ==
  ASSUME Consistent, held \subseteq held', UNCHANGED <<bodies, pending>>, InOrder' => InOrder
  PROVE  BodiesHeld'
<1>1. \A t : Truthful(t) => Truthful(t)' BY DEF Truthful, HeldOf
<1>2. \A b : UsesHeld(b) => UsesHeld(b)' BY <1>1 DEF UsesHeld
<1>3. QED BY <1>2 DEF Consistent, BodiesHeld, HeldOf

LEMMA RefsGrow ==
  ASSUME RefsHeld, held \subseteq held', UNCHANGED refs
  PROVE  RefsHeld'
<1>1. \A seg : SegmentHeld(seg) => SegmentHeld(seg)' BY DEF SegmentHeld
<1>2. QED BY <1>1 DEF RefsHeld, HeldOf

LEMMA FreshIds ==
  ASSUME TypeOK, NEW k \in ExternalKinds
  PROVE  /\ CountOf(k) \in Nat /\ Fresh(k) = <<k, CountOf(k) + 1>> /\ Fresh(k) \in Ids
         /\ \A n \in Nat : Handle(k, n, Fresh(k)) \in Handles
<1>1. imp[k] \in Nat /\ Len(defs[k]) \in Nat BY DEF TypeOK
<1>2. CountOf(k) \in Nat /\ CountOf(k) + 1 \in Nat BY <1>1 DEF CountOf
<1>3. Fresh(k) \in Ids BY <1>2 DEF Fresh, Ids, AnyKind
<1>4. QED BY <1>2, <1>3 DEF Fresh, Handle, Handles, AnyKind

\* An import takes the next index of its kind, which is free: in a debug build
\* nothing of the kind is defined yet, in a release build the order is lost.
LEMMA ImportStep ==
  ASSUME Consistent, NEW kind \in Kinds, ImportEntity(kind)
  PROVE  Consistent'
<1>1. kind \in ExternalKinds BY ModuleAssumption
<1>2. TypeOK BY DEF Consistent
<1>3. CASE debug /\ defs[kind] # <<>> /\ Stop("asserted")
  BY <1>2, <1>3, IdleStep DEF ImportEntity, Stop, TypeOK
<1>4. CASE /\ debug => defs[kind] = <<>>
           /\ imports' = Append(imports, [kind |-> kind, id |-> Fresh(kind)])
           /\ held' = held \cup {Handle(kind, imp[kind], Fresh(kind))}
           /\ imp' = [imp EXCEPT ![kind] = @ + 1]
           /\ late' = (late \/ defs[kind] # <<>>)
           /\ UNCHANGED <<bodies, defs, status>>
  <2> DEFINE new == [kind |-> kind, id |-> Fresh(kind)]
             N == Len(imports)
  <2>1. PICK h : h = Handle(kind, imp[kind], Fresh(kind)) OBVIOUS
  <2>2. UNCHANGED <<debug, bodies, defs, refs, phase2, pending>> /\ out' = <<>>
    BY <1>4 DEF ImportEntity
  <2>3. /\ Fresh(kind) = <<kind, CountOf(kind) + 1>> /\ Fresh(kind) \in Ids /\ h \in Handles
        /\ imp[kind] \in Nat
    BY <2>1, <1>1, <1>2, FreshIds DEF TypeOK
  <2>4. InOrder' => InOrder /\ defs[kind] = <<>> BY <1>2, <1>4, <2>2 DEF InOrder, TypeOK
  <2>5. new \in [kind : ExternalKinds, id : Ids] BY <1>1, <2>3
  <2>6. imports \in Seq([kind : ExternalKinds, id : Ids]) /\ N \in Nat BY <1>2 DEF TypeOK
  <2>7. /\ imports' \in Seq([kind : ExternalKinds, id : Ids]) /\ Len(imports') = N + 1
        /\ imports'[N + 1] = new /\ \A n \in 1 .. N : imports'[n] = imports[n]
    <3> HIDE DEF new
    <3>1. QED BY <1>4, <2>5, <2>6 DEF new
  <2>8. \A k \in ExternalKinds : imp'[k] = IF k = kind THEN imp[k] + 1 ELSE imp[k]
    BY <1>1, <1>2, <1>4 DEF TypeOK
  <2>9. TypeOK'
    <3>1. imp' \in [ExternalKinds -> Nat] BY <1>1, <1>2, <1>4 DEF TypeOK
    <3>2. late' \in BOOLEAN BY <1>4
    <3>3. held' \subseteq Handles BY <1>2, <1>4, <2>1, <2>3 DEF TypeOK
    <3>4. QED BY <1>2, <2>2, <2>7, <3>1, <3>2, <3>3 DEF TypeOK
  <2>10. \A k \in ExternalKinds :
           ImportsOf(k)' = IF k = kind THEN ImportsOf(k) \cup {N + 1} ELSE ImportsOf(k)
    BY <2>6, <2>7 DEF ImportsOf
  <2>11. ASSUME NEW k \in ExternalKinds
         PROVE  /\ IsFiniteSet(ImportsOf(k)) /\ N + 1 \notin ImportsOf(k)
                /\ imp[k] \in Nat /\ Cardinality(ImportsOf(k)) = imp[k]
    <3>1. IsFiniteSet(1 .. N) BY <2>6, FS_Interval
    <3>2. ImportsOf(k) \subseteq 1 .. N BY DEF ImportsOf
    <3>3. IsFiniteSet(ImportsOf(k)) BY <3>1, <3>2, FS_Subset
    <3>4. QED BY <1>2, <2>6, <3>2, <3>3 DEF Consistent, Counted, TypeOK
  <2>12. Cardinality(ImportsOf(kind) \cup {N + 1}) = imp[kind] + 1
    BY <1>1, <2>11, FS_AddElement
  <2>13. Counted'
    <3>1. ASSUME NEW k \in ExternalKinds PROVE imp'[k] = Cardinality(ImportsOf(k)')
      BY <2>8, <2>10, <2>11, <2>12, <3>1
    <3>2. QED BY <3>1 DEF Counted
  <2>14. Numbered'
    <3>1. SUFFICES ASSUME InOrder'
                   PROVE  /\ \A n \in 1 .. Len(imports') :
                               imports'[n].id =
                                 <<imports'[n].kind, Cardinality(SameKind(imports', n))>>
                          /\ \A k \in ExternalKinds : \A n \in 1 .. Len(defs'[k]) :
                               defs'[k][n].id = <<k, imp'[k] + n>>
      BY DEF Numbered
    <3>2. ASSUME NEW n \in 1 .. Len(imports')
          PROVE  imports'[n].id = <<imports'[n].kind, Cardinality(SameKind(imports', n))>>
      <4>1. CASE n \in 1 .. N
        <5>1. \A m \in 1 .. n : imports'[m] = imports[m] BY <2>6, <2>7, <4>1
        <5>2. imports'[n] = imports[n] BY <4>1, <5>1
        <5>3. SameKind(imports', n) = SameKind(imports, n) BY <5>1, <5>2 DEF SameKind
        <5>4. imports[n].id = <<imports[n].kind, Cardinality(SameKind(imports, n))>>
          BY <2>4, <3>1, <4>1 DEF Consistent, Numbered
        <5>5. QED BY <5>2, <5>3, <5>4
      <4>2. CASE n = N + 1
        <5>1. imports'[n].kind = kind /\ imports'[n].id = Fresh(kind) BY <2>7, <4>2
        <5>2. SameKind(imports', n) = ImportsOf(kind) \cup {N + 1}
          BY <2>6, <2>7, <4>2, <5>1 DEF SameKind, ImportsOf
        <5>3. CountOf(kind) = imp[kind] BY <2>3, <2>4, <3>1 DEF CountOf
        <5>4. QED BY <2>3, <2>12, <5>1, <5>2, <5>3
      <4>3. QED BY <2>6, <2>7, <4>1, <4>2
    <3>3. ASSUME NEW k \in ExternalKinds, NEW n \in 1 .. Len(defs'[k])
          PROVE  defs'[k][n].id = <<k, imp'[k] + n>>
      <4>1. defs' = defs BY <2>2
      <4>2. k # kind
        <5>1. defs[kind] = <<>> BY <2>4, <3>1
        <5>2. Len(defs[kind]) = 0 BY <5>1
        <5>3. QED BY <3>3, <4>1, <5>2
      <4>3. defs[k][n].id = <<k, imp[k] + n>>
        BY <2>4, <3>1, <4>1 DEF Consistent, Numbered
      <4>4. QED BY <2>8, <4>1, <4>2, <4>3
    <3>4. QED BY <3>2, <3>3
  <2>15. HeldDenote'
    <3>1. \A k \in ExternalKinds : Len(defs[k]) \in Nat /\ imp[k] \in Nat
      BY <1>2 DEF TypeOK
    <3>2. \A k \in ExternalKinds :
            CountOf(k)' = IF k = kind THEN CountOf(k) + 1 ELSE CountOf(k)
      BY <2>2, <2>8, <3>1 DEF CountOf
    <3>3. ASSUME NEW g \in held PROVE Denotes(g)'
      <4>1. g \in Handles /\ Denotes(g)
        BY <1>2 DEF Consistent, HeldDenote, TypeOK
      <4>2. g.idx \in Nat BY <4>1 DEF Handles
      <4>3. ASSUME g.kind \in ExternalKinds PROVE g.idx < CountOf(g.kind)'
        <5>1. CountOf(g.kind) \in Nat BY <3>1, <4>3 DEF CountOf
        <5>2. g.idx < CountOf(g.kind) BY <4>1, <4>3 DEF Denotes
        <5>3. CountOf(g.kind)' = CountOf(g.kind) \/ CountOf(g.kind)' = CountOf(g.kind) + 1
          BY <3>2, <4>3
        <5>4. QED BY <4>2, <5>1, <5>2, <5>3
      <4>4. QED BY <2>2, <2>4, <4>1, <4>3 DEF Denotes
    <3>4. Denotes(h)'
      <4>1. h.kind = kind /\ h.idx = imp[kind] /\ h.id = Fresh(kind) BY <2>1 DEF Handle
      <4>2. imp[kind] < CountOf(kind) + 1 /\ CountOf(kind)' = CountOf(kind) + 1
        BY <1>1, <3>1, <3>2 DEF CountOf
      <4>3. InOrder' => Fresh(kind) = <<kind, imp[kind] + 1>>
        <5>1. SUFFICES ASSUME InOrder' PROVE CountOf(kind) = imp[kind] BY <2>3
        <5>2. Len(defs[kind]) = 0 BY <2>4, <5>1
        <5>3. QED BY <2>3, <5>2 DEF CountOf
      <4>4. kind # "Elem" /\ kind # "Data" BY <1>1 DEF ExternalKinds
      <4>5. QED BY <4>1, <4>2, <4>3, <4>4 DEF Denotes
    <3>5. \A g \in held' : g \in held \/ g = h BY <1>4, <2>1
    <3>6. QED BY <3>3, <3>4, <3>5 DEF HeldDenote
  <2>16. held \subseteq held' BY <1>4
  <2>17. RefsHeld' BY <2>2, <2>16, RefsGrow DEF Consistent
  <2>18. InitsHeld' BY <2>2, <2>16 DEF Consistent, InitsHeld
  <2>19. BodiesHeld' BY <2>2, <2>4, <2>16, HeldGrows
  <2>20. BodiesMatch'
    <3>1. Len(bodies') = Len(defs'["Function"]) BY <2>2 DEF Consistent, BodiesMatch
    <3>2. ASSUME InOrder', NEW n \in 1 .. Len(bodies'), bodies'[n] # NoBody
          PROVE  bodies'[n].of = <<"Function", imp'["Function"] + n>>
      <4>1. n \in 1 .. Len(defs["Function"]) BY <2>2, <3>1
      <4>2. kind # "Function" BY <2>4, <3>2, <4>1
      <4>3. bodies[n].of = <<"Function", imp["Function"] + n>>
        BY <2>2, <2>4, <3>2 DEF Consistent, BodiesMatch
      <4>4. QED BY <2>2, <2>8, <4>2, <4>3 DEF ExternalKinds
    <3>3. QED BY <3>1, <3>2 DEF BodiesMatch
  <2>21. OutCurrent' BY <2>2 DEF OutCurrent
  <2>22. QED BY <2>9, <2>13, <2>14, <2>15, <2>17, <2>18, <2>19, <2>20, <2>21 DEF Consistent
<1>5. QED BY <1>3, <1>4 DEF ImportEntity

\* The constant expressions, and the lists of functions of a segment, hold
\* handles of the client.
HeldList(s) == s \in Seq(Handles) /\ \A i \in 1 .. Len(s) : s[i] \in held

LEMMA ListsHeld ==
  ASSUME TypeOK, NEW kinds, NEW s \in {<<>>} \cup {<<h>> : h \in HeldOf(kinds)}
  PROVE  HeldList(s)
<1>1. CASE s = <<>> BY <1>1 DEF HeldList
<1>2. CASE \E h \in HeldOf(kinds) : s = <<h>>
  <2>1. PICK h \in held : s = <<h>> /\ h \in Handles BY <1>2 DEF HeldOf, TypeOK
  <2>2. s \in Seq(Handles) /\ Len(s) = 1 /\ s[1] = h BY <2>1
  <2>3. QED BY <2>1, <2>2 DEF HeldList
<1>3. QED BY <1>1, <1>2

\* A definition takes the next index of its kind; the imports keep theirs.
LEMMA DeclareStep ==
  ASSUME Consistent, NEW kind \in Kinds, NEW init, HeldList(init), Declare(kind, init)
  PROVE  Consistent'
<1>1. kind \in ExternalKinds BY ModuleAssumption
<1>2. TypeOK BY DEF Consistent
<1>3. CASE Stop("asserted")
  BY <1>2, <1>3, IdleStep DEF Declare, Stop, TypeOK
<1>4. CASE /\ held' = held \cup {Handle(kind, NextIndex(kind), Fresh(kind))}
           /\ defs' = [defs EXCEPT ![kind] = Append(@, [id |-> Fresh(kind), init |-> init])]
           /\ bodies' = IF kind = "Function" THEN Append(bodies, NoBody) ELSE bodies
           /\ UNCHANGED <<imports, imp, late, status>>
  <2>1. PICK h : h = Handle(kind, NextIndex(kind), Fresh(kind)) OBVIOUS
  <2>2. PICK new : new = [id |-> Fresh(kind), init |-> init] OBVIOUS
  <2>3. UNCHANGED <<debug, imports, imp, refs, phase2, pending, late>> /\ out' = <<>>
    BY <1>4 DEF Declare
  <2>4. /\ Fresh(kind) = <<kind, CountOf(kind) + 1>> /\ Fresh(kind) \in Ids /\ h \in Handles
        /\ CountOf(kind) \in Nat /\ CountOf(kind) = imp[kind] + Len(defs[kind])
        /\ h.kind = kind /\ h.idx = CountOf(kind) /\ h.id = Fresh(kind)
    <3>1. NextIndex(kind) = CountOf(kind) BY DEF NextIndex, CountOf
    <3>2. QED BY <1>1, <1>2, <2>1, <3>1, FreshIds DEF CountOf, Handle
  <2>5. InOrder' = InOrder BY <2>3 DEF InOrder
  <2>6. ImportsOf(kind)' = ImportsOf(kind) BY <2>3 DEF ImportsOf
  <2>7. new \in [id : Ids, init : Seq(Handles)] /\ new.id = Fresh(kind) /\ new.init = init
    BY <2>2, <2>4 DEF HeldList
  <2>8. ASSUME NEW k \in ExternalKinds
        PROVE  /\ defs[k] \in Seq([id : Ids, init : Seq(Handles)])
               /\ defs'[k] = IF k = kind THEN Append(defs[k], new) ELSE defs[k]
    BY <1>1, <1>2, <1>4, <2>2 DEF TypeOK
  <2>9. ASSUME NEW k \in ExternalKinds
        PROVE  /\ defs'[k] \in Seq([id : Ids, init : Seq(Handles)])
               /\ Len(defs[k]) \in Nat
               /\ Len(defs'[k]) = IF k = kind THEN Len(defs[k]) + 1 ELSE Len(defs[k])
               /\ \A n \in 1 .. Len(defs[k]) : defs'[k][n] = defs[k][n]
               /\ k = kind => defs'[k][Len(defs[k]) + 1] = new
    <3>1. /\ Append(defs[k], new) \in Seq([id : Ids, init : Seq(Handles)])
          /\ Len(defs[k]) \in Nat /\ Len(Append(defs[k], new)) = Len(defs[k]) + 1
          /\ \A n \in 1 .. Len(defs[k]) : Append(defs[k], new)[n] = defs[k][n]
          /\ Append(defs[k], new)[Len(defs[k]) + 1] = new
      <4>1. PICK D : D = [id : Ids, init : Seq(Handles)] OBVIOUS
      <4>2. defs[k] \in Seq(D) /\ new \in D BY <2>7, <2>8, <4>1
      <4>3. QED BY <4>1, <4>2, AppendIs
    <3>2. CASE k = kind BY <2>8, <3>1, <3>2
    <3>3. CASE k # kind BY <2>8, <3>1, <3>3
    <3>4. QED BY <3>2, <3>3
  <2>10. bodies \in Seq(Bodies) /\ NoBody \in Bodies BY <1>2 DEF TypeOK, NoBody, Bodies, Ids
  <2>11. /\ bodies' \in Seq(Bodies) /\ Len(bodies) \in Nat
         /\ Len(bodies') = IF kind = "Function" THEN Len(bodies) + 1 ELSE Len(bodies)
         /\ \A n \in 1 .. Len(bodies) : bodies'[n] = bodies[n]
         /\ kind = "Function" => bodies'[Len(bodies) + 1] = NoBody
    BY <1>4, <2>10
  <2>12. TypeOK'
    <3>1. defs' \in [ExternalKinds -> Seq([id : Ids, init : Seq(Handles)])]
      <4>1. defs \in [ExternalKinds -> Seq([id : Ids, init : Seq(Handles)])]
        BY <1>2 DEF TypeOK
      <4>2. DOMAIN defs' = ExternalKinds /\ defs' = [k \in ExternalKinds |-> defs'[k]]
        BY <1>4, <4>1
      <4>3. QED BY <2>9, <4>2, Zenon
    <3>2. held' \subseteq Handles BY <1>2, <1>4, <2>1, <2>4 DEF TypeOK
    <3>3. QED BY <1>2, <2>3, <2>11, <3>1, <3>2 DEF TypeOK
  <2>13. Counted' BY <2>3 DEF Consistent, Counted, ImportsOf
  <2>14. Numbered'
    <3>1. ASSUME InOrder, NEW k \in ExternalKinds, NEW n \in 1 .. Len(defs'[k])
          PROVE  defs'[k][n].id = <<k, imp[k] + n>>
      <4>1. n \in 1 .. Len(defs[k]) \/ (k = kind /\ n = Len(defs[k]) + 1) BY <2>9
      <4>2. CASE n \in 1 .. Len(defs[k])
        BY <2>9, <3>1, <4>2 DEF Consistent, Numbered
      <4>3. CASE k = kind /\ n = Len(defs[k]) + 1
        <5>1. defs'[k][n].id = <<kind, CountOf(kind) + 1>> BY <2>4, <2>7, <2>9, <4>3
        <5>2. CountOf(kind) + 1 = imp[k] + n
          <6>1. imp[kind] \in Nat /\ Len(defs[kind]) \in Nat BY <1>1, <1>2 DEF TypeOK
          <6>2. QED BY <2>4, <4>3, <6>1
        <5>3. QED BY <4>3, <5>1, <5>2
      <4>4. QED BY <4>1, <4>2, <4>3
    <3>2. QED BY <2>3, <2>5, <3>1 DEF Consistent, Numbered
  <2>15. HeldDenote'
    <3>1. ASSUME NEW k \in ExternalKinds
          PROVE  CountOf(k) \in Nat /\
                 CountOf(k)' = IF k = kind THEN CountOf(k) + 1 ELSE CountOf(k)
      <4>1. imp[k] \in Nat BY <1>2 DEF TypeOK
      <4>2. QED BY <2>3, <2>9, <4>1 DEF CountOf
    <3>2. ASSUME NEW g \in held PROVE Denotes(g)'
      <4>1. g \in Handles /\ Denotes(g) BY <1>2 DEF Consistent, HeldDenote, TypeOK
      <4>2. g.idx \in Nat BY <4>1 DEF Handles
      <4>3. ASSUME g.kind \in ExternalKinds PROVE g.idx < CountOf(g.kind)'
        <5>1. CountOf(g.kind) \in Nat BY <3>1, <4>3
        <5>2. g.idx < CountOf(g.kind) BY <4>1, <4>3 DEF Denotes
        <5>3. CountOf(g.kind)' = CountOf(g.kind) \/ CountOf(g.kind)' = CountOf(g.kind) + 1
          BY <3>1, <4>3
        <5>4. QED BY <4>2, <5>1, <5>2, <5>3
      <4>4. QED BY <2>3, <2>5, <4>1, <4>3 DEF Denotes
    <3>3. Denotes(h)'
      <4>1. h.idx < CountOf(h.kind)' BY <1>1, <2>4, <3>1
      <4>2. h.id = <<h.kind, h.idx + 1>> BY <2>4
      <4>3. kind # "Elem" /\ kind # "Data" BY <1>1 DEF ExternalKinds
      <4>4. QED BY <2>4, <4>1, <4>2, <4>3 DEF Denotes
    <3>4. \A g \in held' : g \in held \/ g = h BY <1>4, <2>1
    <3>5. QED BY <3>2, <3>3, <3>4 DEF HeldDenote
  <2>16. held \subseteq held' BY <1>4
  <2>17. RefsHeld' BY <2>3, <2>16, RefsGrow DEF Consistent
  <2>18. InitsHeld'
    <3>1. ASSUME NEW k \in ExternalKinds, NEW n \in 1 .. Len(defs'[k]),
                 NEW i \in 1 .. Len(defs'[k][n].init)
          PROVE  defs'[k][n].init[i] \in held'
      <4>1. n \in 1 .. Len(defs[k]) \/ (k = kind /\ n = Len(defs[k]) + 1) BY <2>9
      <4>2. CASE n \in 1 .. Len(defs[k])
        <5>1. defs'[k][n] = defs[k][n] BY <2>9, <4>2
        <5>2. i \in 1 .. Len(defs[k][n].init) BY <3>1, <5>1
        <5>3. defs[k][n].init[i] \in held BY <1>2, <4>2, <5>2 DEF Consistent, InitsHeld
        <5>4. QED BY <2>16, <5>1, <5>3
      <4>3. CASE k = kind /\ n = Len(defs[k]) + 1
        <5>1. defs'[k][n].init = init BY <2>7, <2>9, <4>3
        <5>2. QED BY <2>16, <3>1, <5>1 DEF HeldList
      <4>4. QED BY <4>1, <4>2, <4>3
    <3>2. QED BY <3>1 DEF InitsHeld
  <2>19. BodiesHeld'
    <3>1. \A t : Truthful(t) => Truthful(t)' BY <2>5, <2>16 DEF Truthful, HeldOf
    <3>2. \A b : UsesHeld(b) => UsesHeld(b)' BY <2>16, <3>1 DEF UsesHeld
    <3>3. \A b \in pending' : UsesHeld(b)' /\ b.f \in HeldOf({"Function"})'
      BY <2>3, <2>16, <3>2 DEF Consistent, BodiesHeld, HeldOf
    <3>4. ASSUME NEW n \in 1 .. Len(bodies')
          PROVE  bodies'[n].uses \subseteq held' /\ \A t \in bodies'[n].told : Truthful(t)'
      <4>1. n \in 1 .. Len(bodies) \/ bodies'[n] = NoBody BY <2>11
      <4>2. CASE n \in 1 .. Len(bodies)
        <5>1. PICK b : b = bodies'[n] /\ UsesHeld(b)
          BY <2>11, <4>2 DEF Consistent, BodiesHeld
        <5>2. UsesHeld(b)' BY <3>2, <5>1
        <5>3. QED BY <5>1, <5>2 DEF UsesHeld
      <4>3. CASE bodies'[n] = NoBody BY <4>3 DEF NoBody
      <4>4. QED BY <4>1, <4>2, <4>3
    <3>5. QED BY <3>3, <3>4 DEF BodiesHeld, UsesHeld
  <2>20. BodiesMatch'
    <3>1. Len(bodies) = Len(defs["Function"]) BY DEF Consistent, BodiesMatch
    <3>2. "Function" \in ExternalKinds BY DEF ExternalKinds
    <3>3. Len(bodies') = Len(defs'["Function"]) BY <2>9, <2>11, <3>1, <3>2
    <3>4. ASSUME InOrder, NEW n \in 1 .. Len(bodies'), bodies'[n] # NoBody
          PROVE  bodies'[n].of = <<"Function", imp'["Function"] + n>>
      <4>1. n \in 1 .. Len(bodies) BY <2>11, <3>4
      <4>2. QED BY <2>3, <2>11, <3>4, <4>1 DEF Consistent, BodiesMatch
    <3>5. QED BY <2>5, <3>3, <3>4 DEF BodiesMatch
  <2>21. OutCurrent' BY <2>3 DEF OutCurrent
  <2>22. QED
    BY <2>12, <2>13, <2>14, <2>15, <2>17, <2>18, <2>19, <2>20, <2>21 DEF Consistent
<1>5. QED BY <1>3, <1>4 DEF Declare

(***************************************************************************)
(* The calls that refer to entities.                                       *)
(***************************************************************************)
\* References may grow, and handles of segments with them.
LEMMA ReferStep ==
  ASSUME Consistent, CanRefer, held \subseteq held', held' \subseteq Handles,
         refs' \in Members, RefsHeld', HeldDenote'
  PROVE  Consistent'
<1>1. UNCHANGED <<debug, imports, imp, defs, bodies, phase2, pending, late, status>> /\ out' = <<>>
  BY DEF CanRefer, declared
<1>2. InOrder' => InOrder BY <1>1 DEF InOrder
<1>3. TypeOK' BY <1>1 DEF Consistent, TypeOK
<1>4. Counted' BY <1>1 DEF Consistent, Counted, ImportsOf
<1>5. Numbered' BY <1>1, <1>2 DEF Consistent, Numbered
<1>6. InitsHeld' BY <1>1 DEF Consistent, InitsHeld
<1>7. BodiesHeld' BY <1>1, <1>2, HeldGrows
<1>8. BodiesMatch' BY <1>1, <1>2 DEF Consistent, BodiesMatch
<1>9. OutCurrent' BY <1>1 DEF OutCurrent
<1>10. QED BY <1>3, <1>4, <1>5, <1>6, <1>7, <1>8, <1>9 DEF Consistent

\* Handles denote what they did as long as segments are only added.
LEMMA StillDenotes ==
  ASSUME TypeOK, CanRefer, Len(refs'.elem) >= Len(refs.elem), Len(refs'.data) >= Len(refs.data),
         Len(refs'.elem) \in Nat, Len(refs'.data) \in Nat,
         \A n \in 1 .. Len(refs.data) : refs'.data[n] = refs.data[n],
         NEW g \in held, Denotes(g)
  PROVE  Denotes(g)'
<1>1. UNCHANGED <<debug, imp, defs, late>> BY DEF CanRefer, declared
<1>2. g \in Handles BY DEF TypeOK
<1>3. g.idx \in Nat BY <1>2 DEF Handles
<1>4. Len(refs.elem) \in Nat /\ Len(refs.data) \in Nat
  <2>1. refs.elem \in Seq(SegmentRecords) /\ refs.data \in Seq(SegmentRecords)
    BY DEF TypeOK, Members
  <2>2. QED BY <2>1
<1>5. CASE g.kind \in ExternalKinds
  <2>1. g.kind # "Elem" /\ g.kind # "Data" BY <1>5 DEF ExternalKinds
  <2>2. CountOf(g.kind)' = CountOf(g.kind) /\ InOrder' = InOrder
    BY <1>1 DEF CountOf, InOrder
  <2>3. QED BY <2>1, <2>2 DEF Denotes
<1>6. CASE g.kind = "Elem"
  <2>1. g.idx < Len(refs'.elem) /\ g.id = <<"Elem", g.idx + 1>> BY <1>3, <1>4, <1>6 DEF Denotes
  <2>2. QED BY <1>6, <2>1 DEF Denotes, ExternalKinds
<1>7. CASE g.kind = "Data"
  <2>1. g.idx < Len(refs.data) /\ g.id = <<"Data", g.idx + 1>> /\ refs.data[g.idx + 1].passive
    BY <1>7 DEF Denotes
  <2>2. g.idx + 1 \in 1 .. Len(refs.data) /\ g.idx < Len(refs'.data) BY <1>3, <1>4, <2>1
  <2>3. refs'.data[g.idx + 1].passive BY <2>1, <2>2
  <2>4. QED BY <1>7, <2>1, <2>2, <2>3 DEF Denotes, ExternalKinds
<1>8. QED BY <1>2, <1>5, <1>6, <1>7 DEF Handles, AnyKind

\* Exports, start and names add no segment and make no handle.
LEMMA PlainStep ==
  ASSUME Consistent, CanRefer, UNCHANGED held, refs' \in Members,
         refs'.elem = refs.elem, refs'.data = refs.data,
         \A n \in 1 .. Len(refs'.exports) : refs'.exports[n] \in held,
         \A n \in 1 .. Len(refs'.start) : refs'.start[n] \in held,
         \A n \in 1 .. Len(refs'.names) : refs'.names[n] \in held,
         \A n \in 1 .. Len(refs'.locals) : refs'.locals[n].func \in HeldOf({"Function"})
  PROVE  Consistent'
<1>1. TypeOK /\ held' \subseteq Handles BY DEF Consistent, TypeOK
<1>2. RefsHeld'
  <2>1. \A seg : SegmentHeld(seg) => SegmentHeld(seg)' BY DEF SegmentHeld
  <2>2. /\ \A n \in 1 .. Len(refs'.elem) :
             \A seg : seg = refs'.elem[n] => SegmentHeld(seg)
        /\ \A n \in 1 .. Len(refs'.data) :
             \A seg : seg = refs'.data[n] => SegmentHeld(seg)
    BY DEF Consistent, RefsHeld
  <2>3. QED BY <2>1, <2>2 DEF RefsHeld, HeldOf, SegmentHeld
<1>3. HeldDenote'
  <2>1. Len(refs.elem) \in Nat /\ Len(refs.data) \in Nat
    <3>1. refs.elem \in Seq(SegmentRecords) /\ refs.data \in Seq(SegmentRecords)
      BY <1>1 DEF TypeOK, Members
    <3>2. QED BY <3>1
  <2>2. \A g \in held : Denotes(g)' BY <1>1, <2>1, StillDenotes DEF Consistent, HeldDenote
  <2>3. QED BY <2>2 DEF HeldDenote
<1>4. QED BY <1>1, <1>2, <1>3, ReferStep

\* A segment may come with a handle of its own.
LEMMA ElemStep ==
  ASSUME Consistent, CanRefer, NEW seg \in SegmentRecords, SegmentHeld(seg),
         refs' = [refs EXCEPT !["elem"] = Append(@, seg)], held \subseteq held',
         \A g \in held' : g \in held \/ g = Handle("Elem", Len(refs.elem),
                                                   <<"Elem", Len(refs.elem) + 1>>)
  PROVE  Consistent'
<1>1. TypeOK /\ refs \in Members BY DEF Consistent, TypeOK
<1>2. refs.elem \in Seq(SegmentRecords) /\ refs.data \in Seq(SegmentRecords)
  BY <1>1 DEF Members
<1>3. refs'.elem = Append(refs.elem, seg) /\ refs' \in Members
  <2>1. PICK q : q = Append(refs.elem, seg) /\ q \in Seq(SegmentRecords) BY <1>2, AppendIs
  <2>2. refs' = [refs EXCEPT !["elem"] = q] BY <2>1
  <2>3. QED BY <1>1, <2>1, <2>2 DEF Members
<1>4. /\ refs'.exports = refs.exports /\ refs'.start = refs.start /\ refs'.data = refs.data
      /\ refs'.names = refs.names /\ refs'.locals = refs.locals
  BY <1>1 DEF Members
<1>5. /\ Len(refs.elem) \in Nat /\ Len(refs'.elem) = Len(refs.elem) + 1
      /\ \A n \in 1 .. Len(refs.elem) : refs'.elem[n] = refs.elem[n]
      /\ refs'.elem[Len(refs.elem) + 1] = seg /\ Len(refs.data) \in Nat
  BY <1>2, <1>3, AppendIs
<1>6. PICK h : h = Handle("Elem", Len(refs.elem), <<"Elem", Len(refs.elem) + 1>>) OBVIOUS
<1>7. h.kind = "Elem" /\ h.idx = Len(refs.elem) /\ h.id = <<"Elem", Len(refs.elem) + 1>>
  BY <1>6 DEF Handle
<1>8. h \in Handles BY <1>5, <1>6 DEF Handle, Handles, AnyKind, Ids
<1>9. held' \subseteq Handles BY <1>1, <1>6, <1>8 DEF TypeOK
<1>10. RefsHeld'
  <2>1. \A s : SegmentHeld(s) => SegmentHeld(s)' BY DEF SegmentHeld
  <2>2. ASSUME NEW n \in 1 .. Len(refs'.elem), NEW s, s = refs'.elem[n] PROVE SegmentHeld(s)
    <3>1. n \in 1 .. Len(refs.elem) \/ n = Len(refs.elem) + 1 BY <1>5
    <3>2. CASE n \in 1 .. Len(refs.elem) BY <1>5, <2>2, <3>2 DEF Consistent, RefsHeld
    <3>3. CASE n = Len(refs.elem) + 1 BY <1>5, <2>2, <3>3
    <3>4. QED BY <3>1, <3>2, <3>3
  <2>3. \A n \in 1 .. Len(refs'.data) : \A s : s = refs'.data[n] => SegmentHeld(s)
    BY <1>4 DEF Consistent, RefsHeld
  <2>4. (/\ \A n \in 1 .. Len(refs.elem) : SegmentHeld(refs.elem[n])
         /\ \A n \in 1 .. Len(refs.data) : SegmentHeld(refs.data[n]))'
    BY <2>1, <2>2, <2>3 DEF SegmentHeld
  <2>5. (\A n \in 1 .. Len(refs.locals) : refs.locals[n].func \in HeldOf({"Function"}))'
    BY <1>4 DEF Consistent, RefsHeld, HeldOf
  <2>6. (/\ \A n \in 1 .. Len(refs.exports) : refs.exports[n] \in held
         /\ \A n \in 1 .. Len(refs.start) : refs.start[n] \in held
         /\ \A n \in 1 .. Len(refs.names) : refs.names[n] \in held)'
    BY <1>4 DEF Consistent, RefsHeld
  <2>7. QED BY <2>4, <2>5, <2>6 DEF RefsHeld
<1>11. HeldDenote'
  <2>1. Len(refs'.elem) \in Nat /\ Len(refs'.elem) >= Len(refs.elem) /\ refs'.data = refs.data
    BY <1>4, <1>5
  <2>2. \A g \in held : Denotes(g)'
    BY <1>1, <1>5, <2>1, StillDenotes DEF Consistent, HeldDenote
  <2>3. Denotes(h)' BY <1>5, <1>7 DEF Denotes, ExternalKinds
  <2>4. QED BY <1>6, <2>2, <2>3 DEF HeldDenote
<1>12. QED BY <1>3, <1>9, <1>10, <1>11, ReferStep

LEMMA DataStep ==
  ASSUME Consistent, CanRefer, NEW seg \in SegmentRecords, SegmentHeld(seg),
         refs' = [refs EXCEPT !["data"] = Append(@, seg)], held \subseteq held',
         \A g \in held' : g \in held \/ (seg.passive /\
                            g = Handle("Data", Len(refs.data), <<"Data", Len(refs.data) + 1>>))
  PROVE  Consistent'
<1>1. TypeOK /\ refs \in Members BY DEF Consistent, TypeOK
<1>2. refs.elem \in Seq(SegmentRecords) /\ refs.data \in Seq(SegmentRecords)
  BY <1>1 DEF Members
<1>3. refs'.data = Append(refs.data, seg) /\ refs' \in Members
  <2>1. PICK q : q = Append(refs.data, seg) /\ q \in Seq(SegmentRecords) BY <1>2, AppendIs
  <2>2. refs' = [refs EXCEPT !["data"] = q] BY <2>1
  <2>3. QED BY <1>1, <2>1, <2>2 DEF Members
<1>4. /\ refs'.exports = refs.exports /\ refs'.start = refs.start /\ refs'.elem = refs.elem
      /\ refs'.names = refs.names /\ refs'.locals = refs.locals
  BY <1>1 DEF Members
<1>5. /\ Len(refs.data) \in Nat /\ Len(refs'.data) = Len(refs.data) + 1
      /\ \A n \in 1 .. Len(refs.data) : refs'.data[n] = refs.data[n]
      /\ refs'.data[Len(refs.data) + 1] = seg /\ Len(refs.elem) \in Nat
  BY <1>2, <1>3, AppendIs
<1>6. PICK h : h = Handle("Data", Len(refs.data), <<"Data", Len(refs.data) + 1>>) OBVIOUS
<1>7. h.kind = "Data" /\ h.idx = Len(refs.data) /\ h.id = <<"Data", Len(refs.data) + 1>>
  BY <1>6 DEF Handle
<1>8. h \in Handles BY <1>5, <1>6 DEF Handle, Handles, AnyKind, Ids
<1>9. held' \subseteq Handles BY <1>1, <1>6, <1>8 DEF TypeOK
<1>10. RefsHeld'
  <2>1. \A s : SegmentHeld(s) => SegmentHeld(s)' BY DEF SegmentHeld
  <2>2. ASSUME NEW n \in 1 .. Len(refs'.data), NEW s, s = refs'.data[n] PROVE SegmentHeld(s)
    <3>1. n \in 1 .. Len(refs.data) \/ n = Len(refs.data) + 1 BY <1>5
    <3>2. CASE n \in 1 .. Len(refs.data) BY <1>5, <2>2, <3>2 DEF Consistent, RefsHeld
    <3>3. CASE n = Len(refs.data) + 1 BY <1>5, <2>2, <3>3
    <3>4. QED BY <3>1, <3>2, <3>3
  <2>3. \A n \in 1 .. Len(refs'.elem) : \A s : s = refs'.elem[n] => SegmentHeld(s)
    BY <1>4 DEF Consistent, RefsHeld
  <2>4. (/\ \A n \in 1 .. Len(refs.elem) : SegmentHeld(refs.elem[n])
         /\ \A n \in 1 .. Len(refs.data) : SegmentHeld(refs.data[n]))'
    BY <2>1, <2>2, <2>3 DEF SegmentHeld
  <2>5. (\A n \in 1 .. Len(refs.locals) : refs.locals[n].func \in HeldOf({"Function"}))'
    BY <1>4 DEF Consistent, RefsHeld, HeldOf
  <2>6. (/\ \A n \in 1 .. Len(refs.exports) : refs.exports[n] \in held
         /\ \A n \in 1 .. Len(refs.start) : refs.start[n] \in held
         /\ \A n \in 1 .. Len(refs.names) : refs.names[n] \in held)'
    BY <1>4 DEF Consistent, RefsHeld
  <2>7. QED BY <2>4, <2>5, <2>6 DEF RefsHeld
<1>11. HeldDenote'
  <2>1. Len(refs'.data) \in Nat /\ Len(refs'.data) >= Len(refs.data) /\ refs'.elem = refs.elem
    BY <1>4, <1>5
  <2>2. \A g \in held : Denotes(g)'
    BY <1>1, <1>5, <2>1, StillDenotes DEF Consistent, HeldDenote
  <2>3. seg.passive => Denotes(h)' BY <1>5, <1>7 DEF Denotes, ExternalKinds
  <2>4. QED BY <1>6, <2>2, <2>3 DEF HeldDenote
<1>12. QED BY <1>3, <1>9, <1>10, <1>11, ReferStep

LEMMA ExportStep ==
  ASSUME Consistent, NEW h \in held, Export(h)
  PROVE  Consistent'
<1>1. refs \in Members /\ h \in Handles /\ refs.exports \in Seq(Handles)
  BY DEF Consistent, TypeOK, Members
<1>2. PICK q : q = Append(refs.exports, h) OBVIOUS
<1>3. /\ q \in Seq(Handles) /\ Len(refs.exports) \in Nat /\ Len(q) = Len(refs.exports) + 1
      /\ \A n \in 1 .. Len(refs.exports) : q[n] = refs.exports[n]
      /\ q[Len(refs.exports) + 1] = h
  BY <1>1, <1>2, AppendIs
<1>4. CanRefer /\ UNCHANGED held /\ refs' = [refs EXCEPT !["exports"] = q]
  BY <1>2 DEF Export, Refer
<1>5. /\ refs' \in Members /\ refs'.exports = q /\ refs'.elem = refs.elem
      /\ refs'.data = refs.data /\ refs'.start = refs.start /\ refs'.names = refs.names
      /\ refs'.locals = refs.locals
  BY <1>1, <1>3, <1>4 DEF Members
<1>6. \A n \in 1 .. Len(q) : q[n] \in held
  <2>1. \A n \in 1 .. Len(q) : n \in 1 .. Len(refs.exports) \/ n = Len(refs.exports) + 1
    BY <1>3
  <2>2. QED BY <1>3, <2>1 DEF Consistent, RefsHeld
<1>7. QED BY <1>4, <1>5, <1>6, PlainStep DEF Consistent, RefsHeld

LEMMA SetStartStep ==
  ASSUME Consistent, NEW f \in held, SetStart(f)
  PROVE  Consistent'
<1>1. refs \in Members /\ f \in Handles BY DEF Consistent, TypeOK
<1>2. PICK q : q = <<f>> OBVIOUS
<1>3. q \in Seq(Handles) /\ \A n \in 1 .. Len(q) : q[n] \in held BY <1>1, <1>2
<1>4. CanRefer /\ UNCHANGED held /\ refs' = [refs EXCEPT !["start"] = q]
  BY <1>2 DEF SetStart
<1>5. /\ refs' \in Members /\ refs'.start = q /\ refs'.elem = refs.elem
      /\ refs'.data = refs.data /\ refs'.exports = refs.exports /\ refs'.names = refs.names
      /\ refs'.locals = refs.locals
  BY <1>1, <1>3, <1>4 DEF Members
<1>6. QED BY <1>3, <1>4, <1>5, PlainStep DEF Consistent, RefsHeld

LEMMA SetNameStep ==
  ASSUME Consistent, NEW h \in held, SetName(h)
  PROVE  Consistent'
<1>1. refs \in Members /\ h \in Handles /\ refs.names \in Seq(Handles)
  BY DEF Consistent, TypeOK, Members
<1>2. PICK q : q = Append(refs.names, h) OBVIOUS
<1>3. /\ q \in Seq(Handles) /\ Len(refs.names) \in Nat /\ Len(q) = Len(refs.names) + 1
      /\ \A n \in 1 .. Len(refs.names) : q[n] = refs.names[n]
      /\ q[Len(refs.names) + 1] = h
  BY <1>1, <1>2, AppendIs
<1>4. CanRefer /\ UNCHANGED held /\ refs' = [refs EXCEPT !["names"] = q]
  BY <1>2 DEF SetName, Refer
<1>5. /\ refs' \in Members /\ refs'.names = q /\ refs'.elem = refs.elem
      /\ refs'.data = refs.data /\ refs'.start = refs.start /\ refs'.exports = refs.exports
      /\ refs'.locals = refs.locals
  BY <1>1, <1>3, <1>4 DEF Members
<1>6. \A n \in 1 .. Len(q) : q[n] \in held
  <2>1. \A n \in 1 .. Len(q) : n \in 1 .. Len(refs.names) \/ n = Len(refs.names) + 1
    BY <1>3
  <2>2. QED BY <1>3, <2>1 DEF Consistent, RefsHeld
<1>7. QED BY <1>4, <1>5, <1>6, PlainStep DEF Consistent, RefsHeld

LEMMA SetLocalNameStep ==
  ASSUME Consistent, NEW f \in HeldOf({"Function"}), NEW local \in Nat, SetLocalName(f, local)
  PROVE  Consistent'
<1>1. refs \in Members /\ f \in Handles /\ refs.locals \in Seq(Rows)
  BY DEF Consistent, TypeOK, Members, HeldOf
<1>2. PICK row : row \in Rows /\ row.func = f /\ row = [func |-> f, local |-> local]
  <2>1. [func |-> f, local |-> local] \in Rows BY <1>1 DEF Rows
  <2>2. QED BY <2>1
<1>3. PICK q : q = Append(refs.locals, row) OBVIOUS
<1>4. /\ q \in Seq(Rows) /\ Len(refs.locals) \in Nat /\ Len(q) = Len(refs.locals) + 1
      /\ \A n \in 1 .. Len(refs.locals) : q[n] = refs.locals[n]
      /\ q[Len(refs.locals) + 1] = row
  BY <1>1, <1>2, <1>3, AppendIs
<1>5. CanRefer /\ UNCHANGED held /\ refs' = [refs EXCEPT !["locals"] = q]
  BY <1>2, <1>3 DEF SetLocalName
<1>6. /\ refs' \in Members /\ refs'.locals = q /\ refs'.elem = refs.elem
      /\ refs'.data = refs.data /\ refs'.start = refs.start /\ refs'.exports = refs.exports
      /\ refs'.names = refs.names
  BY <1>1, <1>4, <1>5 DEF Members
<1>7. \A n \in 1 .. Len(q) : q[n].func \in HeldOf({"Function"})
  <2>1. \A n \in 1 .. Len(q) : n \in 1 .. Len(refs.locals) \/ n = Len(refs.locals) + 1
    BY <1>4
  <2>2. QED BY <1>2, <1>4, <2>1 DEF Consistent, RefsHeld
<1>8. QED BY <1>5, <1>6, <1>7, PlainStep DEF Consistent, RefsHeld

LEMMA TitleStep ==
  ASSUME Consistent, SetModuleName \/ CustomSection
  PROVE  Consistent'
<1>1. refs \in Members /\ refs.customs \in Seq({"custom"}) BY DEF Consistent, TypeOK, Members
<1>2. CASE SetModuleName
  <2>1. CanRefer /\ UNCHANGED held /\ refs' = [refs EXCEPT !["title"] = <<"title">>]
    BY <1>2 DEF SetModuleName
  <2>2. /\ refs' \in Members /\ refs'.elem = refs.elem /\ refs'.data = refs.data
        /\ refs'.start = refs.start /\ refs'.exports = refs.exports
        /\ refs'.names = refs.names /\ refs'.locals = refs.locals
    <3>1. PICK q : q = <<"title">> /\ q \in Seq({"title"})
      <4>1. <<"title">> \in Seq({"title"}) OBVIOUS
      <4>2. QED BY <4>1
    <3>2. refs' = [refs EXCEPT !["title"] = q] BY <2>1, <3>1
    <3>3. QED BY <1>1, <3>1, <3>2 DEF Members
  <2>3. QED BY <2>1, <2>2, PlainStep DEF Consistent, RefsHeld
<1>3. CASE CustomSection
  <2>1. PICK q : q = Append(refs.customs, "custom") /\ q \in Seq({"custom"})
    <3>1. Append(refs.customs, "custom") \in Seq({"custom"}) BY <1>1, AppendIs
    <3>2. QED BY <3>1
  <2>2. CanRefer /\ UNCHANGED held /\ refs' = [refs EXCEPT !["customs"] = q]
    BY <1>3, <2>1 DEF CustomSection, Refer
  <2>3. /\ refs' \in Members /\ refs'.elem = refs.elem /\ refs'.data = refs.data
        /\ refs'.start = refs.start /\ refs'.exports = refs.exports
        /\ refs'.names = refs.names /\ refs'.locals = refs.locals
    BY <1>1, <2>1, <2>2 DEF Members
  <2>4. QED BY <2>2, <2>3, PlainStep DEF Consistent, RefsHeld
<1>4. QED BY <1>2, <1>3

LEMMA SegmentTyped ==
  ASSUME NEW passive \in BOOLEAN, NEW where \in Handles, NEW offset, HeldList(offset),
         NEW funcs, HeldList(funcs), passive \/ where \in held
  PROVE  /\ Segment(passive, where, offset, funcs) \in SegmentRecords
         /\ SegmentHeld(Segment(passive, where, offset, funcs))
         /\ Segment(passive, where, offset, funcs).passive = passive
BY DEF Segment, SegmentRecords, SegmentHeld, HeldList

LEMMA ActiveStep ==
  ASSUME Consistent, NEW funcs, HeldList(funcs), NEW offset, HeldList(offset), NEW h \in held,
         ActiveElem(h, offset, funcs) \/ ActiveData(h, offset)
  PROVE  Consistent'
<1>1. h \in Handles /\ HeldList(<<>>) BY DEF Consistent, TypeOK, HeldList
<1>2. CASE ActiveElem(h, offset, funcs)
  <2>1. PICK seg : seg = Segment(FALSE, h, offset, funcs) OBVIOUS
  <2>2. seg \in SegmentRecords /\ SegmentHeld(seg) BY <1>1, <2>1, SegmentTyped
  <2>3. CanRefer /\ UNCHANGED held /\ refs' = [refs EXCEPT !["elem"] = Append(@, seg)]
    BY <1>2, <2>1 DEF ActiveElem, Refer
  <2>4. QED BY <2>2, <2>3, ElemStep
<1>3. CASE ActiveData(h, offset)
  <2>1. PICK seg : seg = Segment(FALSE, h, offset, <<>>) OBVIOUS
  <2>2. seg \in SegmentRecords /\ SegmentHeld(seg) BY <1>1, <2>1, SegmentTyped
  <2>3. CanRefer /\ UNCHANGED held /\ refs' = [refs EXCEPT !["data"] = Append(@, seg)]
    BY <1>3, <2>1 DEF ActiveData, Refer
  <2>4. QED BY <2>2, <2>3, DataStep
<1>4. QED BY <1>2, <1>3

LEMMA PassiveStep ==
  ASSUME Consistent, NEW funcs, HeldList(funcs), PassiveElem(funcs) \/ PassiveData
  PROVE  Consistent'
<1>1. HeldList(<<>>) BY DEF HeldList
<1>2. CASE PassiveElem(funcs)
  <2>1. PICK seg : seg = Segment(TRUE, Handle("Table", 0, <<>>), <<>>, funcs) OBVIOUS
  <2>2. Handle("Table", 0, <<>>) \in Handles BY DEF Handle, Handles, AnyKind, ExternalKinds, Ids
  <2>3. seg \in SegmentRecords /\ SegmentHeld(seg) BY <1>1, <2>1, <2>2, SegmentTyped
  <2>4. CanRefer /\ refs' = [refs EXCEPT !["elem"] = Append(@, seg)]
    BY <1>2, <2>1 DEF PassiveElem, Refer
  <2>5. held' = held \cup {Handle("Elem", Len(refs.elem), <<"Elem", Len(refs.elem) + 1>>)}
    BY <1>2 DEF PassiveElem
  <2>6. /\ held \subseteq held'
        /\ \A g \in held' : g \in held \/ g = Handle("Elem", Len(refs.elem),
                                                     <<"Elem", Len(refs.elem) + 1>>)
    BY <2>5
  <2>7. QED BY <2>3, <2>4, <2>6, ElemStep
<1>3. CASE PassiveData
  <2>1. PICK seg : seg = Segment(TRUE, Handle("Memory", 0, <<>>), <<>>, <<>>) OBVIOUS
  <2>2. Handle("Memory", 0, <<>>) \in Handles BY DEF Handle, Handles, AnyKind, ExternalKinds, Ids
  <2>3. seg \in SegmentRecords /\ SegmentHeld(seg) /\ seg.passive
    BY <1>1, <2>1, <2>2, SegmentTyped
  <2>4. CanRefer /\ refs' = [refs EXCEPT !["data"] = Append(@, seg)]
    BY <1>3, <2>1 DEF PassiveData, Refer
  <2>5. held' = held \cup {Handle("Data", Len(refs.data), <<"Data", Len(refs.data) + 1>>)}
    BY <1>3 DEF PassiveData
  <2>6. /\ held \subseteq held'
        /\ \A g \in held' : g \in held \/ (seg.passive /\
             g = Handle("Data", Len(refs.data), <<"Data", Len(refs.data) + 1>>))
    BY <2>3, <2>5
  <2>7. QED BY <2>3, <2>4, <2>6, DataStep
<1>4. QED BY <1>2, <1>3

(***************************************************************************)
(* Emitting and assembling.                                                *)
(***************************************************************************)
\* The validator is told the truth about the handles that a body uses.
LEMMA EmitStep ==
  ASSUME Consistent, NEW f \in HeldOf({"Function"}), NEW uses, uses \subseteq held,
         EmitBody(f, uses)
  PROVE  Consistent'
<1>1. UNCHANGED <<debug, imports, imp, defs, bodies, refs, phase2, held, late>> /\ out' = <<>>
  BY DEF EmitBody, declared
<1>2. TypeOK /\ Counted /\ Numbered /\ held \subseteq Handles BY DEF Consistent, TypeOK
<1>3. PICK b : b = [f |-> f, uses |-> uses, told |-> Told(uses)] OBVIOUS
<1>4. b.f = f /\ b.uses = uses /\ b.told = Told(uses) BY <1>3
<1>5. \A c \in pending' : c \in pending \/ c = b BY <1>3 DEF EmitBody
<1>6. InOrder' = InOrder BY <1>1 DEF InOrder
<1>7. ASSUME NEW t \in Told(uses) PROVE t \in Tellings /\ Truthful(t)
  <2>1. PICK g \in uses : g.kind \in ExternalKinds /\ t = [about |-> g, id |-> Lookup(g.kind, g.idx)]
    BY DEF Told
  <2>2. g \in held /\ g \in Handles /\ g.idx \in Nat BY <1>2, <2>1 DEF Handles
  <2>3. g.idx < CountOf(g.kind) BY <2>1, <2>2 DEF Consistent, HeldDenote, Denotes
  <2>4. g.idx \in 0 .. CountOf(g.kind) - 1
    <3>1. CountOf(g.kind) \in Nat BY <1>2, <2>1, FreshIds
    <3>2. QED BY <2>2, <2>3, <3>1
  <2>5. /\ Lookup(g.kind, g.idx) \in Ids
        /\ InOrder => Lookup(g.kind, g.idx) = <<g.kind, g.idx + 1>>
    BY <1>2, <2>1, <2>4, LookupIs
  <2>6. t \in Tellings BY <2>1, <2>2, <2>5 DEF Tellings
  <2>7. Truthful(t) BY <2>1, <2>2, <2>5 DEF Truthful, HeldOf
  <2>8. QED BY <2>6, <2>7
<1>8. b \in [f : Handles, uses : SUBSET Handles, told : SUBSET Tellings]
  <2>1. f \in Handles /\ uses \in SUBSET Handles BY <1>2 DEF HeldOf
  <2>2. Told(uses) \in SUBSET Tellings BY <1>7
  <2>3. QED BY <1>3, <2>1, <2>2
<1>9. TypeOK'
  <2>1. pending' \subseteq [f : Handles, uses : SUBSET Handles, told : SUBSET Tellings]
    BY <1>2, <1>5, <1>8 DEF TypeOK
  <2>2. QED BY <1>1, <1>2, <2>1 DEF TypeOK
<1>10. Counted' BY <1>1, <1>2 DEF Counted, ImportsOf
<1>11. Numbered' BY <1>1, <1>2, <1>6 DEF Numbered
<1>12. HeldDenote' BY <1>1, <1>6 DEF Consistent, HeldDenote, Denotes, CountOf
<1>13. RefsHeld' BY <1>1 DEF Consistent, RefsHeld, SegmentHeld, HeldOf
<1>14. InitsHeld' BY <1>1 DEF Consistent, InitsHeld
<1>15. BodiesHeld'
  <2>1. \A t : Truthful(t) => Truthful(t)' BY <1>1, <1>6 DEF Truthful, HeldOf
  <2>2. \A c : UsesHeld(c) => UsesHeld(c)' BY <1>1, <2>1 DEF UsesHeld
  <2>3. UsesHeld(b)' BY <1>1, <1>4, <1>7, <2>1 DEF UsesHeld
  <2>4. \A c \in pending' : UsesHeld(c)' /\ c.f \in HeldOf({"Function"})'
    BY <1>1, <1>4, <1>5, <2>2, <2>3 DEF Consistent, BodiesHeld, HeldOf
  <2>5. \A n \in 1 .. Len(bodies) : \A c : c = bodies[n] => UsesHeld(c)'
    BY <2>2 DEF Consistent, BodiesHeld
  <2>6. QED BY <1>1, <2>4, <2>5 DEF BodiesHeld, UsesHeld
<1>16. BodiesMatch' BY <1>1, <1>6 DEF Consistent, BodiesMatch
<1>17. OutCurrent' BY <1>1 DEF OutCurrent
<1>18. QED
  BY <1>9, <1>10, <1>11, <1>12, <1>13, <1>14, <1>15, <1>16, <1>17 DEF Consistent

\* A body goes to the place of the function whose handle it came with.
LEMMA DefineStep ==
  ASSUME Consistent, NEW b \in pending, DefineFunction(b)
  PROVE  Consistent'
<1> DEFINE i == BodySlot(b.f)
<1>1. /\ UNCHANGED <<debug, declared, refs, held, late>> /\ out' = <<>> /\ phase2' \in BOOLEAN
      /\ pending' \subseteq pending
  BY DEF DefineFunction, Stop
<1>2. UNCHANGED <<imports, imp, defs>> BY <1>1 DEF declared
<1>3. CASE UNCHANGED bodies BY <1>1, <1>3, IdleStep
<1>4. CASE bodies' # bodies
  <2>1. /\ i \in 0 .. Len(bodies) - 1
        /\ bodies' = [bodies EXCEPT ![i + 1] = [of |-> b.f.id, uses |-> b.uses, told |-> b.told]]
    BY <1>4 DEF DefineFunction, Stop
  <2>2. PICK new : new = [of |-> b.f.id, uses |-> b.uses, told |-> b.told] OBVIOUS
  <2>3. TypeOK /\ b \in [f : Handles, uses : SUBSET Handles, told : SUBSET Tellings]
    BY DEF Consistent, TypeOK
  <2>4. b.f \in Handles /\ b.f.idx \in Nat /\ b.f.id \in Ids BY <2>3 DEF Handles
  <2>5. new \in Bodies /\ new.of = b.f.id /\ new.uses = b.uses /\ new.told = b.told
    BY <2>2, <2>3, <2>4 DEF Bodies
  <2>6. bodies \in Seq(Bodies) /\ Len(bodies) \in Nat /\ imp["Function"] \in Nat
    BY <2>3 DEF TypeOK, ExternalKinds
  <2>7. i \in Nat /\ i + 1 \in 1 .. Len(bodies) BY <2>1, <2>6
  <2>8. /\ bodies' \in Seq(Bodies) /\ Len(bodies') = Len(bodies)
        /\ \A n \in 1 .. Len(bodies) : bodies'[n] = IF n = i + 1 THEN new ELSE bodies[n]
    <3>1. bodies' = [bodies EXCEPT ![i + 1] = new] BY <2>1, <2>2
    <3> HIDE DEF i
    <3>2. QED BY <2>5, <2>6, <2>7, <3>1
  <2>9. InOrder' = InOrder BY <1>1 DEF InOrder
  <2>10. TypeOK' BY <1>1, <1>2, <2>3, <2>8 DEF TypeOK
  <2>11. Counted' BY <1>2 DEF Consistent, Counted, ImportsOf
  <2>12. Numbered' BY <1>2, <2>9 DEF Consistent, Numbered
  <2>13. HeldDenote' BY <1>1, <1>2, <2>9 DEF Consistent, HeldDenote, Denotes, CountOf
  <2>14. RefsHeld' BY <1>1 DEF Consistent, RefsHeld, SegmentHeld, HeldOf
  <2>15. InitsHeld' BY <1>1, <1>2 DEF Consistent, InitsHeld
  <2>16. BodiesHeld'
    <3>1. \A t : Truthful(t) => Truthful(t)' BY <1>1, <2>9 DEF Truthful, HeldOf
    <3>2. \A c : UsesHeld(c) => UsesHeld(c)' BY <1>1, <3>1 DEF UsesHeld
    <3>3. \A c \in pending' : UsesHeld(c)' /\ c.f \in HeldOf({"Function"})'
      BY <1>1, <3>2 DEF Consistent, BodiesHeld, HeldOf
    <3>4. UsesHeld(new)
      <4>1. UsesHeld(b) BY DEF Consistent, BodiesHeld
      <4>2. QED BY <2>5, <4>1 DEF UsesHeld
    <3>5. ASSUME NEW n \in 1 .. Len(bodies'), NEW c, c = bodies'[n] PROVE UsesHeld(c)'
      <4>1. UsesHeld(c)
        <5>1. CASE n = i + 1 BY <2>7, <2>8, <3>4, <3>5, <5>1
        <5>2. CASE n # i + 1 BY <2>8, <3>5, <5>2 DEF Consistent, BodiesHeld
        <5>3. QED BY <5>1, <5>2
      <4>2. QED BY <3>2, <4>1
    <3>6. QED BY <3>3, <3>5 DEF BodiesHeld, UsesHeld
  <2>17. BodiesMatch'
    <3>1. Len(bodies') = Len(defs'["Function"]) BY <1>2, <2>8 DEF Consistent, BodiesMatch
    <3>2. ASSUME InOrder, NEW n \in 1 .. Len(bodies'), bodies'[n] # NoBody
          PROVE  bodies'[n].of = <<"Function", imp["Function"] + n>>
      <4>1. CASE n = i + 1
        <5>1. b.f \in held /\ b.f.kind = "Function" BY DEF Consistent, BodiesHeld, HeldOf
        <5>2. b.f.id = <<"Function", b.f.idx + 1>>
          BY <3>2, <5>1 DEF Consistent, HeldDenote, Denotes, ExternalKinds
        <5>3. b.f.idx + 1 = imp["Function"] + n BY <2>4, <2>6, <4>1 DEF BodySlot
        <5>4. bodies'[n].of = b.f.id BY <2>5, <2>7, <2>8, <4>1
        <5>5. QED BY <5>2, <5>3, <5>4
      <4>2. CASE n # i + 1
        <5>1. n \in 1 .. Len(bodies) /\ bodies'[n] = bodies[n] BY <2>8, <4>2
        <5>2. QED BY <3>2, <5>1 DEF Consistent, BodiesMatch
      <4>3. QED BY <4>1, <4>2
    <3>3. QED BY <1>2, <2>9, <3>1, <3>2 DEF BodiesMatch
  <2>18. OutCurrent' BY <1>1 DEF OutCurrent
  <2>19. QED
    BY <2>10, <2>11, <2>12, <2>13, <2>14, <2>15, <2>16, <2>17, <2>18 DEF Consistent
<1>5. QED BY <1>3, <1>4

\* What is assembled is a function of the state that the assembly leaves alone.
LEMMA SectionsOfState ==
  ASSUME UNCHANGED <<imports, defs, bodies, refs>>
  PROVE  Sections' = Sections /\ FindError' = FindError
<1>1. FindError' = FindError BY DEF FindError
<1>2. \A k : NamesFor(k)' = NamesFor(k) BY DEF NamesFor
<1>3. \A k : NameMap(k)' = NameMap(k) BY <1>2 DEF NameMap
<1>4. LocalNameMap' = LocalNameMap BY DEF LocalNameMap
<1>5. NameSection' = NameSection BY <1>3, <1>4 DEF NameSection
<1>6. HasPassiveData' = HasPassiveData BY DEF HasPassiveData
<1>7. AllSections' = AllSections BY <1>5, <1>6 DEF AllSections
<1>8. Sections' = Sections BY <1>7 DEF Sections
<1>9. QED BY <1>1, <1>8

LEMMA AssembleStep ==
  ASSUME Consistent, Assemble
  PROVE  Consistent'
<1>1. UNCHANGED <<debug, imports, imp, defs, refs, bodies, phase2, held, pending, late>>
  BY DEF Assemble, declared
<1>2. InOrder' = InOrder BY <1>1 DEF InOrder
<1>3. TypeOK' BY <1>1 DEF Consistent, TypeOK
<1>4. Counted' BY <1>1 DEF Consistent, Counted, ImportsOf
<1>5. Numbered' BY <1>1, <1>2 DEF Consistent, Numbered
<1>6. HeldDenote' BY <1>1, <1>2 DEF Consistent, HeldDenote, Denotes, CountOf
<1>7. RefsHeld' BY <1>1 DEF Consistent, RefsHeld, SegmentHeld, HeldOf
<1>8. InitsHeld' BY <1>1 DEF Consistent, InitsHeld
<1>9. BodiesHeld' BY <1>1, <1>2, HeldGrows
<1>10. BodiesMatch' BY <1>1, <1>2 DEF Consistent, BodiesMatch
<1>11. OutCurrent'
  <2>1. Sections' = Sections /\ FindError' = FindError BY <1>1, SectionsOfState
  <2>2. out' = <<>> \/ (out' = Sections /\ ~FindError) BY DEF Assemble
  <2>3. QED BY <2>1, <2>2 DEF OutCurrent
<1>12. QED BY <1>3, <1>4, <1>5, <1>6, <1>7, <1>8, <1>9, <1>10, <1>11 DEF Consistent

LEMMA NextConsistent ==
  ASSUME Consistent, [Next]_vars
  PROVE  Consistent'
<1>1. TypeOK BY DEF Consistent
<1>2. CASE UNCHANGED vars
  <2>1. UNCHANGED <<debug, imports, imp, defs, bodies, refs, phase2, held, pending, late, out>>
    BY <1>2 DEF vars
  <2>2. InOrder' = InOrder BY <2>1 DEF InOrder
  <2>3. TypeOK' BY <2>1 DEF Consistent, TypeOK
  <2>4. Counted' BY <2>1 DEF Consistent, Counted, ImportsOf
  <2>5. Numbered' BY <2>1, <2>2 DEF Consistent, Numbered
  <2>6. HeldDenote' BY <2>1, <2>2 DEF Consistent, HeldDenote, Denotes, CountOf
  <2>7. RefsHeld' BY <2>1 DEF Consistent, RefsHeld, SegmentHeld, HeldOf
  <2>8. InitsHeld' BY <2>1 DEF Consistent, InitsHeld
  <2>9. BodiesHeld' BY <2>1, <2>2, HeldGrows
  <2>10. BodiesMatch' BY <2>1, <2>2 DEF Consistent, BodiesMatch
  <2>11. OutCurrent' BY <2>1, SectionsOfState DEF Consistent, OutCurrent
  <2>12. QED
    BY <2>3, <2>4, <2>5, <2>6, <2>7, <2>8, <2>9, <2>10, <2>11 DEF Consistent
<1>3. CASE \E kind \in Kinds : ImportEntity(kind) BY <1>3, ImportStep
<1>4. CASE \E kind \in Kinds : \E init \in IF kind = "Global" THEN Constants ELSE {<<>>} :
             Declare(kind, init)
  <2>1. PICK kind \in Kinds, init \in Constants : Declare(kind, init) BY <1>4 DEF Constants
  <2>2. HeldList(init) BY <1>1, ListsHeld DEF Constants
  <2>3. QED BY <2>1, <2>2, DeclareStep
<1>5. CASE \/ \E h \in HeldOf(ExternalKinds) : Export(h)
           \/ \E f \in HeldOf({"Function"}) : SetStart(f)
           \/ \E h \in HeldOf({"Function", "Global"}) : SetName(h)
  BY <1>5, ExportStep, SetStartStep, SetNameStep DEF HeldOf
<1>6. CASE \E funcs \in {<<>>} \cup {<<f>> : f \in HeldOf({"Function"})} :
             \/ PassiveElem(funcs)
             \/ \E t \in HeldOf({"Table"}), offset \in Constants : ActiveElem(t, offset, funcs)
  <2>1. PICK funcs \in {<<>>} \cup {<<f>> : f \in HeldOf({"Function"})} :
          \/ PassiveElem(funcs)
          \/ \E t \in HeldOf({"Table"}), offset \in Constants : ActiveElem(t, offset, funcs)
    BY <1>6
  <2>2. HeldList(funcs) BY <1>1, ListsHeld
  <2>3. \A offset \in Constants : HeldList(offset) BY <1>1, ListsHeld DEF Constants
  <2>4. QED BY <2>1, <2>2, <2>3, ActiveStep, PassiveStep DEF HeldOf
<1>7. CASE \E m \in HeldOf({"Memory"}), offset \in Constants : ActiveData(m, offset)
  <2>1. \A offset \in Constants : HeldList(offset) BY <1>1, ListsHeld DEF Constants
  <2>2. QED BY <1>7, <2>1, ActiveStep DEF HeldOf
<1>8. CASE PassiveData
  <2>1. HeldList(<<>>) BY DEF HeldList
  <2>2. QED BY <1>8, <2>1, PassiveStep
<1>9. CASE \E f \in HeldOf({"Function"}), local \in 0 .. 1 : SetLocalName(f, local)
  BY <1>9, SetLocalNameStep
<1>10. CASE SetModuleName \/ CustomSection BY <1>10, TitleStep
<1>11. CASE \E f \in HeldOf({"Function"}) :
              \E uses \in {{}} \cup {{h} : h \in held} : EmitBody(f, uses)
  BY <1>11, EmitStep
<1>12. CASE \E b \in pending : DefineFunction(b) BY <1>12, DefineStep
<1>13. CASE Assemble BY <1>13, AssembleStep
<1>14. QED
  BY <1>2, <1>3, <1>4, <1>5, <1>6, <1>7, <1>8, <1>9, <1>10, <1>11, <1>12, <1>13 DEF Next

\* Index spaces, handles and references stay consistent: the inductive
\* invariant of class Module.
THEOREM ModuleConsistent == Spec => []Consistent
<1>1. Init => Consistent BY InitConsistent
<1>2. Consistent /\ [Next]_vars => Consistent' BY NextConsistent
<1>3. QED BY <1>1, <1>2, PTL DEF Spec

(***************************************************************************)
(* Reading the sections.                                                   *)
(***************************************************************************)
LEMMA ToSetIs ==
  ASSUME NEW T, NEW s \in Seq(T), NEW x \in ToSet(s)
  PROVE  \E n \in 1 .. Len(s) : x = s[n]
BY DEF ToSet

\* What NotEmpty() leaves out is empty anyway: who looks for an identifier that
\* one section has finds that section's items.
LEMMA ItemsRead ==
  ASSUME NEW T, NEW s \in Seq(T), NEW j \in 1 .. Len(s),
         \A n \in 1 .. Len(s) : s[n].id = s[j].id => n = j
  PROVE  ItemsIn(NotEmpty(s), s[j].id) = s[j].items
<1> DEFINE S == {n \in 1 .. Len(s) : s[n].items # <<>>}
           q == NotEmpty(s)
           id == s[j].id
<1>1. q = Selected(s, S) BY DEF NotEmpty
<1>2. q \in Seq(T) /\ \E at : Picks(at, q, s, S)
  <2>1. S \subseteq 1 .. Len(s) OBVIOUS
  <2> HIDE DEF S, q
  <2>2. QED BY <1>1, <2>1, SelectedAt
<1>3. PICK at : Picks(at, q, s, S) BY <1>2
<1>4. Len(q) \in Nat BY <1>2
<1> HIDE DEF q
<1>5. \A n \in 1 .. Len(q) : at[n] \in S /\ q[n] = s[at[n]] BY <1>3 DEF Picks, Lists
<1>6. \A n \in 1 .. Len(q) : q[n].id = id => at[n] = j BY <1>5
<1>7. CASE s[j].items # <<>>
  <2>1. j \in S BY <1>7
  <2>2. PICK i \in 1 .. Len(q) : at[i] = j BY <1>3, <2>1 DEF Picks, Lists
  <2>3. q[i].id = id BY <1>5, <2>2
  <2> DEFINE m == CHOOSE n \in 1 .. Len(q) : q[n].id = id
  <2>4. m \in 1 .. Len(q) /\ q[m].id = id BY <2>2, <2>3
  <2>5. ItemsIn(q, id) = q[m].items BY <2>2, <2>3 DEF ItemsIn
  <2> HIDE DEF m
  <2>6. q[m] = s[j] BY <1>5, <1>6, <2>4
  <2>7. QED BY <2>5, <2>6 DEF q
<1>8. CASE s[j].items = <<>>
  <2>1. j \notin S BY <1>8
  <2>2. ~ \E n \in 1 .. Len(q) : q[n].id = id BY <1>5, <1>6, <2>1
  <2>3. ItemsIn(q, id) = <<>> BY <2>2 DEF ItemsIn
  <2>4. QED BY <1>8, <2>3 DEF q
<1>9. QED BY <1>7, <1>8

\* Two sections that are written come in the order that they had before the
\* empty ones were left out.
LEMMA SectionsOrdered ==
  ASSUME NEW T, NEW s \in Seq(T), NEW n \in 1 .. Len(NotEmpty(s)) - 1
  PROVE  \E i, j \in 1 .. Len(s) : i < j /\ NotEmpty(s)[n] = s[i] /\ NotEmpty(s)[n + 1] = s[j]
<1> DEFINE S == {m \in 1 .. Len(s) : s[m].items # <<>>}
           q == NotEmpty(s)
<1>1. q = Selected(s, S) BY DEF NotEmpty
<1>2. q \in Seq(T) /\ \E at : Picks(at, q, s, S)
  <2>1. S \subseteq 1 .. Len(s) OBVIOUS
  <2> HIDE DEF S, q
  <2>2. QED BY <1>1, <2>1, SelectedAt
<1>3. PICK at : Picks(at, q, s, S) BY <1>2
<1>4. Len(q) \in Nat BY <1>2
<1>5. n \in 1 .. Len(q) /\ n + 1 \in 1 .. Len(q) /\ n < n + 1 BY <1>4
<1> HIDE DEF q
<1>6. at[n] \in S /\ at[n + 1] \in S /\ at[n] < at[n + 1] BY <1>3, <1>5 DEF Picks, Lists
<1>7. q[n] = s[at[n]] /\ q[n + 1] = s[at[n + 1]] BY <1>3, <1>5 DEF Picks
<1>8. QED BY <1>6, <1>7 DEF q

\* The sections in order, the empty ones among them.
CustomSections == [n \in 1 .. Len(refs.customs) |-> Section(14, <<refs.customs[n]>>)]
Standard ==
  <<Section(2, imports), Section(3, defs["Function"]), Section(4, defs["Table"]),
    Section(5, defs["Memory"]), Section(6, defs["Global"]), Section(7, refs.exports),
    Section(8, refs.start), Section(9, EncodedAll(refs.elem)),
    Section(12, IF HasPassiveData THEN <<Len(refs.data)>> ELSE <<>>), Section(10, bodies),
    Section(11, EncodedAll(refs.data)), Section(13, NameSection)>>

LEMMA Layout ==
  ASSUME TypeOK
  PROVE  /\ \E T : AllSections \in Seq(T)
         /\ Len(refs.customs) \in Nat /\ Len(AllSections) = 12 + Len(refs.customs)
         /\ \A n \in 1 .. 12 : AllSections[n] = Standard[n]
         /\ \A n \in 1 .. Len(refs.customs) : AllSections[12 + n].id = 14
<1>1. AllSections = Standard \o CustomSections
  BY SMTT(30) DEF AllSections, Ordered, Standard, CustomSections
<1>2. Len(refs.customs) \in Nat BY DEF TypeOK, Members
<1>3. PICK S : Standard \in Seq(S) /\ Len(Standard) = 12
  <2>1. Len(Standard) = 12 /\ Standard \in Seq({Standard[n] : n \in 1 .. 12}) BY DEF Standard
  <2>2. QED BY <2>1
<1> DEFINE C == {Section(14, <<refs.customs[n]>>) : n \in 1 .. Len(refs.customs)}
<1>4. CustomSections \in Seq(C) /\ Len(CustomSections) = Len(refs.customs)
  BY <1>2 DEF CustomSections
<1>5. \A n \in 1 .. Len(refs.customs) : CustomSections[n].id = 14
  BY DEF CustomSections, Section
<1> HIDE DEF C
<1>6. PICK s, t : s = Standard /\ t = CustomSections OBVIOUS
<1>7. s \in Seq(S) /\ t \in Seq(C) /\ Len(s) = 12 /\ Len(t) = Len(refs.customs)
  BY <1>3, <1>4, <1>6
<1>8. /\ s \o t \in Seq(S \cup C) /\ Len(s \o t) = Len(s) + Len(t)
      /\ \A n \in 1 .. Len(s) : (s \o t)[n] = s[n]
      /\ \A n \in 1 .. Len(t) : (s \o t)[Len(s) + n] = t[n]
  <2>1. s \in Seq(S \cup C) /\ t \in Seq(S \cup C) BY <1>7
  <2>2. QED BY <2>1
<1>9. AllSections = s \o t BY <1>1, <1>6
<1>10. \E T : AllSections \in Seq(T) BY <1>8, <1>9
<1>11. /\ Len(AllSections) = 12 + Len(refs.customs)
       /\ \A n \in 1 .. 12 : AllSections[n] = Standard[n]
  BY <1>6, <1>7, <1>8, <1>9
<1>12. ASSUME NEW n \in 1 .. Len(refs.customs) PROVE AllSections[12 + n].id = 14
  <2>1. AllSections[12 + n] = t[n] BY <1>7, <1>8, <1>9
  <2>2. QED BY <1>5, <1>6, <2>1
<1>13. QED BY <1>2, <1>10, <1>11, <1>12

\* No two sections of the standard have the same identifier, and none has that
\* of a custom section; the identifiers rise as Rank() says.
LEMMA StandardIds ==
  ASSUME NEW n \in 1 .. 12
  PROVE  /\ Standard[n].id \in 2 .. 13 /\ Rank(Standard[n].id) = n + 1
         /\ \A m \in 1 .. 12 : Standard[m].id = Standard[n].id => m = n
<1>1. Standard[n].id = <<2, 3, 4, 5, 6, 7, 8, 9, 12, 10, 11, 13>>[n]
  BY DEF Standard, Section
<1>2. \A m \in 1 .. 12 : Standard[m].id = <<2, 3, 4, 5, 6, 7, 8, 9, 12, 10, 11, 13>>[m]
  BY DEF Standard, Section
<1>3. <<2, 3, 4, 5, 6, 7, 8, 9, 12, 10, 11, 13>>[n] \in 2 .. 13 OBVIOUS
<1>4. Rank(<<2, 3, 4, 5, 6, 7, 8, 9, 12, 10, 11, 13>>[n]) = n + 1 BY DEF Rank
<1>5. QED BY <1>1, <1>2, <1>3, <1>4

\* The reader finds what is in the Module, section by section.
LEMMA SectionItems ==
  ASSUME Consistent, out # <<>>, NEW n \in 1 .. 12
  PROVE  Items(Standard[n].id) = Standard[n].items
<1>1. TypeOK /\ out = NotEmpty(AllSections) BY DEF Consistent, OutCurrent, Sections
<1>2. PICK T, s : s = AllSections /\ s \in Seq(T) BY <1>1, Layout
<1>3. /\ Len(s) = 12 + Len(refs.customs) /\ Len(refs.customs) \in Nat
      /\ \A m \in 1 .. 12 : s[m] = Standard[m]
      /\ \A m \in 1 .. Len(refs.customs) : s[12 + m].id = 14
  BY <1>1, <1>2, Layout
<1>4. n \in 1 .. Len(s) /\ s[n] = Standard[n]
  <2>1. Len(s) = 12 + Len(refs.customs) /\ Len(refs.customs) \in Nat BY <1>3
  <2>2. n \in 1 .. Len(s) BY <2>1
  <2>3. QED BY <1>3, <2>2
<1>5. ASSUME NEW m \in 1 .. Len(s), s[m].id = s[n].id PROVE m = n
  <2>1. CASE m \in 1 .. 12 BY <1>3, <1>4, <1>5, <2>1, StandardIds
  <2>2. CASE m > 12
    <3>1. m - 12 \in 1 .. Len(refs.customs) /\ m = 12 + (m - 12) BY <1>3, <2>2
    <3>2. s[m].id = 14 BY <1>3, <3>1
    <3>3. s[n].id \in 2 .. 13 BY <1>4, StandardIds
    <3>4. QED BY <1>5, <3>2, <3>3
  <2>3. QED BY <1>3, <2>1, <2>2
<1>6. ItemsIn(NotEmpty(s), s[n].id) = s[n].items BY <1>2, <1>4, <1>5, ItemsRead
<1>7. QED BY <1>1, <1>2, <1>4, <1>6 DEF Items

LEMMA ItemsAre ==
  ASSUME Consistent, out # <<>>
  PROVE  /\ Items(2) = imports /\ Items(3) = defs["Function"] /\ Items(4) = defs["Table"]
         /\ Items(5) = defs["Memory"] /\ Items(6) = defs["Global"]
         /\ Items(7) = refs.exports /\ Items(8) = refs.start
         /\ Items(9) = EncodedAll(refs.elem) /\ Items(10) = bodies
         /\ Items(11) = EncodedAll(refs.data)
         /\ Items(12) = IF HasPassiveData THEN <<Len(refs.data)>> ELSE <<>>
         /\ Items(13) = NameSection
<1>1. /\ Standard[1] = Section(2, imports) /\ Standard[2] = Section(3, defs["Function"])
      /\ Standard[3] = Section(4, defs["Table"]) /\ Standard[4] = Section(5, defs["Memory"])
      /\ Standard[5] = Section(6, defs["Global"]) /\ Standard[6] = Section(7, refs.exports)
      /\ Standard[7] = Section(8, refs.start) /\ Standard[8] = Section(9, EncodedAll(refs.elem))
      /\ Standard[9] = Section(12, IF HasPassiveData THEN <<Len(refs.data)>> ELSE <<>>)
      /\ Standard[10] = Section(10, bodies) /\ Standard[11] = Section(11, EncodedAll(refs.data))
      /\ Standard[12] = Section(13, NameSection)
  BY DEF Standard
<1>2. \A id, items : Section(id, items).id = id /\ Section(id, items).items = items
  BY DEF Section
<1>3. ASSUME NEW n \in 1 .. 12, NEW id, NEW items, Standard[n] = Section(id, items)
      PROVE  Items(id) = items
  BY <1>2, <1>3, SectionItems
<1>4. QED BY <1>1, <1>3, SMTT(40)

\* Before the first assembly, and after an error, there is nothing to read.
LEMMA NoItems ==
  ASSUME out = <<>>, NEW id
  PROVE  Items(id) = <<>>
BY DEF Items, ItemsIn

\* The index space of the reader is the one that the validator asks about.
LEMMA SpaceIs ==
  ASSUME Consistent, out # <<>>, NEW k \in ExternalKinds
  PROVE  /\ CountOf(k) \in Nat /\ Len(Space(k)) = CountOf(k)
         /\ \A i \in 0 .. CountOf(k) - 1 : Space(k)[i + 1] = Lookup(k, i)
<1>1. TypeOK /\ Counted BY DEF Consistent
<1>2. Items(2) = imports /\ Items(SectionOf[k]) = defs[k]
  BY ItemsAre DEF SectionOf, ExternalKinds
<1> DEFINE D == [kind : ExternalKinds, id : Ids]
           E == [id : Ids, init : Seq(Handles)]
<1>3. imports \in Seq(D) /\ defs[k] \in Seq(E) /\ imp[k] \in Nat BY <1>1 DEF TypeOK
<1>4. PICK q : q = Selected(imports, ImportsOf(k)) OBVIOUS
<1>5. ImportsOf(k) \subseteq 1 .. Len(imports) /\ ImportsOf(k) \subseteq Nat BY DEF ImportsOf
<1> HIDE DEF D, E
<1>6. q \in Seq(D) /\ \E at : Picks(at, q, imports, ImportsOf(k))
  BY <1>3, <1>4, <1>5, SelectedAt
<1>7. PICK at : Picks(at, q, imports, ImportsOf(k)) BY <1>6
<1>8. Len(q) \in Nat /\ Len(q) = imp[k]
  <2>1. Len(q) \in Nat BY <1>6
  <2>2. Lists(at, Len(q), ImportsOf(k)) BY <1>7 DEF Picks
  <2>3. Cardinality(ImportsOf(k)) = Len(q) BY <1>5, <2>1, <2>2, ListingCounts
  <2>4. QED BY <1>1, <2>1, <2>3 DEF Counted
<1>9. Lists(at, imp[k], ImportsOf(k)) /\ \A n \in 1 .. imp[k] : q[n] = imports[at[n]]
  BY <1>7, <1>8 DEF Picks
<1>10. PICK d : d = defs[k] OBVIOUS
<1>11. PICK all : all = q \o d OBVIOUS
<1>12. /\ Len(all) = imp[k] + Len(d) /\ Len(d) \in Nat
       /\ \A n \in 1 .. imp[k] : all[n] = q[n]
       /\ \A n \in 1 .. Len(d) : all[imp[k] + n] = d[n]
  <2>1. q \in Seq(D \cup E) /\ d \in Seq(D \cup E) BY <1>3, <1>6, <1>10
  <2>2. /\ Len(q \o d) = Len(q) + Len(d) /\ Len(d) \in Nat
        /\ \A n \in 1 .. Len(q) : (q \o d)[n] = q[n]
        /\ \A n \in 1 .. Len(d) : (q \o d)[Len(q) + n] = d[n]
    BY <2>1
  <2>3. QED BY <1>8, <1>11, <2>2
<1>13. Space(k) = [n \in 1 .. Len(all) |-> all[n].id]
  BY <1>2, <1>4, <1>10, <1>11 DEF Space, ImportsOf
<1>14. CountOf(k) = Len(all) /\ CountOf(k) \in Nat BY <1>3, <1>10, <1>12 DEF CountOf
<1>15. Len(Space(k)) = CountOf(k) BY <1>13, <1>14
<1>16. ASSUME NEW i \in 0 .. CountOf(k) - 1 PROVE Space(k)[i + 1] = Lookup(k, i)
  <2>1. i + 1 \in 1 .. Len(all) /\ Space(k)[i + 1] = all[i + 1].id BY <1>13, <1>14
  <2>2. CASE i < imp[k]
    <3>1. i \in 0 .. imp[k] - 1 /\ i + 1 \in 1 .. imp[k] BY <1>3, <1>14, <2>2
    <3>2. NthImport(k, i) = imports[at[i + 1]].id BY <1>3, <1>9, <3>1, NthImportAt
    <3>3. all[i + 1] = imports[at[i + 1]] BY <1>9, <1>12, <3>1
    <3>4. QED BY <2>1, <2>2, <3>2, <3>3 DEF Lookup
  <2>3. CASE ~ (i < imp[k])
    <3>1. i - imp[k] + 1 \in 1 .. Len(d) /\ imp[k] + (i - imp[k] + 1) = i + 1
      <4>1. /\ imp[k] \in Nat /\ Len(d) \in Nat /\ CountOf(k) = imp[k] + Len(d)
            /\ i \in Nat /\ i < CountOf(k) /\ imp[k] <= i
        BY <1>3, <1>12, <1>14, <2>3
      <4>2. QED BY <4>1
    <3>2. all[i + 1] = d[i - imp[k] + 1] BY <1>12, <3>1
    <3>3. QED BY <1>10, <2>1, <2>3, <3>2 DEF Lookup
  <2>4. QED BY <2>2, <2>3
<1>17. QED BY <1>14, <1>15, <1>16

(***************************************************************************)
(* The properties.                                                         *)
(***************************************************************************)
\* What the validator is told of an index is what a reader of the module finds
\* there, however imports and definitions were mixed.
THEOREM QueriesAnswered == Spec => []QueriesMatchBinary
<1>1. ASSUME Consistent PROVE QueriesMatchBinary
  BY <1>1, SpaceIs, ModuleAssumption DEF QueriesMatchBinary
<1>2. QED BY <1>1, ModuleConsistent, PTL

\* A handle that the client holds leads the reader to its entity.
LEMMA HandleResolves ==
  ASSUME Consistent, out # <<>>, InOrder, NEW h \in held
  PROVE  Resolves(h)
<1>1. TypeOK /\ h \in Handles /\ Denotes(h) BY DEF Consistent, TypeOK, HeldDenote
<1>2. h.idx \in Nat BY <1>1 DEF Handles
<1>3. CASE h.kind \in ExternalKinds
  <2>1. h.idx < CountOf(h.kind) /\ h.id = <<h.kind, h.idx + 1>> BY <1>1, <1>3 DEF Denotes
  <2>2. CountOf(h.kind) \in Nat /\ Len(Space(h.kind)) = CountOf(h.kind) BY <1>3, SpaceIs
  <2>3. h.idx \in 0 .. CountOf(h.kind) - 1 BY <1>2, <2>1, <2>2
  <2>4. Space(h.kind)[h.idx + 1] = Lookup(h.kind, h.idx) BY <1>3, <2>3, SpaceIs
  <2>5. Lookup(h.kind, h.idx) = <<h.kind, h.idx + 1>>
    BY <1>3, <2>3, LookupIs DEF Consistent
  <2>6. SpaceOf(h.kind) = Space(h.kind) BY <1>3 DEF SpaceOf, ExternalKinds
  <2>7. QED BY <2>1, <2>2, <2>4, <2>5, <2>6 DEF Resolves
<1>4. refs.elem \in Seq(SegmentRecords) /\ refs.data \in Seq(SegmentRecords)
  BY <1>1 DEF TypeOK, Members
<1>5. CASE h.kind = "Elem"
  <2>1. h.idx < Len(refs.elem) /\ h.id = <<"Elem", h.idx + 1>> BY <1>1, <1>5 DEF Denotes
  <2>2. Items(9) = EncodedAll(refs.elem) BY ItemsAre
  <2>3. Len(Items(9)) = Len(refs.elem) /\ Len(refs.elem) \in Nat BY <1>4, <2>2 DEF EncodedAll
  <2>4. SpaceOf(h.kind) = [n \in 1 .. Len(Items(9)) |-> <<"Elem", n>>]
    BY <1>5 DEF SpaceOf, ExternalKinds
  <2>5. h.idx + 1 \in 1 .. Len(Items(9)) BY <1>2, <2>1, <2>3
  <2>6. QED BY <2>1, <2>3, <2>4, <2>5 DEF Resolves
<1>6. CASE h.kind = "Data"
  <2>1. h.idx < Len(refs.data) /\ h.id = <<"Data", h.idx + 1>> BY <1>1, <1>6 DEF Denotes
  <2>2. Items(11) = EncodedAll(refs.data) BY ItemsAre
  <2>3. Len(Items(11)) = Len(refs.data) /\ Len(refs.data) \in Nat BY <1>4, <2>2 DEF EncodedAll
  <2>4. SpaceOf(h.kind) = [n \in 1 .. Len(Items(11)) |-> <<"Data", n>>]
    BY <1>6 DEF SpaceOf, ExternalKinds
  <2>5. h.idx + 1 \in 1 .. Len(Items(11)) BY <1>2, <2>1, <2>3
  <2>6. QED BY <2>1, <2>3, <2>4, <2>5 DEF Resolves
<1>7. QED BY <1>1, <1>3, <1>5, <1>6 DEF Handles, AnyKind

\* What the validator was told when a body was emitted is still true in the
\* assembled module.
THEOREM TellingsTrue == Spec => []ToldTruth
<1>1. ASSUME Consistent PROVE ToldTruth
  <2>1. SUFFICES ASSUME out # <<>>, InOrder, NEW b \in ToSet(Items(10)), NEW t \in b.told
                 PROVE  /\ t.about.idx < Len(Space(t.about.kind))
                        /\ Space(t.about.kind)[t.about.idx + 1] = t.id
    BY DEF ToldTruth
  <2>2. bodies \in Seq(Bodies) BY <1>1 DEF Consistent, TypeOK
  <2>3. PICK n \in 1 .. Len(bodies) : b = bodies[n]
    BY <1>1, <2>1, <2>2, ItemsAre, ToSetIs
  <2>4. Truthful(t) BY <1>1, <2>1, <2>3 DEF Consistent, BodiesHeld, UsesHeld
  <2>5. /\ t.about \in held /\ t.about.kind \in ExternalKinds
        /\ t.id = <<t.about.kind, t.about.idx + 1>>
    BY <2>1, <2>4 DEF Truthful, HeldOf
  <2>6. Resolves(t.about) /\ Denotes(t.about)
    BY <1>1, <2>1, <2>5, HandleResolves DEF Consistent, HeldDenote
  <2>7. SpaceOf(t.about.kind) = Space(t.about.kind) BY <2>5 DEF SpaceOf, ExternalKinds
  <2>8. QED BY <2>1, <2>5, <2>6, <2>7 DEF Resolves, Denotes
<1>2. QED BY <1>1, ModuleConsistent, PTL

\* Each function of the assembled module has the body that came with its handle.
THEOREM BodiesArrive == Spec => []BodiesLand
<1>1. ASSUME Consistent PROVE BodiesLand
  <2>1. SUFFICES ASSUME out # <<>>, InOrder
                 PROVE  /\ Len(bodies) = Len(defs["Function"])
                        /\ \A n \in 1 .. Len(bodies) : bodies[n].of = defs["Function"][n].id
    BY <1>1, ItemsAre DEF BodiesLand
  <2>2. Len(bodies) = Len(defs["Function"]) BY <1>1 DEF Consistent, BodiesMatch
  <2>3. ASSUME NEW n \in 1 .. Len(bodies) PROVE bodies[n].of = defs["Function"][n].id
    <3>1. bodies[n] # NoBody BY <1>1, <2>1 DEF Consistent, OutCurrent, FindError
    <3>2. bodies[n].of = <<"Function", imp["Function"] + n>>
      BY <1>1, <2>1, <3>1 DEF Consistent, BodiesMatch
    <3>3. defs["Function"][n].id = <<"Function", imp["Function"] + n>>
      BY <1>1, <2>1, <2>2 DEF Consistent, Numbered, ExternalKinds
    <3>4. QED BY <3>2, <3>3
  <2>4. QED BY <2>2, <2>3
<1>2. QED BY <1>1, ModuleConsistent, PTL

\* Sections come in the order of the format, and the data count before the
\* first body that needs it.
THEOREM OnePassSuffices == Spec => []ReadableInOnePass
<1>1. ASSUME Consistent PROVE ReadableInOnePass
  <2>1. TypeOK BY <1>1 DEF Consistent
  <2>2. ASSUME NEW n \in 1 .. Len(out) - 1
        PROVE  Rank(out[n].id) < Rank(out[n + 1].id) \/ (out[n].id = 14 /\ out[n + 1].id = 14)
    <3>1. out # <<>> BY <2>2
    <3>2. out = NotEmpty(AllSections) BY <1>1, <3>1 DEF Consistent, OutCurrent, Sections
    <3>3. PICK T, s : s = AllSections /\ s \in Seq(T) BY <2>1, Layout
    <3>4. /\ Len(s) = 12 + Len(refs.customs) /\ Len(refs.customs) \in Nat
          /\ \A m \in 1 .. 12 : s[m] = Standard[m]
          /\ \A m \in 1 .. Len(refs.customs) : s[12 + m].id = 14
      BY <2>1, <3>3, Layout
    <3>5. PICK i, j \in 1 .. Len(s) : i < j /\ out[n] = s[i] /\ out[n + 1] = s[j]
      <4>1. s \in Seq(T) /\ n \in 1 .. Len(NotEmpty(s)) - 1 /\ out = NotEmpty(s)
        BY <2>2, <3>2, <3>3
      <4>2. \E i, j \in 1 .. Len(s) :
              i < j /\ NotEmpty(s)[n] = s[i] /\ NotEmpty(s)[n + 1] = s[j]
        BY <4>1, SectionsOrdered, ZenonT(30)
      <4>3. QED BY <4>1, <4>2
    <3>6. \A m \in 1 .. 12 : Rank(s[m].id) = m + 1 BY <3>4, StandardIds
    <3>7. ASSUME NEW m \in 1 .. Len(s), m > 12 PROVE s[m].id = 14
      <4>1. m - 12 \in 1 .. Len(refs.customs) /\ m = 12 + (m - 12) BY <3>4, <3>7
      <4>2. QED BY <3>4, <4>1
    <3>8. Rank(14) = 14 BY DEF Rank
    <3>9. CASE i > 12 BY <3>4, <3>5, <3>7, <3>9, SMTT(40)
    <3>10. CASE i <= 12 /\ j > 12
      <4>1. i \in 1 .. 12 BY <3>4, <3>10
      <4>2. Rank(s[i].id) = i + 1 BY <3>6, <4>1
      <4>3. Rank(s[j].id) = 14 BY <3>7, <3>8, <3>10
      <4>4. Rank(s[i].id) < Rank(s[j].id) BY <4>1, <4>2, <4>3
      <4>5. QED BY <3>5, <4>4
    <3>11. CASE j <= 12
      <4>1. i \in 1 .. 12 /\ j \in 1 .. 12
        <5>1. i \in Nat /\ j \in Nat /\ 1 <= i /\ i < j BY <3>4, <3>5
        <5>2. QED BY <3>11, <5>1
      <4>2. Rank(s[i].id) = i + 1 /\ Rank(s[j].id) = j + 1 BY <3>6, <4>1
      <4>3. Rank(s[i].id) < Rank(s[j].id) BY <3>5, <4>1, <4>2
      <4>4. QED BY <3>5, <4>3
    <3>12. QED BY <3>4, <3>5, <3>9, <3>10, <3>11
  <2>3. ASSUME NEW b \in ToSet(Items(10)), NEW h \in HeldOf({"Data"}), h \in b.uses
        PROVE  Items(12) = <<Len(Items(11))>>
    <3>1. out # <<>>
      <4>1. ASSUME out = <<>> PROVE FALSE
        <5>1. Items(10) = <<>> BY <4>1, NoItems
        <5>2. QED BY <2>3, <5>1 DEF ToSet
      <4>2. QED BY <4>1
    <3>2. h \in held /\ h.kind = "Data" /\ h \in Handles /\ Denotes(h)
      BY <1>1, <2>1 DEF HeldOf, Consistent, HeldDenote, TypeOK
    <3>3. h.idx \in Nat BY <3>2 DEF Handles
    <3>4. refs.data \in Seq(SegmentRecords) BY <2>1 DEF TypeOK, Members
    <3>5. h.idx + 1 \in 1 .. Len(refs.data) /\ refs.data[h.idx + 1].passive
      BY <3>2, <3>3, <3>4 DEF Denotes
    <3>6. HasPassiveData BY <3>5 DEF HasPassiveData
    <3>7. Items(12) = <<Len(refs.data)>> /\ Items(11) = EncodedAll(refs.data)
      BY <1>1, <3>1, <3>6, ItemsAre
    <3>8. Len(EncodedAll(refs.data)) = Len(refs.data) BY <3>4 DEF EncodedAll
    <3>9. QED BY <3>7, <3>8
  <2>4. QED BY <2>2, <2>3 DEF ReadableInOnePass
<1>2. QED BY <1>1, ModuleConsistent, PTL

(***************************************************************************)
(* The name section.                                                       *)
(***************************************************************************)
\* std::sort puts names in the order of their indices.
LEMMA NamesInOrder ==
  ASSUME NEW s \in Seq(Handles)
  PROVE  /\ ByIndex(s) \in Seq(Handles) /\ Len(ByIndex(s)) = Len(s)
         /\ \A i, j \in 1 .. Len(s) : i < j => ByIndex(s)[i].idx <= ByIndex(s)[j].idx
         /\ \A n \in 1 .. Len(s) : \E m \in 1 .. Len(s) : ByIndex(s)[n] = s[m]
<1> DEFINE n == Len(s)
           R == {r \in (1 .. n) \X (1 .. n) : s[r[1]].idx <= s[r[2]].idx}
           Good(p) == \A i, j \in 1 .. n : i < j => ~ (s[p[j]].idx < s[p[i]].idx)
           p == CHOOSE p \in Bijection(1 .. n, 1 .. n) : Good(p)
<1>1. n \in Nat /\ \A i \in 1 .. n : s[i] \in Handles /\ s[i].idx \in Nat
  <2>1. \A i \in 1 .. n : s[i] \in Handles BY ElementOf
  <2>2. QED BY <2>1 DEF Handles
<1>2. \A i, j \in 1 .. n : <<i, j>> \in R <=> s[i].idx <= s[j].idx OBVIOUS
<1>3. \E q \in Bijection(1 .. n, 1 .. n) : \A i, j \in 1 .. n : i < j => <<q[i], q[j]>> \in R
  <2>1. ASSUME NEW i \in 1 .. n, NEW j \in 1 .. n PROVE <<i, j>> \in R \/ <<j, i>> \in R
    <3>1. s[i].idx \in Nat /\ s[j].idx \in Nat BY <1>1
    <3>2. s[i].idx <= s[j].idx \/ s[j].idx <= s[i].idx BY <3>1
    <3>3. QED BY <1>2, <3>2
  <2>2. \A i, j, k \in 1 .. n : <<i, j>> \in R /\ <<j, k>> \in R => <<i, k>> \in R
    BY <1>1, <1>2
  <2> HIDE DEF R, n
  <2>3. QED BY <1>1, <2>1, <2>2, SortExists
<1> HIDE DEF R, n
<1>4. PICK q \in Bijection(1 .. n, 1 .. n) :
        \A i, j \in 1 .. n : i < j => <<q[i], q[j]>> \in R
  BY <1>3
<1>5. Good(q)
  <2>1. \A i \in 1 .. n : q[i] \in 1 .. n BY <1>4 DEF Bijection, Injection
  <2>2. ASSUME NEW i \in 1 .. n, NEW j \in 1 .. n, i < j
        PROVE  s[q[i]].idx \in Nat /\ s[q[j]].idx \in Nat /\ s[q[i]].idx <= s[q[j]].idx
    BY <1>1, <1>2, <1>4, <2>1, <2>2
  <2>3. QED BY <2>2
<1>6. p \in Bijection(1 .. n, 1 .. n) /\ Good(p) BY <1>5
<1>7. ByIndex(s) = [m \in 1 .. n |-> s[p[m]]] BY DEF ByIndex, Sorted, n
<1> HIDE DEF p
<1>8. \A m \in 1 .. n : p[m] \in 1 .. n BY <1>6 DEF Bijection, Injection
<1>9. ByIndex(s) \in Seq(Handles) /\ Len(ByIndex(s)) = n BY <1>1, <1>7, <1>8
<1>10. ASSUME NEW i \in 1 .. n, NEW j \in 1 .. n, i < j
       PROVE  ByIndex(s)[i].idx <= ByIndex(s)[j].idx
  <2>1. s[p[i]].idx \in Nat /\ s[p[j]].idx \in Nat BY <1>1, <1>8
  <2>2. ~ (s[p[j]].idx < s[p[i]].idx) BY <1>6, <1>10
  <2>3. QED BY <1>7, <2>1, <2>2
<1>11. \A m \in 1 .. n : \E l \in 1 .. n : ByIndex(s)[m] = s[l] BY <1>7, <1>8
<1>12. QED BY <1>9, <1>10, <1>11 DEF n

\* A name map is in order and names what was named.
LEMMA NameMapIs ==
  ASSUME TypeOK, NEW k
  PROVE  /\ NameMap(k) \in Seq(Handles) /\ Len(NameMap(k)) \in Nat
         /\ \A n \in 1 .. Len(NameMap(k)) - 1 : NameMap(k)[n].idx <= NameMap(k)[n + 1].idx
         /\ \A n \in 1 .. Len(NameMap(k)) :
              \E m \in 1 .. Len(refs.names) : NameMap(k)[n] = refs.names[m]
<1> DEFINE S == {n \in 1 .. Len(refs.names) : refs.names[n].kind = k}
<1>1. refs.names \in Seq(Handles) BY DEF TypeOK, Members
<1>2. S \subseteq 1 .. Len(refs.names) OBVIOUS
<1>3. NamesFor(k) = Selected(refs.names, S) BY DEF NamesFor
<1> HIDE DEF S
<1>4. NamesFor(k) \in Seq(Handles) /\ \E at : Picks(at, NamesFor(k), refs.names, S)
  BY <1>1, <1>2, <1>3, SelectedAt
<1>5. PICK s : s = NamesFor(k) OBVIOUS
<1>6. PICK at : Picks(at, s, refs.names, S) BY <1>4, <1>5
<1>7. NameMap(k) = ByIndex(s) /\ s \in Seq(Handles) /\ Len(s) \in Nat
  BY <1>4, <1>5 DEF NameMap
<1>8. /\ ByIndex(s) \in Seq(Handles) /\ Len(ByIndex(s)) = Len(s)
      /\ \A i, j \in 1 .. Len(s) : i < j => ByIndex(s)[i].idx <= ByIndex(s)[j].idx
      /\ \A n \in 1 .. Len(s) : \E m \in 1 .. Len(s) : ByIndex(s)[n] = s[m]
  BY <1>7, NamesInOrder
<1>9. ASSUME NEW n \in 1 .. Len(s)
      PROVE  \E m \in 1 .. Len(refs.names) : ByIndex(s)[n] = refs.names[m]
  <2>1. PICK m \in 1 .. Len(s) : ByIndex(s)[n] = s[m] BY <1>8
  <2>2. s[m] = refs.names[at[m]] /\ at[m] \in S BY <1>6 DEF Picks, Lists
  <2>3. QED BY <1>2, <2>1, <2>2
<1>10. \A n \in 1 .. Len(s) - 1 : n \in 1 .. Len(s) /\ n + 1 \in 1 .. Len(s) /\ n < n + 1
  BY <1>7
<1>11. QED BY <1>7, <1>8, <1>9, <1>10

Subsections ==
  <<Section(0, refs.title), Section(1, NameMap("Function")), Section(2, LocalNameMap),
    Section(7, NameMap("Global"))>>

LEMMA SubsectionsTyped ==
  /\ \E T : Subsections \in Seq(T)
  /\ Len(Subsections) = 4 /\ NameSection = NotEmpty(Subsections)
  /\ Subsections[1] = Section(0, refs.title) /\ Subsections[2] = Section(1, NameMap("Function"))
  /\ Subsections[3] = Section(2, LocalNameMap) /\ Subsections[4] = Section(7, NameMap("Global"))
  /\ Subsections[1].id = 0 /\ Subsections[2].id = 1 /\ Subsections[3].id = 2
  /\ Subsections[4].id = 7
<1>1. Len(Subsections) = 4 /\ Subsections \in Seq({Subsections[n] : n \in 1 .. 4})
  BY DEF Subsections
<1>2. \E T : Subsections \in Seq(T) BY <1>1
<1>3. /\ Subsections[1] = Section(0, refs.title)
      /\ Subsections[2] = Section(1, NameMap("Function"))
      /\ Subsections[3] = Section(2, LocalNameMap)
      /\ Subsections[4] = Section(7, NameMap("Global"))
  BY DEF Subsections
<1>4. \A id, items : Section(id, items).id = id BY DEF Section
<1>5. NameSection = NotEmpty(Subsections) BY DEF NameSection, Subsections
<1>6. QED BY <1>1, <1>2, <1>3, <1>4, <1>5

LEMMA NamesAre ==
  ASSUME Consistent, out # <<>>
  PROVE  /\ NamesOf(1) = NameMap("Function") /\ NamesOf(2) = LocalNameMap
         /\ NamesOf(7) = NameMap("Global")
<1>1. PICK T, s : s = Subsections /\ s \in Seq(T) BY SubsectionsTyped
<1>2. Len(s) = 4 /\ s[1].id = 0 /\ s[2].id = 1 /\ s[3].id = 2 /\ s[4].id = 7
  BY <1>1, SubsectionsTyped
<1>3. Items(13) = NotEmpty(s) BY <1>1, ItemsAre, SubsectionsTyped
<1>4. ASSUME NEW j \in 1 .. 4 PROVE NamesOf(s[j].id) = s[j].items
  <2>1. j \in 1 .. Len(s) BY <1>2
  <2>2. \A n \in 1 .. Len(s) : s[n].id = s[j].id => n = j BY <1>2
  <2>3. ItemsIn(NotEmpty(s), s[j].id) = s[j].items BY <1>1, <2>1, <2>2, ItemsRead
  <2>4. QED BY <1>3, <2>3 DEF NamesOf
<1>5. \A id, items : Section(id, items).items = items BY DEF Section
<1>6. /\ s[2].items = NameMap("Function") /\ s[3].items = LocalNameMap
      /\ s[4].items = NameMap("Global")
  BY <1>1, <1>5, SubsectionsTyped
<1>7. QED BY <1>2, <1>4, <1>6

\* Subsections and names come in the order that the format requires.
THEOREM NamesInFormat == Spec => []NamesSorted
<1>1. ASSUME Consistent PROVE NamesSorted
  <2>1. CASE out = <<>>
    <3>1. Items(13) = <<>> /\ \A id : NamesOf(id) = <<>> BY <2>1, NoItems DEF NamesOf, ItemsIn
    <3>2. QED BY <3>1 DEF NamesSorted
  <2>2. CASE out # <<>>
    <3>1. TypeOK BY <1>1 DEF Consistent
    <3>2. ASSUME NEW n \in 1 .. Len(Items(13)) - 1 PROVE Items(13)[n].id < Items(13)[n + 1].id
      <4>1. PICK T, s : s = Subsections /\ s \in Seq(T) BY SubsectionsTyped
      <4>2. Len(s) = 4 /\ s[1].id = 0 /\ s[2].id = 1 /\ s[3].id = 2 /\ s[4].id = 7
        BY <4>1, SubsectionsTyped
      <4>3. Items(13) = NotEmpty(s) BY <1>1, <2>2, <4>1, ItemsAre, SubsectionsTyped
      <4>4. PICK i, j \in 1 .. Len(s) :
              i < j /\ NotEmpty(s)[n] = s[i] /\ NotEmpty(s)[n + 1] = s[j]
        <5>1. n \in 1 .. Len(NotEmpty(s)) - 1 /\ s \in Seq(T) BY <3>2, <4>1, <4>3
        <5>2. \E i, j \in 1 .. Len(s) :
                i < j /\ NotEmpty(s)[n] = s[i] /\ NotEmpty(s)[n + 1] = s[j]
          BY <5>1, SectionsOrdered, ZenonT(30)
        <5>3. QED BY <5>2
      <4>5. s[i].id < s[j].id BY <4>2, <4>4
      <4>6. QED BY <4>3, <4>4, <4>5
    <3>3. ASSUME NEW k, NEW n \in 1 .. Len(NameMap(k)) - 1
          PROVE  NameMap(k)[n].idx <= NameMap(k)[n + 1].idx
      BY <3>1, NameMapIs
    <3>4. QED BY <1>1, <2>2, <3>2, <3>3, NamesAre DEF NamesSorted
  <2>3. QED BY <2>1, <2>2
<1>2. QED BY <1>1, ModuleConsistent, PTL

(***************************************************************************)
(* Names of locals.                                                        *)
(***************************************************************************)
Before(rows, i, j) ==
  /\ rows[i].func.idx <= rows[j].func.idx
  /\ rows[i].func.idx = rows[j].func.idx => rows[i].local <= rows[j].local
RowsInOrder(rows) == \A i, j \in 1 .. Len(rows) : i < j => Before(rows, i, j)

\* p tells where the n-th row in order was before the rows were sorted.
Arranges(p, rows, sorted) ==
  /\ p \in Bijection(1 .. Len(rows), 1 .. Len(rows))
  /\ sorted = [n \in 1 .. Len(rows) |-> rows[p[n]]]
  /\ RowsInOrder(sorted)

\* std::sort puts rows in the order of their functions, and of their locals.
LEMMA RowsSorted ==
  ASSUME NEW s \in Seq(Rows)
  PROVE  ByRow(s) \in Seq(Rows) /\ Len(ByRow(s)) = Len(s) /\ \E p : Arranges(p, s, ByRow(s))
<1> DEFINE n == Len(s)
           R == {r \in (1 .. n) \X (1 .. n) : Before(s, r[1], r[2])}
           Good(p) == \A i, j \in 1 .. n : i < j => ~ ByFunction(s[p[j]], s[p[i]])
           p == CHOOSE p \in Bijection(1 .. n, 1 .. n) : Good(p)
<1>1. /\ n \in Nat
      /\ \A i \in 1 .. n : s[i] \in Rows /\ s[i].func.idx \in Nat /\ s[i].local \in Nat
  <2>1. \A i \in 1 .. n : s[i] \in Rows BY ElementOf
  <2>2. \A i \in 1 .. n : s[i].func \in Handles /\ s[i].local \in Nat BY <2>1 DEF Rows
  <2>3. QED BY <2>1, <2>2 DEF Handles
<1>2. \A i, j \in 1 .. n : <<i, j>> \in R <=> Before(s, i, j) OBVIOUS
<1>3. ASSUME NEW i \in 1 .. n, NEW j \in 1 .. n
      PROVE  /\ Before(s, i, j) \/ Before(s, j, i)
             /\ Before(s, i, j) <=> ~ ByFunction(s[j], s[i])
  <2>1. /\ s[i].func.idx \in Nat /\ s[j].func.idx \in Nat
        /\ s[i].local \in Nat /\ s[j].local \in Nat
    BY <1>1
  <2>2. QED BY <2>1 DEF Before, ByFunction
<1>4. ASSUME NEW i \in 1 .. n, NEW j \in 1 .. n, NEW k \in 1 .. n,
             Before(s, i, j), Before(s, j, k)
      PROVE  Before(s, i, k)
  <2>1. /\ s[i].func.idx \in Nat /\ s[j].func.idx \in Nat /\ s[k].func.idx \in Nat
        /\ s[i].local \in Nat /\ s[j].local \in Nat /\ s[k].local \in Nat
    BY <1>1
  <2>2. s[i].func.idx <= s[k].func.idx BY <1>4, <2>1, SMTT(40) DEF Before
  <2>3. ASSUME s[i].func.idx = s[k].func.idx PROVE s[i].local <= s[k].local
    <3>1. s[i].func.idx = s[j].func.idx /\ s[j].func.idx = s[k].func.idx
      BY <1>4, <2>1, <2>3 DEF Before
    <3>2. s[i].local <= s[j].local /\ s[j].local <= s[k].local BY <1>4, <3>1 DEF Before
    <3>3. QED BY <2>1, <3>2
  <2>4. QED BY <2>2, <2>3 DEF Before
<1>5. \E q \in Bijection(1 .. n, 1 .. n) : \A i, j \in 1 .. n : i < j => <<q[i], q[j]>> \in R
  <2>1. \A i, j \in 1 .. n : <<i, j>> \in R \/ <<j, i>> \in R BY <1>2, <1>3
  <2>2. \A i, j, k \in 1 .. n : <<i, j>> \in R /\ <<j, k>> \in R => <<i, k>> \in R
    BY <1>2, <1>4
  <2> HIDE DEF R, n
  <2>3. QED BY <1>1, <2>1, <2>2, SortExists
<1> HIDE DEF R, n
<1>6. PICK q \in Bijection(1 .. n, 1 .. n) :
        \A i, j \in 1 .. n : i < j => <<q[i], q[j]>> \in R
  BY <1>5
<1>7. Good(q)
  <2>1. \A i \in 1 .. n : q[i] \in 1 .. n BY <1>6 DEF Bijection, Injection
  <2>2. QED BY <1>2, <1>3, <1>6, <2>1
<1>8. p \in Bijection(1 .. n, 1 .. n) /\ Good(p) BY <1>7
<1>9. ByRow(s) = [m \in 1 .. n |-> s[p[m]]] BY DEF ByRow, Sorted, n
<1> HIDE DEF p
<1>10. \A m \in 1 .. n : p[m] \in 1 .. n BY <1>8 DEF Bijection, Injection
<1>11. ByRow(s) \in Seq(Rows) /\ Len(ByRow(s)) = n BY <1>1, <1>9, <1>10
<1>12. RowsInOrder(ByRow(s))
  <2>1. ASSUME NEW i \in 1 .. n, NEW j \in 1 .. n, i < j PROVE Before(ByRow(s), i, j)
    <3>1. Before(s, p[i], p[j]) BY <1>3, <1>8, <1>10, <2>1
    <3>2. ByRow(s)[i] = s[p[i]] /\ ByRow(s)[j] = s[p[j]] BY <1>9
    <3>3. QED BY <3>1, <3>2 DEF Before
  <2>2. QED BY <1>11, <2>1 DEF RowsInOrder
<1>13. Arranges(p, s, ByRow(s)) BY <1>8, <1>9, <1>12 DEF Arranges, n
<1>14. QED BY <1>11, <1>13 DEF n

\* The groups are the intervals of equal functions, from start to last.
Intervals(rows, start, last) ==
  LET groups == Grouped(rows)
      N == Len(groups)
  IN  /\ N \in Nat /\ DOMAIN groups = 1 .. N
      /\ start \in [1 .. N -> 1 .. Len(rows)] /\ last \in [1 .. N -> 1 .. Len(rows)]
      /\ \A n \in 1 .. N :
           /\ start[n] <= last[n] /\ groups[n].func = rows[start[n]].func
           /\ groups[n].locals = [k \in 1 .. last[n] - start[n] + 1 |-> rows[start[n] + k - 1].local]
           /\ \A i \in 1 .. Len(rows) :
                i \in start[n] .. last[n] <=> rows[i].func.idx = groups[n].func.idx
      /\ \A i \in 1 .. Len(rows) : \E n \in 1 .. N : i \in start[n] .. last[n]
      /\ \A n, m \in 1 .. N : n < m => groups[n].func.idx < groups[m].func.idx

LEMMA GroupsFound ==
  ASSUME NEW rows \in Seq(Rows), RowsInOrder(rows)
  PROVE  \E start, last : Intervals(rows, start, last)
<1> DEFINE L == Len(rows)
           S == {i \in 1 .. L : i > 1 => rows[i].func.idx # rows[i - 1].func.idx}
           ids == [i \in 1 .. L |-> i]
           idx(i) == rows[i].func.idx
<1>1. L \in Nat /\ \A i \in 1 .. L : idx(i) \in Nat
  <2>1. \A i \in 1 .. L : rows[i] \in Rows BY ElementOf
  <2>2. \A i \in 1 .. L : rows[i].func \in Handles BY <2>1 DEF Rows
  <2>3. QED BY <2>2 DEF Handles
<1>2. \A i, j \in 1 .. L : i <= j => idx(i) <= idx(j)
  <2>1. ASSUME NEW i \in 1 .. L, NEW j \in 1 .. L, i <= j PROVE idx(i) <= idx(j)
    <3>1. CASE i = j BY <1>1, <3>1
    <3>2. CASE i < j BY <3>2 DEF RowsInOrder, Before
    <3>3. QED BY <2>1, <3>1, <3>2
  <2>2. QED BY <2>1
<1>3. ids \in Seq(1 .. L) /\ Len(ids) = L /\ S \subseteq 1 .. L BY <1>1
<1>4. PICK starts : starts = Selected(ids, S) OBVIOUS
<1>5. starts \in Seq(1 .. L) /\ \E at : Picks(at, starts, ids, S)
  <2> HIDE DEF S, ids, L
  <2>1. QED BY <1>3, <1>4, SelectedAt
<1>6. PICK at : Picks(at, starts, ids, S) BY <1>5
<1> DEFINE N == Len(starts)
           last == [n \in 1 .. N |-> IF n = N THEN L ELSE starts[n + 1] - 1]
<1>7. N \in Nat BY <1>5
<1>8. /\ \A n \in 1 .. N : starts[n] \in S /\ starts[n] \in 1 .. L
      /\ \A n, m \in 1 .. N : n < m => starts[n] < starts[m]
      /\ \A i \in S : \E n \in 1 .. N : starts[n] = i
  <2>1. Lists(at, N, S) /\ \A n \in 1 .. N : starts[n] = ids[at[n]] BY <1>6 DEF Picks
  <2>2. \A n \in 1 .. N : at[n] \in S BY <2>1 DEF Lists
  <2>3. \A n \in 1 .. N : starts[n] = at[n] BY <2>1, <2>2
  <2> HIDE DEF S, N
  <2>4. QED BY <1>3, <2>1, <2>2, <2>3 DEF Lists
<1>9. Grouped(rows) =
        [n \in 1 .. N |->
           [func |-> rows[starts[n]].func,
            locals |-> [k \in 1 .. (IF n = N THEN L ELSE starts[n + 1] - 1) - starts[n] + 1 |->
                          rows[starts[n] + k - 1].local]]]
  BY <1>4 DEF Grouped
<1>10. \A n \in 1 .. N : n # N => n + 1 \in 1 .. N /\ n < n + 1 BY <1>7
<1>11. ASSUME NEW n \in 1 .. N
       PROVE  last[n] \in 1 .. L /\ starts[n] <= last[n]
  <2>1. starts[n] \in 1 .. L BY <1>8
  <2>2. CASE n = N BY <1>1, <2>1, <2>2
  <2>3. CASE n # N
    <3>1. starts[n + 1] \in 1 .. L /\ starts[n] < starts[n + 1] BY <1>8, <1>10, <2>3
    <3>2. last[n] = starts[n + 1] - 1 BY <2>3
    <3>3. QED BY <1>1, <2>1, <3>1, <3>2
  <2>4. QED BY <2>2, <2>3
<1>12. ASSUME NEW n \in 1 .. N, NEW m \in 1 .. N, n < m
       PROVE  last[n] < starts[m] /\ idx(starts[n]) < idx(starts[m])
  <2>1. starts[n] \in 1 .. L /\ starts[m] \in S /\ starts[m] \in 1 .. L /\ starts[n] < starts[m]
    BY <1>8, <1>12
  <2>2. n # N /\ n + 1 \in 1 .. N BY <1>7, <1>12
  <2>3. last[n] = starts[n + 1] - 1 /\ starts[n + 1] \in 1 .. L BY <1>8, <2>2
  <2>4. starts[n + 1] <= starts[m]
    <3>1. n + 1 = m \/ n + 1 < m BY <1>12
    <3>2. CASE n + 1 = m BY <2>1, <3>2
    <3>3. CASE n + 1 < m
      <4>1. starts[n + 1] < starts[m] BY <1>8, <2>2, <3>3
      <4>2. QED BY <2>1, <2>3, <4>1
    <3>4. QED BY <3>1, <3>2, <3>3
  <2>5. last[n] < starts[m] BY <2>1, <2>3, <2>4
  <2>6. starts[m] > 1 /\ starts[m] - 1 \in 1 .. L /\ starts[n] <= starts[m] - 1 BY <2>1
  <2>7. idx(starts[m]) # idx(starts[m] - 1) BY <2>1, <2>6
  <2>8. idx(starts[n]) <= idx(starts[m] - 1) BY <1>2, <2>1, <2>6
  <2>9. idx(starts[m] - 1) <= idx(starts[m]) BY <1>2, <2>1, <2>6
  <2>10. idx(starts[n]) \in Nat /\ idx(starts[m]) \in Nat /\ idx(starts[m] - 1) \in Nat
    BY <1>1, <2>1, <2>6
  <2>11. idx(starts[n]) < idx(starts[m])
    <3> HIDE DEF idx
    <3>1. QED BY <2>7, <2>8, <2>9, <2>10
  <2>12. QED BY <2>5, <2>11
<1> DEFINE Covers(n, i) == starts[n] <= i /\ i <= last[n] /\ idx(i) = idx(starts[n])
           Q == {m \in Nat : m + 1 <= L => \E n \in 1 .. N : Covers(n, m + 1)}
<1>13. ASSUME NEW i \in S PROVE \E n \in 1 .. N : Covers(n, i)
  <2>1. PICK n \in 1 .. N : starts[n] = i BY <1>8
  <2>2. Covers(n, i) BY <1>3, <1>11, <2>1
  <2>3. QED BY <2>2
<1>14. 0 \in Q
  <2>1. SUFFICES ASSUME 1 <= L PROVE \E n \in 1 .. N : Covers(n, 1) OBVIOUS
  <2>2. 1 \in S BY <1>1, <2>1
  <2>3. QED BY <1>13, <2>2
<1>15. ASSUME NEW m \in Nat, m \in Q PROVE m + 1 \in Q
  <2>1. SUFFICES ASSUME (m + 1) + 1 <= L PROVE \E n \in 1 .. N : Covers(n, (m + 1) + 1) OBVIOUS
  <2>2. PICK n \in 1 .. N : Covers(n, m + 1) BY <1>1, <1>15, <2>1
  <2>3. PICK i : i = m + 1 /\ i \in Nat /\ i \in 1 .. L /\ i + 1 \in 1 .. L BY <1>1, <2>1
  <2>4. CASE i + 1 \in S BY <1>13, <2>3, <2>4
  <2>5. CASE i + 1 \notin S
    <3>1. idx(i + 1) = idx((i + 1) - 1) BY <2>3, <2>5
    <3>2. (i + 1) - 1 = i BY <2>3
    <3>3. idx(i + 1) = idx(starts[n]) BY <2>2, <2>3, <3>1, <3>2
    <3>4. starts[n] \in 1 .. L /\ last[n] \in 1 .. L /\ starts[n] <= i /\ i <= last[n]
      BY <1>8, <1>11, <2>2, <2>3
    <3>5. i + 1 <= last[n]
      <4>1. CASE n = N BY <1>1, <2>3, <4>1
      <4>2. CASE n # N
        <5>1. last[n] = starts[n + 1] - 1 /\ starts[n + 1] \in S /\ starts[n + 1] \in 1 .. L
          BY <1>8, <1>10, <4>2
        <5>2. i + 1 # starts[n + 1] BY <2>5, <5>1
        <5>3. QED BY <2>3, <3>4, <5>1, <5>2
      <4>3. QED BY <4>1, <4>2
    <3>6. starts[n] <= i + 1 BY <2>3, <3>4
    <3>7. Covers(n, i + 1) BY <3>3, <3>5, <3>6
    <3>8. QED BY <2>3, <3>7
  <2>6. QED BY <2>4, <2>5
<1> HIDE DEF Q
<1>16. \A m \in Nat : m \in Q BY <1>14, <1>15, Induction
<1>17. ASSUME NEW i \in 1 .. L PROVE \E n \in 1 .. N : Covers(n, i)
  <2>1. i - 1 \in Q /\ (i - 1) + 1 = i /\ i <= L BY <1>1, <1>16
  <2>2. QED BY <2>1 DEF Q
<1>18. ASSUME NEW n \in 1 .. N, NEW i \in 1 .. L
       PROVE  i \in starts[n] .. last[n] <=> idx(i) = idx(starts[n])
  <2>1. PICK m \in 1 .. N : Covers(m, i) BY <1>17
  <2>2. /\ starts[n] \in 1 .. L /\ last[n] \in 1 .. L /\ starts[m] \in 1 .. L
        /\ last[m] \in 1 .. L
    BY <1>8, <1>11
  <2>3. m = n \/ m < n \/ n < m OBVIOUS
  <2>4. CASE m = n BY <2>1, <2>2, <2>4
  <2>5. CASE m < n
    <3>1. last[m] < starts[n] /\ idx(starts[m]) < idx(starts[n]) BY <1>12, <2>5
    <3>2. idx(starts[m]) \in Nat /\ idx(starts[n]) \in Nat BY <1>1, <2>2
    <3>3. idx(i) # idx(starts[n]) BY <2>1, <3>1, <3>2
    <3>4. i \notin starts[n] .. last[n] BY <2>1, <2>2, <3>1
    <3>5. QED BY <3>3, <3>4
  <2>6. CASE n < m
    <3>1. last[n] < starts[m] /\ idx(starts[n]) < idx(starts[m]) BY <1>12, <2>6
    <3>2. idx(starts[m]) \in Nat /\ idx(starts[n]) \in Nat BY <1>1, <2>2
    <3>3. idx(i) # idx(starts[n]) BY <2>1, <3>1, <3>2
    <3>4. i \notin starts[n] .. last[n] BY <2>1, <2>2, <3>1
    <3>5. QED BY <3>3, <3>4
  <2>7. QED BY <2>3, <2>4, <2>5, <2>6
<1>19. PICK G : G = Grouped(rows) OBVIOUS
<1>20. /\ Len(G) = N /\ DOMAIN G = 1 .. N
       /\ \A n \in 1 .. N :
            /\ G[n].func = rows[starts[n]].func
            /\ G[n].locals = [k \in 1 .. last[n] - starts[n] + 1 |-> rows[starts[n] + k - 1].local]
  <2>1. Len(G) = N /\ DOMAIN G = 1 .. N BY <1>7, <1>9, <1>19
  <2>2. ASSUME NEW n \in 1 .. N
        PROVE  /\ G[n].func = rows[starts[n]].func
               /\ G[n].locals = [k \in 1 .. last[n] - starts[n] + 1 |->
                                  rows[starts[n] + k - 1].local]
    <3>1. last[n] = IF n = N THEN L ELSE starts[n + 1] - 1 OBVIOUS
    <3>2. G[n] = [func |-> rows[starts[n]].func,
                  locals |-> [k \in 1 .. (IF n = N THEN L ELSE starts[n + 1] - 1) - starts[n] + 1 |->
                                rows[starts[n] + k - 1].local]]
      BY <1>9, <1>19
    <3> HIDE DEF last
    <3>3. QED BY <3>1, <3>2
  <2>3. QED BY <2>1, <2>2
<1>21. \A n \in 1 .. N : G[n].func.idx = idx(starts[n]) BY <1>20
<1>22. PICK start : start = [n \in 1 .. N |-> starts[n]] OBVIOUS
<1>23. start \in [1 .. N -> 1 .. L] /\ \A n \in 1 .. N : start[n] = starts[n] BY <1>8, <1>22
<1>24. last \in [1 .. N -> 1 .. L] BY <1>11
<1> HIDE DEF last, S, ids
<1>25. \A i \in 1 .. L : \E n \in 1 .. N : i \in start[n] .. last[n]
  <2>1. ASSUME NEW i \in 1 .. L PROVE \E n \in 1 .. N : i \in start[n] .. last[n]
    <3>1. PICK n \in 1 .. N : Covers(n, i) BY <1>17
    <3>2. i \in starts[n] .. last[n] BY <1>18, <3>1
    <3>3. QED BY <1>23, <3>2
  <2>2. QED BY <2>1
<1>26. ASSUME NEW n \in 1 .. N
       PROVE  /\ start[n] <= last[n] /\ G[n].func = rows[start[n]].func
              /\ G[n].locals = [k \in 1 .. last[n] - start[n] + 1 |-> rows[start[n] + k - 1].local]
              /\ \A i \in 1 .. L :
                   i \in start[n] .. last[n] <=> rows[i].func.idx = G[n].func.idx
  <2>1. start[n] = starts[n] /\ G[n].func.idx = idx(starts[n]) BY <1>21, <1>23
  <2>2. start[n] <= last[n] BY <1>11, <2>1
  <2>3. /\ G[n].func = rows[start[n]].func
        /\ G[n].locals = [k \in 1 .. last[n] - start[n] + 1 |-> rows[start[n] + k - 1].local]
    <3>1. /\ G[n].func = rows[starts[n]].func
          /\ G[n].locals = [k \in 1 .. last[n] - starts[n] + 1 |-> rows[starts[n] + k - 1].local]
      BY <1>20
    <3>2. QED BY <2>1, <3>1, Zenon
  <2>4. \A i \in 1 .. L : i \in start[n] .. last[n] <=> rows[i].func.idx = G[n].func.idx
    BY <1>18, <2>1
  <2>5. QED BY <2>2, <2>3, <2>4
<1>27. \A n, m \in 1 .. N : n < m => G[n].func.idx < G[m].func.idx BY <1>12, <1>21
<1>28. Intervals(rows, start, last)
  BY <1>7, <1>19, <1>20, <1>23, <1>24, <1>25, <1>26, <1>27 DEF Intervals
<1>29. QED BY <1>28

\* The names of locals are in a group for each function, each name in one.
THEOREM LocalNamesFound == Spec => []LocalNamesGrouped
<1>1. ASSUME Consistent PROVE LocalNamesGrouped
  <2>1. CASE ~ (out # <<>> /\ InOrder) BY <2>1 DEF LocalNamesGrouped
  <2>2. CASE out # <<>> /\ InOrder
    <3>1. PICK l : l = refs.locals /\ l \in Seq(Rows)
      BY <1>1 DEF Consistent, TypeOK, Members
    <3>2. PICK rows : rows = ByRow(l) /\ rows \in Seq(Rows) /\ Len(rows) = Len(l)
      BY <3>1, RowsSorted
    <3>3. PICK p : Arranges(p, l, rows) BY <3>1, <3>2, RowsSorted
    <3>4. PICK start, last : Intervals(rows, start, last)
      BY <3>2, <3>3, GroupsFound DEF Arranges
    <3>5. PICK G : G = Grouped(rows) OBVIOUS
    <3>6. NamesOf(2) = G BY <1>1, <2>2, <3>1, <3>2, <3>5, NamesAre DEF LocalNameMap
    <3> DEFINE L == Len(l)
               N == Len(G)
    <3>7. L \in Nat /\ \A i \in 1 .. L : p[i] \in 1 .. L /\ rows[i] = l[p[i]]
      BY <3>1, <3>3 DEF Arranges, Bijection, Injection
    <3>8. /\ \A i, j \in 1 .. L : p[i] = p[j] => i = j
          /\ \A m \in 1 .. L : \E i \in 1 .. L : p[i] = m
      BY <3>3 DEF Arranges, Bijection, Injection, Surjection, IsInjective
    <3>9. /\ N \in Nat /\ start \in [1 .. N -> 1 .. L] /\ last \in [1 .. N -> 1 .. L]
          /\ \A i \in 1 .. L : \E n \in 1 .. N : i \in start[n] .. last[n]
          /\ \A n, m \in 1 .. N : n < m => G[n].func.idx < G[m].func.idx
      BY <3>2, <3>4, <3>5 DEF Intervals
    <3>10. \A n \in 1 .. N :
             /\ start[n] <= last[n] /\ G[n].func = rows[start[n]].func
             /\ G[n].locals = [k \in 1 .. last[n] - start[n] + 1 |-> rows[start[n] + k - 1].local]
             /\ \A i \in 1 .. L : i \in start[n] .. last[n] <=> rows[i].func.idx = G[n].func.idx
      <4>1. Len(rows) = L /\ Grouped(rows) = G BY <3>2, <3>5
      <4>2. Intervals(rows, start, last) BY <3>4
      <4> HIDE DEF L
      <4>3. QED BY <4>1, <4>2, Zenon DEF Intervals
    <3>11. ASSUME NEW i \in 1 .. L
           PROVE  /\ rows[i].func \in Handles /\ rows[i].func.kind = "Function"
                  /\ rows[i].func.id = <<"Function", rows[i].func.idx + 1>>
                  /\ rows[i].local \in Nat
      <4>1. rows[i] = l[p[i]] /\ p[i] \in 1 .. L BY <3>7
      <4>2. l[p[i]] \in Rows BY <3>1, <4>1, ElementOf
      <4>3. l[p[i]].func \in HeldOf({"Function"})
        BY <1>1, <3>1, <4>1 DEF Consistent, RefsHeld
      <4>4. l[p[i]].func \in held /\ l[p[i]].func.kind = "Function" BY <4>3 DEF HeldOf
      <4>5. Denotes(l[p[i]].func) BY <1>1, <4>4 DEF Consistent, HeldDenote
      <4>6. l[p[i]].func.id = <<"Function", l[p[i]].func.idx + 1>>
        BY <2>2, <4>4, <4>5 DEF Denotes, ExternalKinds
      <4>7. QED BY <4>1, <4>2, <4>4, <4>6 DEF Rows
    <3>12. ASSUME NEW i \in 1 .. L, NEW j \in 1 .. L, rows[i].func.idx = rows[j].func.idx
           PROVE  rows[i].func = rows[j].func
      <4>1. /\ rows[i].func.kind = rows[j].func.kind /\ rows[i].func.id = rows[j].func.id
            /\ rows[i].func \in Handles /\ rows[j].func \in Handles
        BY <3>11, <3>12
      <4>2. QED BY <3>12, <4>1 DEF Handles
    <3>13. ASSUME NEW row \in ToSet(l) PROVE \E n \in 1 .. N : G[n].func = row.func
      <4>1. PICK m \in 1 .. L : row = l[m] BY <3>1, ToSetIs
      <4>2. PICK i \in 1 .. L : p[i] = m BY <3>8
      <4>3. PICK n \in 1 .. N : i \in start[n] .. last[n] BY <3>9
      <4>4. start[n] \in 1 .. L /\ rows[i].func.idx = G[n].func.idx BY <3>9, <3>10, <4>3
      <4>5. G[n].func = rows[start[n]].func BY <3>10
      <4>6. rows[i].func = rows[start[n]].func BY <3>12, <4>4, <4>5
      <4>7. rows[i] = row BY <3>7, <4>1, <4>2
      <4>8. QED BY <4>5, <4>6, <4>7
    <3>14. ASSUME NEW n \in 1 .. N
           PROVE  /\ Len(G[n].locals) = Cardinality({m \in 1 .. L : l[m].func = G[n].func})
                  /\ \A k \in 1 .. Len(G[n].locals) - 1 : G[n].locals[k] <= G[n].locals[k + 1]
      <4>1. PICK a, z \in 1 .. L : a = start[n] /\ z = last[n] /\ a <= z BY <3>9, <3>10
      <4>2. PICK K \in Nat : K = z - a + 1 BY <4>1
      <4>3. /\ G[n].func = rows[a].func
            /\ G[n].locals = [k \in 1 .. K |-> rows[a + k - 1].local]
            /\ \A i \in 1 .. L : i \in a .. z <=> rows[i].func.idx = G[n].func.idx
        BY <3>10, <4>1, <4>2
      <4>4. Len(G[n].locals) = K BY <4>2, <4>3
      <4>5. ASSUME NEW k \in 1 .. K PROVE a + k - 1 \in 1 .. L /\ a + k - 1 \in a .. z
        <5>1. a \in Nat /\ z \in Nat /\ 1 <= a /\ z <= L /\ L \in Nat /\ K = z - a + 1
          BY <3>7, <4>1, <4>2
        <5> HIDE DEF L
        <5>2. QED BY <5>1
      <4>6. \A i \in 1 .. L : i \in a .. z <=> rows[i].func = G[n].func
        <5>1. G[n].func = rows[a].func /\ a \in 1 .. L BY <4>1, <4>3
        <5>2. ASSUME NEW i \in 1 .. L
              PROVE  rows[i].func.idx = G[n].func.idx <=> rows[i].func = G[n].func
          BY <3>12, <5>1, Zenon
        <5>3. QED BY <4>3, <5>2, Zenon
      <4> DEFINE Named == {m \in 1 .. L : l[m].func = G[n].func}
                 b == [k \in 1 .. K |-> p[a + k - 1]]
      <4>7. ASSUME NEW k \in 1 .. K PROVE b[k] \in Named
        <5>1. PICK i \in 1 .. L : i = a + k - 1 /\ i \in a .. z BY <4>5
        <5>2. p[i] \in 1 .. L /\ rows[i] = l[p[i]] BY <3>7
        <5>3. rows[i].func = G[n].func BY <4>6, <5>1
        <5>4. p[i] \in Named BY <5>2, <5>3
        <5>5. b[k] = p[i] BY <5>1
        <5>6. QED BY <5>4, <5>5
      <4>8. ASSUME NEW k \in 1 .. K, NEW m \in 1 .. K, b[k] = b[m] PROVE k = m
        <5>1. a + k - 1 = a + m - 1 BY <3>8, <4>5, <4>8
        <5>2. QED BY <4>1, <5>1
      <4>9. ASSUME NEW m \in Named PROVE \E k \in 1 .. K : b[k] = m
        <5>1. PICK i \in 1 .. L : p[i] = m BY <3>8
        <5>2. rows[i].func = G[n].func BY <3>7, <5>1
        <5>3. i \in a .. z BY <4>6, <5>2
        <5>4. i - a + 1 \in 1 .. K /\ a + (i - a + 1) - 1 = i
          <6>1. a \in Nat /\ z \in Nat /\ a <= i /\ i <= z /\ i \in Nat /\ K = z - a + 1
            BY <4>1, <4>2, <5>3
          <6> HIDE DEF L
          <6>2. QED BY <6>1
        <5>5. b[i - a + 1] = m BY <5>1, <5>4
        <5>6. QED BY <5>4, <5>5
      <4> HIDE DEF Named
      <4>10. b \in [1 .. K -> Named] BY <4>7
      <4> HIDE DEF b
      <4>11. b \in Bijection(1 .. K, Named)
        BY <4>8, <4>9, <4>10 DEF Bijection, Injection, Surjection, IsInjective
      <4>12. ExistsBijection(1 .. K, Named) BY <4>11 DEF ExistsBijection
      <4>13. Cardinality(Named) = K BY <4>2, <4>12, FS_CountingElements, FS_NatBijection
      <4>14. ASSUME NEW k \in 1 .. K - 1
             PROVE  rows[a + k - 1].local <= rows[a + k].local
        <5>1. PICK i \in 1 .. L : i = a + k - 1 /\ i + 1 = a + k /\ i + 1 \in 1 .. L
                                  /\ i \in a .. z /\ i + 1 \in a .. z
          <6>1. /\ k \in Nat /\ k >= 1 /\ k < K /\ a \in Nat /\ z \in Nat /\ L \in Nat
                /\ 1 <= a /\ z <= L /\ K = z - a + 1
            BY <3>7, <4>1, <4>2
          <6>2. a + k - 1 \in 1 .. L /\ a + k \in 1 .. L /\ (a + k - 1) + 1 = a + k
            <7> HIDE DEF L
            <7>1. QED BY <6>1
          <6>3. a + k - 1 \in a .. z /\ a + k \in a .. z BY <6>1
          <6>4. QED BY <6>2, <6>3
        <5>2. rows[i].func = rows[i + 1].func BY <4>6, <5>1
        <5>3. Before(rows, i, i + 1) BY <3>2, <3>3, <5>1 DEF Arranges, RowsInOrder
        <5>4. QED BY <5>1, <5>2, <5>3 DEF Before
      <4>15. ASSUME NEW k \in 1 .. K - 1 PROVE G[n].locals[k] <= G[n].locals[k + 1]
        <5>1. k \in 1 .. K /\ k + 1 \in 1 .. K /\ a + (k + 1) - 1 = a + k BY <4>1, <4>2
        <5>2. QED BY <4>3, <4>14, <5>1
      <4>16. QED BY <4>4, <4>13, <4>15 DEF Named
    <3>15. ASSUME NEW g \in ToSet(G) PROVE \E n \in 1 .. N : g = G[n]
      <4>1. DOMAIN G = 1 .. N BY <3>4, <3>5 DEF Intervals
      <4>2. QED BY <3>15, <4>1 DEF ToSet
    <3>16. \A n \in 1 .. N : G[n] \in ToSet(G)
      <4>1. DOMAIN G = 1 .. N BY <3>4, <3>5 DEF Intervals
      <4>2. QED BY <4>1 DEF ToSet
    <3>17. \A n \in 1 .. N - 1 : G[n].func.idx < G[n + 1].func.idx BY <3>9
    <3>18. \A row \in ToSet(l) : \E g \in ToSet(G) : g.func = row.func BY <3>13, <3>16
    <3>19. \A g \in ToSet(G) :
             /\ Len(g.locals) = Cardinality({m \in 1 .. L : l[m].func = g.func})
             /\ \A k \in 1 .. Len(g.locals) - 1 : g.locals[k] <= g.locals[k + 1]
      BY <3>14, <3>15
    <3>20. QED BY <3>1, <3>6, <3>17, <3>18, <3>19 DEF LocalNamesGrouped
  <2>3. QED BY <2>1, <2>2
<1>2. QED BY <1>1, ModuleConsistent, PTL

(***************************************************************************)
(* References.                                                             *)
(***************************************************************************)
LEMMA EncodedIs ==
  ASSUME NEW s \in Seq(SegmentRecords), NEW seg \in ToSet(EncodedAll(s))
  PROVE  \E n \in 1 .. Len(s) :
           /\ seg.where = s[n].where /\ seg.offset = s[n].offset /\ seg.funcs = s[n].funcs
           /\ seg.flag \in {0, 2} => ~ s[n].passive
           /\ seg.flag = 0 => s[n].where.idx = 0
<1>1. EncodedAll(s) = [n \in 1 .. Len(s) |-> Encoded(s[n])] BY DEF EncodedAll
<1>2. PICK n \in 1 .. Len(s) : seg = Encoded(s[n]) BY <1>1 DEF ToSet
<1>3. s[n] \in SegmentRecords BY ElementOf
<1>4. s[n].passive \in BOOLEAN BY <1>3 DEF SegmentRecords
<1>5. QED BY <1>2, <1>4 DEF Encoded

\* Every index that is written outside code is that of a handle of the client.
LEMMA WrittenHeld ==
  ASSUME Consistent, out # <<>>, NEW h \in Written
  PROVE  h \in held
<1>1. /\ refs.exports \in Seq(Handles) /\ refs.start \in Seq(Handles)
      /\ refs.elem \in Seq(SegmentRecords) /\ refs.data \in Seq(SegmentRecords)
      /\ refs.locals \in Seq(Rows) /\ TypeOK
  BY DEF Consistent, TypeOK, Members
<1>2. CASE h \in ToSet(Items(7)) \cup ToSet(Items(8))
  <2>1. h \in ToSet(refs.exports) \/ h \in ToSet(refs.start) BY <1>2, ItemsAre
  <2>2. CASE h \in ToSet(refs.exports)
    <3>1. PICK n \in 1 .. Len(refs.exports) : h = refs.exports[n] BY <1>1, <2>2, ToSetIs
    <3>2. QED BY <3>1 DEF Consistent, RefsHeld
  <2>3. CASE h \in ToSet(refs.start)
    <3>1. PICK n \in 1 .. Len(refs.start) : h = refs.start[n] BY <1>1, <2>3, ToSetIs
    <3>2. QED BY <3>1 DEF Consistent, RefsHeld
  <2>4. QED BY <2>1, <2>2, <2>3
<1>3. CASE h \in ToSet(NamesOf(1)) \cup ToSet(NamesOf(7))
  <2>1. PICK k : h \in ToSet(NameMap(k)) BY <1>3, NamesAre
  <2>2. NameMap(k) \in Seq(Handles) BY <1>1, NameMapIs
  <2>3. PICK n \in 1 .. Len(NameMap(k)) : h = NameMap(k)[n] BY <2>1, <2>2, ToSetIs
  <2>4. \E m \in 1 .. Len(refs.names) : h = refs.names[m] BY <1>1, <2>3, NameMapIs
  <2>5. QED BY <2>4 DEF Consistent, RefsHeld
<1>4. CASE h \in {g.func : g \in ToSet(NamesOf(2))}
  <2>1. PICK rows : /\ rows = ByRow(refs.locals) /\ rows \in Seq(Rows)
                    /\ Len(rows) = Len(refs.locals)
    BY <1>1, RowsSorted
  <2>2. PICK p : Arranges(p, refs.locals, rows) BY <1>1, <2>1, RowsSorted
  <2>3. PICK start, last : Intervals(rows, start, last)
    BY <2>1, <2>2, GroupsFound DEF Arranges
  <2>4. PICK g \in ToSet(Grouped(rows)) : h = g.func
    BY <1>4, <2>1, NamesAre DEF LocalNameMap
  <2>5. DOMAIN Grouped(rows) = 1 .. Len(Grouped(rows)) BY <2>3 DEF Intervals
  <2>6. PICK n \in 1 .. Len(Grouped(rows)) : g = Grouped(rows)[n] BY <2>4, <2>5 DEF ToSet
  <2>7. PICK i \in 1 .. Len(rows) : h = rows[i].func BY <2>3, <2>4, <2>6 DEF Intervals
  <2>8. rows[i] = refs.locals[p[i]] /\ p[i] \in 1 .. Len(refs.locals)
    BY <2>1, <2>2 DEF Arranges, Bijection, Injection
  <2>9. h \in HeldOf({"Function"}) BY <2>7, <2>8 DEF Consistent, RefsHeld
  <2>10. QED BY <2>9 DEF HeldOf
<1>5. CASE h \in UNION {ToSet(d.init) : d \in ToSet(Items(6))}
  <2>1. PICK d \in ToSet(defs["Global"]) : h \in ToSet(d.init) BY <1>5, ItemsAre
  <2>2. PICK D : D = [id : Ids, init : Seq(Handles)] OBVIOUS
  <2>3. defs["Global"] \in Seq(D) BY <1>1, <2>2 DEF TypeOK, ExternalKinds
  <2>4. PICK n \in 1 .. Len(defs["Global"]) : d = defs["Global"][n] BY <2>1, <2>3, ToSetIs
  <2>5. d \in D BY <2>3, <2>4, ElementOf
  <2>6. d.init \in Seq(Handles) BY <2>2, <2>5
  <2>7. PICK i \in 1 .. Len(d.init) : h = d.init[i] BY <2>1, <2>6, ToSetIs
  <2>8. QED BY <2>4, <2>7 DEF Consistent, InitsHeld, ExternalKinds
<1>6. ASSUME NEW seg \in Segments
      PROVE  /\ ToSet(seg.offset) \subseteq held /\ ToSet(seg.funcs) \subseteq held
             /\ seg.flag \in {0, 2} => seg.where \in held
             /\ seg.flag = 0 => seg.where.idx = 0
  <2>1. seg \in ToSet(EncodedAll(refs.elem)) \/ seg \in ToSet(EncodedAll(refs.data))
    BY ItemsAre DEF Segments
  <2>2. PICK s : /\ s \in SegmentRecords /\ SegmentHeld(s)
                 /\ seg.where = s.where /\ seg.offset = s.offset /\ seg.funcs = s.funcs
                 /\ seg.flag \in {0, 2} => ~ s.passive
                 /\ seg.flag = 0 => s.where.idx = 0
    <3>1. CASE seg \in ToSet(EncodedAll(refs.elem))
      <4>1. PICK n \in 1 .. Len(refs.elem) :
              /\ seg.where = refs.elem[n].where /\ seg.offset = refs.elem[n].offset
              /\ seg.funcs = refs.elem[n].funcs
              /\ seg.flag \in {0, 2} => ~ refs.elem[n].passive
              /\ seg.flag = 0 => refs.elem[n].where.idx = 0
        BY <1>1, <3>1, EncodedIs
      <4>2. refs.elem[n] \in SegmentRecords BY <1>1, ElementOf
      <4>3. SegmentHeld(refs.elem[n]) BY DEF Consistent, RefsHeld
      <4>4. QED BY <4>1, <4>2, <4>3
    <3>2. CASE seg \in ToSet(EncodedAll(refs.data))
      <4>1. PICK n \in 1 .. Len(refs.data) :
              /\ seg.where = refs.data[n].where /\ seg.offset = refs.data[n].offset
              /\ seg.funcs = refs.data[n].funcs
              /\ seg.flag \in {0, 2} => ~ refs.data[n].passive
              /\ seg.flag = 0 => refs.data[n].where.idx = 0
        BY <1>1, <3>2, EncodedIs
      <4>2. refs.data[n] \in SegmentRecords BY <1>1, ElementOf
      <4>3. SegmentHeld(refs.data[n]) BY DEF Consistent, RefsHeld
      <4>4. QED BY <4>1, <4>2, <4>3
    <3>3. QED BY <2>1, <3>1, <3>2
  <2>3. s.offset \in Seq(Handles) /\ s.funcs \in Seq(Handles) BY <2>2 DEF SegmentRecords
  <2>4. ToSet(seg.offset) \subseteq held BY <2>2, <2>3, ToSetIs DEF SegmentHeld
  <2>5. ToSet(seg.funcs) \subseteq held BY <2>2, <2>3, ToSetIs DEF SegmentHeld
  <2>6. QED BY <2>2, <2>4, <2>5 DEF SegmentHeld
<1>7. CASE h \in UNION {ToSet(seg.offset) \cup ToSet(seg.funcs) : seg \in Segments}
  BY <1>6, <1>7
<1>8. CASE h \in {seg.where : seg \in {s \in Segments : s.flag = 2}} BY <1>6, <1>8
<1>9. CASE h \in {[seg.where EXCEPT !.idx = 0] : seg \in {s \in Segments : s.flag = 0}}
  <2>1. PICK seg \in Segments : seg.flag = 0 /\ h = [seg.where EXCEPT !.idx = 0] BY <1>9
  <2>2. seg.where \in held /\ seg.where.idx = 0 BY <1>6, <2>1
  <2>3. seg.where \in Handles BY <1>1, <2>2 DEF TypeOK
  <2>4. h = seg.where BY <2>1, <2>2, <2>3 DEF Handles
  <2>5. QED BY <2>2, <2>4
<1> DEFINE Named == {g.func : g \in ToSet(NamesOf(2))}
           Used == UNION {ToSet(d.init) : d \in ToSet(Items(6))}
           Listed == UNION {ToSet(seg.offset) \cup ToSet(seg.funcs) : seg \in Segments}
           Placed == {seg.where : seg \in {s \in Segments : s.flag = 2}}
           First == {[seg.where EXCEPT !.idx = 0] : seg \in {s \in Segments : s.flag = 0}}
<1>10. Written = ToSet(Items(7)) \cup ToSet(Items(8)) \cup ToSet(NamesOf(1)) \cup
                 ToSet(NamesOf(7)) \cup Named \cup Used \cup Listed \cup Placed \cup First
  BY DEF Written
<1>11. /\ h \in Named => h \in held
       /\ h \in Used => h \in held
       /\ h \in Listed => h \in held
       /\ h \in Placed => h \in held
       /\ h \in First => h \in held
  BY <1>4, <1>5, <1>7, <1>8, <1>9
<1> HIDE DEF Named, Used, Listed, Placed, First
<1>12. QED BY <1>2, <1>3, <1>10, <1>11

\* A reader resolves every index of the assembled module, in code and outside,
\* to the entity that the client meant.
THEOREM ReferencesResolve == Spec => []RefsResolve
<1>1. ASSUME Consistent PROVE RefsResolve
  <2>1. SUFFICES ASSUME out # <<>>, InOrder,
                        NEW h \in Written \cup UNION {b.uses : b \in ToSet(Items(10))}
                 PROVE  Resolves(h)
    BY DEF RefsResolve
  <2>2. CASE h \in Written BY <1>1, <2>1, <2>2, WrittenHeld, HandleResolves
  <2>3. CASE h \in UNION {b.uses : b \in ToSet(Items(10))}
    <3>1. PICK b \in ToSet(bodies) : h \in b.uses BY <1>1, <2>1, <2>3, ItemsAre
    <3>2. bodies \in Seq(Bodies) BY <1>1 DEF Consistent, TypeOK
    <3>3. PICK n \in 1 .. Len(bodies) : b = bodies[n] BY <3>2, ToSetIs
    <3>4. h \in held BY <1>1, <3>1, <3>3 DEF Consistent, BodiesHeld, UsesHeld
    <3>5. QED BY <1>1, <2>1, <3>4, HandleResolves
  <2>4. QED BY <2>1, <2>2, <2>3
<1>2. QED BY <1>1, ModuleConsistent, PTL
=============================================================================
