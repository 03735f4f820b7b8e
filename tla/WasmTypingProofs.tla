-------------------------- MODULE WasmTypingProofs ---------------------------
(***************************************************************************)
(* The validator decides the typing rules, up to the named departures: for *)
(* every Module, set of instructions, client and bound, a body is refused  *)
(* exactly when no typing of it exists.                                    *)
(*                                                                         *)
(* What the validator keeps of a frame is a run of operands, some of them  *)
(* Unknown; what the rules keep is a set of stacks.  The proof is that the *)
(* set is always the one that the operands stand for, with any type in the *)
(* place of Unknown.                                                       *)
(***************************************************************************)
EXTENDS WasmTyping, FunctionEmitterProofs

\* The stacks that operands p stand for.
Stands(p) == {s \in [1 .. Len(p) -> Alphabet] :
                \A k \in 1 .. Len(p) : p[k] \in {s[k], Unknown}}

\* Operands p have ts on top, any telling whether there may be more below.
CanTake(p, any, ts) ==
  /\ any \/ Len(ts) <= Len(p)
  /\ \A k \in 0 .. Common(p, ts) - 1 :
       p[Len(p) - k] = ts[Len(ts) - k] \/ Unknown \in {p[Len(p) - k], ts[Len(ts) - k]}

LEMMA AlphabetFacts ==
  ASSUME Acknowledged
  PROVE  /\ Alphabet = ValTypes /\ Unknown \notin Alphabet /\ Bot \notin Operands
         /\ "I32" \in ValTypes
  BY DEF Acknowledged, Unknown, Bot, ValTypes, NumTypes, RefTypes, Operands

LEMMA CommonFacts ==
  ASSUME NEW p, NEW ts, Len(p) \in Nat, Len(ts) \in Nat
  PROVE  /\ Common(p, ts) \in 0 .. Len(p) /\ Common(p, ts) \in 0 .. Len(ts)
         /\ Common(p, ts) = Len(p) \/ Common(p, ts) = Len(ts)
         /\ Len(p) - Common(p, ts) \in 0 .. Len(p)
  BY DEF Common

LEMMA ConcatFacts ==
  ASSUME NEW X, NEW s \in Seq(X), NEW t \in Seq(X)
  PROVE  /\ s \o t \in Seq(X) /\ Len(s \o t) = Len(s) + Len(t)
         /\ \A k \in 1 .. Len(s) : (s \o t)[k] = s[k]
         /\ \A k \in 1 .. Len(t) : (s \o t)[Len(s) + k] = t[k]
  <1>1. \A k \in 1 .. Len(t) : Len(s) + k \in Len(s) + 1 .. Len(s) + Len(t)
    OBVIOUS
  <1>2. QED
    BY <1>1, ConcatProperties

LEMMA HeadFacts ==
  ASSUME NEW X, NEW s \in Seq(X), NEW n \in 0 .. Len(s)
  PROVE  /\ SubSeq(s, 1, n) \in Seq(X) /\ Len(SubSeq(s, 1, n)) = n
         /\ \A k \in 1 .. n : SubSeq(s, 1, n)[k] = s[k]
  OBVIOUS

LEMMA MiddleFacts ==
  ASSUME NEW s \in Seq(Operands), NEW i \in Nat, NEW j \in Nat, i <= j, j <= Len(s)
  PROVE  /\ SubSeq(s, i + 1, j) \in Seq(Operands) /\ Len(SubSeq(s, i + 1, j)) = j - i
         /\ \A m \in 1 .. j - i : SubSeq(s, i + 1, j)[m] = s[i + m]
  OBVIOUS

\* What is left of p when ts are taken and push is put on top.
LEMMA RestFacts ==
  ASSUME NEW p \in Seq(Operands), NEW push \in Seq(Operands), NEW ts \in Seq(Operands)
  PROVE  /\ Rest(p, ts, push) \in Seq(Operands)
         /\ Len(Rest(p, ts, push)) = Len(p) - Common(p, ts) + Len(push)
         /\ \A k \in 1 .. Len(p) - Common(p, ts) : Rest(p, ts, push)[k] = p[k]
         /\ \A k \in 1 .. Len(push) :
              Rest(p, ts, push)[Len(p) - Common(p, ts) + k] = push[k]
  <1> DEFINE n == Len(p) - Common(p, ts)
             r == SubSeq(p, 1, n)
  <1>1. n \in 0 .. Len(p)
    <2>1. Len(p) \in Nat /\ Len(ts) \in Nat
      OBVIOUS
    <2>2. QED
      BY <2>1, CommonFacts
  <1> HIDE DEF n
  <1>2. r \in Seq(Operands) /\ Len(r) = n /\ \A k \in 1 .. n : r[k] = p[k]
    BY <1>1, HeadFacts
  <1> HIDE DEF r
  <1>3. r \in Seq(Operands) /\ push \in Seq(Operands)
    BY <1>2
  <1>4. /\ r \o push \in Seq(Operands) /\ Len(r \o push) = Len(r) + Len(push)
        /\ \A k \in 1 .. Len(r) : (r \o push)[k] = r[k]
        /\ \A k \in 1 .. Len(push) : (r \o push)[Len(r) + k] = push[k]
    BY <1>3, ConcatFacts
  <1>5. Rest(p, ts, push) = r \o push
    BY DEF Rest, r, n
  <1>6. QED
    BY <1>2, <1>4, <1>5 DEF n

LEMMA StandsFacts ==
  ASSUME Acknowledged, NEW p \in Seq(Operands), NEW s \in Stands(p)
  PROVE  /\ s \in Seq(Operands) /\ Len(s) = Len(p) /\ Len(p) \in Nat
         /\ \A k \in 1 .. Len(p) : s[k] \in ValTypes /\ p[k] \in {s[k], Unknown}
  BY AlphabetFacts DEF Stands, Operands

IsRest(u, p, ts, push) ==
  /\ u \in Seq(Operands) /\ Len(u) = Len(p) - Common(p, ts) + Len(push)
  /\ \A k \in 1 .. Len(p) - Common(p, ts) : p[k] = u[k]
  /\ \A k \in 1 .. Len(push) : push[k] = u[Len(p) - Common(p, ts) + k]

LEMMA RestIs ==
  ASSUME NEW p \in Seq(Operands), NEW push \in Seq(Operands), NEW ts \in Seq(Operands),
         NEW u, IsRest(u, p, ts, push)
  PROVE  u = Rest(p, ts, push)
  <1> DEFINE n == Len(p) - Common(p, ts)
             r == Rest(p, ts, push)
  <1>1. n \in Nat /\ Len(push) \in Nat
    <2>1. Len(p) \in Nat /\ Len(ts) \in Nat /\ Len(push) \in Nat
      OBVIOUS
    <2>2. QED
      BY <2>1, CommonFacts
  <1>2. /\ r \in Seq(Operands) /\ Len(r) = n + Len(push)
        /\ \A k \in 1 .. n : r[k] = p[k]
        /\ \A k \in 1 .. Len(push) : r[n + k] = push[k]
    BY RestFacts
  <1> HIDE DEF n, r
  <1>3. ASSUME NEW k \in 1 .. Len(u) PROVE u[k] = r[k]
    <2>1. CASE k <= n
      <3>1. k \in 1 .. n
        BY <1>1, <2>1 DEF IsRest
      <3>2. QED
        BY <1>2, <3>1 DEF n, IsRest
    <2>2. CASE ~(k <= n)
      <3>1. k - n \in 1 .. Len(push) /\ n + (k - n) = k
        BY <1>1, <2>2 DEF n, IsRest
      <3>2. QED
        BY <1>2, <3>1, SMTT(40) DEF n, IsRest
    <2>3. QED
      BY <2>1, <2>2
  <1>4. QED
    BY <1>2, <1>3, SeqEqual DEF n, r, IsRest

\* Two pushes in a row.
LEMMA RestThen ==
  ASSUME NEW p \in Seq(Operands), NEW ts \in Seq(Operands), NEW push \in Seq(Operands)
  PROVE  Rest(p, ts, <<>>) \o push = Rest(p, ts, push)
  <1> DEFINE n == Len(p) - Common(p, ts)
             r == SubSeq(p, 1, n)
  <1>1. n \in 0 .. Len(p)
    BY CommonFacts
  <1> HIDE DEF n
  <1>2. r \in Seq(Operands)
    BY <1>1, HeadFacts
  <1> HIDE DEF r
  <1>3. r \o <<>> = r
    BY <1>2, ConcatEmptySeq
  <1>4. QED
    BY <1>3 DEF Rest, r, n

\* Some stack at least.
LEMMA StandsSome ==
  ASSUME Acknowledged, NEW p \in Seq(Operands)
  PROVE  Stands(p) # {}
  <1> DEFINE s == [k \in 1 .. Len(p) |-> IF p[k] = Unknown THEN "I32" ELSE p[k]]
  <1>1. \A k \in 1 .. Len(p) : p[k] \in ValTypes \/ p[k] = Unknown
    BY DEF Operands
  <1>2. s \in Stands(p)
    BY <1>1, AlphabetFacts DEF Stands
  <1>3. QED
    BY <1>2

\* Types stand for themselves.
LEMMA StandsOne ==
  ASSUME Acknowledged, NEW p \in Seq(ValTypes)
  PROVE  Stands(p) = {p}
  <1>1. \A k \in 1 .. Len(p) : p[k] \in ValTypes /\ p[k] # Unknown
    BY AlphabetFacts
  <1>2. p \in Stands(p)
    BY <1>1, AlphabetFacts DEF Stands
  <1>3. ASSUME NEW s \in Stands(p) PROVE s = p
    <2>1. p \in Seq(Operands)
      BY ValTypesAreOperands
    <2>2. /\ s \in Seq(Operands) /\ Len(s) = Len(p)
          /\ \A k \in 1 .. Len(p) : p[k] \in {s[k], Unknown}
      BY <2>1, StandsFacts, AlphabetFacts
    <2>3. \A k \in 1 .. Len(s) : s[k] = p[k]
      BY <1>1, <2>2
    <2>4. QED
      BY <2>1, <2>2, <2>3, SeqEqual
  <1>4. QED
    BY <1>2, <1>3

\* A stack s that p stands for has ts on top only if p has, and the rest of it
\* is one that the rest of p stands for.
LEMMA TakenFits ==
  ASSUME Acknowledged, NEW p \in Seq(Operands), NEW s \in Stands(p),
         NEW ts \in Seq(ValTypes), NEW f, Takes(f, s, ts), NEW push \in Seq(Operands),
         NEW top \in Stands(push)
  PROVE  /\ CanTake(p, f.any, ts)
         /\ Rest(s, ts, top) \in Stands(Rest(p, ts, push))
  <1> DEFINE c == Common(p, ts)
             u == Rest(s, ts, top)
             q == Rest(p, ts, push)
  <1>1. ts \in Seq(Operands)
    BY ValTypesAreOperands
  <1>2. /\ Len(s) = Len(p) /\ Len(p) \in Nat /\ Len(ts) \in Nat /\ Common(s, ts) = c
        /\ c \in 0 .. Len(p) /\ c \in 0 .. Len(ts) /\ s \in Seq(Operands)
        /\ Len(p) - c \in Nat
    BY StandsFacts, CommonFacts DEF Common
  <1> HIDE DEF c
  <1>3. CanTake(p, f.any, ts)
    <2>1. ASSUME NEW k \in 0 .. c - 1
          PROVE  p[Len(p) - k] \in {ts[Len(ts) - k], Unknown}
      <3>1. Len(p) - k \in 1 .. Len(p) /\ Len(ts) - k \in 1 .. Len(ts)
        BY <1>2, <2>1
      <3>2. s[Len(p) - k] \in {ts[Len(ts) - k], Bot}
        BY <1>2, <2>1 DEF Takes
      <3>3. p[Len(p) - k] \in {s[Len(p) - k], Unknown} /\ p[Len(p) - k] \in Operands
        BY <3>1, StandsFacts
      <3>4. QED
        BY <3>2, <3>3, AlphabetFacts
    <2>2. QED
      BY <1>2, <2>1 DEF CanTake, Takes, c
  <1>4. /\ top \in Seq(Operands) /\ Len(top) = Len(push) /\ Len(push) \in Nat
        /\ \A k \in 1 .. Len(push) : top[k] \in ValTypes /\ push[k] \in {top[k], Unknown}
    BY StandsFacts
  <1>5. /\ u \in Seq(Operands) /\ Len(u) = Len(p) - c + Len(push)
        /\ \A k \in 1 .. Len(p) - c : u[k] = s[k]
        /\ \A k \in 1 .. Len(push) : u[Len(p) - c + k] = top[k]
    <2>1. s \in Seq(Operands) /\ top \in Seq(Operands)
      BY <1>2, <1>4
    <2>2. /\ Rest(s, ts, top) \in Seq(Operands)
          /\ Len(Rest(s, ts, top)) = Len(s) - Common(s, ts) + Len(top)
          /\ \A k \in 1 .. Len(s) - Common(s, ts) : Rest(s, ts, top)[k] = s[k]
          /\ \A k \in 1 .. Len(top) :
               Rest(s, ts, top)[Len(s) - Common(s, ts) + k] = top[k]
      BY <1>1, <2>1, RestFacts
    <2>3. QED
      BY <2>2, <1>2, <1>4
  <1>6. /\ q \in Seq(Operands) /\ Len(q) = Len(p) - c + Len(push)
        /\ \A k \in 1 .. Len(p) - c : q[k] = p[k]
        /\ \A k \in 1 .. Len(push) : q[Len(p) - c + k] = push[k]
    BY <1>1, RestFacts DEF c
  <1> HIDE DEF u, q
  <1>7. ASSUME NEW k \in 1 .. Len(q) PROVE u[k] \in ValTypes /\ q[k] \in {u[k], Unknown}
    <2>1. CASE k <= Len(p) - c
      <3>1. k \in 1 .. Len(p) - c /\ k \in 1 .. Len(p)
        BY <1>2, <2>1, <1>6
      <3>2. QED
        BY <1>5, <1>6, <3>1, StandsFacts
    <2>2. CASE ~(k <= Len(p) - c)
      <3> DEFINE r == k - (Len(p) - c)
      <3>1. Len(q) = Len(p) - c + Len(push)
        BY <1>6
      <3>2. r \in 1 .. Len(push) /\ k = Len(p) - c + r
        <4> DEFINE l == Len(push)
                   m == Len(p)
                   n == Len(q)
        <4>1. l \in Nat /\ m \in Nat /\ c \in Nat /\ n = m - c + l /\ k \in 1 .. n /\ ~(k <= m - c)
          BY <1>2, <1>4, <2>2, <3>1
        <4> HIDE DEF l, m, n
        <4>2. k - (m - c) \in 1 .. l /\ k = m - c + (k - (m - c))
          BY <4>1
        <4>3. QED
          BY <4>2 DEF l, m
      <3> HIDE DEF r
      <3>3. u[k] = top[r] /\ q[k] = push[r]
        BY <1>5, <1>6, <3>2
      <3>4. top[r] \in ValTypes /\ push[r] \in {top[r], Unknown}
        BY <1>4, <3>2
      <3>5. QED
        BY <3>3, <3>4
    <2>3. QED
      BY <2>1, <2>2
  <1>8. u \in [1 .. Len(q) -> Alphabet]
    BY <1>5, <1>6, <1>7, AlphabetFacts
  <1>9. u \in Stands(q)
    BY <1>7, <1>8 DEF Stands
  <1>10. QED
    BY <1>3, <1>9 DEF u, q

\* If p has ts on top, each stack that the rest of p stands for is left by one
\* that p stands for.
LEMMA FitsTaken ==
  ASSUME Acknowledged, NEW p \in Seq(Operands), NEW f, NEW ts \in Seq(ValTypes),
         CanTake(p, f.any, ts), NEW push \in Seq(Operands),
         NEW u \in Stands(Rest(p, ts, push))
  PROVE  \E s \in Stands(p), top \in Stands(push) :
           Takes(f, s, ts) /\ u = Rest(s, ts, top)
  <1> DEFINE c == Common(p, ts)
             n == Len(p)
             q == Rest(p, ts, push)
             s == [k \in 1 .. n |-> IF k <= n - c THEN u[k] ELSE ts[k - n + Len(ts)]]
             top == [k \in 1 .. Len(push) |-> u[n - c + k]]
  <1>1. ts \in Seq(Operands)
    BY ValTypesAreOperands
  <1>2. /\ n \in Nat /\ Len(ts) \in Nat /\ c \in 0 .. n /\ c \in 0 .. Len(ts)
        /\ n - c \in Nat /\ Len(push) \in Nat
    BY CommonFacts
  <1> HIDE DEF c
  <1>3. /\ q \in Seq(Operands) /\ Len(q) = n - c + Len(push)
        /\ \A k \in 1 .. n - c : q[k] = p[k]
        /\ \A k \in 1 .. Len(push) : q[n - c + k] = push[k]
    BY <1>1, RestFacts, SMTT(40) DEF c
  <1>4. u \in Stands(q)
    OBVIOUS
  <1> HIDE DEF q
  <1>5. /\ u \in Seq(Operands) /\ Len(u) = n - c + Len(push)
        /\ \A k \in 1 .. Len(q) : u[k] \in ValTypes /\ q[k] \in {u[k], Unknown}
    BY <1>3, <1>4, StandsFacts
  <1>6. ASSUME NEW k \in 1 .. n
        PROVE  s[k] \in ValTypes /\ p[k] \in {s[k], Unknown}
    <2>1. CASE k <= n - c
      <3>1. k \in 1 .. n - c /\ k \in 1 .. Len(q)
        BY <1>2, <1>3, <2>1
      <3>2. QED
        BY <1>3, <1>5, <2>1, <3>1
    <2>2. CASE ~(k <= n - c)
      <3>1. /\ n - k \in 0 .. c - 1 /\ k - n + Len(ts) \in 1 .. Len(ts)
            /\ n - (n - k) = k /\ Len(ts) - (n - k) = k - n + Len(ts)
        BY <1>2, <2>2
      <3>2. s[k] = ts[k - n + Len(ts)] /\ ts[k - n + Len(ts)] \in ValTypes
        BY <2>2, <3>1
      <3>3. \/ p[n - (n - k)] = ts[Len(ts) - (n - k)]
            \/ Unknown \in {p[n - (n - k)], ts[Len(ts) - (n - k)]}
        BY <3>1 DEF CanTake, c
      <3>4. QED
        BY <3>1, <3>2, <3>3, AlphabetFacts
    <2>3. QED
      BY <2>1, <2>2
  <1>7. s \in Stands(p)
    BY <1>6, AlphabetFacts DEF Stands
  <1>8. top \in Stands(push)
    <2>1. ASSUME NEW k \in 1 .. Len(push)
          PROVE  u[n - c + k] \in ValTypes /\ push[k] \in {u[n - c + k], Unknown}
      <3>1. n - c + k \in 1 .. Len(q)
        BY <1>2, <1>3
      <3>2. QED
        BY <1>3, <1>5, <3>1
    <2>2. QED
      BY <2>1, AlphabetFacts DEF Stands
  <1>9. /\ Len(s) = n /\ s \in Seq(Operands) /\ Common(s, ts) = c
        /\ Len(top) = Len(push) /\ top \in Seq(Operands)
    BY <1>7, <1>8, StandsFacts DEF Common, c
  <1>10. Takes(f, s, ts)
    <2>1. ASSUME NEW k \in 0 .. c - 1 PROVE s[n - k] = ts[Len(ts) - k]
      <3>1. n - k \in 1 .. n /\ ~(n - k <= n - c) /\ n - k - n + Len(ts) = Len(ts) - k
        BY <1>2, <2>1
      <3>2. QED
        BY <3>1
    <2>2. QED
      BY <1>9, <2>1 DEF Takes, CanTake
  <1>11. \A k \in 1 .. n - c : s[k] = u[k]
    BY <1>2
  <1>12. \A k \in 1 .. Len(push) : top[k] = u[n - c + k]
    OBVIOUS
  <1> HIDE DEF s, top
  <1>13. IsRest(u, s, ts, top)
    BY <1>5, <1>9, <1>11, <1>12 DEF IsRest
  <1>14. u = Rest(s, ts, top)
    BY <1>1, <1>9, <1>13, RestIs, Zenon
  <1>15. QED
    BY <1>7, <1>8, <1>10, <1>14

\* The stacks after an instruction.
LEMMA AfterFacts ==
  ASSUME Acknowledged, NEW p \in Seq(Operands), NEW f, f.stacks = Stands(p),
         NEW ts \in Seq(ValTypes), NEW push \in Seq(ValTypes)
  PROVE  /\ CanTake(p, f.any, ts) => After(f, ts, push) = Stands(Rest(p, ts, push))
         /\ ~CanTake(p, f.any, ts) => After(f, ts, push) = {}
         /\ CanTake(p, f.any, ts) <=> \E s \in f.stacks : Takes(f, s, ts)
  <1>1. push \in Seq(Operands) /\ Stands(push) = {push}
    BY StandsOne, ValTypesAreOperands
  <1>2. ASSUME NEW s \in Stands(p), Takes(f, s, ts)
        PROVE  CanTake(p, f.any, ts) /\ Rest(s, ts, push) \in Stands(Rest(p, ts, push))
    BY <1>1, <1>2, TakenFits
  <1>3. ASSUME CanTake(p, f.any, ts), NEW u \in Stands(Rest(p, ts, push))
        PROVE  \E s \in Stands(p) : Takes(f, s, ts) /\ u = Rest(s, ts, push)
    BY <1>1, <1>3, FitsTaken
  <1>4. CanTake(p, f.any, ts) => Stands(Rest(p, ts, push)) # {}
    <2>1. ts \in Seq(Operands)
      BY ValTypesAreOperands
    <2>2. Rest(p, ts, push) \in Seq(Operands)
      BY <1>1, <2>1, RestFacts
    <2>3. QED
      BY <2>2, StandsSome
  <1>5. CanTake(p, f.any, ts) <=> \E s \in f.stacks : Takes(f, s, ts)
    BY <1>2, <1>3, <1>4
  <1>6. After(f, ts, push) = {Rest(s, ts, push) : s \in {r \in Stands(p) : Takes(f, r, ts)}}
    BY DEF After
  <1>7. QED
    BY <1>2, <1>3, <1>5, <1>6

-----------------------------------------------------------------------------
(***************************************************************************)
(* The validator pops from and pushes to the operands of the innermost     *)
(* frame and never looks below them.                                       *)
(***************************************************************************)
Part(w) == SubSeq(w.vals, Top(w).height + 1, Len(w.vals))
Below(w) == SubSeq(w.vals, 1, Top(w).height)
With(w, p) == [w EXCEPT !.vals = Below(w) \o p]

LEMMA PartFacts ==
  ASSUME NEW w, Busy(w)
  PROVE  /\ Part(w) \in Seq(Operands) /\ Below(w) \in Seq(Operands)
         /\ Len(Part(w)) \in Nat /\ Len(Part(w)) = Available(w)
         /\ Len(Part(w)) = Len(w.vals) - Top(w).height /\ Len(Below(w)) = Top(w).height
         /\ \A k \in 1 .. Len(Part(w)) : Part(w)[k] = w.vals[Top(w).height + k]
         /\ \A k \in 1 .. Top(w).height : Below(w)[k] = w.vals[k]
         /\ w.vals = Below(w) \o Part(w)
  <1> DEFINE h == Top(w).height
             n == Len(w.vals)
             b == Below(w)
             p == Part(w)
  <1>1. h \in Nat /\ n \in Nat /\ h <= n /\ w.vals \in Seq(Operands)
    BY TopFacts, GoodFacts DEF Busy
  <1>2. p \in Seq(Operands) /\ Len(p) = n - h /\ \A k \in 1 .. n - h : p[k] = w.vals[h + k]
    BY <1>1, SMTT(40) DEF Part
  <1>3. b \in Seq(Operands) /\ Len(b) = h /\ \A k \in 1 .. h : b[k] = w.vals[k]
    BY <1>1 DEF Below
  <1> HIDE DEF b, p
  <1>4. b \in Seq(Operands) /\ p \in Seq(Operands)
    BY <1>2, <1>3
  <1>5. /\ b \o p \in Seq(Operands) /\ Len(b \o p) = Len(b) + Len(p)
        /\ \A k \in 1 .. Len(b) : (b \o p)[k] = b[k]
        /\ \A k \in 1 .. Len(p) : (b \o p)[Len(b) + k] = p[k]
    BY <1>4, ConcatFacts
  <1> DEFINE s == b \o p
  <1>6. /\ s \in Seq(Operands) /\ Len(s) = n
        /\ \A k \in 1 .. h : s[k] = w.vals[k]
        /\ \A k \in 1 .. n - h : s[h + k] = w.vals[h + k]
    <2> HIDE DEF h, n
    <2>1. Len(b) = h /\ Len(p) = n - h
      BY <1>2, <1>3
    <2>2. h + (n - h) = n
      BY <1>1
    <2>3. QED
      BY <1>2, <1>3, <1>5, <2>1, <2>2
  <1> HIDE DEF s, h, n
  <1>7. ASSUME NEW k \in 1 .. Len(s) PROVE s[k] = w.vals[k]
    <2>1. k \in 1 .. h \/ (k - h \in 1 .. n - h /\ h + (k - h) = k)
      BY <1>1, <1>6
    <2>2. CASE k \in 1 .. h
      BY <2>2, <1>6
    <2>3. CASE k - h \in 1 .. n - h /\ h + (k - h) = k
      BY <2>3, <1>6
    <2>4. QED
      BY <2>1, <2>2, <2>3
  <1>8. s = w.vals
    BY <1>1, <1>6, <1>7, SeqEqual DEF n
  <1>9. QED
    BY <1>1, <1>2, <1>3, <1>8 DEF s, b, p, h, n, Available

LEMMA WithFacts ==
  ASSUME NEW w, Busy(w), NEW p \in Seq(Operands)
  PROVE  /\ Busy(With(w, p)) /\ Part(With(w, p)) = p /\ Below(With(w, p)) = Below(w)
         /\ With(w, p).ctrls = w.ctrls /\ With(w, p).ok = w.ok
         /\ With(w, p).vals = Below(w) \o p
         /\ With(w, p).locals = w.locals /\ With(w, p).results = w.results
         /\ Top(With(w, p)) = Top(w)
  <1> DEFINE h == Top(w).height
             b == Below(w)
             s == b \o p
             x == With(w, p)
  <1>1. b \in Seq(Operands) /\ Len(b) = h /\ h \in Nat
    BY PartFacts, TopFacts DEF Busy
  <1> HIDE DEF b, h
  <1>2. b \in Seq(Operands) /\ p \in Seq(Operands)
    BY <1>1
  <1>3. /\ b \o p \in Seq(Operands) /\ Len(b \o p) = Len(b) + Len(p)
        /\ \A k \in 1 .. Len(b) : (b \o p)[k] = b[k]
        /\ \A k \in 1 .. Len(p) : (b \o p)[Len(b) + k] = p[k]
    BY <1>2, ConcatFacts
  <1>4. x = [w EXCEPT !.vals = s]
    BY DEF With, b
  <1> HIDE DEF s
  <1>5. s \in Seq(Operands) /\ Len(s) = h + Len(p) /\ Len(p) \in Nat
        /\ (\A k \in 1 .. h : s[k] = b[k]) /\ \A k \in 1 .. Len(p) : s[h + k] = p[k]
    BY <1>1, <1>3 DEF s
  <1>6. \A i \in 1 .. Len(w.ctrls) : w.ctrls[i].height <= Len(s)
    <2>1. \A i \in 1 .. Len(w.ctrls) : w.ctrls[i].height <= h /\ w.ctrls[i].height \in Nat
      BY TopFacts, GoodFacts DEF Busy, h
    <2>2. QED
      BY <1>1, <1>5, <2>1
  <1>7. Keeps(w, x) /\ x.ctrls = w.ctrls /\ x.vals = s /\ x.ok = w.ok
    BY <1>4, <1>5, <1>6, SetVals, SMTT(40) DEF Busy
  <1> HIDE DEF x
  <1>8. Busy(x) /\ x.locals = w.locals /\ x.results = w.results /\ Top(x) = Top(w)
    BY <1>7, KeepsBusy DEF Keeps, SameFrames, Top
  <1>9. /\ Part(x) \in Seq(Operands) /\ Len(Part(x)) = Len(p)
        /\ \A k \in 1 .. Len(p) : Part(x)[k] = p[k]
    <2>1. /\ Part(x) \in Seq(Operands) /\ Len(Part(x)) = Len(x.vals) - Top(x).height
          /\ \A k \in 1 .. Len(Part(x)) : Part(x)[k] = x.vals[Top(x).height + k]
      BY <1>8, PartFacts
    <2>2. Top(x).height = h /\ x.vals = s /\ Len(s) - h = Len(p)
      BY <1>1, <1>5, <1>7, <1>8 DEF h
    <2>3. QED
      BY <1>5, <2>1, <2>2
  <1>10. Part(x) = p
    BY <1>9, SeqEqual
  <1>11. /\ Below(x) \in Seq(Operands) /\ Len(Below(x)) = h
         /\ \A k \in 1 .. h : Below(x)[k] = s[k]
    BY <1>7, <1>8, PartFacts DEF h
  <1>12. Below(x) = b
    BY <1>1, <1>5, <1>11, SeqEqual
  <1>13. QED
    BY <1>7, <1>8, <1>10, <1>12 DEF x, s, b

LEMMA WithTwice ==
  ASSUME NEW w, Busy(w), NEW p \in Seq(Operands), NEW q
  PROVE  With(With(w, p), q) = With(w, q) /\ With(w, Part(w)) = w
  <1>1. Below(With(w, p)) = Below(w)
    BY WithFacts
  <1>2. w.vals = Below(w) \o Part(w) /\ w \in Validators
    BY PartFacts DEF Busy, Good
  <1> DEFINE b == Below(w)
  <1> HIDE DEF b
  <1>3. [[w EXCEPT !.vals = b \o p] EXCEPT !.vals = b \o q] = [w EXCEPT !.vals = b \o q]
    BY <1>2 DEF Validators
  <1>4. [w EXCEPT !.vals = w.vals] = w
    BY <1>2 DEF Validators
  <1>5. With(With(w, p), q) = [With(w, p) EXCEPT !.vals = b \o q]
    BY <1>1 DEF With, b
  <1>6. QED
    BY <1>2, <1>3, <1>4, <1>5 DEF With, b

\* The validator that is popped of ts has what is left of the operands.
LEMMA ShrinkWith ==
  ASSUME NEW w, Busy(w), NEW ts \in Seq(Operands)
  PROVE  Shrink(w, Len(ts)) = With(w, Rest(Part(w), ts, <<>>))
  <1> DEFINE h == Top(w).height
             p == Part(w)
             b == Below(w)
             c == Common(p, ts)
             r == Rest(p, ts, <<>>)
             n == IF Len(ts) < Available(w) THEN Len(w.vals) - Len(ts) ELSE h
             s == SubSeq(w.vals, 1, n)
             t == b \o r
  <1>1. /\ h \in Nat /\ Len(w.vals) \in Nat /\ Len(ts) \in Nat /\ w.vals \in Seq(Operands)
        /\ h <= Len(w.vals) /\ Available(w) = Len(w.vals) - h
    BY GoodFacts, TopFacts DEF Busy, Available
  <1>2. /\ p \in Seq(Operands) /\ Len(p) \in Nat /\ Len(p) = Len(w.vals) - h
        /\ b \in Seq(Operands) /\ Len(b) = h
        /\ \A k \in 1 .. Len(p) : p[k] = w.vals[h + k]
        /\ \A k \in 1 .. h : b[k] = w.vals[k]
    BY PartFacts
  <1>3. n = h + (Len(p) - c) /\ n \in 0 .. Len(w.vals) /\ Len(p) - c \in Nat
        /\ Len(p) - c <= Len(p)
    <2> DEFINE l == Len(w.vals)
               a == Len(p)
               m == Len(ts)
    <2>1. h \in Nat /\ l \in Nat /\ m \in Nat /\ a \in Nat /\ h <= l /\ a = l - h
      BY <1>1, <1>2
    <2>2. c = IF a < m THEN a ELSE m
      BY DEF Common
    <2>3. n = IF m < a THEN l - m ELSE h
      BY <1>1, <2>1
    <2> HIDE DEF l, a, m, p, h, c, n
    <2>4. n = h + (a - c) /\ n \in 0 .. l /\ a - c \in Nat /\ a - c <= a
      BY <2>1, <2>2, <2>3
    <2>5. QED
      BY <2>4 DEF l, a
  <1> HIDE DEF p, b, n, h
  <1>4. <<>> \in Seq(Operands) /\ Len(<<>>) = 0
    OBVIOUS
  <1>5. /\ r \in Seq(Operands) /\ Len(r) = Len(p) - c
        /\ \A k \in 1 .. Len(p) - c : r[k] = p[k]
    <2> DEFINE e == <<>>
    <2>1. e \in Seq(Operands) /\ Len(e) = 0
      OBVIOUS
    <2>2. p \in Seq(Operands)
      BY <1>2
    <2> HIDE DEF e, c, r, s, t
    <2>3. /\ Rest(p, ts, e) \in Seq(Operands)
          /\ Len(Rest(p, ts, e)) = Len(p) - Common(p, ts) + Len(e)
          /\ \A k \in 1 .. Len(p) - Common(p, ts) : Rest(p, ts, e)[k] = p[k]
      BY <2>1, <2>2, RestFacts, ZenonT(40)
    <2>4. /\ Rest(p, ts, e) \in Seq(Operands)
          /\ Len(Rest(p, ts, e)) = Len(p) - c + Len(e)
          /\ \A k \in 1 .. Len(p) - c : Rest(p, ts, e)[k] = p[k]
      BY <2>3 DEF c
    <2>5. QED
      BY <1>2, <1>3, <2>1, <2>4 DEF e, r
  <1> HIDE DEF c, r
  <1>6. s \in Seq(Operands) /\ Len(s) = n /\ \A k \in 1 .. n : s[k] = w.vals[k]
    BY <1>1, <1>3, HeadFacts
  <1>7. b \in Seq(Operands) /\ r \in Seq(Operands)
    BY <1>2, <1>5
  <1>8. /\ b \o r \in Seq(Operands) /\ Len(b \o r) = Len(b) + Len(r)
        /\ \A k \in 1 .. Len(b) : (b \o r)[k] = b[k]
        /\ \A k \in 1 .. Len(r) : (b \o r)[Len(b) + k] = r[k]
    BY <1>7, ConcatFacts
  <1> HIDE DEF s
  <1>9. /\ t \in Seq(Operands) /\ Len(t) = n
        /\ \A k \in 1 .. h : t[k] = b[k]
        /\ \A k \in 1 .. Len(p) - c : t[h + k] = r[k]
    BY <1>2, <1>3, <1>5, <1>8
  <1> HIDE DEF t
  <1>10. ASSUME NEW k \in 1 .. n PROVE s[k] = t[k]
    <2>1. CASE k <= h
      <3>1. k \in 1 .. h
        BY <1>1, <2>1
      <3>2. QED
        BY <1>2, <1>6, <1>9, <3>1
    <2>2. CASE ~(k <= h)
      <3>1. k - h \in 1 .. Len(p) - c /\ h + (k - h) = k /\ k - h \in 1 .. Len(p)
        BY <1>1, <1>2, <1>3, <2>2, SMTT(40)
      <3>2. s[k] = w.vals[k] /\ p[k - h] = w.vals[k]
        BY <1>2, <1>6, <3>1
      <3>3. t[k] = r[k - h] /\ r[k - h] = p[k - h]
        BY <1>5, <1>9, <3>1
      <3>4. QED
        BY <3>2, <3>3
    <2>3. QED
      BY <2>1, <2>2
  <1>11. s = t
    BY <1>6, <1>9, <1>10, SeqEqual
  <1>12. Shrink(w, Len(ts)) = [w EXCEPT !.vals = s]
    BY DEF Shrink, Busy, Good, Validators, s, n, h
  <1>13. QED
    BY <1>11, <1>12 DEF With, t, b, r, p

\* PopVals accepts exactly what the operands have on top.
LEMMA PopsWith ==
  ASSUME NEW w, Busy(w), w.ok, NEW ts \in Seq(Operands)
  PROVE  /\ PopVals(w, ts).ok <=> CanTake(Part(w), Top(w).unreachable, ts)
         /\ PopVals(w, ts).ok => PopVals(w, ts) = With(w, Rest(Part(w), ts, <<>>))
  <1> DEFINE bad == {k \in 0 .. Len(ts) - 1 : ~CanPop(w, k, ts[Len(ts) - k])}
             first == CHOOSE i \in bad : \A j \in bad : i <= j
             p == Part(w)
             can == CanTake(p, Top(w).unreachable, ts)
             n == Len(ts)
             a == Available(w)
  <1>1. /\ n \in Nat /\ Top(w).height \in Nat /\ Len(w.vals) \in Nat
        /\ Len(p) = a /\ a \in Nat /\ a = Len(w.vals) - Top(w).height
        /\ \A k \in 1 .. Len(p) : p[k] = w.vals[Top(w).height + k]
    BY PartFacts, TopFacts, GoodFacts DEF Busy
  <1>2. ASSUME NEW k \in 0 .. n - 1, k < a
        PROVE  Operand(w, k) = p[Len(p) - k]
    <2>1. Len(p) - k \in 1 .. Len(p) /\ Top(w).height + (Len(p) - k) = Len(w.vals) - k
      BY <1>1, <1>2, SMTT(40)
    <2>2. p[Len(p) - k] = w.vals[Top(w).height + (Len(p) - k)]
      BY <1>1, <2>1
    <2>3. QED
      BY <1>2, <2>1, <2>2 DEF Operand
  <1> HIDE DEF p
  <1>3. ASSUME bad = {} PROVE can
    <2>1. ASSUME NEW k \in 0 .. Common(p, ts) - 1
          PROVE  p[Len(p) - k] = ts[n - k] \/ Unknown \in {p[Len(p) - k], ts[n - k]}
      <3>1. k \in 0 .. n - 1 /\ k < a
        BY <1>1 DEF Common
      <3>2. CanPop(w, k, ts[n - k])
        BY <1>3, <3>1
      <3>3. QED
        BY <1>2, <3>1, <3>2 DEF CanPop
    <2>2. Top(w).unreachable \/ n <= Len(p)
      <3>1. CASE a < n
        <4>1. a \in 0 .. n - 1 /\ ~(a < a)
          BY <1>1, <3>1
        <4>2. CanPop(w, a, ts[n - a])
          BY <1>3, <4>1
        <4>3. QED
          BY <4>1, <4>2 DEF CanPop
      <3>2. QED
        BY <1>1, <3>1
    <2>3. QED
      BY <2>1, <2>2 DEF CanTake
  <1>4. ASSUME can PROVE bad = {}
    <2>1. ASSUME NEW k \in 0 .. n - 1 PROVE CanPop(w, k, ts[n - k])
      <3>1. CASE k < a
        <4>1. k \in 0 .. Common(p, ts) - 1
          BY <1>1, <3>1 DEF Common
        <4>2. p[Len(p) - k] = ts[n - k] \/ Unknown \in {p[Len(p) - k], ts[n - k]}
          BY <1>4, <4>1 DEF CanTake
        <4>3. QED
          BY <1>2, <3>1, <4>2 DEF CanPop
      <3>2. CASE ~(k < a)
        <4>1. Top(w).unreachable
          BY <1>1, <1>4, <3>2 DEF CanTake
        <4>2. Operand(w, k) = Unknown
          BY <3>2 DEF Operand
        <4>3. QED
          BY <4>1, <4>2 DEF CanPop
      <3>3. QED
        BY <3>1, <3>2
    <2>2. QED
      BY <2>1
  <1>5. bad = {} => PopVals(w, ts) = Shrink(w, n)
    BY DEF PopVals
  <1>6. bad # {} => PopVals(w, ts) = Fail(Shrink(w, first + 1))
    BY DEF PopVals
  <1>7. Shrink(w, n).ok
    BY <1>1, ShrinkKeeps DEF Busy
  <1>8. ~Fail(Shrink(w, first + 1)).ok
    BY DEF Fail, Shrink, Busy, Good, Validators
  <1>9. Shrink(w, n) = With(w, Rest(p, ts, <<>>))
    BY ShrinkWith DEF p
  <1> HIDE DEF bad, first, can
  <1>10. QED
    BY <1>3, <1>4, <1>5, <1>6, <1>7, <1>8, <1>9 DEF can, p

LEMMA PushWith ==
  ASSUME NEW w, Busy(w), w.ok, NEW ts \in Seq(Operands)
  PROVE  PushVals(w, ts) = With(w, Part(w) \o ts)
  <1> DEFINE b == Below(w)
             p == Part(w)
  <1>1. b \in Seq(Operands) /\ p \in Seq(Operands) /\ w.vals = b \o p
    BY PartFacts
  <1>2. (b \o p) \o ts = b \o (p \o ts)
    BY <1>1, ConcatAssociative
  <1>3. PushVals(w, ts) = [w EXCEPT !.vals = w.vals \o ts]
    BY DEF PushVals, Busy, Good, Validators
  <1> HIDE DEF b, p
  <1>4. PushVals(w, ts) = [w EXCEPT !.vals = b \o (p \o ts)]
    BY <1>1, <1>2, <1>3
  <1>5. QED
    BY <1>4 DEF With, b, p

LEMMA ApplyWith ==
  ASSUME NEW w, Busy(w), w.ok, NEW pop \in Seq(Operands), NEW push \in Seq(Operands)
  PROVE  /\ ApplySig(w, pop, push).ok <=> CanTake(Part(w), Top(w).unreachable, pop)
         /\ ApplySig(w, pop, push).ok =>
              ApplySig(w, pop, push) = With(w, Rest(Part(w), pop, push))
  <1> DEFINE x == PopVals(w, pop)
             r == Rest(Part(w), pop, <<>>)
  <1>1. ApplySig(w, pop, push) = PushVals(x, push)
    BY DEF ApplySig
  <1>2. /\ x.ok <=> CanTake(Part(w), Top(w).unreachable, pop)
        /\ x.ok => x = With(w, r)
    BY PopsWith
  <1>3. Good(x)
    BY PopValsKeeps DEF Keeps, Busy
  <1> HIDE DEF x
  <1>4. PushVals(x, push).ok = x.ok
    BY <1>3, PushValsKeeps
  <1>5. CASE x.ok
    <2>1. r \in Seq(Operands)
      <3>1. <<>> \in Seq(Operands)
        OBVIOUS
      <3>2. QED
        BY <3>1, PartFacts, RestFacts
    <2> HIDE DEF r
    <2>2. Busy(x) /\ Part(x) = r /\ x = With(w, r)
      BY <1>2, <1>5, <2>1, WithFacts
    <2>3. PushVals(x, push) = With(x, r \o push)
      BY <1>5, <2>2, PushWith
    <2>4. With(With(w, r), r \o push) = With(w, r \o push)
      BY <2>1, WithTwice
    <2>5. r \o push = Rest(Part(w), pop, push)
      BY PartFacts, RestThen DEF r
    <2>6. QED
      BY <1>1, <1>2, <1>4, <2>2, <2>3, <2>4, <2>5
  <1>6. CASE ~x.ok
    BY <1>1, <1>2, <1>4, <1>6
  <1>7. QED
    BY <1>5, <1>6

-----------------------------------------------------------------------------
(***************************************************************************)
(* The replay that a validator stands for.                                 *)
(***************************************************************************)
\* What frame k holds; an outer frame has the results of the next one already.
Seg(w, k) == SubSeq(w.vals, w.ctrls[k].height + 1, w.ctrls[k + 1].height)
Held(w, k) == IF k = Len(w.ctrls) THEN Part(w) ELSE Seg(w, k) \o w.ctrls[k + 1].out
FrameOf(kind, in, out, passed, any, stacks) ==
  [kind |-> kind, in |-> in, out |-> out, passed |-> passed, any |-> any, stacks |-> stacks]
Shown(w, k) ==
  LET c == w.ctrls[k]
  IN  FrameOf(c.kind, c.in, c.out, c.else_seen, c.unreachable, Stands(Held(w, k)))
Picture(w) == [k \in 1 .. Len(w.ctrls) |-> Shown(w, k)]

LEMMA SetStacks ==
  ASSUME NEW a1, NEW a2, NEW a3, NEW a4, NEW a5, NEW a6, NEW z
  PROVE  [FrameOf(a1, a2, a3, a4, a5, a6) EXCEPT !.stacks = z]
           = FrameOf(a1, a2, a3, a4, a5, z)
  BY DEF FrameOf

LEMMA SetAny ==
  ASSUME NEW a1, NEW a2, NEW a3, NEW a4, NEW a5, NEW a6
  PROVE  AnyBelow(FrameOf(a1, a2, a3, a4, a5, a6)) = FrameOf(a1, a2, a3, a4, TRUE, {<<>>})
  <1> DEFINE y == TRUE
             z == {<<>>}
             g == FrameOf(a1, a2, a3, a4, a5, a6)
             h == [g EXCEPT !.any = y]
  <1> HIDE DEF y, z
  <1>1. h = FrameOf(a1, a2, a3, a4, y, a6)
    BY DEF FrameOf
  <1>2. [g EXCEPT !.any = y, !.stacks = z] = [h EXCEPT !.stacks = z]
    OBVIOUS
  <1> HIDE DEF h
  <1>3. [h EXCEPT !.stacks = z] = FrameOf(a1, a2, a3, a4, y, z)
    BY <1>1 DEF FrameOf
  <1>4. QED
    BY <1>2, <1>3 DEF y, z, AnyBelow

LEMMA PictureFacts ==
  ASSUME NEW w, Busy(w)
  PROVE  /\ Len(w.ctrls) \in Nat \ {0} /\ Len(Picture(w)) = Len(w.ctrls)
         /\ \A k \in 1 .. Len(w.ctrls) : Picture(w)[k] = Shown(w, k)
         /\ Last(Picture(w)) = Shown(w, Len(w.ctrls))
         /\ Last(Picture(w)) = FrameOf(Top(w).kind, Top(w).in, Top(w).out, Top(w).else_seen,
                                       Top(w).unreachable, Stands(Part(w)))
         /\ Last(Picture(w)).stacks = Stands(Part(w))
         /\ Last(Picture(w)).any = Top(w).unreachable
         /\ Picture(w) # IllTyped
  <1>1. Len(w.ctrls) \in Nat \ {0} /\ Len(w.ctrls) \in 1 .. Len(w.ctrls)
    BY TopFacts DEF Busy
  <1>2. Len(Picture(w)) = Len(w.ctrls)
    BY <1>1, FunctionIsSeq DEF Picture
  <1>3. \A k \in 1 .. Len(w.ctrls) : Picture(w)[k] = Shown(w, k)
    BY DEF Picture
  <1>4. Last(Picture(w)) = Shown(w, Len(w.ctrls))
    BY <1>1, <1>2, <1>3 DEF Last
  <1>5. Picture(w) # IllTyped
    <2>1. Picture(w)[1] = Shown(w, 1) /\ IllTyped[1] = [kind |-> "IllTyped"]
      BY <1>1, <1>3 DEF IllTyped
    <2>2. w.ctrls[1].kind \in CtrlKinds
      BY <1>1, GoodFacts DEF Ctrl, Busy
    <2>3. Shown(w, 1).kind # [kind |-> "IllTyped"].kind
      BY <2>2 DEF Shown, FrameOf, CtrlKinds
    <2>4. QED
      BY <2>1, <2>3
  <1>6. Last(Picture(w)) = FrameOf(Top(w).kind, Top(w).in, Top(w).out, Top(w).else_seen,
                                   Top(w).unreachable, Stands(Part(w)))
    BY <1>4 DEF Shown, Held, Top
  <1>7. QED
    BY <1>1, <1>2, <1>3, <1>4, <1>5, <1>6 DEF FrameOf

\* Frames below frame n look the same if they are, and the operands below it.
SameBelow(x, w, n) ==
  /\ n \in 1 .. Len(w.ctrls) /\ n <= Len(x.ctrls)
  /\ \A k \in 1 .. n - 1 : x.ctrls[k] = w.ctrls[k]
  /\ x.ctrls[n].height = w.ctrls[n].height /\ x.ctrls[n].out = w.ctrls[n].out
  /\ \A k \in 1 .. w.ctrls[n].height : x.vals[k] = w.vals[k]

LEMMA ShownSame ==
  ASSUME NEW w, Busy(w), NEW x, Busy(x), NEW n, SameBelow(x, w, n), NEW k \in 1 .. n - 1
  PROVE  Shown(x, k) = Shown(w, k)
  <1>1. /\ n \in 1 .. Len(w.ctrls) /\ n <= Len(x.ctrls)
        /\ \A m \in 1 .. n - 1 : x.ctrls[m] = w.ctrls[m]
        /\ x.ctrls[n].height = w.ctrls[n].height /\ x.ctrls[n].out = w.ctrls[n].out
        /\ \A m \in 1 .. w.ctrls[n].height : x.vals[m] = w.vals[m]
    BY DEF SameBelow
  <1>2. /\ Len(w.ctrls) \in Nat /\ Len(x.ctrls) \in Nat /\ Len(w.vals) \in Nat
        /\ Len(x.vals) \in Nat /\ w.vals \in Seq(Operands) /\ x.vals \in Seq(Operands)
    BY GoodFacts DEF Busy
  <1>3. /\ k \in 1 .. Len(w.ctrls) /\ k + 1 \in 1 .. Len(w.ctrls)
        /\ k \in 1 .. Len(x.ctrls) /\ k + 1 \in 1 .. Len(x.ctrls)
        /\ k # Len(w.ctrls) /\ k # Len(x.ctrls) /\ (k + 1 \in 1 .. n - 1 \/ k + 1 = n)
        /\ k < k + 1 /\ n \in 1 .. Len(x.ctrls)
    BY <1>1, <1>2
  <1> DEFINE i == w.ctrls[k].height
             j == w.ctrls[k + 1].height
             h == w.ctrls[n].height
  <1>4. /\ i \in Nat /\ j \in Nat /\ h \in Nat /\ i <= j /\ j <= h
        /\ h <= Len(w.vals) /\ h <= Len(x.vals)
    <2>1. \A m \in 1 .. Len(w.ctrls) : w.ctrls[m].height \in Nat /\ w.ctrls[m].height <= Len(w.vals)
      BY GoodFacts DEF Busy
    <2>2. \A m \in 1 .. Len(x.ctrls) : x.ctrls[m].height <= Len(x.vals)
      BY GoodFacts DEF Busy
    <2>3. \A l, m \in 1 .. Len(w.ctrls) : l < m => w.ctrls[l].height <= w.ctrls[m].height
      BY GoodFacts DEF Busy
    <2>4. i <= j
      BY <1>3, <2>3
    <2>5. j <= h
      BY <1>1, <1>3, <2>1, <2>3
    <2>6. QED
      BY <1>1, <1>3, <2>1, <2>2, <2>4, <2>5
  <1>5. /\ x.ctrls[k] = w.ctrls[k] /\ x.ctrls[k + 1].height = j
        /\ x.ctrls[k + 1].out = w.ctrls[k + 1].out
    BY <1>1, <1>3
  <1> HIDE DEF i, j, h
  <1>6. SubSeq(w.vals, i + 1, j) = SubSeq(x.vals, i + 1, j)
    <2> DEFINE a == SubSeq(w.vals, i + 1, j)
               b == SubSeq(x.vals, i + 1, j)
    <2>1. a \in Seq(Operands) /\ Len(a) = j - i /\ \A m \in 1 .. j - i : a[m] = w.vals[i + m]
      <3>1. w.vals \in Seq(Operands) /\ i \in Nat /\ j \in Nat /\ i <= j /\ j <= Len(w.vals)
        BY <1>2, <1>4
      <3>2. QED
        BY <3>1, MiddleFacts
    <2>2. b \in Seq(Operands) /\ Len(b) = j - i /\ \A m \in 1 .. j - i : b[m] = x.vals[i + m]
      <3>1. x.vals \in Seq(Operands) /\ i \in Nat /\ j \in Nat /\ i <= j /\ j <= Len(x.vals)
        BY <1>2, <1>4
      <3>2. QED
        BY <3>1, MiddleFacts
    <2> HIDE DEF a, b
    <2>3. ASSUME NEW m \in 1 .. j - i PROVE a[m] = b[m]
      <3>1. i + m \in 1 .. h
        BY <1>4
      <3>2. QED
        BY <1>1, <2>1, <2>2, <3>1 DEF h
    <2>4. a = b
      BY <2>1, <2>2, <2>3, SeqEqual
    <2>5. QED
      BY <2>4 DEF a, b
  <1>7. Seg(x, k) = Seg(w, k)
    BY <1>5, <1>6 DEF Seg, i, j
  <1>8. Held(x, k) = Held(w, k)
    BY <1>3, <1>5, <1>7 DEF Held
  <1>9. QED
    BY <1>5, <1>8 DEF Shown

\* What the typing rules call other stacks is other operands.
LEMMA PictureWith ==
  ASSUME Acknowledged, NEW w, Busy(w), NEW p \in Seq(Operands)
  PROVE  WithStacks(Picture(w), Stands(p)) = Picture(With(w, p))
  <1> DEFINE x == With(w, p)
             n == Len(w.ctrls)
             c == Picture(w)
             d == [c EXCEPT ![n].stacks = Stands(p)]
  <1>1. /\ Busy(x) /\ Part(x) = p /\ Below(x) = Below(w) /\ x.ctrls = w.ctrls
        /\ x.vals = Below(w) \o p /\ Top(x) = Top(w)
    BY WithFacts
  <1> HIDE DEF x
  <1>2. n \in Nat \ {0} /\ Len(c) = n
    BY PictureFacts
  <1>3. ASSUME NEW k \in 1 .. n - 1 PROVE Shown(x, k) = Shown(w, k)
    <2>1. ASSUME NEW m \in 1 .. w.ctrls[n].height PROVE x.vals[m] = w.vals[m]
      <3>1. Below(x)[m] = x.vals[m] /\ Below(w)[m] = w.vals[m]
        BY <1>1, PartFacts DEF Top
      <3>2. QED
        BY <1>1, <3>1
    <2>2. n \in 1 .. Len(w.ctrls) /\ n <= Len(x.ctrls)
      BY <1>1, <1>2
    <2>3. SameBelow(x, w, n)
      BY <1>1, <2>1, <2>2 DEF SameBelow
    <2>4. QED
      BY <1>1, <2>3, ShownSame
  <1>4. Shown(x, n) = [Shown(w, n) EXCEPT !.stacks = Stands(p)]
    <2> DEFINE b == w.ctrls[n]
               held == Stands(Held(w, n))
    <2>1. Held(x, n) = p
      BY <1>1 DEF Held
    <2>2. Shown(x, n) = FrameOf(b.kind, b.in, b.out, b.else_seen, b.unreachable, Stands(p))
      BY <1>1, <2>1 DEF Shown
    <2>3. Shown(w, n) = FrameOf(b.kind, b.in, b.out, b.else_seen, b.unreachable, held)
      BY DEF Shown
    <2> HIDE DEF b, held
    <2>4. [FrameOf(b.kind, b.in, b.out, b.else_seen, b.unreachable, held)
             EXCEPT !.stacks = Stands(p)]
            = FrameOf(b.kind, b.in, b.out, b.else_seen, b.unreachable, Stands(p))
      BY SetStacks
    <2>5. QED
      BY <2>2, <2>3, <2>4
  <1>5. d = [k \in 1 .. n |-> IF k = n THEN [Shown(w, n) EXCEPT !.stacks = Stands(p)]
                              ELSE Shown(w, k)]
    BY <1>2 DEF Picture
  <1>6. ASSUME NEW k \in 1 .. n
        PROVE  Shown(x, k) = IF k = n THEN [Shown(w, n) EXCEPT !.stacks = Stands(p)]
                             ELSE Shown(w, k)
    <2>1. CASE k = n
      BY <1>4, <2>1
    <2>2. CASE k # n
      <3>1. k \in 1 .. n - 1
        BY <1>2, <2>2
      <3>2. QED
        BY <1>3, <2>2, <3>1
    <2>3. QED
      BY <2>1, <2>2
  <1>7. d = Picture(x)
    BY <1>1, <1>5, <1>6 DEF Picture
  <1>8. WithStacks(c, Stands(p)) = d
    BY <1>2, StandsSome DEF WithStacks
  <1>9. QED
    BY <1>7, <1>8 DEF x

\* What an unconditional branch leaves.
LEMMA UnreachableFacts ==
  ASSUME NEW w, Busy(w), w.ok
  PROVE  LET x == Unreachable(w) n == Len(w.ctrls)
         IN  /\ Busy(x) /\ x.ok /\ x.vals = Below(w) /\ Len(x.ctrls) = n
             /\ \A k \in 1 .. n - 1 : x.ctrls[k] = w.ctrls[k]
             /\ x.ctrls[n] = [Top(w) EXCEPT !.unreachable = TRUE]
             /\ x.locals = w.locals /\ x.results = w.results
  <1> DEFINE x == Unreachable(w)
             n == Len(w.ctrls)
             e == [Top(w) EXCEPT !.unreachable = TRUE]
             c == [w.ctrls EXCEPT ![n].unreachable = TRUE]
  <1>1. Keeps(w, x) /\ Busy(x)
    BY Steps, KeepsBusy
  <1>2. w.ctrls \in Seq(Ctrl) /\ n \in 1 .. Len(w.ctrls) /\ n \in Nat
    BY TopFacts, GoodFacts DEF Busy
  <1>3. c = [w.ctrls EXCEPT ![n] = e]
    BY DEF Top
  <1>4. x = [w EXCEPT !.vals = Below(w), !.ctrls = c]
    BY DEF Unreachable, Below, Busy, Good, Validators
  <1>5. x.vals = Below(w) /\ x.ctrls = c /\ x.ok
    BY <1>4 DEF Busy, Good, Validators
  <1> HIDE DEF x, c, e
  <1>6. \A k \in 1 .. n : c[k] = IF k = n THEN e ELSE w.ctrls[k]
    BY <1>2, <1>3
  <1>7. \A k \in 1 .. n - 1 : k \in 1 .. n /\ k # n
    BY <1>2
  <1>8. QED
    BY <1>1, <1>2, <1>5, <1>6, <1>7 DEF Keeps, SameFrames, x, e

LEMMA PictureUnreachable ==
  ASSUME Acknowledged, NEW w, Busy(w), w.ok
  PROVE  WithAny(Picture(w), TRUE) = Picture(Unreachable(w))
  <1> DEFINE x == Unreachable(w)
             n == Len(w.ctrls)
             c == Picture(w)
             top == AnyBelow(Shown(w, n))
             d == [c EXCEPT ![n] = AnyBelow(@)]
  <1>1. /\ Busy(x) /\ x.ok /\ x.vals = Below(w) /\ Len(x.ctrls) = n
        /\ \A k \in 1 .. n - 1 : x.ctrls[k] = w.ctrls[k]
        /\ x.ctrls[n] = [Top(w) EXCEPT !.unreachable = TRUE]
    BY UnreachableFacts
  <1> HIDE DEF x
  <1>2. n \in Nat \ {0} /\ Len(c) = n
    BY PictureFacts
  <1>3. Top(w) \in Ctrl /\ Top(w) = w.ctrls[n] /\ Top(w).height \in Nat
    BY TopFacts DEF Busy, Top
  <1>4. /\ x.ctrls[n].height = w.ctrls[n].height /\ x.ctrls[n].out = w.ctrls[n].out
        /\ x.ctrls[n].in = w.ctrls[n].in /\ x.ctrls[n].kind = w.ctrls[n].kind
        /\ x.ctrls[n].else_seen = w.ctrls[n].else_seen /\ x.ctrls[n].unreachable = TRUE
    BY <1>1, <1>3 DEF Ctrl
  <1>5. ASSUME NEW k \in 1 .. n - 1 PROVE Shown(x, k) = Shown(w, k)
    <2>1. \A m \in 1 .. w.ctrls[n].height : x.vals[m] = w.vals[m]
      <3>1. \A m \in 1 .. Top(w).height : Below(w)[m] = w.vals[m]
        BY PartFacts
      <3>2. QED
        BY <1>1, <1>3, <3>1
    <2>2. n \in 1 .. Len(w.ctrls) /\ n <= Len(x.ctrls)
      BY <1>1, <1>2
    <2>3. x.ctrls[n].height = w.ctrls[n].height /\ x.ctrls[n].out = w.ctrls[n].out
      BY <1>4
    <2>4. SameBelow(x, w, n)
      BY <1>1, <2>1, <2>2, <2>3 DEF SameBelow
    <2>5. QED
      BY <1>1, <2>4, ShownSame
  <1>6. Part(x) = <<>>
    <2>1. Top(x).height = Top(w).height
      BY <1>1, <1>3, <1>4 DEF Top
    <2>2. Len(x.vals) = Top(w).height
      BY <1>1, PartFacts
    <2>3. Part(x) \in Seq(Operands) /\ Len(Part(x)) = 0
      BY <1>1, <1>3, <2>1, <2>2, PartFacts
    <2>4. QED
      BY <2>3, EmptySeq
  <1>7. Stands(<<>>) = {<<>>}
    <2>1. <<>> \in Seq(ValTypes)
      OBVIOUS
    <2>2. QED
      BY <2>1, StandsOne
  <1>8. Shown(x, n) = top
    <2>1. Held(x, n) = <<>>
      BY <1>1, <1>6 DEF Held
    <2> DEFINE e == x.ctrls[n]
               b == w.ctrls[n]
               held == Stands(Held(w, n))
    <2>2. /\ e.kind = b.kind /\ e.in = b.in /\ e.out = b.out
          /\ e.else_seen = b.else_seen /\ e.unreachable = TRUE
      BY <1>4
    <2>3. Shown(x, n) = FrameOf(e.kind, e.in, e.out, e.else_seen, e.unreachable, {<<>>})
      BY <1>7, <2>1 DEF Shown
    <2>4. Shown(w, n) = FrameOf(b.kind, b.in, b.out, b.else_seen, b.unreachable, held)
      BY DEF Shown
    <2> HIDE DEF e, b, held
    <2>5. top = FrameOf(b.kind, b.in, b.out, b.else_seen, TRUE, {<<>>})
      BY <2>4, SetAny, ZenonT(40)
    <2> HIDE DEF top
    <2>6. QED
      BY <2>2, <2>3, <2>5
  <1>9. d = [k \in 1 .. n |-> IF k = n THEN top ELSE Shown(w, k)]
    BY <1>2 DEF Picture
  <1>10. ASSUME NEW k \in 1 .. n
         PROVE  Shown(x, k) = IF k = n THEN top ELSE Shown(w, k)
    <2>1. CASE k = n
      BY <1>8, <2>1
    <2>2. CASE k # n
      <3>1. k \in 1 .. n - 1
        BY <1>2, <2>2
      <3>2. QED
        BY <1>5, <2>2, <3>1
    <2>3. QED
      BY <2>1, <2>2
  <1>11. d = Picture(x)
    BY <1>1, <1>9, <1>10 DEF Picture
  <1>12. WithAny(c, TRUE) = d
    BY <1>2 DEF WithAny
  <1>13. QED
    BY <1>11, <1>12 DEF x

\* The verdict of the rules is the verdict of a method, with the same frames.
Follows(c, x) == c = IF x.ok THEN Picture(x) ELSE IllTyped

LEMMA ApplyFollows ==
  ASSUME Acknowledged, NEW w, Busy(w), w.ok,
         NEW pop \in Seq(ValTypes), NEW push \in Seq(ValTypes)
  PROVE  Follows(WithStacks(Picture(w), After(Last(Picture(w)), pop, push)),
                 ApplySig(w, pop, push))
  <1> DEFINE f == Last(Picture(w))
             p == Part(w)
             x == ApplySig(w, pop, push)
             r == Rest(p, pop, push)
  <1>1. pop \in Seq(Operands) /\ push \in Seq(Operands) /\ p \in Seq(Operands)
    BY ValTypesAreOperands, PartFacts
  <1>2. f.stacks = Stands(p) /\ f.any = Top(w).unreachable
    BY PictureFacts
  <1>3. /\ x.ok <=> CanTake(p, f.any, pop)
        /\ x.ok => x = With(w, r)
    BY <1>1, <1>2, ApplyWith
  <1> HIDE DEF f, p, x
  <1>4. CASE x.ok
    <2>1. After(f, pop, push) = Stands(r) /\ r \in Seq(Operands)
      BY <1>1, <1>2, <1>3, <1>4, AfterFacts, RestFacts
    <2>2. WithStacks(Picture(w), Stands(r)) = Picture(With(w, r))
      BY <2>1, PictureWith
    <2>3. QED
      BY <1>3, <1>4, <2>1, <2>2 DEF Follows, f, x
  <1>5. CASE ~x.ok
    <2>1. After(f, pop, push) = {}
      BY <1>1, <1>2, <1>3, <1>5, AfterFacts
    <2>2. QED
      BY <1>5, <2>1 DEF Follows, WithStacks, f, x
  <1>6. QED
    BY <1>4, <1>5

LEMMA LeaveFollows ==
  ASSUME Acknowledged, NEW w, Busy(w), w.ok, NEW ts \in Seq(ValTypes)
  PROVE  Follows(WithAny(Picture(w), \E s \in Last(Picture(w)).stacks :
                                       Takes(Last(Picture(w)), s, ts)),
                 Unreachable(PopVals(w, ts)))
  <1> DEFINE f == Last(Picture(w))
             c == Picture(w)
             p == Part(w)
             x == PopVals(w, ts)
             r == Rest(p, ts, <<>>)
             n == Len(w.ctrls)
  <1>1. ts \in Seq(Operands) /\ <<>> \in Seq(ValTypes) /\ p \in Seq(Operands)
    BY ValTypesAreOperands, PartFacts
  <1>2. f.stacks = Stands(p) /\ f.any = Top(w).unreachable
    BY PictureFacts
  <1>3. /\ x.ok <=> CanTake(p, f.any, ts)
        /\ x.ok => x = With(w, r)
    BY <1>1, <1>2, PopsWith
  <1>4. CanTake(p, f.any, ts) <=> \E s \in f.stacks : Takes(f, s, ts)
    BY <1>1, <1>2, AfterFacts
  <1>5. r \in Seq(Operands)
    <2>1. <<>> \in Seq(Operands)
      OBVIOUS
    <2>2. QED
      BY <1>1, <2>1, RestFacts
  <1> HIDE DEF f, p, x, r
  <1>6. CASE x.ok
    <2>1. Busy(x) /\ x = With(w, r)
      BY <1>3, <1>5, <1>6, WithFacts
    <2>2. WithAny(Picture(x), TRUE) = Picture(Unreachable(x)) /\ Unreachable(x).ok
      BY <1>6, <2>1, PictureUnreachable, UnreachableFacts
    <2>3. WithAny(Picture(x), TRUE) = WithAny(c, TRUE)
      <3>1. Picture(x) = WithStacks(c, Stands(r)) /\ Stands(r) # {}
        BY <1>5, <2>1, PictureWith, StandsSome
      <3>2. n \in Nat \ {0} /\ Len(c) = n /\ Len(Picture(x)) = n
        BY <2>1, <1>5, PictureFacts, WithFacts
      <3>3. Picture(x) = [c EXCEPT ![n].stacks = Stands(r)]
        BY <3>1, <3>2 DEF WithStacks
      <3> DEFINE e == [Shown(w, n) EXCEPT !.stacks = Stands(r)]
      <3>4. Picture(x) = [c EXCEPT ![n] = e] /\ c[n] = Shown(w, n) /\ n \in DOMAIN c
        <4>1. c[n] = Shown(w, n) /\ n \in DOMAIN c
          BY <3>2 DEF Picture
        <4> HIDE DEF c
        <4>2. [c EXCEPT ![n].stacks = Stands(r)] = [c EXCEPT ![n] = [c[n] EXCEPT !.stacks = Stands(r)]]
          OBVIOUS
        <4>3. QED
          BY <3>3, <4>1, <4>2
      <3>5. AnyBelow(e) = AnyBelow(Shown(w, n))
        <4> DEFINE b == w.ctrls[n]
                   held == Stands(Held(w, n))
        <4>1. Shown(w, n) = FrameOf(b.kind, b.in, b.out, b.else_seen, b.unreachable, held)
          BY DEF Shown
        <4> HIDE DEF b, held
        <4>2. e = FrameOf(b.kind, b.in, b.out, b.else_seen, b.unreachable, Stands(r))
          <5>1. [FrameOf(b.kind, b.in, b.out, b.else_seen, b.unreachable, held)
                   EXCEPT !.stacks = Stands(r)]
                  = FrameOf(b.kind, b.in, b.out, b.else_seen, b.unreachable, Stands(r))
            BY SetStacks
          <5>2. QED
            BY <4>1, <5>1
        <4> HIDE DEF e
        <4>3. AnyBelow(e)
                = FrameOf(b.kind, b.in, b.out, b.else_seen, TRUE, {<<>>})
          BY <4>2, SetAny
        <4> DEFINE g == Shown(w, n)
        <4>4. g = FrameOf(b.kind, b.in, b.out, b.else_seen, b.unreachable, held)
          BY <4>1
        <4> HIDE DEF g
        <4>5. AnyBelow(g)
                = FrameOf(b.kind, b.in, b.out, b.else_seen, TRUE, {<<>>})
          BY <4>4, SetAny
        <4>6. QED
          BY <4>3, <4>5 DEF g
      <3> HIDE DEF e
      <3>6. WithAny(Picture(x), TRUE) = [c EXCEPT ![n] = AnyBelow(e)]
        BY <3>2, <3>4 DEF WithAny
      <3>7. WithAny(c, TRUE) = [c EXCEPT ![n] = AnyBelow(Shown(w, n))]
        BY <3>2, <3>4 DEF WithAny
      <3>8. QED
        BY <3>5, <3>6, <3>7
    <2>4. QED
      BY <1>3, <1>4, <1>6, <2>2, <2>3 DEF Follows, f, x, WithAny
  <1>7. CASE ~x.ok
    <2>1. ~Unreachable(x).ok
      BY <1>7 DEF Unreachable
    <2>2. ~\E s \in f.stacks : Takes(f, s, ts)
      BY <1>3, <1>4, <1>7
    <2>3. QED
      BY <2>1, <2>2 DEF Follows, WithAny, f, x
  <1>8. QED
    BY <1>6, <1>7

LEMMA FailFollows ==
  ASSUME NEW x, ~x.ok
  PROVE  Follows(IllTyped, x)
  BY DEF Follows

LEMMA PushNone ==
  ASSUME NEW x, Good(x)
  PROVE  PushVals(x, <<>>) = x
  <1>1. x \in Validators /\ x.vals \in Seq(Operands)
    BY GoodFacts DEF Good
  <1>2. x.vals \o <<>> = x.vals
    BY <1>1, ConcatEmptySeq
  <1>3. [x EXCEPT !.vals = x.vals] = x
    BY <1>1 DEF Validators
  <1>4. [x EXCEPT !.vals = @ \o <<>>] = [x EXCEPT !.vals = x.vals \o <<>>]
    BY <1>1 DEF Validators
  <1> DEFINE e == x.vals \o <<>>
  <1>5. e = x.vals
    BY <1>2
  <1> HIDE DEF e
  <1>6. [x EXCEPT !.vals = e] = x
    BY <1>3, <1>5
  <1>7. QED
    BY <1>4, <1>6 DEF PushVals, e

LEMMA TakeNone ==
  ASSUME NEW p \in Seq(Operands), NEW any
  PROVE  CanTake(p, any, <<>>) /\ Rest(p, <<>>, <<>>) = p
  <1> DEFINE e == <<>>
  <1>1. Len(e) = 0 /\ Len(p) \in Nat /\ e \in Seq(Operands)
    OBVIOUS
  <1> HIDE DEF e
  <1>2. Common(p, e) = 0
    BY <1>1 DEF Common
  <1>3. CanTake(p, any, e)
    BY <1>1, <1>2 DEF CanTake
  <1>4. IsRest(p, p, e, e)
    BY <1>1, <1>2 DEF IsRest
  <1>5. p = Rest(p, e, e)
    BY <1>1, <1>4, RestIs
  <1>6. QED
    BY <1>3, <1>5 DEF e

LEMMA PopNone ==
  ASSUME NEW w, Busy(w), w.ok
  PROVE  PopVals(w, <<>>) = w
  <1>1. <<>> \in Seq(Operands) /\ Part(w) \in Seq(Operands)
    BY PartFacts
  <1>2. /\ CanTake(Part(w), Top(w).unreachable, <<>>)
        /\ Rest(Part(w), <<>>, <<>>) = Part(w)
    BY <1>1, TakeNone
  <1>3. PopVals(w, <<>>) = With(w, Part(w))
    BY <1>1, <1>2, PopsWith
  <1>4. QED
    BY <1>1, <1>3, WithTwice

LEMMA PopFollows ==
  ASSUME Acknowledged, NEW w, Busy(w), w.ok, NEW pop \in Seq(ValTypes)
  PROVE  Follows(WithStacks(Picture(w), After(Last(Picture(w)), pop, <<>>)), PopVals(w, pop))
  <1>1. <<>> \in Seq(ValTypes) /\ pop \in Seq(Operands)
    BY ValTypesAreOperands
  <1>2. Good(PopVals(w, pop))
    BY <1>1, PopValsKeeps DEF Keeps, Busy
  <1>3. ApplySig(w, pop, <<>>) = PopVals(w, pop)
    BY <1>2, PushNone DEF ApplySig
  <1>4. Follows(WithStacks(Picture(w), After(Last(Picture(w)), pop, <<>>)),
                ApplySig(w, pop, <<>>))
    BY <1>1, ApplyFollows
  <1>5. QED
    BY <1>3, <1>4

LEMMA PushFollows ==
  ASSUME Acknowledged, NEW w, Busy(w), w.ok, NEW push \in Seq(ValTypes)
  PROVE  Follows(WithStacks(Picture(w), After(Last(Picture(w)), <<>>, push)), PushVals(w, push))
  <1>1. <<>> \in Seq(ValTypes)
    OBVIOUS
  <1>2. ApplySig(w, <<>>, push) = PushVals(w, push)
    BY PopNone DEF ApplySig
  <1>3. Follows(WithStacks(Picture(w), After(Last(Picture(w)), <<>>, push)),
                ApplySig(w, <<>>, push))
    BY <1>1, ApplyFollows
  <1>4. QED
    BY <1>2, <1>3

\* Operands are taken from the last one: first b, then a.
LEMMA TakeTwice ==
  ASSUME NEW p \in Seq(Operands), NEW any \in BOOLEAN, NEW a \in Seq(Operands),
         NEW b \in Seq(Operands)
  PROVE  /\ CanTake(p, any, a \o b) <=>
              CanTake(p, any, b) /\ CanTake(Rest(p, b, <<>>), any, a)
         /\ \A push \in Seq(Operands) :
              Rest(p, a \o b, push) = Rest(Rest(p, b, <<>>), a, push)
  <1> DEFINE ab == a \o b
             q == Rest(p, b, <<>>)
             cb == Common(p, b)
             ca == Common(q, a)
             c == Common(p, ab)
             n == Len(p)
             la == Len(a)
             lb == Len(b)
             Fits(x, y) == x = y \/ Unknown \in {x, y}
  <1>1. n \in Nat /\ la \in Nat /\ lb \in Nat
    OBVIOUS
  <1>2. /\ ab \in Seq(Operands) /\ Len(ab) = la + lb
        /\ \A k \in 1 .. la : ab[k] = a[k]
        /\ \A k \in 1 .. lb : ab[la + k] = b[k]
    BY ConcatFacts
  <1> HIDE DEF ab
  <1>3. cb \in 0 .. n /\ cb \in 0 .. lb /\ (cb = n \/ cb = lb)
    BY <1>1, CommonFacts
  <1>4. q \in Seq(Operands) /\ Len(q) = n - cb /\ \A k \in 1 .. n - cb : q[k] = p[k]
    <2> DEFINE e == <<>>
    <2>1. e \in Seq(Operands) /\ Len(e) = 0
      OBVIOUS
    <2> HIDE DEF e
    <2>2. /\ Rest(p, b, e) \in Seq(Operands)
          /\ Len(Rest(p, b, e)) = n - cb + Len(e)
          /\ \A k \in 1 .. n - cb : Rest(p, b, e)[k] = p[k]
      BY <2>1, RestFacts, ZenonT(40)
    <2> HIDE DEF cb, n
    <2>3. QED
      BY <1>1, <1>3, <2>1, <2>2 DEF e
  <1> HIDE DEF q
  <1>5. ca \in 0 .. n - cb /\ ca \in 0 .. la /\ c = cb + ca
    <2>1. cb = IF n < lb THEN n ELSE lb
      BY DEF Common
    <2>2. c = IF n < la + lb THEN n ELSE la + lb
      BY <1>2 DEF Common
    <2> HIDE DEF cb
    <2>3. ca = IF n - cb < la THEN n - cb ELSE la
      BY <1>4 DEF Common
    <2> HIDE DEF c, ca, n, la, lb
    <2>4. QED
      BY <1>1, <1>3, <2>1, <2>2, <2>3
  <1> HIDE DEF c, ca, cb
  <1>6. ASSUME CanTake(p, any, ab) PROVE CanTake(p, any, b) /\ CanTake(q, any, a)
    <2>1. ASSUME NEW k \in 0 .. cb - 1 PROVE Fits(p[n - k], b[lb - k])
      <3>1. k \in 0 .. c - 1 /\ lb - k \in 1 .. lb /\ la + lb - k = la + (lb - k)
        BY <1>1, <1>3, <1>5
      <3>2. Fits(p[n - k], ab[la + lb - k])
        BY <1>2, <1>6, <3>1 DEF CanTake, c, ca, cb
      <3>3. ab[la + lb - k] = b[lb - k]
        BY <1>2, <3>1
      <3>4. QED
        BY <3>2, <3>3
    <2>2. ASSUME NEW k \in 0 .. ca - 1 PROVE Fits(q[Len(q) - k], a[la - k])
      <3>1. /\ k < ca /\ (any \/ la + lb <= n)
        BY <1>2, <1>6, <2>2, <1>5 DEF CanTake, c, ca, cb
      <3>2. CASE cb = lb
        <4>1. /\ k + lb \in 0 .. c - 1 /\ la - k \in 1 .. la /\ la + lb - (k + lb) = la - k
              /\ n - cb - k \in 1 .. n - cb /\ n - (k + lb) = n - cb - k
          BY <1>1, <1>3, <1>5, <3>2
        <4>2. Fits(p[n - (k + lb)], ab[la + lb - (k + lb)])
          BY <1>2, <1>6, <4>1 DEF CanTake, c, ca, cb
        <4>3. QED
          BY <1>2, <1>4, <4>1, <4>2
      <3>3. CASE cb # lb
        BY <1>1, <1>3, <1>5, <2>2, <3>3
      <3>4. QED
        BY <3>2, <3>3
    <2>3. any \/ (lb <= n /\ la <= Len(q))
      BY <1>1, <1>2, <1>3, <1>4, <1>6 DEF CanTake, c, ca, cb
    <2>4. QED
      BY <2>1, <2>2, <2>3 DEF CanTake, c, ca, cb
  <1>7. ASSUME CanTake(p, any, b), CanTake(q, any, a) PROVE CanTake(p, any, ab)
    <2>1. ASSUME NEW k \in 0 .. c - 1 PROVE Fits(p[n - k], ab[la + lb - k])
      <3>1. CASE k < cb
        <4>1. k \in 0 .. cb - 1 /\ lb - k \in 1 .. lb /\ la + lb - k = la + (lb - k)
          BY <1>1, <1>3, <1>5, <3>1
        <4>2. Fits(p[n - k], b[lb - k])
          BY <1>7, <4>1 DEF CanTake, c, ca, cb
        <4>3. QED
          BY <1>2, <4>1, <4>2
      <3>2. CASE ~(k < cb)
        <4>1. /\ k - cb \in 0 .. ca - 1 /\ cb = lb /\ la - (k - cb) \in 1 .. la
              /\ la + lb - k = la - (k - cb) /\ n - cb - (k - cb) \in 1 .. n - cb
              /\ n - cb - (k - cb) = n - k
          BY <1>1, <1>3, <1>5, <3>2, SMTT(40)
        <4>2. Fits(q[n - cb - (k - cb)], a[la - (k - cb)])
          BY <1>4, <1>7, <4>1 DEF CanTake, c, ca, cb
        <4>3. QED
          BY <1>2, <1>4, <4>1, <4>2
      <3>3. QED
        BY <3>1, <3>2
    <2>2. any \/ la + lb <= n
      BY <1>1, <1>2, <1>3, <1>4, <1>7 DEF CanTake, c, ca, cb
    <2>3. \A k \in 0 .. c - 1 : Fits(p[n - k], ab[Len(ab) - k])
      BY <1>2, <2>1, SMTT(40)
    <2>4. any \/ Len(ab) <= n
      BY <1>2, <2>2
    <2>5. QED
      BY <2>3, <2>4 DEF CanTake, c
  <1>8. ASSUME NEW push \in Seq(Operands)
        PROVE  Rest(p, ab, push) = Rest(q, a, push)
    <2> DEFINE r == Rest(q, a, push)
    <2>1. n - cb - ca = n - c /\ n - c \in Nat
      BY <1>1, <1>3, <1>5
    <2>2. /\ r \in Seq(Operands) /\ Len(r) = n - c + Len(push)
          /\ \A k \in 1 .. n - c : r[k] = q[k]
          /\ \A k \in 1 .. Len(push) : r[n - c + k] = push[k]
      <3>1. /\ r \in Seq(Operands) /\ Len(r) = Len(q) - ca + Len(push)
            /\ \A k \in 1 .. Len(q) - ca : r[k] = q[k]
            /\ \A k \in 1 .. Len(push) : r[Len(q) - ca + k] = push[k]
        <4>1. q \in Seq(Operands)
          BY <1>4
        <4>2. /\ Rest(q, a, push) \in Seq(Operands)
              /\ Len(Rest(q, a, push)) = Len(q) - Common(q, a) + Len(push)
              /\ \A k \in 1 .. Len(q) - Common(q, a) : Rest(q, a, push)[k] = q[k]
              /\ \A k \in 1 .. Len(push) :
                   Rest(q, a, push)[Len(q) - Common(q, a) + k] = push[k]
          BY <4>1, RestFacts
        <4>3. QED
          BY <4>2 DEF ca
      <3>2. Len(q) - ca = n - c
        BY <1>4, <2>1
      <3>3. QED
        BY <3>1, <3>2
    <2> HIDE DEF r
    <2>3. \A k \in 1 .. n - c : q[k] = p[k]
      <3>1. \A k \in 1 .. n - c : k \in 1 .. n - cb
        BY <1>1, <1>3, <1>5
      <3>2. QED
        BY <1>4, <3>1
    <2>4. IsRest(r, p, ab, push)
      BY <2>2, <2>3 DEF IsRest, c
    <2>5. QED
      BY <1>2, <2>4, RestIs DEF r
  <1>9. QED
    BY <1>6, <1>7, <1>8 DEF ab, q

-----------------------------------------------------------------------------
(***************************************************************************)
(* Instructions without a frame.                                           *)
(***************************************************************************)
\* The verdict of the rules on an instruction of any of the types R, and on a
\* jump that takes one of P.
Plain(w, R) == WithStacks(Picture(w), UNION {After(Last(Picture(w)), r.pop, r.push) : r \in R})
Leap(w, P) == WithAny(Picture(w), \E pop \in P, s \in Last(Picture(w)).stacks :
                                    Takes(Last(Picture(w)), s, pop))

\* Methods with the same verdict and, if they accept, the same result.
SameVerdict(x, y) == x.ok = y.ok /\ (x.ok => x = y)

LEMMA FollowsSame ==
  ASSUME NEW c, NEW x, NEW y, Follows(c, x), SameVerdict(x, y)
  PROVE  Follows(c, y)
  BY DEF Follows, SameVerdict

LEMMA PlainRule ==
  ASSUME Acknowledged, NEW w, Busy(w), w.ok,
         NEW pop \in Seq(ValTypes), NEW push \in Seq(ValTypes)
  PROVE  Follows(Plain(w, {Rule(pop, push)}), ApplySig(w, pop, push))
  <1> DEFINE f == Last(Picture(w))
  <1> HIDE DEF f
  <1>1. UNION {After(f, r.pop, r.push) : r \in {Rule(pop, push)}} = After(f, pop, push)
    <2>1. Rule(pop, push).pop = pop /\ Rule(pop, push).push = push
      BY DEF Rule
    <2>2. QED
      BY <2>1
  <1>2. QED
    BY <1>1, ApplyFollows DEF Plain, f

LEMMA PlainPop ==
  ASSUME Acknowledged, NEW w, Busy(w), w.ok, NEW pop \in Seq(ValTypes)
  PROVE  Follows(Plain(w, {Pop(pop)}), PopVals(w, pop))
  <1>1. <<>> \in Seq(ValTypes) /\ pop \in Seq(Operands)
    BY ValTypesAreOperands
  <1>2. Good(PopVals(w, pop))
    BY <1>1, PopValsKeeps DEF Keeps, Busy
  <1>3. ApplySig(w, pop, <<>>) = PopVals(w, pop)
    BY <1>2, PushNone DEF ApplySig
  <1>4. Follows(Plain(w, {Rule(pop, <<>>)}), ApplySig(w, pop, <<>>))
    BY <1>1, PlainRule
  <1>5. QED
    BY <1>3, <1>4 DEF Pop

LEMMA PlainPush ==
  ASSUME Acknowledged, NEW w, Busy(w), w.ok, NEW push \in Seq(ValTypes)
  PROVE  Follows(Plain(w, {Push(push)}), PushVals(w, push))
  <1>1. <<>> \in Seq(ValTypes)
    OBVIOUS
  <1>2. ApplySig(w, <<>>, push) = PushVals(w, push)
    BY PopNone DEF ApplySig
  <1>3. Follows(Plain(w, {Rule(<<>>, push)}), ApplySig(w, <<>>, push))
    BY <1>1, PlainRule
  <1>4. QED
    BY <1>2, <1>3 DEF Push

LEMMA PlainNone ==
  ASSUME NEW w, NEW x, ~x.ok
  PROVE  Follows(Plain(w, {}), x)
  BY DEF Plain, WithStacks, Follows

LEMMA LeapOne ==
  ASSUME Acknowledged, NEW w, Busy(w), w.ok, NEW ts \in Seq(ValTypes)
  PROVE  Follows(Leap(w, {ts}), Unreachable(PopVals(w, ts)))
  <1>1. Leap(w, {ts}) = WithAny(Picture(w), \E s \in Last(Picture(w)).stacks :
                                              Takes(Last(Picture(w)), s, ts))
    BY DEF Leap
  <1>2. QED
    BY <1>1, LeaveFollows

LEMMA LeapNone ==
  ASSUME NEW w, NEW x, ~x.ok
  PROVE  Follows(Leap(w, {}), x)
  BY DEF Leap, WithAny, Follows

LEMMA StepPlainIs ==
  ASSUME NEW w, NEW i, NEW L, NEW results
  PROVE  /\ ~Enabled(i) => StepPlain(Picture(w), i, L, results) = IllTyped
         /\ Enabled(i) /\ i.op \in Jumps =>
              StepPlain(Picture(w), i, L, results) = Leap(w, JumpsOf(i, results))
         /\ Enabled(i) /\ i.op \notin Jumps =>
              StepPlain(Picture(w), i, L, results) = Plain(w, RulesOf(i, L))
  BY DEF StepPlain, Leap, Plain

\* A call of the client, and the state of the validator that it meets.
Meets(w, i) == Busy(w) /\ w.ok /\ i \in Calls /\ Enabled(i)

LEMMA CallFacts ==
  ASSUME NEW i \in Calls
  PROVE  /\ i \in Rows /\ i.idx \in Nat /\ i.idx2 \in Nat /\ i.shape \in Shapes
         /\ i.pop \in Seq(ValTypes) /\ i.push \in Seq(ValTypes)
         /\ i.op \notin FrameKinds \cup BranchOps \cup {"End", "Else"}
         /\ i.shape = "SELECT_T" => Len(i.push) = 1
         /\ i.feat \in FeatureTags \cup {"MVP"}
         /\ i.feat \notin {"MULTI_MEMORY", "MEMORY64"}
  BY RowsAssumption, EmitterAssumption DEF Rows, Instructions, Effects

\* The mnemonics of each shape.
LEMMA CodeOps ==
  ASSUME NEW i \in Calls
  PROVE  /\ i.op \in {"Drop", "Select", "Return", "Unreachable", "RefIsNull"} =>
              i.shape = "NONE"
         /\ i.op \in {"LocalGet", "LocalSet", "LocalTee"} <=> i.shape = "LOCAL_IDX"
         /\ i.op \in {"GlobalGet", "GlobalSet"} <=> i.shape = "GLOBAL_IDX"
         /\ i.op \in {"Call", "ReturnCall", "RefFunc"} <=> i.shape = "FUNC_IDX"
         /\ i.op \in {"TableGet", "TableSet", "TableSize", "TableGrow", "TableFill"}
              <=> i.shape = "TABLE_IDX"
         /\ i.op \in {"MemorySize", "MemoryGrow", "MemoryFill", "MemoryCopy", "MemoryInit"}
              <=> i.shape = "MEM_IDX"
         /\ i.op \in {"CallIndirect", "ReturnCallIndirect"} <=> i.shape = "CALL_INDIRECT"
         /\ i.op = "SelectT" <=> i.shape = "SELECT_T"
  <1>1. i \in Rows
    BY CallFacts
  <1>2. /\ \A s \in DOMAIN Mnemonics : i.op \in Mnemonics[s] => i.shape = s
        /\ i.shape \in DOMAIN Mnemonics \ {"NONE"} => i.op \in Mnemonics[i.shape]
    BY <1>1 DEF Rows
  <1>3. DOMAIN Mnemonics = {"NONE", "LOCAL_IDX", "GLOBAL_IDX", "FUNC_IDX", "TABLE_IDX",
                            "MEM_IDX", "CALL_INDIRECT", "SELECT_T"}
    BY DEF Mnemonics
  <1>4. /\ Mnemonics["NONE"] = {"Drop", "Select", "Return", "Unreachable", "RefIsNull"}
        /\ Mnemonics["LOCAL_IDX"] = {"LocalGet", "LocalSet", "LocalTee"}
        /\ Mnemonics["GLOBAL_IDX"] = {"GlobalGet", "GlobalSet"}
        /\ Mnemonics["FUNC_IDX"] = {"Call", "ReturnCall", "RefFunc"}
        /\ Mnemonics["TABLE_IDX"]
             = {"TableGet", "TableSet", "TableSize", "TableGrow", "TableFill"}
        /\ Mnemonics["MEM_IDX"]
             = {"MemorySize", "MemoryGrow", "MemoryFill", "MemoryCopy", "MemoryInit"}
        /\ Mnemonics["CALL_INDIRECT"] = {"CallIndirect", "ReturnCallIndirect"}
        /\ Mnemonics["SELECT_T"] = {"SelectT"}
    BY DEF Mnemonics
  <1>5. QED
    BY <1>2, <1>3, <1>4

\* The instructions that have the effect of their row.
HasOwn(i) == \/ i.shape \in {"FIXED", "REF_TYPE", "UNCHECKED"}
             \/ i.shape = "NONE" /\ i.op \notin Polymorphic

LEMMA OwnEffect ==
  ASSUME NEW i \in Calls, HasOwn(i), NEW L
  PROVE  i.op \notin Jumps /\ RulesOf(i, L) = {Rule(i.pop, i.push)}
  <1>1. i.op \notin {"Drop", "Select", "Return", "Unreachable", "RefIsNull"}
    BY CodeOps DEF Polymorphic, HasOwn
  <1>2. i.op \notin {"LocalGet", "LocalSet", "LocalTee", "GlobalGet", "GlobalSet"}
    BY CodeOps DEF HasOwn
  <1>3. i.op \notin {"Call", "ReturnCall", "RefFunc", "CallIndirect", "ReturnCallIndirect",
                     "SelectT"}
    BY CodeOps DEF HasOwn
  <1>4. i.op \notin {"TableGet", "TableSet", "TableSize", "TableGrow", "TableFill"}
    BY CodeOps DEF HasOwn
  <1>5. i.op \notin {"MemorySize", "MemoryGrow", "MemoryFill", "MemoryCopy", "MemoryInit"}
    BY CodeOps DEF HasOwn
  <1>6. i.shape # "MEMARG"
    BY DEF HasOwn
  <1>7. QED
    BY <1>1, <1>2, <1>3, <1>4, <1>5, <1>6 DEF RulesOf, Jumps

\* What the validator does with those.
ByEffect(w, i) == CASE i.shape = "NONE" -> OnNone(w, i)
                    [] i.shape = "FIXED" -> ApplySig(w, i.pop, i.push)
                    [] i.shape = "REF_TYPE" -> PushVals(w, i.push)
                    [] i.shape = "UNCHECKED" -> w

LEMMA OwnEffectFollows ==
  ASSUME Acknowledged, NEW w, NEW i, Meets(w, i), NEW L, HasOwn(i)
  PROVE  Follows(StepPlain(Picture(w), i, L, w.results), ByEffect(w, i))
  <1> DEFINE c == StepPlain(Picture(w), i, L, w.results)
  <1>1. /\ i \in Calls /\ Enabled(i) /\ Busy(w) /\ w.ok
        /\ i.pop \in Seq(ValTypes) /\ i.push \in Seq(ValTypes)
    BY CallFacts DEF Meets
  <1>2. i.op \notin Jumps /\ RulesOf(i, L) = {Rule(i.pop, i.push)}
    BY <1>1, OwnEffect
  <1>3. c = Plain(w, {Rule(i.pop, i.push)})
    BY <1>1, <1>2, StepPlainIs
  <1>4. Follows(c, ApplySig(w, i.pop, i.push))
    BY <1>1, <1>3, PlainRule
  <1> HIDE DEF c, ByEffect
  <1>5. CASE i.shape = "NONE"
    <2>1. OnNone(w, i) = ApplySig(w, i.pop, i.push)
      BY <1>5 DEF OnNone, Polymorphic, HasOwn
    <2>2. QED
      BY <1>4, <1>5, <2>1 DEF c, ByEffect
  <1>6. CASE i.shape = "FIXED"
    BY <1>4, <1>6 DEF c, ByEffect
  <1>7. CASE i.shape = "REF_TYPE"
    <2>1. i.pop = <<>>
      BY <1>1, <1>7, CallFacts DEF Rows
    <2>2. ApplySig(w, i.pop, i.push) = PushVals(w, i.push)
      BY <1>1, <2>1, PopNone DEF ApplySig
    <2>3. QED
      BY <1>4, <1>7, <2>2 DEF c, ByEffect
  <1>8. CASE i.shape = "UNCHECKED"
    <2>1. i.pop = <<>> /\ i.push = <<>>
      BY <1>1, <1>8, CallFacts DEF Rows
    <2>2. ApplySig(w, i.pop, i.push) = w
      BY <1>1, <2>1, PopNone, PushNone DEF ApplySig, Busy
    <2>3. QED
      BY <1>4, <1>8, <2>2 DEF c, ByEffect
  <1>9. QED
    BY <1>5, <1>6, <1>7, <1>8 DEF HasOwn

\* Locals that more declarations may follow.
Extends(L, locals) == /\ L \in Seq(ValTypes) /\ Len(locals) <= Len(L)
                      /\ \A k \in 1 .. Len(locals) : L[k] = locals[k]

LEMMA ExtendsItself ==
  ASSUME NEW l \in Seq(ValTypes)
  PROVE  Extends(l, l)
  BY DEF Extends

\* A call that is accepted has the same type when more locals are declared.
Decides(c, x, L, w) == /\ x.ok => c = Picture(x)
                       /\ ~x.ok /\ L = w.locals => c = IllTyped

LEMMA FollowsDecides ==
  ASSUME NEW c, NEW x, NEW L, NEW w, Follows(c, x)
  PROVE  Decides(c, x, L, w)
  BY DEF Follows, Decides

LEMMA LocalDecides ==
  ASSUME Acknowledged, NEW w, NEW i, Meets(w, i), i.shape = "LOCAL_IDX",
         NEW L, Extends(L, w.locals)
  PROVE  Decides(StepPlain(Picture(w), i, L, w.results), OnLocal(w, i), L, w)
  <1> DEFINE c == StepPlain(Picture(w), i, L, w.results)
             x == OnLocal(w, i)
             n == i.idx + 1
             t == <<w.locals[n]>>
             local == {<<L[k]>> : k \in {m \in {n} : m <= Len(L)}}
  <1>1. /\ i \in Calls /\ Enabled(i) /\ Busy(w) /\ w.ok /\ i.idx \in Nat
        /\ i.op \in {"LocalGet", "LocalSet", "LocalTee"}
    BY CallFacts, CodeOps DEF Meets
  <1>2. /\ w.locals \in Seq(ValTypes) /\ Len(w.locals) \in Nat /\ L \in Seq(ValTypes)
        /\ Len(L) \in Nat
    BY <1>1, GoodFacts DEF Busy, Extends
  <1>3. i.op \notin Jumps
    BY <1>1 DEF Jumps
  <1>4. c = Plain(w, RulesOf(i, L))
    BY <1>1, <1>3, StepPlainIs
  <1>5. RulesOf(i, L) = CASE i.op = "LocalGet" -> {Push(u) : u \in local}
                          [] i.op = "LocalSet" -> {Pop(u) : u \in local}
                          [] i.op = "LocalTee" -> {Rule(u, u) : u \in local}
    <2> HIDE DEF local
    <2>1. CASE i.op = "LocalGet"
      BY <2>1 DEF RulesOf, local
    <2>2. CASE i.op = "LocalSet"
      BY <2>2 DEF RulesOf, local
    <2>3. CASE i.op = "LocalTee"
      BY <2>3 DEF RulesOf, local
    <2>4. QED
      BY <1>1, <2>1, <2>2, <2>3
  <1>6. CASE i.idx < Len(w.locals)
    <2>1. n \in 1 .. Len(w.locals) /\ n <= Len(L) /\ L[n] = w.locals[n]
      BY <1>1, <1>2, <1>6 DEF Extends
    <2>2. t \in Seq(ValTypes)
      BY <1>2, <2>1
    <2>3. local = {t}
      BY <2>1
    <2> HIDE DEF local, t
    <2>4. CASE i.op = "LocalGet"
      <3>1. x = PushVals(w, t)
        BY <1>1, <1>2, <1>6, <2>4 DEF OnLocal, t
      <3>2. RulesOf(i, L) = {Push(t)}
        BY <1>5, <2>3, <2>4
      <3>3. QED
        BY <1>1, <1>4, <2>2, <3>1, <3>2, PlainPush, FollowsDecides
    <2>5. CASE i.op = "LocalSet"
      <3>1. x = PopVals(w, t)
        BY <1>1, <1>2, <1>6, <2>5 DEF OnLocal, t
      <3>2. RulesOf(i, L) = {Pop(t)}
        BY <1>5, <2>3, <2>5
      <3>3. QED
        BY <1>1, <1>4, <2>2, <3>1, <3>2, PlainPop, FollowsDecides
    <2>6. CASE i.op = "LocalTee"
      <3>1. x = ApplySig(w, t, t)
        BY <1>1, <1>2, <1>6, <2>6 DEF OnLocal, t
      <3>2. RulesOf(i, L) = {Rule(t, t)}
        BY <1>5, <2>3, <2>6
      <3>3. QED
        BY <1>1, <1>4, <2>2, <3>1, <3>2, PlainRule, FollowsDecides
    <2>7. QED
      BY <1>1, <2>4, <2>5, <2>6
  <1>7. CASE ~(i.idx < Len(w.locals))
    <2>1. x = Fail(w) /\ i.idx >= Len(w.locals)
      BY <1>1, <1>2, <1>7 DEF OnLocal
    <2>2. ~x.ok
      BY <1>1, <2>1, FailKeeps DEF Busy
    <2>3. ASSUME L = w.locals PROVE c = IllTyped
      <3>1. ~(n <= Len(L))
        BY <1>1, <1>2, <1>7, <2>3
      <3>2. local = {}
        BY <3>1
      <3> HIDE DEF local, c
      <3>3. RulesOf(i, L) = {}
        BY <1>1, <1>5, <3>2
      <3>4. QED
        BY <1>4, <3>3 DEF Plain, WithStacks
    <2>4. QED
      BY <2>2, <2>3 DEF Decides
  <1>8. QED
    BY <1>6, <1>7

LEMMA GlobalFollows ==
  ASSUME Acknowledged, NEW w, NEW i, Meets(w, i), i.shape = "GLOBAL_IDX", NEW L
  PROVE  Follows(StepPlain(Picture(w), i, L, w.results), OnGlobal(w, i))
  <1> DEFINE c == StepPlain(Picture(w), i, L, w.results)
             x == OnGlobal(w, i)
             n == i.idx + 1
             g == Globals[n]
             t == <<GlobalType(i.idx)>>
             global == {Globals[k] : k \in {m \in {n} : m <= Len(Globals)}}
  <1>1. /\ i \in Calls /\ Enabled(i) /\ Busy(w) /\ w.ok /\ i.idx \in Nat
        /\ i.op \in {"GlobalGet", "GlobalSet"}
    BY CallFacts, CodeOps DEF Meets
  <1>2. Len(Globals) \in Nat
    BY ModuleAssumption
  <1>3. i.op \notin Jumps
    BY <1>1 DEF Jumps
  <1>4. c = Plain(w, RulesOf(i, L))
    BY <1>1, <1>3, StepPlainIs
  <1>5. /\ i.op = "GlobalGet" => RulesOf(i, L) = {Push(<<h.type>>) : h \in global}
        /\ i.op = "GlobalSet" =>
             RulesOf(i, L) = {Pop(<<h.type>>) : h \in {k \in global : k.mut = "Var"}}
    <2> HIDE DEF global
    <2>1. CASE i.op = "GlobalGet"
      BY <2>1 DEF RulesOf, global
    <2>2. CASE i.op = "GlobalSet"
      BY <2>2 DEF RulesOf, global
    <2>3. QED
      BY <1>1, <2>1, <2>2
  <1>6. CASE i.idx < Len(Globals)
    <2>1. n <= Len(Globals)
      BY <1>1, <1>2, <1>6
    <2>2. t \in Seq(ValTypes) /\ t = <<g.type>>
      BY <1>1, <1>6, ModuleTypes DEF GlobalType
    <2>3. global = {g}
      BY <2>1
    <2> HIDE DEF global, g
    <2>4. CASE i.op = "GlobalGet"
      <3>1. x = PushVals(w, t)
        BY <1>1, <1>2, <1>6, <2>4 DEF OnGlobal
      <3>2. RulesOf(i, L) = {Push(t)}
        BY <1>5, <2>2, <2>3, <2>4
      <3> HIDE DEF t
      <3>3. QED
        BY <1>1, <1>4, <2>2, <3>1, <3>2, PlainPush
    <2>5. CASE i.op = "GlobalSet"
      <3>1. x = PopVals(Check(w, GlobalMut(i.idx) = "Var"), t)
        BY <1>1, <1>2, <1>6, <2>5 DEF OnGlobal
      <3>2. GlobalMut(i.idx) = g.mut
        BY DEF GlobalMut, g
      <3>3. CASE g.mut = "Var"
        <4>1. x = PopVals(w, t)
          BY <3>1, <3>2, <3>3 DEF Check
        <4>2. RulesOf(i, L) = {Pop(t)}
          BY <1>5, <2>2, <2>3, <2>5, <3>3
        <4> HIDE DEF t
        <4>3. QED
          BY <1>1, <1>4, <2>2, <4>1, <4>2, PlainPop
      <3>4. CASE g.mut # "Var"
        <4>1. x = PopVals(Fail(w), t)
          BY <3>1, <3>2, <3>4 DEF Check
        <4>2. ~x.ok
          BY <1>1, <4>1, FailKeeps DEF PopVals, Busy
        <4>3. RulesOf(i, L) = {}
          BY <1>5, <2>3, <2>5, <3>4
        <4>4. QED
          BY <1>4, <4>2, <4>3, PlainNone
      <3>5. QED
        BY <3>3, <3>4
    <2>6. QED
      BY <1>1, <2>4, <2>5
  <1>7. CASE ~(i.idx < Len(Globals))
    <2>1. x = Fail(w) /\ i.idx >= Len(Globals)
      BY <1>1, <1>2, <1>7 DEF OnGlobal
    <2>2. ~x.ok
      BY <1>1, <2>1, FailKeeps DEF Busy
    <2>3. ~(n <= Len(Globals))
      BY <1>1, <1>2, <1>7
    <2>4. global = {}
      BY <2>3
    <2> HIDE DEF global, c
    <2>5. RulesOf(i, L) = {}
      BY <1>1, <1>5, <2>4
    <2>6. QED
      BY <1>4, <2>2, <2>5, PlainNone DEF c
  <1>8. QED
    BY <1>6, <1>7

LEMMA FuncFollows ==
  ASSUME Acknowledged, NEW w, NEW i, Meets(w, i), i.shape = "FUNC_IDX", NEW L
  PROVE  Follows(StepPlain(Picture(w), i, L, w.results), OnFuncIdx(w, i))
  <1> DEFINE c == StepPlain(Picture(w), i, L, w.results)
             x == OnFuncIdx(w, i)
             n == i.idx + 1
             s == FuncSig(i.idx)
             g == Types[FuncSigs[n] + 1]
             func == {Types[FuncSigs[k] + 1] : k \in {m \in {n} : m <= Len(FuncSigs)}}
             jump == {Types[FuncSigs[k] + 1].params : k \in {m \in {n} :
                         m <= Len(FuncSigs) /\ TailFits(TypeResults(FuncSigs[m]), w.results)}}
  <1>1. /\ i \in Calls /\ Enabled(i) /\ Busy(w) /\ w.ok /\ i.idx \in Nat
        /\ i.op \in {"Call", "ReturnCall", "RefFunc"}
    BY CallFacts, CodeOps DEF Meets
  <1>2. Len(FuncSigs) \in Nat
    BY ModuleAssumption
  <1>3. /\ i.op # "ReturnCall" => c = Plain(w, RulesOf(i, L))
        /\ i.op = "ReturnCall" => c = Leap(w, JumpsOf(i, w.results))
    BY <1>1, StepPlainIs DEF Jumps
  <1>4. /\ i.op = "Call" => RulesOf(i, L) = {Rule(h.params, h.results) : h \in func}
        /\ i.op = "RefFunc" => RulesOf(i, L) = {Push(<<"FuncRef">>) : h \in func}
        /\ i.op = "ReturnCall" => JumpsOf(i, w.results) = jump
    <2> HIDE DEF func, jump
    <2>1. CASE i.op = "Call"
      BY <2>1 DEF RulesOf, func
    <2>2. CASE i.op = "RefFunc"
      BY <2>2 DEF RulesOf, func
    <2>3. CASE i.op = "ReturnCall"
      BY <2>3 DEF JumpsOf, jump
    <2>4. QED
      BY <1>1, <2>1, <2>2, <2>3
  <1> HIDE DEF c
  <1>5. CASE i.idx < Len(FuncSigs)
    <2>1. n <= Len(FuncSigs)
      BY <1>1, <1>2, <1>5
    <2>2. s \in TypeIdx /\ TypeParams(s) \in Seq(ValTypes) /\ TypeResults(s) \in Seq(ValTypes)
      BY <1>1, <1>5, ModuleTypes
    <2>3. g.params = TypeParams(s) /\ g.results = TypeResults(s)
      BY DEF TypeParams, TypeResults, FuncSig
    <2>4. func = {g}
      BY <2>1
    <2>5. Departs("tail") \/ i.op # "ReturnCall"
      BY <1>1 DEF Acknowledged
    <2>6. i.op = "ReturnCall" => jump = {g.params}
      BY <2>1, <2>5 DEF TailFits
    <2> HIDE DEF func, jump, g, s
    <2>7. CASE i.op = "Call"
      <3>1. x = ApplySig(w, TypeParams(s), TypeResults(s))
        BY <1>1, <1>2, <1>5, <2>7 DEF OnFuncIdx, s
      <3>2. RulesOf(i, L) = {Rule(TypeParams(s), TypeResults(s))}
        BY <1>4, <2>3, <2>4, <2>7
      <3>3. QED
        BY <1>1, <1>3, <2>2, <2>7, <3>1, <3>2, PlainRule DEF c
    <2>8. CASE i.op = "RefFunc"
      <3>1. x = PushVals(w, <<"FuncRef">>)
        BY <1>1, <1>2, <1>5, <2>8 DEF OnFuncIdx
      <3>2. RulesOf(i, L) = {Push(<<"FuncRef">>)}
        BY <1>4, <2>4, <2>8
      <3>3. <<"FuncRef">> \in Seq(ValTypes)
        BY DEF ValTypes, RefTypes
      <3>4. QED
        BY <1>1, <1>3, <2>8, <3>1, <3>2, <3>3, PlainPush DEF c
    <2>9. CASE i.op = "ReturnCall"
      <3>1. x = Unreachable(PopVals(w, TypeParams(s)))
        BY <1>1, <1>2, <1>5, <2>9 DEF OnFuncIdx, s
      <3>2. JumpsOf(i, w.results) = {TypeParams(s)}
        BY <1>4, <2>3, <2>6, <2>9
      <3>3. QED
        BY <1>1, <1>3, <2>2, <2>9, <3>1, <3>2, LeapOne DEF c
    <2>10. QED
      BY <1>1, <2>7, <2>8, <2>9 DEF c
  <1>6. CASE ~(i.idx < Len(FuncSigs))
    <2>1. x = Fail(w) /\ i.idx >= Len(FuncSigs)
      BY <1>1, <1>2, <1>6 DEF OnFuncIdx
    <2>2. ~x.ok
      BY <1>1, <2>1, FailKeeps DEF Busy
    <2>3. ~(n <= Len(FuncSigs))
      BY <1>1, <1>2, <1>6
    <2>4. func = {} /\ jump = {}
      BY <2>3
    <2> HIDE DEF func, jump
    <2>5. /\ i.op # "ReturnCall" => RulesOf(i, L) = {}
          /\ i.op = "ReturnCall" => JumpsOf(i, w.results) = {}
      BY <1>1, <1>4, <2>4
    <2>6. QED
      BY <1>3, <2>2, <2>5, PlainNone, LeapNone DEF c
  <1>7. QED
    BY <1>5, <1>6 DEF c

LEMMA TableFollows ==
  ASSUME Acknowledged, NEW w, NEW i, Meets(w, i), i.shape = "TABLE_IDX", NEW L
  PROVE  Follows(StepPlain(Picture(w), i, L, w.results), OnTable(w, i))
  <1> DEFINE c == StepPlain(Picture(w), i, L, w.results)
             x == OnTable(w, i)
             n == i.idx + 1
             t == TableElem(i.idx)
             elem == {Tables[k] : k \in {m \in {n} : m <= Len(Tables)}}
             pops == TablePops(i.op, t)
             pushes == TablePushes(i.op, t)
  <1>1. /\ i \in Calls /\ Enabled(i) /\ Busy(w) /\ w.ok /\ i.idx \in Nat
        /\ i.op \in {"TableGet", "TableSet", "TableSize", "TableGrow", "TableFill"}
    BY CallFacts, CodeOps DEF Meets
  <1>2. Len(Tables) \in Nat
    BY ModuleAssumption
  <1>3. c = Plain(w, RulesOf(i, L))
    BY <1>1, StepPlainIs DEF Jumps
  <1>4. /\ i.op = "TableGet" => RulesOf(i, L) = {Rule(<<"I32">>, <<e>>) : e \in elem}
        /\ i.op = "TableSet" => RulesOf(i, L) = {Pop(<<"I32", e>>) : e \in elem}
        /\ i.op = "TableSize" => RulesOf(i, L) = {Push(<<"I32">>) : e \in elem}
        /\ i.op = "TableGrow" => RulesOf(i, L) = {Rule(<<e, "I32">>, <<"I32">>) : e \in elem}
        /\ i.op = "TableFill" => RulesOf(i, L) = {Pop(<<"I32", e, "I32">>) : e \in elem}
    <2> HIDE DEF elem
    <2>1. CASE i.op = "TableGet"
      BY <2>1 DEF RulesOf, elem
    <2>2. CASE i.op = "TableSet"
      BY <2>2 DEF RulesOf, elem
    <2>3. CASE i.op = "TableSize"
      BY <2>3 DEF RulesOf, elem
    <2>4. CASE i.op = "TableGrow"
      BY <2>4 DEF RulesOf, elem
    <2>5. CASE i.op = "TableFill"
      BY <2>5 DEF RulesOf, elem
    <2>6. QED
      BY <1>1, <2>1, <2>2, <2>3, <2>4, <2>5
  <1> HIDE DEF c
  <1>5. CASE i.idx < Len(Tables)
    <2>1. n <= Len(Tables)
      BY <1>1, <1>2, <1>5
    <2>2. t \in ValTypes /\ "I32" \in ValTypes
      BY <1>1, <1>5, ModuleTypes DEF ValTypes, NumTypes
    <2>3. elem = {t}
      BY <2>1 DEF TableElem
    <2> HIDE DEF elem, t
    <2>4. pops \in Seq(ValTypes) /\ pushes \in Seq(ValTypes)
      BY <1>1, <2>2 DEF TablePops, TablePushes
    <2>5. RulesOf(i, L) = {Rule(pops, pushes)}
      BY <1>1, <1>4, <2>3 DEF TablePops, TablePushes, Pop, Push
    <2>6. x = ApplySig(w, pops, pushes)
      BY <1>5 DEF OnTable, t
    <2>7. QED
      BY <1>1, <1>3, <2>4, <2>5, <2>6, PlainRule DEF c
  <1>6. CASE ~(i.idx < Len(Tables))
    <2>1. x = Fail(w)
      BY <1>6 DEF OnTable
    <2>2. ~x.ok
      BY <1>1, <2>1, FailKeeps DEF Busy
    <2>3. ~(n <= Len(Tables))
      BY <1>1, <1>2, <1>6
    <2>4. elem = {}
      BY <2>3
    <2> HIDE DEF elem
    <2>5. RulesOf(i, L) = {}
      BY <1>1, <1>4, <2>4
    <2>6. QED
      BY <1>3, <2>2, <2>5, PlainNone DEF c
  <1>7. QED
    BY <1>5, <1>6 DEF c

LEMMA AddrFacts ==
  AddrType \in ValTypes /\ AddrType = IF "MEMORY64" \in Features THEN "I64" ELSE "I32"
  BY DEF AddrType, ValTypes, NumTypes

LEMMA MemArgFollows ==
  ASSUME Acknowledged, NEW w, NEW i, Meets(w, i), i.shape = "MEMARG", NEW L
  PROVE  Follows(StepPlain(Picture(w), i, L, w.results), OnMemArg(w, i))
  <1> DEFINE c == StepPlain(Picture(w), i, L, w.results)
             x == OnMemArg(w, i)
             pop == [i.pop EXCEPT ![1] = AddrType]
  <1>1. /\ i \in Calls /\ Enabled(i) /\ Busy(w) /\ w.ok
        /\ i.pop \in Seq(ValTypes) /\ i.push \in Seq(ValTypes)
        /\ i.pop # <<>> /\ i.pop[1] = "I32"
    BY CallFacts DEF Meets, Rows
  <1>2. i.op \notin Jumps /\ RulesOf(i, L) = {Rule(pop, i.push)}
    <2>1. i.op \notin {"Drop", "Select", "Return", "Unreachable", "RefIsNull"}
      BY <1>1, CodeOps
    <2>2. i.op \notin {"LocalGet", "LocalSet", "LocalTee", "GlobalGet", "GlobalSet"}
      BY <1>1, CodeOps
    <2>3. i.op \notin {"Call", "ReturnCall", "RefFunc", "CallIndirect",
                       "ReturnCallIndirect", "SelectT"}
      BY <1>1, CodeOps
    <2>4. i.op \notin {"TableGet", "TableSet", "TableSize", "TableGrow", "TableFill"}
      BY <1>1, CodeOps
    <2>5. i.op \notin {"MemorySize", "MemoryGrow", "MemoryFill", "MemoryCopy", "MemoryInit"}
      BY <1>1, CodeOps
    <2>6. RulesOf(i, L) = {Rule([i.pop EXCEPT ![1] = IF "MEMORY64" \in Features
                                                    THEN "I64" ELSE "I32"], i.push)}
      BY <2>1, <2>2, <2>3, <2>4, <2>5 DEF RulesOf
    <2>7. QED
      BY <2>1, <2>3, <2>6 DEF Jumps, AddrType
  <1>3. pop \in Seq(ValTypes)
    BY <1>1, AddrFacts
  <1>4. x = ApplySig(w, pop, i.push)
    BY <1>1 DEF OnMemArg, Check, Meets, Enabled
  <1>5. c = Plain(w, {Rule(pop, i.push)})
    BY <1>1, <1>2, StepPlainIs
  <1> HIDE DEF c, pop, x
  <1>6. QED
    BY <1>1, <1>3, <1>4, <1>5, PlainRule DEF c, x

LEMMA Widened ==
  ASSUME NEW at
  PROVE  /\ Widen(<<>>, at) = <<>>
         /\ Widen(<<"I32">>, at) = <<IF 1 \in at THEN AddrType ELSE "I32">>
         /\ Widen(<<"I32", "I32", "I32">>, at)
              = <<IF 1 \in at THEN AddrType ELSE "I32", IF 2 \in at THEN AddrType ELSE "I32",
                  IF 3 \in at THEN AddrType ELSE "I32">>
  <1>1. Widen(<<>>, at) = <<>>
    BY DEF Widen
  <1>2. Widen(<<"I32">>, at) = <<IF 1 \in at THEN AddrType ELSE "I32">>
    BY DEF Widen
  <1>3. Widen(<<"I32", "I32", "I32">>, at)
          = <<IF 1 \in at THEN AddrType ELSE "I32", IF 2 \in at THEN AddrType ELSE "I32",
              IF 3 \in at THEN AddrType ELSE "I32">>
    BY DEF Widen
  <1>4. QED
    BY <1>1, <1>2, <1>3

LEMMA MemBulkFollows ==
  ASSUME Acknowledged, NEW w, NEW i, Meets(w, i), i.shape = "MEM_IDX", NEW L
  PROVE  Follows(StepPlain(Picture(w), i, L, w.results), OnMemBulk(w, i))
  <1> DEFINE c == StepPlain(Picture(w), i, L, w.results)
             x == OnMemBulk(w, i)
             at == AddrType
             pops == Widen(i.pop, AddressPops(i.op))
             pushes == Widen(i.push, AddressPushes(i.op))
  <1>1. /\ i \in Calls /\ Enabled(i) /\ Busy(w) /\ w.ok /\ i \in Rows
        /\ i.op \in {"MemorySize", "MemoryGrow", "MemoryFill", "MemoryCopy", "MemoryInit"}
    BY CallFacts, CodeOps DEF Meets
  <1>2. c = Plain(w, RulesOf(i, L))
    BY <1>1, StepPlainIs DEF Jumps
  <1>3. /\ i.op = "MemorySize" => RulesOf(i, L) = {Push(<<at>>)}
        /\ i.op = "MemoryGrow" => RulesOf(i, L) = {Rule(<<at>>, <<at>>)}
        /\ i.op = "MemoryFill" => RulesOf(i, L) = {Pop(<<at, "I32", at>>)}
        /\ i.op = "MemoryCopy" => RulesOf(i, L) = {Pop(<<at, at, at>>)}
        /\ i.op = "MemoryInit" => RulesOf(i, L) = {Pop(<<at, "I32", "I32">>)}
    <2>1. CASE i.op = "MemorySize"
      BY <2>1 DEF RulesOf, AddrType
    <2>2. CASE i.op = "MemoryGrow"
      BY <2>2 DEF RulesOf, AddrType
    <2>3. CASE i.op = "MemoryFill"
      BY <2>3 DEF RulesOf, AddrType
    <2>4. CASE i.op = "MemoryCopy"
      BY <2>4 DEF RulesOf, AddrType
    <2>5. CASE i.op = "MemoryInit"
      BY <2>5 DEF RulesOf, AddrType
    <2>6. QED
      BY <1>1, <2>1, <2>2, <2>3, <2>4, <2>5
  <1> HIDE DEF c
  <1>4. at \in ValTypes /\ "I32" \in ValTypes
    BY AddrFacts DEF ValTypes, NumTypes
  <1>5. x = ApplySig(w, pops, pushes)
    BY DEF OnMemBulk
  <1>6. /\ i.op = "MemorySize" => i.pop = <<>> /\ i.push = <<"I32">>
        /\ i.op = "MemoryGrow" => i.pop = <<"I32">> /\ i.push = <<"I32">>
        /\ i.op \in {"MemoryFill", "MemoryCopy", "MemoryInit"} =>
             i.pop = <<"I32", "I32", "I32">> /\ i.push = <<>>
    BY <1>1 DEF Rows
  <1>7. /\ i.op = "MemorySize" => pops = <<>> /\ pushes = <<at>>
        /\ i.op = "MemoryGrow" => pops = <<at>> /\ pushes = <<at>>
        /\ i.op = "MemoryFill" => pops = <<at, "I32", at>> /\ pushes = <<>>
        /\ i.op = "MemoryCopy" => pops = <<at, at, at>> /\ pushes = <<>>
        /\ i.op = "MemoryInit" => pops = <<at, "I32", "I32">> /\ pushes = <<>>
    BY <1>6, Widened DEF AddressPops, AddressPushes
  <1> HIDE DEF at, x, pops, pushes
  <1>8. pops \in Seq(ValTypes) /\ pushes \in Seq(ValTypes)
    <2>1. /\ <<>> \in Seq(ValTypes) /\ <<at>> \in Seq(ValTypes)
          /\ <<at, "I32", at>> \in Seq(ValTypes) /\ <<at, at, at>> \in Seq(ValTypes)
          /\ <<at, "I32", "I32">> \in Seq(ValTypes)
      BY <1>4
    <2>2. QED
      BY <1>1, <1>7, <2>1
  <1>9. RulesOf(i, L) = {Rule(pops, pushes)}
    BY <1>1, <1>3, <1>7 DEF Pop, Push
  <1>10. QED
    BY <1>1, <1>2, <1>5, <1>8, <1>9, PlainRule DEF c, x

LEMMA PairOf ==
  ASSUME NEW a \in ValTypes, NEW b \in ValTypes
  PROVE  <<a>> \o <<b>> = <<a, b>>
  <1> DEFINE x == <<a>>
             y == <<b>>
             s == x \o y
             t == <<a, b>>
  <1>1. x \in Seq(ValTypes) /\ y \in Seq(ValTypes) /\ Len(x) = 1 /\ Len(y) = 1
        /\ x[1] = a /\ y[1] = b
    OBVIOUS
  <1>2. t \in Seq(ValTypes) /\ Len(t) = 2 /\ t[1] = a /\ t[2] = b
    OBVIOUS
  <1> HIDE DEF x, y, t
  <1>3. /\ x \o y \in Seq(ValTypes) /\ Len(x \o y) = Len(x) + Len(y)
        /\ \A k \in 1 .. Len(x) : (x \o y)[k] = x[k]
        /\ \A k \in 1 .. Len(y) : (x \o y)[Len(x) + k] = y[k]
    <2>1. x \in Seq(ValTypes) /\ y \in Seq(ValTypes)
      BY <1>1
    <2>2. QED
      BY <2>1, ConcatFacts
  <1> HIDE DEF s
  <1>4. s \in Seq(ValTypes) /\ Len(s) = 2 /\ s[1] = a /\ s[2] = b
    <2>1. 1 \in 1 .. Len(x) /\ 1 \in 1 .. Len(y) /\ Len(x) + 1 = 2 /\ Len(x) + Len(y) = 2
      BY <1>1
    <2>2. QED
      BY <1>1, <1>3, <2>1 DEF s
  <1>5. \A k \in 1 .. Len(s) : s[k] = t[k]
    BY <1>2, <1>4
  <1>6. s = t
    BY <1>2, <1>4, <1>5, SeqEqual
  <1>7. QED
    BY <1>6 DEF s, t, x, y

LEMMA TripleOf ==
  ASSUME NEW a \in ValTypes, NEW b \in ValTypes, NEW c \in ValTypes
  PROVE  <<a, b>> \o <<c>> = <<a, b, c>> /\ <<a>> \o <<b, c>> = <<a, b, c>>
  <1> DEFINE x == <<a, b>>
             y == <<c>>
             s == x \o y
             t == <<a, b, c>>
  <1>1. x \in Seq(ValTypes) /\ y \in Seq(ValTypes) /\ Len(x) = 2 /\ Len(y) = 1
        /\ x[1] = a /\ x[2] = b /\ y[1] = c
    OBVIOUS
  <1>2. t \in Seq(ValTypes) /\ Len(t) = 3 /\ t[1] = a /\ t[2] = b /\ t[3] = c
    OBVIOUS
  <1> HIDE DEF x, y, t
  <1>3. /\ x \o y \in Seq(ValTypes) /\ Len(x \o y) = Len(x) + Len(y)
        /\ \A k \in 1 .. Len(x) : (x \o y)[k] = x[k]
        /\ \A k \in 1 .. Len(y) : (x \o y)[Len(x) + k] = y[k]
    <2>1. x \in Seq(ValTypes) /\ y \in Seq(ValTypes)
      BY <1>1
    <2>2. QED
      BY <2>1, ConcatFacts
  <1> HIDE DEF s
  <1>4. s \in Seq(ValTypes) /\ Len(s) = 3 /\ s[1] = a /\ s[2] = b /\ s[3] = c
    <2>1. 1 \in 1 .. Len(x) /\ 2 \in 1 .. Len(x) /\ 1 \in 1 .. Len(y)
          /\ Len(x) + 1 = 3 /\ Len(x) + Len(y) = 3
      BY <1>1
    <2>2. QED
      BY <1>1, <1>3, <2>1 DEF s
  <1>5. \A k \in 1 .. Len(s) : s[k] = t[k]
    BY <1>2, <1>4
  <1>6. s = t
    BY <1>2, <1>4, <1>5, SeqEqual
  <1>7. /\ <<a>> \o <<b>> = <<a, b>> /\ <<b>> \o <<c>> = <<b, c>>
        /\ <<a>> \in Seq(ValTypes) /\ <<b>> \in Seq(ValTypes) /\ <<c>> \in Seq(ValTypes)
    BY PairOf
  <1>8. (<<a>> \o <<b>>) \o <<c>> = <<a>> \o (<<b>> \o <<c>>)
    BY <1>7, ConcatAssociative
  <1>9. QED
    BY <1>6, <1>7, <1>8 DEF s, t, x, y

LEMMA SelectTFollows ==
  ASSUME Acknowledged, NEW w, NEW i, Meets(w, i), i.shape = "SELECT_T", NEW L
  PROVE  Follows(StepPlain(Picture(w), i, L, w.results), OnSelectT(w, i))
  <1> DEFINE c == StepPlain(Picture(w), i, L, w.results)
             x == OnSelectT(w, i)
             t == i.push[1]
  <1>1. /\ i \in Calls /\ Enabled(i) /\ Busy(w) /\ w.ok /\ i.op = "SelectT"
        /\ i.push \in Seq(ValTypes) /\ Len(i.push) = 1
    BY CallFacts, CodeOps DEF Meets
  <1>2. t \in ValTypes /\ "I32" \in ValTypes
    BY <1>1 DEF ValTypes, NumTypes
  <1>3. i.push = <<t>>
    BY <1>1
  <1>4. i.push \o i.push \o <<"I32">> = <<t, t, "I32">>
    <2> HIDE DEF t
    <2>1. <<t>> \o <<t>> = <<t, t>> /\ <<t, t>> \o <<"I32">> = <<t, t, "I32">>
      BY <1>2, PairOf, TripleOf
    <2>2. QED
      BY <1>3, <2>1
  <1>5. RulesOf(i, L) = {Rule(i.push \o i.push \o <<"I32">>, i.push)}
    BY <1>1 DEF RulesOf
  <1>6. c = Plain(w, RulesOf(i, L))
    BY <1>1, StepPlainIs DEF Jumps
  <1>7. x = ApplySig(w, <<t, t, "I32">>, <<t>>)
    BY DEF OnSelectT
  <1> HIDE DEF c, x, t
  <1>8. c = Plain(w, {Rule(<<t, t, "I32">>, <<t>>)})
    BY <1>3, <1>4, <1>5, <1>6
  <1>9. <<t, t, "I32">> \in Seq(ValTypes) /\ <<t>> \in Seq(ValTypes)
    BY <1>2
  <1>10. QED
    BY <1>1, <1>7, <1>8, <1>9, PlainRule DEF c, x

\* Operands that are popped in two steps.
LEMMA ApplyTwice ==
  ASSUME NEW w, Busy(w), w.ok, NEW a \in Seq(ValTypes), NEW b \in Seq(ValTypes),
         NEW push \in Seq(ValTypes)
  PROVE  /\ a \o b \in Seq(ValTypes)
         /\ SameVerdict(ApplySig(w, a \o b, push), ApplySig(PopVals(w, b), a, push))
         /\ SameVerdict(PopVals(w, a \o b), PopVals(PopVals(w, b), a))
  <1> DEFINE x == PopVals(w, b)
             p == Part(w)
             any == Top(w).unreachable
             q == Rest(p, b, <<>>)
             ab == a \o b
  <1>1. /\ a \in Seq(Operands) /\ b \in Seq(Operands) /\ push \in Seq(Operands)
        /\ p \in Seq(Operands) /\ <<>> \in Seq(ValTypes) /\ <<>> \in Seq(Operands)
    BY ValTypesAreOperands, PartFacts
  <1>2. ab \in Seq(ValTypes) /\ ab \in Seq(Operands)
    BY ConcatFacts, ValTypesAreOperands
  <1>3. any \in BOOLEAN
    BY TopFacts DEF Busy, Ctrl
  <1>4. /\ CanTake(p, any, ab) <=> CanTake(p, any, b) /\ CanTake(q, any, a)
        /\ \A s \in Seq(Operands) : Rest(p, ab, s) = Rest(q, a, s)
    BY <1>1, <1>3, TakeTwice
  <1>5. /\ x.ok <=> CanTake(p, any, b)
        /\ x.ok => x = With(w, q)
    BY <1>1, PopsWith
  <1>6. q \in Seq(Operands)
    BY <1>1, RestFacts
  <1>7. Good(x)
    BY <1>1, PopValsKeeps DEF Busy, Keeps
  <1> HIDE DEF x, p, q, ab, any
  <1>8. ASSUME NEW s \in Seq(ValTypes)
        PROVE  SameVerdict(ApplySig(w, ab, s), ApplySig(x, a, s))
    <2> DEFINE y == ApplySig(w, ab, s)
               z == ApplySig(x, a, s)
    <2>1. s \in Seq(Operands)
      BY ValTypesAreOperands
    <2>2. /\ y.ok <=> CanTake(p, any, ab)
          /\ y.ok => y = With(w, Rest(p, ab, s))
      BY <1>2, <2>1, ApplyWith DEF p, any
    <2>3. CASE x.ok
      <3>1. Busy(x) /\ Part(x) = q /\ Top(x) = Top(w)
        BY <1>5, <1>6, <2>3, WithFacts
      <3>2. /\ z.ok <=> CanTake(q, any, a)
            /\ z.ok => z = With(x, Rest(q, a, s))
        BY <1>1, <2>1, <2>3, <3>1, ApplyWith DEF any
      <3>3. With(x, Rest(q, a, s)) = With(w, Rest(q, a, s))
        BY <1>5, <1>6, <2>3, WithTwice
      <3>4. y.ok \in BOOLEAN /\ z.ok \in BOOLEAN
        <4>1. Good(y) /\ Good(z)
          BY <1>1, <1>2, <2>1, <3>1, Steps DEF Keeps
        <4>2. QED
          BY <4>1, GoodFacts
      <3> HIDE DEF y, z
      <3>5. y.ok <=> z.ok
        BY <1>4, <1>5, <2>2, <2>3, <3>2
      <3>6. Rest(p, ab, s) = Rest(q, a, s)
        BY <1>4, <2>1
      <3>7. y.ok => y = z
        BY <2>2, <3>2, <3>3, <3>5, <3>6
      <3>8. QED
        BY <3>4, <3>5, <3>7 DEF SameVerdict, y, z
    <2>4. CASE ~x.ok
      <3>1. z = x
        BY <2>4 DEF ApplySig, PopVals, PushVals
      <3>2. ~y.ok
        BY <1>4, <1>5, <2>2, <2>4
      <3>3. y.ok \in BOOLEAN /\ x.ok \in BOOLEAN
        <4>1. Good(y)
          BY <1>2, <2>1, Steps DEF Keeps
        <4>2. QED
          BY <1>7, <4>1, GoodFacts
      <3>4. QED
        BY <2>4, <3>1, <3>2, <3>3 DEF SameVerdict
    <2>5. QED
      BY <2>3, <2>4
  <1>9. SameVerdict(PopVals(w, ab), PopVals(x, a))
    <2>1. SameVerdict(ApplySig(w, ab, <<>>), ApplySig(x, a, <<>>))
      BY <1>1, <1>8
    <2>2. Good(PopVals(w, ab))
      BY <1>2, PopValsKeeps DEF Busy, Keeps
    <2>3. Busy(x)
      BY <1>1, Steps, KeepsBusy DEF x
    <2>4. Good(PopVals(x, a))
      BY <1>1, <2>3, PopValsKeeps DEF Busy, Keeps
    <2>5. ApplySig(w, ab, <<>>) = PopVals(w, ab) /\ ApplySig(x, a, <<>>) = PopVals(x, a)
      BY <2>2, <2>4, PushNone DEF ApplySig
    <2>6. QED
      BY <2>1, <2>5
  <1>10. QED
    BY <1>2, <1>8, <1>9 DEF ab, x

LEMMA UnreachableSame ==
  ASSUME NEW x, Good(x), NEW y, Good(y), SameVerdict(x, y)
  PROVE  SameVerdict(Unreachable(x), Unreachable(y))
  <1>1. CASE x.ok
    <2>1. x = y
      BY <1>1 DEF SameVerdict
    <2>2. QED
      BY <2>1 DEF SameVerdict
  <1>2. CASE ~x.ok
    <2>1. ~y.ok
      BY <1>2 DEF SameVerdict
    <2>2. Unreachable(x) = x /\ Unreachable(y) = y
      BY <1>2, <2>1 DEF Unreachable
    <2>3. QED
      BY <2>2
  <1>3. QED
    BY <1>1, <1>2

LEMMA IndirectFollows ==
  ASSUME Acknowledged, NEW w, NEW i, Meets(w, i), i.shape = "CALL_INDIRECT", NEW L
  PROVE  Follows(StepPlain(Picture(w), i, L, w.results), OnCallIndirect(w, i))
  <1> DEFINE c == StepPlain(Picture(w), i, L, w.results)
             x == OnCallIndirect(w, i)
             t == i.idx
             in == TypeParams(t)
             out == TypeResults(t)
             b == <<"I32">>
             jump == {TypeParams(k) \o b : k \in {m \in {t} :
                        HasFunctions(i.idx2) /\ m < Len(Types)
                          /\ TailFits(TypeResults(m), w.results)}}
  <1>1. /\ i \in Calls /\ Enabled(i) /\ Busy(w) /\ w.ok /\ i.idx \in Nat /\ i.idx2 \in Nat
        /\ i.op \in {"CallIndirect", "ReturnCallIndirect"}
    BY CallFacts, CodeOps DEF Meets
  <1>2. Len(Types) \in Nat /\ Len(Tables) \in Nat
    BY ModuleAssumption
  <1>3. /\ i.op = "CallIndirect" => c = Plain(w, RulesOf(i, L))
        /\ i.op = "ReturnCallIndirect" => c = Leap(w, JumpsOf(i, w.results))
    BY <1>1, StepPlainIs DEF Jumps
  <1>4. /\ i.op = "CallIndirect" =>
             RulesOf(i, L) = IF HasFunctions(i.idx2) /\ t < Len(Types)
                             THEN {Rule(in \o b, out)} ELSE {}
        /\ i.op = "ReturnCallIndirect" => JumpsOf(i, w.results) = jump
    <2> HIDE DEF jump
    <2>1. CASE i.op = "CallIndirect"
      BY <2>1 DEF RulesOf
    <2>2. CASE i.op = "ReturnCallIndirect"
      BY <2>2 DEF JumpsOf, jump
    <2>3. QED
      BY <1>1, <2>1, <2>2
  <1> HIDE DEF c
  <1>5. HasFunctions(i.idx2) <=> i.idx2 < Len(Tables)
    <2>1. i.idx2 < Len(Tables) => i.idx2 + 1 \in 1 .. Len(Tables)
      BY <1>1, <1>2
    <2>2. QED
      BY <2>1 DEF HasFunctions, Acknowledged
  <1>6. i.op = "ReturnCallIndirect" => TailFits(out, w.results)
    BY <1>1 DEF Acknowledged, TailFits
  <1>7. b \in Seq(ValTypes)
    BY DEF ValTypes, NumTypes
  <1>8. CASE i.idx2 < Len(Tables) /\ t < Len(Types)
    <2>1. t \in TypeIdx
      BY <1>1, <1>2, <1>8 DEF TypeIdx
    <2>2. in \in Seq(ValTypes) /\ out \in Seq(ValTypes)
      BY <2>1, ModuleTypes
    <2>3. jump = {in \o b} \/ i.op # "ReturnCallIndirect"
      BY <1>5, <1>6, <1>8
    <2>4. x = IF i.op = "CallIndirect" THEN ApplySig(PopVals(w, b), in, out)
              ELSE Unreachable(PopVals(PopVals(w, b), in))
      BY <1>8 DEF OnCallIndirect
    <2> HIDE DEF jump, in, out, b, x
    <2>5. /\ in \o b \in Seq(ValTypes)
          /\ SameVerdict(ApplySig(w, in \o b, out), ApplySig(PopVals(w, b), in, out))
          /\ SameVerdict(PopVals(w, in \o b), PopVals(PopVals(w, b), in))
      BY <1>1, <1>7, <2>2, ApplyTwice
    <2>6. CASE i.op = "CallIndirect"
      <3>1. RulesOf(i, L) = {Rule(in \o b, out)}
        BY <1>4, <1>5, <1>8, <2>6
      <3>2. Follows(Plain(w, {Rule(in \o b, out)}), ApplySig(w, in \o b, out))
        BY <1>1, <2>2, <2>5, PlainRule
      <3>3. Follows(c, ApplySig(w, in \o b, out))
        BY <1>3, <2>6, <3>1, <3>2
      <3>4. Follows(c, ApplySig(PopVals(w, b), in, out))
        BY <2>5, <3>3, FollowsSame
      <3>5. x = ApplySig(PopVals(w, b), in, out)
        BY <2>4, <2>6
      <3>6. QED
        BY <3>4, <3>5 DEF c, x
    <2>7. CASE i.op = "ReturnCallIndirect"
      <3>1. JumpsOf(i, w.results) = {in \o b}
        BY <1>4, <2>3, <2>7
      <3>2. Follows(Leap(w, {in \o b}), Unreachable(PopVals(w, in \o b)))
        BY <1>1, <2>5, LeapOne
      <3>3. Good(PopVals(w, in \o b)) /\ Good(PopVals(PopVals(w, b), in))
        <4>1. in \in Seq(Operands) /\ b \in Seq(Operands) /\ in \o b \in Seq(Operands)
          BY <1>7, <2>2, <2>5, ValTypesAreOperands
        <4>2. Keeps(w, PopVals(w, b)) /\ Keeps(w, PopVals(w, in \o b))
          BY <1>1, <4>1, Steps
        <4>3. Busy(PopVals(w, b))
          BY <1>1, <4>2, KeepsBusy
        <4>4. Keeps(PopVals(w, b), PopVals(PopVals(w, b), in))
          BY <4>1, <4>3, Steps
        <4>5. QED
          BY <4>2, <4>4 DEF Keeps
      <3>4. SameVerdict(Unreachable(PopVals(w, in \o b)),
                        Unreachable(PopVals(PopVals(w, b), in)))
        BY <2>5, <3>3, UnreachableSame
      <3>5. x = Unreachable(PopVals(PopVals(w, b), in))
        BY <2>4, <2>7
      <3>6. Follows(c, Unreachable(PopVals(w, in \o b)))
        BY <1>3, <2>7, <3>1, <3>2
      <3>7. Follows(c, Unreachable(PopVals(PopVals(w, b), in)))
        BY <3>4, <3>6, FollowsSame
      <3>8. QED
        BY <3>5, <3>7 DEF c, x
    <2>8. QED
      BY <1>1, <2>6, <2>7 DEF c, x
  <1>9. CASE ~(i.idx2 < Len(Tables) /\ t < Len(Types))
    <2>1. x = Fail(w)
      BY <1>9 DEF OnCallIndirect
    <2>2. ~x.ok
      BY <1>1, <2>1, FailKeeps DEF Busy
    <2>3. jump = {}
      BY <1>5, <1>9
    <2> HIDE DEF jump, x
    <2>4. /\ i.op = "CallIndirect" => RulesOf(i, L) = {}
          /\ i.op = "ReturnCallIndirect" => JumpsOf(i, w.results) = {}
      BY <1>4, <1>5, <1>9, <2>3
    <2>5. QED
      BY <1>1, <1>3, <2>2, <2>4, PlainNone, LeapNone DEF c, x
  <1>10. QED
    BY <1>8, <1>9 DEF c

-----------------------------------------------------------------------------
(***************************************************************************)
(* The polymorphic instructions: an operand of any type is one of each.    *)
(***************************************************************************)
Peek(p) == IF Len(p) > 0 THEN p[Len(p)] ELSE Unknown
MayBe(e, t) == e = t \/ Unknown \in {e, t}

LEMMA TakeOne ==
  ASSUME NEW p \in Seq(Operands), NEW any, NEW t
  PROVE  CanTake(p, any, <<t>>) <=> (any \/ Len(p) > 0) /\ MayBe(Peek(p), t)
  <1> DEFINE ts == <<t>>
  <1>1. Len(ts) = 1 /\ ts[1] = t /\ Len(p) \in Nat
    OBVIOUS
  <1> HIDE DEF ts
  <1>2. CASE Len(p) > 0
    <2>1. Common(p, ts) = 1
      BY <1>1, <1>2 DEF Common
    <2>2. 0 .. Common(p, ts) - 1 = {0}
      BY <2>1
    <2>3. Len(p) - 0 = Len(p) /\ Len(ts) - 0 = 1
      BY <1>1
    <2>4. Len(ts) <= Len(p)
      BY <1>1, <1>2
    <2>5. CanTake(p, any, ts) <=> MayBe(p[Len(p)], t)
      BY <1>1, <2>2, <2>3, <2>4 DEF CanTake, MayBe
    <2>6. QED
      BY <1>2, <2>5 DEF Peek, ts
  <1>3. CASE ~(Len(p) > 0)
    <2>1. Len(p) = 0
      BY <1>1, <1>3
    <2>2. Common(p, ts) = 0
      BY <1>1, <2>1 DEF Common
    <2>3. 0 .. Common(p, ts) - 1 = {}
      BY <2>2
    <2>4. ~(Len(ts) <= Len(p))
      BY <1>1, <2>1
    <2>5. CanTake(p, any, ts) <=> any
      BY <2>3, <2>4 DEF CanTake
    <2>6. QED
      BY <1>3, <2>5 DEF Peek, MayBe, ts
  <1>4. QED
    BY <1>2, <1>3

LEMMA PeekType ==
  ASSUME NEW p \in Seq(Operands)
  PROVE  Peek(p) \in Operands
  <1>1. Unknown \in Operands /\ (Len(p) > 0 => Len(p) \in 1 .. Len(p))
    BY DEF Operands
  <1>2. QED
    BY <1>1 DEF Peek

\* What the method looks at.
LEMMA OperandPeek ==
  ASSUME NEW w, Busy(w)
  PROVE  Operand(w, 0) = Peek(Part(w))
  <1>1. /\ Len(Part(w)) = Available(w) /\ Available(w) \in Nat
        /\ Available(w) = Len(w.vals) - Top(w).height
        /\ \A k \in 1 .. Len(Part(w)) : Part(w)[k] = w.vals[Top(w).height + k]
        /\ Top(w).height \in Nat /\ Len(w.vals) \in Nat
    BY PartFacts, TopFacts, GoodFacts DEF Busy
  <1>2. CASE Len(Part(w)) > 0
    <2>1. /\ Len(Part(w)) \in 1 .. Len(Part(w)) /\ 0 < Available(w)
          /\ Top(w).height + Len(Part(w)) = Len(w.vals) - 0
      BY <1>1, <1>2
    <2>2. QED
      BY <1>1, <1>2, <2>1 DEF Operand, Peek
  <1>3. CASE ~(Len(Part(w)) > 0)
    <2>1. ~(0 < Available(w))
      BY <1>1, <1>3
    <2>2. QED
      BY <1>3, <2>1 DEF Operand, Peek
  <1>4. QED
    BY <1>2, <1>3

\* Operands q with e on top stand for what they stand for with a type on top
\* that e may be.
LEMMA StandsUnion ==
  ASSUME Acknowledged, NEW q \in Seq(Operands), NEW e \in Operands
  PROVE  Stands(q \o <<e>>) = UNION {Stands(q \o <<t>>) : t \in {u \in ValTypes : MayBe(e, u)}}
  <1> DEFINE n == Len(q)
  <1>1. n \in Nat
    OBVIOUS
  <1>2. ASSUME NEW a \in Operands
        PROVE  /\ Len(q \o <<a>>) = n + 1
               /\ \A k \in 1 .. n : (q \o <<a>>)[k] = q[k]
               /\ (q \o <<a>>)[n + 1] = a
    <2> DEFINE y == <<a>>
    <2>1. y \in Seq(Operands) /\ Len(y) = 1 /\ y[1] = a /\ 1 \in 1 .. Len(y)
      OBVIOUS
    <2> HIDE DEF y
    <2>2. q \in Seq(Operands) /\ y \in Seq(Operands)
      BY <2>1
    <2>3. /\ Len(q \o y) = Len(q) + Len(y)
          /\ \A k \in 1 .. Len(q) : (q \o y)[k] = q[k]
          /\ \A k \in 1 .. Len(y) : (q \o y)[Len(q) + k] = y[k]
      BY <2>2, ConcatFacts
    <2>4. QED
      BY <2>1, <2>3 DEF y
  <1>3. ASSUME NEW a \in Operands, NEW s
        PROVE  s \in Stands(q \o <<a>>) <=>
                 /\ s \in [1 .. n + 1 -> ValTypes]
                 /\ \A k \in 1 .. n : q[k] \in {s[k], Unknown}
                 /\ a \in {s[n + 1], Unknown}
    <2> DEFINE z == q \o <<a>>
    <2>1. Len(z) = n + 1 /\ (\A k \in 1 .. n : z[k] = q[k]) /\ z[n + 1] = a
      BY <1>2
    <2> HIDE DEF z, n
    <2>2. \A k : k \in 1 .. n + 1 <=> (k \in 1 .. n \/ k = n + 1)
      BY <1>1
    <2>3. s \in Stands(z) <=> /\ s \in [1 .. n + 1 -> ValTypes]
                              /\ \A k \in 1 .. n + 1 : z[k] \in {s[k], Unknown}
      BY <2>1, AlphabetFacts DEF Stands
    <2>4. QED
      BY <2>1, <2>2, <2>3 DEF z
  <1>4. ASSUME NEW s \in Stands(q \o <<e>>)
        PROVE  s[n + 1] \in ValTypes /\ MayBe(e, s[n + 1]) /\ s \in Stands(q \o <<s[n + 1]>>)
    <2>1. /\ s \in [1 .. n + 1 -> ValTypes]
          /\ \A k \in 1 .. n : q[k] \in {s[k], Unknown}
          /\ e \in {s[n + 1], Unknown}
      BY <1>3
    <2>2. s[n + 1] \in ValTypes
      BY <1>1, <2>1
    <2>3. s[n + 1] \in Operands
      BY <2>2 DEF Operands
    <2>4. s \in Stands(q \o <<s[n + 1]>>)
      BY <1>3, <2>1, <2>3
    <2>5. QED
      BY <2>1, <2>2, <2>4 DEF MayBe
  <1>5. ASSUME NEW t \in ValTypes, MayBe(e, t), NEW s \in Stands(q \o <<t>>)
        PROVE  s \in Stands(q \o <<e>>)
    <2>1. t \in Operands /\ t # Unknown
      BY AlphabetFacts DEF Operands
    <2>2. /\ s \in [1 .. n + 1 -> ValTypes]
          /\ \A k \in 1 .. n : q[k] \in {s[k], Unknown}
          /\ t \in {s[n + 1], Unknown}
      BY <1>3, <2>1
    <2>3. e \in {s[n + 1], Unknown}
      BY <1>5, <2>1, <2>2 DEF MayBe
    <2>4. QED
      BY <1>3, <2>2, <2>3
  <1>6. QED
    BY <1>4, <1>5

\* Some type is what both operands may be if they are the same or one is
\* Unknown.
LEMMA SomeType ==
  ASSUME Acknowledged, NEW e \in Operands
  PROVE  \E t \in ValTypes : MayBe(e, t)
  <1>1. CASE e = Unknown
    BY <1>1, AlphabetFacts DEF MayBe
  <1>2. CASE e # Unknown
    BY <1>2 DEF Operands, MayBe
  <1>3. QED
    BY <1>1, <1>2

LEMMA SameLength ==
  ASSUME NEW p, NEW a, NEW b, Len(a) = Len(b), NEW push
  PROVE  Rest(p, a, push) = Rest(p, b, push)
  BY DEF Rest, Common

LEMMA PolymorphicRules ==
  ASSUME NEW i \in Calls, i.shape = "NONE", NEW L
  PROVE  /\ i.op = "Drop" => RulesOf(i, L) = {Pop(<<t>>) : t \in Alphabet}
         /\ i.op = "Select" =>
              RulesOf(i, L) = {Rule(<<t, t, "I32">>, <<t>>) : t \in Selectable}
         /\ i.op = "RefIsNull" => RulesOf(i, L) = {Rule(<<t>>, <<"I32">>) : t \in Nullable}
  <1> DEFINE drop == {Pop(<<t>>) : t \in Alphabet}
             select == {Rule(<<t, t, "I32">>, <<t>>) : t \in Selectable}
             isnull == {Rule(<<t>>, <<"I32">>) : t \in Nullable}
  <1>1. CASE i.op = "Drop"
    <2>1. RulesOf(i, L) = drop
      BY <1>1 DEF RulesOf
    <2>2. QED
      BY <1>1, <2>1
  <1>2. CASE i.op = "Select"
    <2>1. RulesOf(i, L) = select
      BY <1>2 DEF RulesOf
    <2>2. QED
      BY <1>2, <2>1
  <1>3. CASE i.op = "RefIsNull"
    <2>1. RulesOf(i, L) = isnull
      BY <1>3 DEF RulesOf
    <2>2. QED
      BY <1>3, <2>1
  <1>4. QED
    BY <1>1, <1>2, <1>3

LEMMA AnyFollows ==
  ASSUME Acknowledged, NEW w, Busy(w), w.ok, NEW push \in Seq(ValTypes)
  PROVE  Follows(WithStacks(Picture(w), UNION {After(Last(Picture(w)), <<t>>, push) :
                                                 t \in ValTypes}),
                 ApplySig(w, <<Unknown>>, push))
  <1> DEFINE x == ApplySig(w, <<Unknown>>, push)
             f == Last(Picture(w))
             p == Part(w)
             r == Rest(p, <<Unknown>>, push)
             S == UNION {After(f, <<t>>, push) : t \in ValTypes}
  <1>1. p \in Seq(Operands) /\ push \in Seq(Operands) /\ <<Unknown>> \in Seq(Operands)
    BY PartFacts, ValTypesAreOperands DEF Operands
  <1>2. f.stacks = Stands(p) /\ f.any = Top(w).unreachable
    BY PictureFacts
  <1>3. /\ x.ok <=> CanTake(p, f.any, <<Unknown>>)
        /\ x.ok => x = With(w, r)
    BY <1>1, <1>2, ApplyWith
  <1>4. r \in Seq(Operands)
    BY <1>1, RestFacts
  <1> HIDE DEF x, f, p
  <1>5. ASSUME NEW t \in ValTypes
        PROVE  /\ CanTake(p, f.any, <<t>>) => After(f, <<t>>, push) = Stands(r)
               /\ ~CanTake(p, f.any, <<t>>) => After(f, <<t>>, push) = {}
    <2> DEFINE ts == <<t>>
    <2>1. ts \in Seq(ValTypes) /\ Len(ts) = Len(<<Unknown>>)
      OBVIOUS
    <2> HIDE DEF ts
    <2>2. Rest(p, ts, push) = r
      BY <2>1, SameLength
    <2> HIDE DEF r
    <2>3. /\ CanTake(p, f.any, ts) => After(f, ts, push) = Stands(Rest(p, ts, push))
          /\ ~CanTake(p, f.any, ts) => After(f, ts, push) = {}
      BY <1>1, <1>2, <2>1, AfterFacts
    <2>4. QED
      BY <2>2, <2>3 DEF ts
  <1>6. CASE x.ok
    <2>1. f.any \/ Len(p) > 0
      BY <1>1, <1>3, <1>6, TakeOne
    <2>2. PICK t \in ValTypes : MayBe(Peek(p), t)
      BY <1>1, PeekType, SomeType
    <2>3. CanTake(p, f.any, <<t>>)
      BY <1>1, <2>1, <2>2, TakeOne
    <2>4. S = Stands(r)
      BY <1>5, <2>3
    <2> HIDE DEF r, S
    <2>5. WithStacks(Picture(w), Stands(r)) = Picture(With(w, r))
      BY <1>4, PictureWith
    <2>6. QED
      BY <1>3, <1>6, <2>4, <2>5 DEF Follows, S, x, f
  <1>7. CASE ~x.ok
    <2>1. ~(f.any \/ Len(p) > 0)
      <3>1. MayBe(Peek(p), Unknown)
        BY DEF MayBe
      <3>2. QED
        BY <1>1, <1>3, <1>7, <3>1, TakeOne
    <2>2. ASSUME NEW t \in ValTypes PROVE ~CanTake(p, f.any, <<t>>)
      <3>1. CanTake(p, f.any, <<t>>) <=> (f.any \/ Len(p) > 0) /\ MayBe(Peek(p), t)
        BY <1>1, TakeOne
      <3>2. QED
        BY <2>1, <3>1
    <2>3. S = {}
      BY <1>5, <2>2
    <2> HIDE DEF S
    <2>4. QED
      BY <1>7, <2>3 DEF Follows, WithStacks, S, x, f
  <1>8. QED
    BY <1>6, <1>7 DEF x, f

LEMMA DropFollows ==
  ASSUME Acknowledged, NEW w, NEW i, Meets(w, i), i.op = "Drop", NEW L
  PROVE  Follows(StepPlain(Picture(w), i, L, w.results), PopVals(w, <<Unknown>>))
  <1> DEFINE f == Last(Picture(w))
             S == UNION {After(f, <<t>>, <<>>) : t \in ValTypes}
  <1>1. i \in Calls /\ Enabled(i) /\ Busy(w) /\ w.ok
    BY DEF Meets
  <1>2. RulesOf(i, L) = {Pop(<<t>>) : t \in ValTypes}
    BY <1>1, AlphabetFacts, CodeOps, PolymorphicRules, Zenon
  <1>3. StepPlain(Picture(w), i, L, w.results) = Plain(w, RulesOf(i, L))
    BY <1>1, StepPlainIs DEF Jumps
  <1>4. \A t : Pop(<<t>>).pop = <<t>> /\ Pop(<<t>>).push = <<>>
    BY DEF Pop, Rule
  <1> HIDE DEF f
  <1>5. UNION {After(f, u.pop, u.push) : u \in RulesOf(i, L)} = S
    BY <1>2, <1>4
  <1>6. Follows(WithStacks(Picture(w), S), ApplySig(w, <<Unknown>>, <<>>))
    <2>1. <<>> \in Seq(ValTypes)
      OBVIOUS
    <2>2. QED
      BY <1>1, <2>1, AnyFollows DEF f
  <1>7. ApplySig(w, <<Unknown>>, <<>>) = PopVals(w, <<Unknown>>)
    <2>1. <<Unknown>> \in Seq(Operands)
      BY DEF Operands
    <2>2. Good(PopVals(w, <<Unknown>>))
      BY <1>1, <2>1, PopValsKeeps DEF Keeps, Busy
    <2>3. QED
      BY <2>2, PushNone DEF ApplySig
  <1> HIDE DEF S
  <1>8. QED
    BY <1>3, <1>5, <1>6, <1>7 DEF Plain, f

LEMMA IsNullFollows ==
  ASSUME Acknowledged, NEW w, NEW i, Meets(w, i), i.op = "RefIsNull", NEW L
  PROVE  Follows(StepPlain(Picture(w), i, L, w.results), ApplySig(w, <<Unknown>>, <<"I32">>))
  <1> DEFINE f == Last(Picture(w))
             push == <<"I32">>
             S == UNION {After(f, <<t>>, push) : t \in ValTypes}
  <1>1. i \in Calls /\ Enabled(i) /\ Busy(w) /\ w.ok
    BY DEF Meets
  <1>2. RulesOf(i, L) = {Rule(<<t>>, push) : t \in ValTypes}
    <2>1. Nullable = ValTypes
      BY <1>1, AlphabetFacts DEF Nullable, Acknowledged
    <2>2. QED
      BY <1>1, <2>1, CodeOps, PolymorphicRules, Zenon
  <1>3. StepPlain(Picture(w), i, L, w.results) = Plain(w, RulesOf(i, L))
    BY <1>1, StepPlainIs DEF Jumps
  <1>4. \A t : Rule(<<t>>, push).pop = <<t>> /\ Rule(<<t>>, push).push = push
    BY DEF Rule
  <1>5. push \in Seq(ValTypes)
    BY AlphabetFacts
  <1> HIDE DEF f, push
  <1>6. UNION {After(f, u.pop, u.push) : u \in RulesOf(i, L)} = S
    BY <1>2, <1>4
  <1>7. Follows(WithStacks(Picture(w), S), ApplySig(w, <<Unknown>>, push))
    BY <1>1, <1>5, AnyFollows DEF f
  <1> HIDE DEF S
  <1>8. QED
    BY <1>3, <1>6, <1>7 DEF Plain, f, push

\* What is left of the operands of a select after one, two and three pops.
First(p) == Rest(p, <<"I32">>, <<>>)
Second(p) == Rest(First(p), <<Unknown>>, <<>>)
Third(p) == Rest(Second(p), <<Unknown>>, <<>>)
Join(e1, e2) == IF e2 = Unknown THEN e1 ELSE e2

LEMMA RestTypes ==
  ASSUME NEW p \in Seq(Operands)
  PROVE  First(p) \in Seq(Operands) /\ Second(p) \in Seq(Operands) /\ Third(p) \in Seq(Operands)
  <1>1. <<"I32">> \in Seq(Operands) /\ <<Unknown>> \in Seq(Operands) /\ <<>> \in Seq(Operands)
    BY DEF Operands, ValTypes, NumTypes
  <1>2. First(p) \in Seq(Operands)
    BY <1>1, RestFacts DEF First
  <1>3. Second(p) \in Seq(Operands)
    BY <1>1, <1>2, RestFacts DEF Second
  <1>4. QED
    BY <1>1, <1>2, <1>3, RestFacts DEF Third

LEMMA JoinFacts ==
  ASSUME Acknowledged, NEW e1 \in Operands, NEW e2 \in Operands, NEW t \in ValTypes
  PROVE  /\ Join(e1, e2) \in Operands
         /\ MayBe(e1, t) /\ MayBe(e2, t) <=> MayBe(e2, e1) /\ MayBe(Join(e1, e2), t)
  BY AlphabetFacts DEF Join, MayBe, Operands

LEMMA SelectTakes ==
  ASSUME NEW p \in Seq(Operands), NEW any \in BOOLEAN, NEW t \in ValTypes
  PROVE  /\ CanTake(p, any, <<t, t, "I32">>) <=>
              /\ CanTake(p, any, <<"I32">>)
              /\ CanTake(First(p), any, <<t>>) /\ CanTake(Second(p), any, <<t>>)
         /\ Rest(p, <<t, t, "I32">>, <<t>>) = Third(p) \o <<t>>
  <1> DEFINE one == <<t>>
             last == <<"I32">>
             two == <<t, "I32">>
             three == <<t, t, "I32">>
             any1 == <<Unknown>>
             none == <<>>
  <1>1. /\ one \in Seq(ValTypes) /\ last \in Seq(ValTypes) /\ two \in Seq(ValTypes)
        /\ three \in Seq(ValTypes) /\ any1 \in Seq(Operands) /\ none \in Seq(Operands)
        /\ Len(one) = Len(any1)
    BY DEF ValTypes, NumTypes, Operands
  <1>2. two = one \o last /\ three = one \o two
    <2>1. "I32" \in ValTypes
      BY DEF ValTypes, NumTypes
    <2>2. QED
      BY <2>1, PairOf, TripleOf
  <1>3. First(p) = Rest(p, last, none) /\ Second(p) = Rest(First(p), any1, none)
        /\ Third(p) = Rest(Second(p), any1, none)
    BY DEF First, Second, Third
  <1> HIDE DEF one, last, two, three, any1, none
  <1>4. /\ one \in Seq(Operands) /\ last \in Seq(Operands) /\ two \in Seq(Operands)
        /\ none \in Seq(Operands)
    BY <1>1, ValTypesAreOperands
  <1>5. First(p) \in Seq(Operands) /\ Second(p) \in Seq(Operands)
    BY RestTypes
  <1>6. /\ CanTake(p, any, one \o last) <=>
             CanTake(p, any, last) /\ CanTake(Rest(p, last, <<>>), any, one)
        /\ \A push \in Seq(Operands) :
             Rest(p, one \o last, push) = Rest(Rest(p, last, <<>>), one, push)
    BY <1>4, TakeTwice
  <1>7. Rest(p, two, none) = Second(p)
    <2>1. Rest(First(p), one, none) = Rest(First(p), any1, none)
      BY <1>1, SameLength
    <2>2. QED
      BY <1>2, <1>3, <1>4, <1>6, <2>1 DEF none
  <1>8. CanTake(p, any, two) <=> CanTake(p, any, last) /\ CanTake(First(p), any, one)
    BY <1>2, <1>3, <1>6 DEF none
  <1>9. /\ CanTake(p, any, one \o two) <=>
             CanTake(p, any, two) /\ CanTake(Rest(p, two, <<>>), any, one)
        /\ \A push \in Seq(Operands) :
             Rest(p, one \o two, push) = Rest(Rest(p, two, <<>>), one, push)
    BY <1>4, TakeTwice
  <1>10. CanTake(p, any, three) <=> /\ CanTake(p, any, last) /\ CanTake(First(p), any, one)
                                    /\ CanTake(Second(p), any, one)
    BY <1>2, <1>7, <1>8, <1>9 DEF none
  <1>11. Rest(p, three, one) = Rest(Second(p), one, one)
    BY <1>2, <1>4, <1>7, <1>9 DEF none
  <1>12. Rest(Second(p), one, one) = Rest(Second(p), any1, one)
    BY <1>1, SameLength
  <1>13. Rest(Second(p), any1, <<>>) \o one = Rest(Second(p), any1, one)
    BY <1>1, <1>4, <1>5, RestThen
  <1>14. Rest(p, three, one) = Third(p) \o one
    BY <1>3, <1>11, <1>12, <1>13 DEF none
  <1>15. QED
    BY <1>10, <1>14 DEF one, three, last

\* What the method makes of the operands.
LEMMA SelectWith ==
  ASSUME NEW w, Busy(w), w.ok
  PROVE  LET p == Part(w)
             any == Top(w).unreachable
             e1 == Peek(First(p))
             e2 == Peek(Second(p))
             y == OnSelect(w)
         IN  /\ y.ok <=> /\ CanTake(p, any, <<"I32">>) /\ CanTake(First(p), any, <<Unknown>>)
                         /\ CanTake(Second(p), any, <<e1>>)
             /\ y.ok => y = With(w, Third(p) \o <<Join(e1, e2)>>)
  <1> DEFINE p == Part(w)
             any == Top(w).unreachable
             e1 == Peek(First(p))
             e2 == Peek(Second(p))
             w1 == PopVals(w, <<"I32">>)
             w2 == PopVals(w1, <<Unknown>>)
             t2 == Operand(w1, 0)
             t1 == Operand(w2, 0)
             w3 == PopVals(w2, <<t2>>)
             top == <<IF t1 = Unknown THEN t2 ELSE t1>>
             y == OnSelect(w)
  <1>1. y = PushVals(w3, top)
    BY DEF OnSelect
  <1>2. /\ p \in Seq(Operands) /\ <<"I32">> \in Seq(Operands) /\ <<Unknown>> \in Seq(Operands)
        /\ <<>> \in Seq(Operands)
    BY PartFacts DEF Operands, ValTypes, NumTypes
  <1>3. /\ First(p) \in Seq(Operands) /\ Second(p) \in Seq(Operands)
        /\ Third(p) \in Seq(Operands)
    BY <1>2, RestTypes
  <1>4. /\ w1.ok <=> CanTake(p, any, <<"I32">>)
        /\ w1.ok => w1 = With(w, First(p))
    BY <1>2, PopsWith DEF First
  <1> HIDE DEF w1, y, p
  <1>5. CASE ~w1.ok
    <2>1. w2 = w1
      BY <1>5 DEF PopVals
    <2>2. w3 = w2
      BY <1>5, <2>1 DEF PopVals
    <2>3. ~y.ok
      BY <1>1, <1>5, <2>1, <2>2 DEF PushVals
    <2>4. QED
      BY <1>4, <1>5, <2>3 DEF p, y
  <1>6. CASE w1.ok
    <2>1. Busy(w1) /\ Part(w1) = First(p) /\ Top(w1) = Top(w)
      BY <1>3, <1>4, <1>6, WithFacts
    <2>2. /\ w2.ok <=> CanTake(First(p), any, <<Unknown>>)
          /\ w2.ok => w2 = With(w1, Second(p))
      BY <1>2, <1>6, <2>1, PopsWith DEF Second
    <2>3. With(w1, Second(p)) = With(w, Second(p))
      BY <1>3, <1>4, <1>6, WithTwice
    <2>4. t2 = e1 /\ e1 \in Operands
      BY <1>3, <2>1, OperandPeek, PeekType
    <2> HIDE DEF w2
    <2>5. CASE ~w2.ok
      <3>1. w3 = w2
        BY <2>5 DEF PopVals
      <3>2. ~y.ok
        BY <1>1, <2>5, <3>1 DEF PushVals
      <3>3. QED
        BY <2>2, <2>5, <3>2 DEF p, y
    <2>6. CASE w2.ok
      <3>1. Busy(w2) /\ Part(w2) = Second(p) /\ Top(w2) = Top(w) /\ w2 = With(w, Second(p))
        BY <1>3, <2>2, <2>3, <2>6, WithFacts
      <3>2. t1 = e2 /\ e2 \in Operands
        BY <1>3, <3>1, OperandPeek, PeekType
      <3> DEFINE ts == <<e1>>
                 j == <<Join(e1, e2)>>
      <3>3. ts \in Seq(Operands) /\ j \in Seq(Operands) /\ Len(ts) = Len(<<Unknown>>)
        BY <2>4, <3>2 DEF Join
      <3>4. w3 = PopVals(w2, ts) /\ top = j
        BY <2>4, <3>2 DEF Join
      <3> HIDE DEF w3, top, ts, j, e1, e2
      <3>5. /\ ApplySig(w2, ts, j).ok <=> CanTake(Second(p), any, ts)
            /\ ApplySig(w2, ts, j).ok => ApplySig(w2, ts, j) = With(w2, Rest(Second(p), ts, j))
        BY <2>6, <3>1, <3>3, ApplyWith
      <3>6. y = ApplySig(w2, ts, j)
        BY <1>1, <3>4 DEF ApplySig
      <3>7. Rest(Second(p), ts, j) = Third(p) \o j
        <4>1. Rest(Second(p), ts, j) = Rest(Second(p), <<Unknown>>, j)
          BY <3>3, SameLength
        <4>2. QED
          BY <1>2, <1>3, <3>3, <4>1, RestThen, ZenonT(40) DEF Third
      <3>8. With(w2, Third(p) \o j) = With(w, Third(p) \o j)
        BY <1>3, <3>1, WithTwice
      <3>9. /\ y.ok <=> CanTake(Second(p), any, ts)
            /\ y.ok => y = With(w, Third(p) \o j)
        BY <3>5, <3>6, <3>7, <3>8
      <3>10. QED
        BY <1>4, <1>6, <2>2, <2>6, <3>9 DEF p, y, ts, j, e1, e2
    <2>7. QED
      BY <2>5, <2>6
  <1>7. QED
    BY <1>5, <1>6

LEMMA SelectFollows ==
  ASSUME Acknowledged, NEW w, NEW i, Meets(w, i), i.op = "Select", NEW L
  PROVE  Follows(StepPlain(Picture(w), i, L, w.results), OnSelect(w))
  <1> DEFINE f == Last(Picture(w))
             S == UNION {After(f, <<t, t, "I32">>, <<t>>) : t \in ValTypes}
             p == Part(w)
             any == Top(w).unreachable
             e1 == Peek(First(p))
             e2 == Peek(Second(p))
             j == Join(e1, e2)
             q == Third(p)
             y == OnSelect(w)
  <1>1. i \in Calls /\ Enabled(i) /\ Busy(w) /\ w.ok
    BY DEF Meets
  <1>2. RulesOf(i, L) = {Rule(<<t, t, "I32">>, <<t>>) : t \in ValTypes}
    <2>1. Selectable = ValTypes
      BY <1>1, AlphabetFacts DEF Selectable, Acknowledged
    <2>2. QED
      BY <1>1, <2>1, CodeOps, PolymorphicRules, Zenon
  <1>3. StepPlain(Picture(w), i, L, w.results) = Plain(w, RulesOf(i, L))
    BY <1>1, StepPlainIs DEF Jumps
  <1>4. \A t : /\ Rule(<<t, t, "I32">>, <<t>>).pop = <<t, t, "I32">>
               /\ Rule(<<t, t, "I32">>, <<t>>).push = <<t>>
    BY DEF Rule
  <1>5. UNION {After(f, u.pop, u.push) : u \in RulesOf(i, L)} = S
    <2> HIDE DEF f
    <2>1. QED
      BY <1>2, <1>4, ZenonT(40)
  <1>6. /\ y.ok <=> /\ CanTake(p, any, <<"I32">>) /\ CanTake(First(p), any, <<Unknown>>)
                    /\ CanTake(Second(p), any, <<e1>>)
        /\ y.ok => y = With(w, q \o <<j>>)
    BY <1>1, SelectWith
  <1>7. /\ p \in Seq(Operands) /\ First(p) \in Seq(Operands) /\ Second(p) \in Seq(Operands)
        /\ q \in Seq(Operands) /\ e1 \in Operands /\ e2 \in Operands /\ any \in BOOLEAN
    BY <1>1, PartFacts, RestTypes, PeekType, TopFacts DEF Busy, Ctrl
  <1>8. f.stacks = Stands(p) /\ f.any = any
    BY <1>1, PictureFacts
  <1> HIDE DEF f, p, any, y, q
  <1>9. ASSUME NEW t \in ValTypes
        PROVE  /\ y.ok /\ MayBe(j, t) =>
                    After(f, <<t, t, "I32">>, <<t>>) = Stands(q \o <<t>>)
               /\ ~(y.ok /\ MayBe(j, t)) => After(f, <<t, t, "I32">>, <<t>>) = {}
    <2> DEFINE ts == <<t, t, "I32">>
               one == <<t>>
    <2>1. ts \in Seq(ValTypes) /\ one \in Seq(ValTypes)
      BY AlphabetFacts
    <2>2. /\ CanTake(p, any, ts) <=>
               /\ CanTake(p, any, <<"I32">>)
               /\ CanTake(First(p), any, one) /\ CanTake(Second(p), any, one)
          /\ Rest(p, ts, one) = q \o one
      BY <1>7, SelectTakes DEF q
    <2>3. CanTake(First(p), any, one) <=> (any \/ Len(First(p)) > 0) /\ MayBe(e1, t)
      BY <1>7, TakeOne
    <2>4. CanTake(Second(p), any, one) <=> (any \/ Len(Second(p)) > 0) /\ MayBe(e2, t)
      BY <1>7, TakeOne
    <2>5. CanTake(First(p), any, <<Unknown>>) <=> (any \/ Len(First(p)) > 0)
      BY <1>7, TakeOne DEF MayBe
    <2>6. CanTake(Second(p), any, <<e1>>) <=> (any \/ Len(Second(p)) > 0) /\ MayBe(e2, e1)
      BY <1>7, TakeOne
    <2>7. MayBe(e1, t) /\ MayBe(e2, t) <=> MayBe(e2, e1) /\ MayBe(j, t)
      BY <1>7, JoinFacts
    <2> HIDE DEF ts, one, e1, e2, j
    <2>8. CanTake(p, any, ts) <=> y.ok /\ MayBe(j, t)
      BY <1>6, <2>2, <2>3, <2>4, <2>5, <2>6, <2>7
    <2>9. /\ CanTake(p, f.any, ts) => After(f, ts, one) = Stands(Rest(p, ts, one))
          /\ ~CanTake(p, f.any, ts) => After(f, ts, one) = {}
      BY <1>7, <1>8, <2>1, AfterFacts
    <2>10. QED
      BY <1>8, <2>2, <2>8, <2>9 DEF ts, one
  <1>10. CASE y.ok
    <2>1. j \in Operands
      BY <1>7 DEF Join
    <2>2. Stands(q \o <<j>>) = UNION {Stands(q \o <<t>>) : t \in {u \in ValTypes : MayBe(j, u)}}
      BY <1>7, <2>1, StandsUnion
    <2> HIDE DEF j
    <2>3. S = UNION {Stands(q \o <<t>>) : t \in {u \in ValTypes : MayBe(j, u)}}
      BY <1>9, <1>10
    <2> DEFINE one == <<j>>
               r == q \o one
    <2>4. one \in Seq(Operands)
      BY <2>1
    <2> HIDE DEF one
    <2>5. r \in Seq(Operands)
      BY <1>7, <2>4, ConcatFacts
    <2> HIDE DEF S
    <2>6. S = Stands(r) /\ y = With(w, r)
      BY <1>6, <1>10, <2>2, <2>3 DEF one
    <2> HIDE DEF r
    <2>7. WithStacks(Picture(w), Stands(r)) = Picture(With(w, r))
      BY <1>1, <2>5, PictureWith
    <2>8. QED
      BY <1>3, <1>5, <1>10, <2>6, <2>7 DEF Follows, Plain, y, f
  <1>11. CASE ~y.ok
    <2>1. S = {}
      BY <1>9, <1>11
    <2> HIDE DEF S
    <2>2. QED
      BY <1>3, <1>5, <1>11, <2>1 DEF Follows, Plain, WithStacks, y, f
  <1>12. QED
    BY <1>10, <1>11 DEF y

LEMMA JumpFollows ==
  ASSUME Acknowledged, NEW w, NEW i, Meets(w, i), NEW L
  PROVE  /\ i.op = "Return" => Follows(StepPlain(Picture(w), i, L, w.results),
                                       Unreachable(PopVals(w, w.results)))
         /\ i.op = "Unreachable" => Follows(StepPlain(Picture(w), i, L, w.results),
                                            Unreachable(w))
  <1> DEFINE c == StepPlain(Picture(w), i, L, w.results)
  <1>1. i \in Calls /\ Enabled(i) /\ Busy(w) /\ w.ok
    BY DEF Meets
  <1>2. w.results \in Seq(ValTypes) /\ <<>> \in Seq(ValTypes)
    BY <1>1, GoodFacts DEF Busy
  <1>3. i.op \in Jumps => c = Leap(w, JumpsOf(i, w.results))
    BY <1>1, StepPlainIs
  <1> HIDE DEF c
  <1>4. CASE i.op = "Return"
    <2>1. JumpsOf(i, w.results) = {w.results}
      BY <1>4 DEF JumpsOf
    <2>2. c = Leap(w, {w.results})
      BY <1>3, <1>4, <2>1 DEF Jumps
    <2>3. QED
      BY <1>1, <1>2, <1>4, <2>2, LeapOne DEF c
  <1>5. CASE i.op = "Unreachable"
    <2>1. JumpsOf(i, w.results) = {<<>>}
      BY <1>5 DEF JumpsOf
    <2>2. c = Leap(w, {<<>>})
      BY <1>3, <1>5, <2>1 DEF Jumps
    <2>3. Follows(Leap(w, {<<>>}), Unreachable(PopVals(w, <<>>)))
      BY <1>1, <1>2, LeapOne
    <2>4. QED
      BY <1>1, <1>5, <2>2, <2>3, PopNone DEF c
  <1>6. QED
    BY <1>4, <1>5 DEF c

LEMMA NoneFollows ==
  ASSUME Acknowledged, NEW w, NEW i, Meets(w, i), i.shape = "NONE", NEW L
  PROVE  Follows(StepPlain(Picture(w), i, L, w.results), OnNone(w, i))
  <1> DEFINE c == StepPlain(Picture(w), i, L, w.results)
  <1> HIDE DEF c
  <1>1. CASE i.op = "Drop"
    <2>1. OnNone(w, i) = PopVals(w, <<Unknown>>)
      BY <1>1 DEF OnNone, Polymorphic
    <2>2. QED
      BY <1>1, <2>1, DropFollows
  <1>2. CASE i.op = "Select"
    <2>1. OnNone(w, i) = OnSelect(w)
      BY <1>2 DEF OnNone, Polymorphic
    <2>2. QED
      BY <1>2, <2>1, SelectFollows
  <1>3. CASE i.op = "Return"
    <2>1. OnNone(w, i) = Unreachable(PopVals(w, w.results))
      BY <1>3 DEF OnNone, Polymorphic
    <2>2. QED
      BY <1>3, <2>1, JumpFollows
  <1>4. CASE i.op = "Unreachable"
    <2>1. OnNone(w, i) = Unreachable(w)
      BY <1>4 DEF OnNone, Polymorphic
    <2>2. QED
      BY <1>4, <2>1, JumpFollows
  <1>5. CASE i.op = "RefIsNull"
    <2>1. OnNone(w, i) = ApplySig(w, <<Unknown>>, <<"I32">>)
      BY <1>5 DEF OnNone, Polymorphic
    <2>2. QED
      BY <1>5, <2>1, IsNullFollows
  <1>6. CASE i.op \notin Polymorphic
    <2>1. ByEffect(w, i) = OnNone(w, i)
      BY DEF ByEffect
    <2>2. HasOwn(i)
      BY <1>6 DEF HasOwn
    <2>3. Follows(StepPlain(Picture(w), i, L, w.results), ByEffect(w, i))
      BY <2>2, OwnEffectFollows
    <2>4. QED
      BY <2>1, <2>3
  <1>7. QED
    BY <1>1, <1>2, <1>3, <1>4, <1>5, <1>6 DEF Polymorphic

\* The rules and the validator agree on every instruction without a frame.
LEMMA HookDecides ==
  ASSUME Acknowledged, NEW w, Busy(w), w.ok, NEW i \in Calls, NEW L, Extends(L, w.locals)
  PROVE  Decides(StepPlain(Picture(w), i, L, w.results), Hook(w, i), L, w)
  <1> DEFINE c == StepPlain(Picture(w), i, L, w.results)
             gate == i.feat \in GatedTags => i.feat \in Features
             y == ByEffect(w, i)
  <1>1. /\ i.shape \in Shapes /\ i.feat \in FeatureTags \cup {"MVP"}
        /\ i.feat \notin {"MULTI_MEMORY", "MEMORY64"}
        /\ ~Fail(w).ok
    BY CallFacts, FailKeeps DEF Busy
  <1>2. gate <=> i.feat \in Features \cup {"MVP"}
    BY <1>1, ModuleAssumption DEF GatedTags, FeatureTags
  <1>3. CASE ~gate
    <2>1. CheckFeature(w, i.feat) = Fail(w)
      BY <1>3 DEF CheckFeature, Check
    <2>2. Hook(w, i) = Fail(w)
      BY <1>1, <2>1 DEF Hook
    <2>3. c = IllTyped
      BY <1>2, <1>3, StepPlainIs DEF Enabled
    <2> HIDE DEF c
    <2>4. QED
      BY <1>1, <2>2, <2>3 DEF Decides, c
  <1>4. CASE gate
    <2>1. CheckFeature(w, i.feat) = w
      BY <1>4 DEF CheckFeature, Check
    <2> HIDE DEF c, gate
    <2>2. CASE i.shape = "MEMARG" /\ ~(i.idx = 0 \/ "MULTI_MEMORY" \in Features)
      <3>1. ~Enabled(i)
        BY <2>2 DEF Enabled
      <3>2. c = IllTyped
        BY <3>1, StepPlainIs DEF c
      <3>3. Hook(w, i) = OnMemArg(w, i)
        BY <2>1, <2>2 DEF Hook
      <3>4. ~OnMemArg(w, i).ok
        BY <1>1, <2>2 DEF OnMemArg, Check, ApplySig, PopVals, PushVals
      <3>5. QED
        BY <3>2, <3>3, <3>4 DEF Decides, c
    <2>3. CASE ~(i.shape = "MEMARG" /\ ~(i.idx = 0 \/ "MULTI_MEMORY" \in Features))
      <3>1. Enabled(i)
        BY <1>2, <1>4, <2>3 DEF Enabled
      <3>2. Meets(w, i)
        BY <3>1 DEF Meets
      <3>3. CASE i.shape = "LOCAL_IDX"
        <4>1. Hook(w, i) = OnLocal(w, i)
          BY <2>1, <3>3 DEF Hook
        <4>2. QED
          BY <3>2, <3>3, <4>1, LocalDecides
      <3>4. CASE i.shape = "GLOBAL_IDX"
        <4>1. Hook(w, i) = OnGlobal(w, i)
          BY <2>1, <3>4 DEF Hook
        <4>2. QED
          BY <3>2, <3>4, <4>1, GlobalFollows, FollowsDecides
      <3>5. CASE i.shape = "FUNC_IDX"
        <4>1. Hook(w, i) = OnFuncIdx(w, i)
          BY <2>1, <3>5 DEF Hook
        <4>2. QED
          BY <3>2, <3>5, <4>1, FuncFollows, FollowsDecides
      <3>6. CASE i.shape = "TABLE_IDX"
        <4>1. Hook(w, i) = OnTable(w, i)
          BY <2>1, <3>6 DEF Hook
        <4>2. QED
          BY <3>2, <3>6, <4>1, TableFollows, FollowsDecides
      <3>7. CASE i.shape = "MEMARG"
        <4>1. Hook(w, i) = OnMemArg(w, i)
          BY <2>1, <3>7 DEF Hook
        <4>2. QED
          BY <3>2, <3>7, <4>1, MemArgFollows, FollowsDecides
      <3>8. CASE i.shape = "MEM_IDX"
        <4>1. Hook(w, i) = OnMemBulk(w, i)
          BY <2>1, <3>8 DEF Hook
        <4>2. QED
          BY <3>2, <3>8, <4>1, MemBulkFollows, FollowsDecides
      <3>9. CASE i.shape = "SELECT_T"
        <4>1. Hook(w, i) = OnSelectT(w, i)
          BY <2>1, <3>9 DEF Hook
        <4>2. QED
          BY <3>2, <3>9, <4>1, SelectTFollows, FollowsDecides
      <3>10. CASE i.shape = "CALL_INDIRECT"
        <4>1. Hook(w, i) = OnCallIndirect(w, i)
          BY <2>1, <3>10 DEF Hook
        <4>2. QED
          BY <3>2, <3>10, <4>1, IndirectFollows, FollowsDecides
      <3>11. CASE i.shape = "NONE"
        <4>1. Hook(w, i) = OnNone(w, i)
          BY <2>1, <3>11 DEF Hook
        <4>2. QED
          BY <3>2, <3>11, <4>1, NoneFollows, FollowsDecides
      <3>12. CASE i.shape \in {"FIXED", "REF_TYPE", "UNCHECKED"}
        <4>1. Hook(w, i) = y
          BY <2>1, <3>12 DEF Hook, ByEffect
        <4>2. HasOwn(i)
          BY <3>12 DEF HasOwn
        <4>3. Follows(StepPlain(Picture(w), i, L, w.results), ByEffect(w, i))
          BY <3>2, <4>2, OwnEffectFollows
        <4> HIDE DEF y
        <4>4. QED
          BY <4>1, <4>3, FollowsDecides DEF y
      <3>13. QED
        BY <1>1, <3>3, <3>4, <3>5, <3>6, <3>7, <3>8, <3>9, <3>10, <3>11, <3>12 DEF Shapes
    <2>4. QED
      BY <2>2, <2>3
  <1>5. QED
    BY <1>3, <1>4

-----------------------------------------------------------------------------
(***************************************************************************)
(* Structured control.                                                     *)
(***************************************************************************)
\* A frame that is opened on top of operands with its results on top.
LEMMA PictureOpened ==
  ASSUME Acknowledged, NEW x, Busy(x), x.ok, NEW kind \in CtrlKinds,
         NEW in \in Seq(ValTypes), NEW out \in Seq(ValTypes)
  PROVE  Picture(PushCtrl(x, kind, in, out))
           = Opened(Picture(With(x, Part(x) \o out)), kind, in, out)
  <1> DEFINE y == PushCtrl(x, kind, in, out)
             z == With(x, Part(x) \o out)
             n == Len(x.ctrls)
             e == [kind |-> kind, unreachable |-> FALSE, else_seen |-> FALSE,
                   height |-> Len(x.vals), in |-> in, out |-> out]
             g == FrameOf(kind, in, out, FALSE, FALSE, {in})
             held == Part(x) \o out
  <1>1. /\ x.vals \in Seq(Operands) /\ Len(x.vals) \in Nat /\ x.ctrls \in Seq(Ctrl)
        /\ n \in Nat \ {0} /\ in \in Seq(Operands) /\ out \in Seq(Operands)
        /\ Part(x) \in Seq(Operands) /\ x \in Validators
    BY GoodFacts, TopFacts, ValTypesAreOperands, PartFacts DEF Busy, Good
  <1>2. held \in Seq(Operands)
    BY <1>1, ConcatFacts
  <1> HIDE DEF held
  <1>3. Busy(z) /\ Part(z) = held /\ z.ctrls = x.ctrls /\ z.vals = Below(x) \o held
        /\ Below(z) = Below(x) /\ Top(z) = Top(x)
    BY <1>2, WithFacts DEF held
  <1>4. Good(y) /\ y.ok
    BY PushCtrlOpens DEF Busy
  <1>5. y.ctrls = Append(x.ctrls, e) /\ y.vals = x.vals \o in
    BY <1>1 DEF PushCtrl, Validators
  <1> HIDE DEF y, z
  <1>6. e \in Ctrl
    BY <1>1 DEF Ctrl, CtrlKinds
  <1> HIDE DEF e
  <1>7. /\ Len(y.ctrls) = n + 1 /\ y.ctrls[n + 1] = e
        /\ \A k \in 1 .. n : y.ctrls[k] = x.ctrls[k]
    BY <1>1, <1>5, <1>6
  <1>8. /\ Len(y.vals) = Len(x.vals) + Len(in)
        /\ \A k \in 1 .. Len(x.vals) : y.vals[k] = x.vals[k]
        /\ \A k \in 1 .. Len(in) : y.vals[Len(x.vals) + k] = in[k]
        /\ y.vals \in Seq(Operands)
    <2>1. x.vals \in Seq(Operands) /\ in \in Seq(Operands)
      BY <1>1
    <2>2. /\ x.vals \o in \in Seq(Operands) /\ Len(x.vals \o in) = Len(x.vals) + Len(in)
          /\ \A k \in 1 .. Len(x.vals) : (x.vals \o in)[k] = x.vals[k]
          /\ \A k \in 1 .. Len(in) : (x.vals \o in)[Len(x.vals) + k] = in[k]
      BY <2>1, ConcatFacts, SMTT(40)
    <2>3. QED
      BY <1>5, <2>2
  <1>9. Busy(y)
    BY <1>1, <1>4, <1>7 DEF Busy
  <1>10. /\ Top(x) = x.ctrls[n] /\ Top(x).height \in Nat /\ Top(x).height <= Len(x.vals)
         /\ Top(y) = e
    BY <1>1, <1>7, TopFacts DEF Busy, Top
  <1>11. ASSUME NEW k \in 1 .. n - 1 PROVE Shown(y, k) = Shown(z, k)
    <2>1. n \in 1 .. Len(z.ctrls) /\ n <= Len(y.ctrls) /\ n \in 1 .. n
      BY <1>1, <1>3, <1>7
    <2>2. \A m \in 1 .. n - 1 : y.ctrls[m] = z.ctrls[m]
      BY <1>1, <1>3, <1>7
    <2>3. y.ctrls[n] = z.ctrls[n]
      BY <1>3, <1>7, <2>1
    <2>4. ASSUME NEW m \in 1 .. z.ctrls[n].height PROVE y.vals[m] = z.vals[m]
      <3>1. z.ctrls[n].height = Top(x).height
        BY <1>3, <1>10
      <3>2. m \in 1 .. Len(x.vals) /\ m \in 1 .. Top(x).height
        BY <1>1, <1>10, <2>4, <3>1
      <3>3. Below(x)[m] = x.vals[m]
        BY <3>2, PartFacts
      <3>4. Below(z)[m] = z.vals[m]
        BY <1>3, <3>2, PartFacts
      <3>5. QED
        BY <1>3, <1>8, <3>2, <3>3, <3>4
    <2>5. SameBelow(y, z, n)
      BY <2>1, <2>2, <2>3, <2>4 DEF SameBelow
    <2>6. QED
      BY <1>3, <1>9, <2>5, ShownSame
  <1>12. Shown(y, n) = Shown(z, n)
    <2>1. n \in 1 .. n /\ n # n + 1
      BY <1>1
    <2>2. y.ctrls[n] = z.ctrls[n] /\ y.ctrls[n + 1].out = out
          /\ y.ctrls[n + 1].height = Len(x.vals)
      BY <1>3, <1>7, <2>1 DEF e
    <2>3. Seg(y, n) = Part(x)
      <3> DEFINE h == Top(x).height
                 l == Len(x.vals)
                 a == SubSeq(y.vals, h + 1, l)
                 b == Part(x)
      <3>1. a \in Seq(Operands) /\ Len(a) = l - h /\ \A m \in 1 .. l - h : a[m] = y.vals[h + m]
        <4>1. y.vals \in Seq(Operands) /\ h \in Nat /\ l \in Nat /\ h <= l /\ l <= Len(y.vals)
          BY <1>1, <1>8, <1>10
        <4>2. QED
          BY <4>1, MiddleFacts
      <3>2. b \in Seq(Operands) /\ Len(b) = l - h /\ \A m \in 1 .. Len(b) : b[m] = x.vals[h + m]
        BY PartFacts
      <3> HIDE DEF a, b
      <3>3. ASSUME NEW m \in 1 .. l - h PROVE a[m] = b[m]
        <4>1. h + m \in 1 .. l
          BY <1>1, <1>10, SMTT(40)
        <4>2. QED
          BY <1>8, <3>1, <3>2, <4>1
      <3>4. a = b
        BY <3>1, <3>2, <3>3, SeqEqual
      <3>5. Seg(y, n) = a
        BY <1>7, <1>10, <2>1, <2>2 DEF Seg, a
      <3>6. QED
        BY <3>4, <3>5 DEF b
    <2>4. Held(y, n) = held
      BY <1>7, <2>1, <2>2, <2>3 DEF Held, held
    <2>5. Held(z, n) = held
      BY <1>3 DEF Held
    <2>6. QED
      BY <2>2, <2>4, <2>5 DEF Shown
  <1>13. Part(y) = in
    <2> DEFINE p == Part(y)
    <2>1. /\ p \in Seq(Operands) /\ Len(p) = Len(y.vals) - Top(y).height
          /\ \A k \in 1 .. Len(p) : p[k] = y.vals[Top(y).height + k]
      BY <1>9, PartFacts
    <2> HIDE DEF p
    <2>2. Top(y).height = Len(x.vals) /\ Len(y.vals) - Len(x.vals) = Len(in)
      BY <1>1, <1>8, <1>10 DEF e
    <2>3. Len(p) = Len(in) /\ \A k \in 1 .. Len(p) : p[k] = in[k]
      BY <1>8, <2>1, <2>2
    <2>4. p \in Seq(Operands) /\ in \in Seq(Operands)
      BY <1>1, <2>1
    <2>5. p = in
      BY <2>3, <2>4, SeqEqual
    <2>6. QED
      BY <2>5 DEF p
  <1>14. Shown(y, n + 1) = g
    <2>1. Held(y, n + 1) = in
      BY <1>7, <1>13 DEF Held
    <2>2. Stands(in) = {in}
      BY StandsOne
    <2>3. e.kind = kind /\ e.in = in /\ e.out = out /\ e.else_seen = FALSE
          /\ e.unreachable = FALSE
      BY DEF e
    <2>4. QED
      BY <1>7, <2>1, <2>2, <2>3 DEF Shown
  <1> HIDE DEF g
  <1> DEFINE c == Picture(z)
  <1>15. Len(c) = n /\ \A k \in 1 .. n : c[k] = Shown(z, k)
    BY <1>3, PictureFacts
  <1>16. c = [k \in 1 .. n |-> Shown(z, k)]
    BY <1>3 DEF Picture
  <1> HIDE DEF c
  <1>17. Append(c, g) = [k \in 1 .. n + 1 |-> IF k <= n THEN Shown(z, k) ELSE g]
    BY <1>1, <1>15, <1>16, SMTT(40)
  <1>18. ASSUME NEW k \in 1 .. n + 1
         PROVE  Shown(y, k) = IF k <= n THEN Shown(z, k) ELSE g
    <2>1. k \in 1 .. n - 1 \/ k = n \/ k = n + 1
      BY <1>1
    <2>2. CASE k \in 1 .. n - 1
      <3>1. k <= n
        BY <1>1, <2>2
      <3>2. QED
        BY <1>11, <2>2, <3>1
    <2>3. CASE k = n
      BY <1>1, <1>12, <2>3
    <2>4. CASE k = n + 1
      <3>1. ~(k <= n)
        BY <1>1, <2>4
      <3>2. QED
        BY <1>14, <2>4, <3>1
    <2>5. QED
      BY <2>1, <2>2, <2>3, <2>4
  <1>19. Picture(y) = [k \in 1 .. n + 1 |-> Shown(y, k)]
    BY <1>7 DEF Picture
  <1>20. Picture(y) = Append(c, g)
    BY <1>17, <1>18, <1>19
  <1>21. Opened(c, kind, in, out) = Append(c, g)
    BY DEF Opened, FrameOf, g
  <1>22. QED
    BY <1>20, <1>21 DEF y, z, c, held

LEMMA StartFollows ==
  ASSUME Acknowledged, NEW w, Busy(w), w.ok, NEW kind \in FrameKinds, NEW bt \in BlockType
  PROVE  Follows(StepOpen(Picture(w), kind, bt), OnCtrlStart(w, kind, bt))
  <1> DEFINE in == BlockIn(bt)
             out == BlockOut(bt)
             cond == IF kind = "If" THEN <<"I32">> ELSE <<>>
             pop == in \o cond
             a == IF kind = "If" THEN PopVals(w, <<"I32">>) ELSE w
             x == PopVals(a, in)
             x2 == PopVals(w, pop)
             y == ApplySig(w, pop, out)
             around == WithStacks(Picture(w), After(Last(Picture(w)), pop, out))
             s == OnCtrlStart(w, kind, bt)
             r == Rest(Part(w), pop, <<>>)
  <1>1. in \in Seq(ValTypes) /\ out \in Seq(ValTypes) /\ cond \in Seq(ValTypes)
    BY BlockTypesType, AlphabetFacts
  <1>2. s = PushCtrl(x, kind, in, out)
    BY DEF OnCtrlStart
  <1>3. a = PopVals(w, cond)
    BY PopNone
  <1> HIDE DEF in, out, cond, a, s
  <1>4. pop \in Seq(ValTypes) /\ SameVerdict(x2, PopVals(PopVals(w, cond), in))
    BY <1>1, ApplyTwice
  <1> HIDE DEF pop
  <1>5. SameVerdict(x2, x)
    BY <1>3, <1>4
  <1>6. Follows(around, y)
    BY <1>1, <1>4, ApplyFollows
  <1>7. /\ pop \in Seq(Operands) /\ out \in Seq(Operands) /\ Part(w) \in Seq(Operands)
        /\ <<>> \in Seq(Operands)
    BY <1>1, <1>4, ValTypesAreOperands, PartFacts
  <1>8. /\ x2.ok <=> CanTake(Part(w), Top(w).unreachable, pop)
        /\ x2.ok => x2 = With(w, r)
    BY <1>7, PopsWith
  <1>9. /\ y.ok <=> CanTake(Part(w), Top(w).unreachable, pop)
        /\ y.ok => y = With(w, Rest(Part(w), pop, out))
    BY <1>7, ApplyWith
  <1>10. r \o out = Rest(Part(w), pop, out) /\ r \in Seq(Operands)
    <2> DEFINE p == Part(w)
    <2>1. p \in Seq(Operands) /\ pop \in Seq(Operands) /\ <<>> \in Seq(Operands)
          /\ out \in Seq(Operands)
      BY <1>7
    <2> HIDE DEF p
    <2>2. Rest(p, pop, <<>>) \in Seq(Operands)
      BY <2>1, RestFacts
    <2>3. Rest(p, pop, <<>>) \o out = Rest(p, pop, out)
      BY <2>1, RestThen
    <2>4. QED
      BY <2>2, <2>3 DEF p
  <1>11. kind \in CtrlKinds
    BY DEF FrameKinds, CtrlKinds
  <1> HIDE DEF x, x2, y, around, r
  <1>12. StepOpen(Picture(w), kind, bt)
           = IF around = IllTyped THEN IllTyped ELSE Opened(around, kind, in, out)
    BY DEF StepOpen, around, pop, cond, in, out
  <1>13. CASE x.ok
    <2>1. x2.ok /\ x = With(w, r) /\ y.ok
      BY <1>5, <1>8, <1>9, <1>13 DEF SameVerdict
    <2>2. Busy(x) /\ Part(x) = r
      BY <1>10, <2>1, WithFacts
    <2>3. With(x, r \o out) = With(w, r \o out)
      BY <1>10, <2>1, WithTwice
    <2>4. y = With(x, Part(x) \o out)
      BY <1>9, <1>10, <2>1, <2>2, <2>3
    <2>5. Picture(s) = Opened(Picture(y), kind, in, out)
      BY <1>1, <1>2, <1>11, <1>13, <2>2, <2>4, PictureOpened
    <2>6. around = Picture(y)
      BY <1>6, <2>1 DEF Follows
    <2>7. Busy(y) 
      <3>1. Keeps(w, y)
        BY <1>7, Steps DEF y
      <3>2. QED
        BY <3>1, KeepsBusy
    <2>8. Picture(y) # IllTyped
      BY <2>7, PictureFacts
    <2>9. s.ok
      BY <1>1, <1>2, <1>11, <1>13, <2>2, PushCtrlOpens DEF Busy
    <2>10. QED
      BY <1>12, <2>5, <2>6, <2>8, <2>9 DEF Follows, s
  <1>14. CASE ~x.ok
    <2>1. ~y.ok
      BY <1>5, <1>8, <1>9, <1>14 DEF SameVerdict
    <2>2. around = IllTyped
      BY <1>6, <2>1 DEF Follows
    <2>3. ~s.ok
      BY <1>2, <1>14 DEF PushCtrl
    <2>4. QED
      BY <1>12, <2>2, <2>3 DEF Follows, s
  <1>15. QED
    BY <1>13, <1>14

\* A frame can be left when its operands are its results, as PopCtrl checks.
LEMMA LeavesFacts ==
  ASSUME Acknowledged, NEW w, Busy(w), w.ok
  PROVE  LET x == PopCtrl(w)
             n == Len(w.ctrls)
         IN  /\ LeavesOut(Last(Picture(w))) <=> x.ok
             /\ x.ok => /\ x.vals = Below(w) /\ x.ctrls = SubSeq(w.ctrls, 1, n - 1)
                        /\ x.locals = w.locals /\ x.results = w.results
  <1> DEFINE p == Part(w)
             out == Top(w).out
             h == Top(w).height
             f == Last(Picture(w))
             rest == Rest(p, out, <<>>)
             u == PopVals(w, out)
             x == PopCtrl(w)
             n == Len(w.ctrls)
  <1>1. /\ Top(w) \in Ctrl /\ out \in Seq(ValTypes) /\ out \in Seq(Operands)
        /\ <<>> \in Seq(Operands) /\ p \in Seq(Operands) /\ h \in Nat /\ n \in Nat \ {0}
        /\ Len(Below(w)) = h /\ Below(w) \in Seq(Operands) /\ w \in Validators
        /\ Len(out) \in Nat /\ Len(p) \in Nat
    BY TopFacts, ValTypesAreOperands, PartFacts DEF Busy, Ctrl, Good
  <1>2. f.stacks = Stands(p) /\ f.any = Top(w).unreachable /\ f.out = out
    BY PictureFacts DEF FrameOf
  <1>3. /\ u.ok <=> CanTake(p, f.any, out)
        /\ u.ok => u = With(w, rest)
    BY <1>1, <1>2, PopsWith
  <1> HIDE DEF p, f, out
  <1>4. /\ rest \in Seq(Operands) /\ Len(rest) = Len(p) - Common(p, out) + Len(<<>>)
    <2> DEFINE none == <<>>
    <2>1. p \in Seq(Operands) /\ none \in Seq(Operands) /\ out \in Seq(Operands)
      BY <1>1
    <2> HIDE DEF none
    <2>2. /\ Rest(p, out, none) \in Seq(Operands)
          /\ Len(Rest(p, out, none)) = Len(p) - Common(p, out) + Len(none)
      BY <2>1, RestFacts
    <2>3. QED
      BY <2>2 DEF none
  <1>5. Len(rest) = 0 <=> Len(p) <= Len(out)
    <2>1. Common(p, out) = IF Len(p) < Len(out) THEN Len(p) ELSE Len(out)
      BY DEF Common
    <2> HIDE DEF rest
    <2>2. Len(rest) = Len(p) - Common(p, out)
      BY <1>1, <1>4, <2>1
    <2>3. QED
      BY <1>1, <2>1, <2>2
  <1>6. CanTake(p, f.any, out) <=> \E s \in f.stacks : Takes(f, s, out)
    BY <1>1, <1>2, AfterFacts
  <1>7. \A s \in f.stacks : Len(s) = Len(p)
    BY <1>1, <1>2, StandsFacts
  <1>8. LeavesOut(f) <=> CanTake(p, f.any, out) /\ Len(p) <= Len(out)
    BY <1>2, <1>6, <1>7 DEF LeavesOut
  <1> HIDE DEF rest, u
  <1>9. u.ok => /\ u.vals = Below(w) \o rest /\ Len(u.vals) = h + Len(rest)
                /\ u.ctrls = w.ctrls /\ u.locals = w.locals /\ u.results = w.results
    <2> HAVE u.ok
    <2>1. u = With(w, rest)
      BY <1>3
    <2>2. /\ u.vals = Below(w) \o rest /\ u.ctrls = w.ctrls
          /\ u.locals = w.locals /\ u.results = w.results
      BY <1>4, <2>1, WithFacts
    <2>3. Len(Below(w) \o rest) = h + Len(rest)
      <3>1. Below(w) \in Seq(Operands) /\ rest \in Seq(Operands)
        BY <1>1, <1>4
      <3>2. Len(Below(w) \o rest) = Len(Below(w)) + Len(rest)
        BY <3>1, ConcatFacts
      <3>3. QED
        BY <1>1, <3>2
    <2>4. QED
      BY <2>2, <2>3
  <1>10. u \in Validators
    BY <1>1, Steps DEF u, Keeps, Good
  <1>11. x.ok <=> u.ok /\ Len(u.vals) = h
    BY <1>10 DEF PopCtrl, u, Validators, out
  <1>12. x.ok <=> LeavesOut(f)
    BY <1>1, <1>3, <1>4, <1>5, <1>8, <1>9, <1>11
  <1>13. ASSUME x.ok
         PROVE  /\ x.vals = Below(w) /\ x.ctrls = SubSeq(w.ctrls, 1, n - 1)
                /\ x.locals = w.locals /\ x.results = w.results
    <2>1. u.ok /\ Len(u.vals) = h
      BY <1>11, <1>13
    <2>2. x = [u EXCEPT !.ctrls = SubSeq(u.ctrls, 1, Len(u.ctrls) - 1)]
      BY <2>1 DEF PopCtrl, u, out
    <2>3. Len(rest) = 0
      BY <1>1, <1>4, <1>9, <2>1
    <2>4. rest = <<>>
      BY <1>4, <2>3, EmptySeq
    <2>5. Below(w) \o rest = Below(w)
      BY <1>1, <2>4, ConcatEmptySeq
    <2>6. QED
      BY <1>9, <1>10, <2>1, <2>2, <2>5 DEF Validators
  <1>14. QED
    BY <1>12, <1>13 DEF f

\* The frame around a frame that is left continues with its results on top.
LEMMA PictureClosed ==
  ASSUME Acknowledged, NEW w, Busy(w), w.ok, NEW y, Busy(y), Len(w.ctrls) > 1,
         y.ctrls = SubSeq(w.ctrls, 1, Len(w.ctrls) - 1), y.vals = Below(w) \o Top(w).out
  PROVE  Picture(y) = SubSeq(Picture(w), 1, Len(w.ctrls) - 1)
  <1> DEFINE n == Len(w.ctrls)
             l == n - 1
             out == Top(w).out
             below == Below(w)
             h == Top(w).height
             g == w.ctrls[l].height
  <1>1. /\ w.vals \in Seq(Operands) /\ Len(w.vals) \in Nat /\ w.ctrls \in Seq(Ctrl)
        /\ n \in Nat \ {0} /\ h \in Nat /\ h <= Len(w.vals)
        /\ below \in Seq(Operands) /\ Len(below) = h
        /\ \A m \in 1 .. h : below[m] = w.vals[m]
    BY GoodFacts, TopFacts, PartFacts DEF Busy
  <1>2. out \in Seq(Operands) /\ Len(out) \in Nat
    BY TopFacts, ValTypesAreOperands DEF Busy, Ctrl
  <1>3. l \in Nat /\ l >= 1 /\ n = l + 1
    BY <1>1
  <1>4. g \in Nat /\ g <= h
    <2>1. l \in 1 .. Len(w.ctrls)
      BY <1>1, <1>3
    <2>2. QED
      BY <2>1, GoodFacts, TopFacts DEF Busy
  <1>5. w.ctrls[l + 1] = Top(w) /\ Top(w).height = h /\ w.ctrls[l].height = g
    BY <1>1 DEF Top
  <1> HIDE DEF below, out, h, g, l
  <1>6. /\ Len(y.vals) = h + Len(out) /\ y.vals \in Seq(Operands)
        /\ \A m \in 1 .. h : y.vals[m] = below[m]
        /\ \A m \in 1 .. Len(out) : y.vals[h + m] = out[m]
    <2>1. below \in Seq(Operands) /\ out \in Seq(Operands)
      BY <1>1, <1>2
    <2>2. /\ below \o out \in Seq(Operands) /\ Len(below \o out) = Len(below) + Len(out)
          /\ \A m \in 1 .. Len(below) : (below \o out)[m] = below[m]
          /\ \A m \in 1 .. Len(out) : (below \o out)[Len(below) + m] = out[m]
      BY <2>1, ConcatFacts
    <2>3. QED
      BY <1>1, <2>2 DEF below, out
  <1>7. Len(y.ctrls) = l /\ \A k \in 1 .. l : y.ctrls[k] = w.ctrls[k]
    <2>1. w.ctrls \in Seq(Ctrl) /\ l \in 0 .. Len(w.ctrls)
      BY <1>1, <1>3
    <2>2. y.ctrls = SubSeq(w.ctrls, 1, l)
      BY DEF l
    <2>3. QED
      BY <2>1, <2>2, HeadFacts
  <1>8. Top(y).height = g /\ Top(y) = w.ctrls[l]
    <2>1. y.ctrls[l] = w.ctrls[l] /\ Len(y.ctrls) = l
      BY <1>3, <1>7
    <2>2. QED
      BY <1>5, <2>1 DEF Top
  <1>9. ASSUME NEW k \in 1 .. l - 1 PROVE Shown(y, k) = Shown(w, k)
    <2>1. \A m \in 1 .. w.ctrls[l].height : y.vals[m] = w.vals[m]
      <3>1. \A m \in 1 .. g : m \in 1 .. h
        BY <1>1, <1>4
      <3>2. \A m \in 1 .. h : y.vals[m] = w.vals[m]
        BY <1>1, <1>6
      <3>3. QED
        BY <1>5, <3>1, <3>2
    <2>2. l \in 1 .. Len(w.ctrls) /\ l <= Len(y.ctrls) /\ y.ctrls[l] = w.ctrls[l]
      BY <1>1, <1>3, <1>7
    <2>3. \A m \in 1 .. l - 1 : y.ctrls[m] = w.ctrls[m]
      BY <1>3, <1>7
    <2>4. SameBelow(y, w, l)
      BY <2>1, <2>2, <2>3 DEF SameBelow
    <2>5. QED
      BY <2>4, ShownSame
  <1>10. Part(y) = Seg(w, l) \o out
    <2> DEFINE p == Part(y)
               a == SubSeq(w.vals, g + 1, h)
    <2>1. /\ p \in Seq(Operands) /\ Len(p) = Len(y.vals) - Top(y).height
          /\ \A m \in 1 .. Len(p) : p[m] = y.vals[Top(y).height + m]
      BY PartFacts
    <2>2. a \in Seq(Operands) /\ Len(a) = h - g /\ \A m \in 1 .. h - g : a[m] = w.vals[g + m]
      BY <1>1, <1>4, MiddleFacts
    <2> HIDE DEF p, a
    <2>3. /\ a \o out \in Seq(Operands) /\ Len(a \o out) = Len(a) + Len(out)
          /\ \A m \in 1 .. Len(a) : (a \o out)[m] = a[m]
          /\ \A m \in 1 .. Len(out) : (a \o out)[Len(a) + m] = out[m]
      <3>1. a \in Seq(Operands) /\ out \in Seq(Operands)
        BY <1>2, <2>2
      <3>2. QED
        BY <3>1, ConcatFacts
    <2> DEFINE b == a \o out
    <2>4. /\ b \in Seq(Operands) /\ Len(b) = Len(a) + Len(out)
          /\ \A m \in 1 .. Len(a) : b[m] = a[m]
          /\ \A m \in 1 .. Len(out) : b[Len(a) + m] = out[m]
      BY <2>3
    <2> HIDE DEF b
    <2>5. Len(p) = Len(b) /\ Len(b) = (h - g) + Len(out) /\ Len(a) = h - g
      <3>1. Len(p) = (h + Len(out)) - g
        BY <1>6, <1>8, <2>1
      <3>2. Len(b) = (h - g) + Len(out)
        BY <2>2, <2>4
      <3>3. (h + Len(out)) - g = (h - g) + Len(out)
        BY <1>1, <1>2, <1>4
      <3>4. QED
        BY <2>2, <3>1, <3>2, <3>3
    <2>6. ASSUME NEW m \in 1 .. Len(p) PROVE p[m] = b[m]
      <3> DEFINE d == h - g
                 e == Len(out)
      <3>1. p[m] = y.vals[g + m]
        BY <1>8, <2>1
      <3>2. d \in Nat /\ e \in Nat /\ h = g + d /\ m \in 1 .. d + e /\ Len(a) = d
        BY <1>1, <1>2, <1>4, <2>5
      <3>3. /\ \A k \in 1 .. d : b[k] = a[k] /\ a[k] = w.vals[g + k]
            /\ \A k \in 1 .. e : b[d + k] = out[k] /\ y.vals[h + k] = out[k]
            /\ \A k \in 1 .. h : y.vals[k] = w.vals[k]
        <4>1. \A k \in 1 .. d : b[k] = a[k]
          BY <2>4, <2>5
        <4>2. \A k \in 1 .. d : a[k] = w.vals[g + k]
          BY <2>2
        <4>3. \A k \in 1 .. e : b[d + k] = out[k]
          BY <2>4, <2>5
        <4>4. \A k \in 1 .. e : y.vals[h + k] = out[k]
          BY <1>6
        <4>5. \A k \in 1 .. h : y.vals[k] = w.vals[k]
          BY <1>1, <1>6
        <4>6. QED
          BY <4>1, <4>2, <4>3, <4>4, <4>5
      <3> HIDE DEF d, e
      <3>4. CASE m <= d
        <4>1. g + m \in 1 .. h /\ m \in 1 .. d
          BY <1>4, <3>2, <3>4
        <4>2. QED
          BY <3>1, <3>3, <4>1
      <3>5. CASE ~(m <= d)
        <4> DEFINE r == m - d
        <4>1. r \in 1 .. e /\ g + m = h + r /\ m = d + r
          BY <1>4, <3>2, <3>5
        <4> HIDE DEF r
        <4>2. QED
          BY <3>1, <3>3, <4>1
      <3>6. QED
        BY <3>4, <3>5
    <2>7. p = b
      <3>1. p \in Seq(Operands) /\ b \in Seq(Operands)
        BY <2>1, <2>4
      <3>2. QED
        BY <2>5, <2>6, <3>1, SeqEqual
    <2>8. Seg(w, l) = a
      BY <1>5 DEF Seg, a
    <2>9. QED
      BY <2>7, <2>8 DEF p, b
  <1>11. Shown(y, l) = Shown(w, l)
    <2>1. Held(y, l) = Part(y)
      BY <1>7 DEF Held
    <2>2. Held(w, l) = Seg(w, l) \o out
      <3>1. l # Len(w.ctrls)
        BY <1>1, <1>3
      <3>2. QED
        BY <1>5, <3>1 DEF Held, out
    <2>3. y.ctrls[l] = w.ctrls[l]
      BY <1>3, <1>7
    <2>4. QED
      BY <1>10, <2>1, <2>2, <2>3 DEF Shown
  <1>12. ASSUME NEW k \in 1 .. l PROVE Shown(y, k) = Shown(w, k)
    <2>1. k \in 1 .. l - 1 \/ k = l
      BY <1>3
    <2>2. QED
      BY <1>9, <1>11, <2>1
  <1>13. Picture(y) = [k \in 1 .. l |-> Shown(w, k)]
    BY <1>7, <1>12 DEF Picture
  <1>14. SubSeq(Picture(w), 1, l) = [k \in 1 .. l |-> Shown(w, k)]
    BY <1>1, <1>3 DEF Picture
  <1>15. QED
    BY <1>13, <1>14 DEF l

LEMMA EndFollows ==
  ASSUME Acknowledged, NEW w, Busy(w), w.ok
  PROVE  /\ ~OnEnd(w).ok => StepEnd(Picture(w)) = IllTyped
         /\ OnEnd(w).ok /\ Len(w.ctrls) > 1 => StepEnd(Picture(w)) = Picture(OnEnd(w))
  <1> DEFINE f == Last(Picture(w))
             c == Top(w)
             x == PopCtrl(w)
             y == OnEnd(w)
             n == Len(w.ctrls)
             same == c.kind = "If" /\ ~c.else_seen => c.in = c.out
  <1>1. f.kind = c.kind /\ f.passed = c.else_seen /\ f.in = c.in /\ f.out = c.out
    BY PictureFacts DEF FrameOf
  <1>2. w \in Validators /\ n \in Nat \ {0} /\ Len(Picture(w)) = n
        /\ c.out \in Seq(Operands)
    BY TopFacts, PictureFacts, ValTypesAreOperands DEF Busy, Good, Ctrl
  <1>3. /\ LeavesOut(f) <=> x.ok
        /\ x.ok => /\ x.vals = Below(w) /\ x.ctrls = SubSeq(w.ctrls, 1, n - 1)
                   /\ x.locals = w.locals /\ x.results = w.results
    BY LeavesFacts
  <1> HIDE DEF f, x
  <1>4. CASE same
    <2>1. y = PushVals(x, c.out)
      BY <1>4 DEF OnEnd, Check, x
    <2> HIDE DEF y
    <2>2. Good(x)
      BY PopCtrlCloses DEF x
    <2>3. y.ok = x.ok
      BY <1>2, <2>1, <2>2, PushValsKeeps
    <2>4. StepEnd(Picture(w)) = IF x.ok THEN SubSeq(Picture(w), 1, n - 1) ELSE IllTyped
      BY <1>1, <1>2, <1>3, <1>4 DEF StepEnd, f
    <2>5. ASSUME x.ok, n > 1 PROVE SubSeq(Picture(w), 1, n - 1) = Picture(y)
      <3>1. x \in Validators /\ Good(y)
        BY <1>2, <2>1, <2>2, PushValsKeeps DEF Good, Keeps
      <3>2. y.vals = Below(w) \o c.out /\ y.ctrls = SubSeq(w.ctrls, 1, n - 1)
        BY <1>3, <2>1, <2>5, <3>1 DEF PushVals, Validators
      <3>3. Len(y.ctrls) = n - 1 /\ y.ctrls # <<>>
        <4>1. w.ctrls \in Seq(Ctrl) /\ n - 1 \in 0 .. Len(w.ctrls)
          BY <1>2, GoodFacts DEF Busy
        <4>2. Len(SubSeq(w.ctrls, 1, n - 1)) = n - 1
          BY <4>1, HeadFacts
        <4>3. Len(y.ctrls) = n - 1
          BY <3>2, <4>2
        <4>4. QED
          BY <1>2, <2>5, <4>3
      <3>4. Busy(y)
        BY <3>1, <3>3 DEF Busy
      <3>5. QED
        BY <2>5, <3>2, <3>4, PictureClosed
    <2>6. QED
      BY <2>3, <2>4, <2>5 DEF y
  <1>5. CASE ~same
    <2>1. Check(w, same) = Fail(w)
      BY <1>5 DEF Check
    <2>2. ~Fail(w).ok
      BY FailKeeps DEF Busy
    <2>3. PopCtrl(Fail(w)) = Fail(w)
      BY <2>2 DEF PopCtrl
    <2>4. y = Fail(w)
      BY <2>1, <2>2, <2>3 DEF OnEnd, PushVals
    <2>5. StepEnd(Picture(w)) = IllTyped
      BY <1>1, <1>5 DEF StepEnd, f
    <2>6. QED
      BY <2>2, <2>4, <2>5
  <1>6. QED
    BY <1>4, <1>5

CtrlOf(kind, unreachable, seen, height, in, out) ==
  [kind |-> kind, unreachable |-> unreachable, else_seen |-> seen, height |-> height,
   in |-> in, out |-> out]

LEMMA SetSeen ==
  ASSUME NEW a1, NEW a2, NEW a3, NEW a4, NEW a5, NEW a6, NEW z
  PROVE  [CtrlOf(a1, a2, a3, a4, a5, a6) EXCEPT !.else_seen = z]
           = CtrlOf(a1, a2, z, a4, a5, a6)
  BY DEF CtrlOf

\* What OnElse leaves: the frame starts again, with its else seen.
LEMMA ElseRecord ==
  ASSUME Acknowledged, NEW w, Busy(w), w.ok
  PROVE  LET z == OnElse(w)
             c == Top(w)
             n == Len(w.ctrls)
         IN  /\ z.ok <=> PopCtrl(w).ok /\ c.kind = "If" /\ ~c.else_seen
             /\ z.ok => /\ Busy(z) /\ z.vals = Below(w) \o c.in /\ Len(z.ctrls) = n
                        /\ \A k \in 1 .. n - 1 : z.ctrls[k] = w.ctrls[k]
                        /\ z.ctrls[n] = CtrlOf("If", FALSE, TRUE, c.height, c.in, c.out)
                        /\ z.locals = w.locals /\ z.results = w.results
  <1> DEFINE c == Top(w)
             n == Len(w.ctrls)
             legal == c.kind = "If" /\ ~c.else_seen
             x == PopCtrl(w)
             u == Check(x, legal)
             e == CtrlOf("If", FALSE, FALSE, Len(x.vals), c.in, c.out)
             seen == CtrlOf("If", FALSE, TRUE, Len(x.vals), c.in, c.out)
             y == PushCtrl(u, "If", c.in, c.out)
             s == [y.ctrls EXCEPT ![Len(y.ctrls)].else_seen = TRUE]
             z == OnElse(w)
  <1>1. /\ c.in \in Seq(ValTypes) /\ c.out \in Seq(ValTypes) /\ n \in Nat \ {0}
        /\ "If" \in CtrlKinds /\ w.ctrls \in Seq(Ctrl) /\ w \in Validators
        /\ Len(Below(w)) = c.height
    BY TopFacts, GoodFacts, PartFacts DEF Ctrl, CtrlKinds, Busy, Good
  <1>2. /\ Good(x) /\ x.ok \in BOOLEAN
        /\ x.ok => /\ x.vals = Below(w) /\ x.ctrls = SubSeq(w.ctrls, 1, n - 1)
                   /\ x.locals = w.locals /\ x.results = w.results
    BY LeavesFacts, PopCtrlCloses, GoodFacts
  <1>3. Good(z) /\ (z.ok => Len(z.ctrls) = n)
    BY OnElseReopens
  <1> HIDE DEF x
  <1>4. /\ x.ok /\ legal => u = x
        /\ ~(x.ok /\ legal) => ~u.ok
    <2>1. ~Fail(x).ok
      BY <1>2, FailKeeps
    <2>2. QED
      BY <2>1 DEF Check
  <1>5. CASE ~(x.ok /\ legal)
    <2>1. ~u.ok
      BY <1>4, <1>5
    <2> HIDE DEF u
    <2>2. y = u
      BY <2>1 DEF PushCtrl
    <2>3. z = u
      BY <2>1, <2>2 DEF OnElse, u, x
    <2>4. QED
      BY <1>5, <2>1, <2>3 DEF x
  <1>6. CASE x.ok /\ legal
    <2>1. u = x
      BY <1>4, <1>6
    <2> HIDE DEF u, legal
    <2>2. y.ctrls = Append(x.ctrls, e) /\ y.vals = x.vals \o c.in /\ y.ok
          /\ y.locals = x.locals /\ y.results = x.results /\ y \in Validators
      <3>1. Good(y) /\ y.ok
        BY <1>1, <1>2, <1>6, <2>1, PushCtrlOpens
      <3>2. y = [x EXCEPT !.ctrls = Append(x.ctrls, e), !.vals = x.vals \o c.in]
        BY <1>6, <2>1 DEF PushCtrl, CtrlOf
      <3> HIDE DEF y, e
      <3>3. QED
        BY <1>2, <3>1, <3>2 DEF Good, Validators
    <2>3. e \in Ctrl /\ seen = [e EXCEPT !.else_seen = TRUE]
      <3> DEFINE f == FALSE
                 t == TRUE
      <3>1. e \in Ctrl
        BY <1>1, <1>2, GoodFacts DEF Ctrl, CtrlKinds, CtrlOf
      <3> HIDE DEF f, t
      <3>2. [CtrlOf("If", f, f, Len(x.vals), c.in, c.out) EXCEPT !.else_seen = t]
              = CtrlOf("If", f, t, Len(x.vals), c.in, c.out)
        BY SetSeen
      <3>3. QED
        BY <3>1, <3>2, Zenon DEF f, t, e, seen, CtrlOf
    <2>4. z = [y EXCEPT !.ctrls = s]
      BY <2>2 DEF OnElse, u, x, legal
    <2> HIDE DEF y, e, seen
    <2>5. x.ctrls \in Seq(Ctrl) /\ Len(x.ctrls) = n - 1
          /\ \A k \in 1 .. n - 1 : x.ctrls[k] = w.ctrls[k]
      <3>1. w.ctrls \in Seq(Ctrl) /\ n - 1 \in 0 .. Len(w.ctrls)
        BY <1>1
      <3>2. x.ctrls = SubSeq(w.ctrls, 1, n - 1)
        BY <1>2, <1>6
      <3>3. QED
        BY <3>1, <3>2, HeadFacts
    <2>6. /\ y.ctrls \in Seq(Ctrl) /\ Len(y.ctrls) = n /\ y.ctrls[n] = e
          /\ \A k \in 1 .. n - 1 : y.ctrls[k] = w.ctrls[k]
      BY <1>1, <2>2, <2>3, <2>5
    <2>7. s = [y.ctrls EXCEPT ![n] = seen]
      BY <2>3, <2>6
    <2> HIDE DEF s
    <2>8. \A k \in 1 .. n - 1 : k \in 1 .. n /\ k # n
      BY <1>1
    <2>9. n \in 1 .. n /\ y.ctrls = [k \in 1 .. n |-> y.ctrls[k]]
      BY <1>1, <2>6
    <2>10. s[n] = seen /\ \A k \in 1 .. n - 1 : s[k] = w.ctrls[k]
      BY <2>6, <2>7, <2>8, <2>9
    <2>11. /\ z.ctrls = s /\ z.vals = Below(w) \o c.in /\ z.ok
           /\ z.locals = w.locals /\ z.results = w.results
      BY <1>2, <1>6, <2>2, <2>4 DEF Validators
    <2>12. Len(z.ctrls) = n /\ Busy(z)
      BY <1>1, <1>3, <2>11 DEF Busy
    <2>13. seen = CtrlOf("If", FALSE, TRUE, c.height, c.in, c.out)
      BY <1>1, <1>2, <1>6 DEF seen
    <2> HIDE DEF z
    <2>14. QED
      BY <1>6, <2>10, <2>11, <2>12, <2>13 DEF legal, z, x
  <1>7. QED
    BY <1>5, <1>6

Again(f, passed, any, stacks) ==
  [f EXCEPT !.passed = passed, !.any = any, !.stacks = stacks]

LEMMA SetElse ==
  ASSUME NEW a1, NEW a2, NEW a3, NEW a4, NEW a5, NEW a6, NEW b4, NEW b5, NEW b6
  PROVE  Again(FrameOf(a1, a2, a3, a4, a5, a6), b4, b5, b6) = FrameOf(a1, a2, a3, b4, b5, b6)
  <1> DEFINE f == FrameOf(a1, a2, a3, a4, a5, a6)
             g == [f EXCEPT !.passed = b4]
             h == [g EXCEPT !.any = b5]
  <1>1. g = FrameOf(a1, a2, a3, b4, a5, a6)
    BY DEF FrameOf
  <1> HIDE DEF g
  <1>2. h = FrameOf(a1, a2, a3, b4, b5, a6)
    BY <1>1 DEF FrameOf
  <1> HIDE DEF h
  <1>3. [h EXCEPT !.stacks = b6] = FrameOf(a1, a2, a3, b4, b5, b6)
    BY <1>2 DEF FrameOf
  <1>4. [f EXCEPT !.passed = b4, !.any = b5, !.stacks = b6] = [h EXCEPT !.stacks = b6]
    BY DEF g, h
  <1>5. QED
    BY <1>3, <1>4 DEF Again

LEMMA ElseFollows ==
  ASSUME Acknowledged, NEW w, Busy(w), w.ok
  PROVE  Follows(StepElse(Picture(w)), OnElse(w))
  <1> DEFINE ctx == Picture(w)
             f == Last(ctx)
             c == Top(w)
             n == Len(w.ctrls)
             z == OnElse(w)
             p == TRUE
             a == FALSE
             S == {c.in}
             g == FrameOf(c.kind, c.in, c.out, p, a, S)
  <1>1. /\ n \in Nat \ {0} /\ Len(ctx) = n /\ c.in \in Seq(ValTypes)
        /\ c.in \in Seq(Operands) /\ c.height \in Nat /\ c = w.ctrls[n]
        /\ Below(w) \in Seq(Operands) /\ Len(Below(w)) = c.height
    BY TopFacts, PictureFacts, PartFacts, ValTypesAreOperands DEF Busy, Ctrl, Top
  <1>2. /\ f = FrameOf(c.kind, c.in, c.out, c.else_seen, c.unreachable, Stands(Part(w)))
        /\ f.kind = c.kind /\ f.passed = c.else_seen /\ f.in = c.in
    BY PictureFacts DEF FrameOf
  <1>3. LeavesOut(f) <=> PopCtrl(w).ok
    BY LeavesFacts
  <1> HIDE DEF f
  <1>4. /\ z.ok <=> PopCtrl(w).ok /\ c.kind = "If" /\ ~c.else_seen
        /\ z.ok => /\ Busy(z) /\ z.vals = Below(w) \o c.in /\ Len(z.ctrls) = n
                   /\ \A k \in 1 .. n - 1 : z.ctrls[k] = w.ctrls[k]
                   /\ z.ctrls[n] = CtrlOf("If", FALSE, TRUE, c.height, c.in, c.out)
    BY ElseRecord
  <1> HIDE DEF z
  <1>5. StepElse(ctx) = IF z.ok THEN [ctx EXCEPT ![n] = Again(f, p, a, S)] ELSE IllTyped
    BY <1>1, <1>2, <1>3, <1>4 DEF StepElse, f, Again
  <1>6. CASE ~z.ok
    BY <1>5, <1>6 DEF Follows, z
  <1>7. CASE z.ok
    <2> HIDE DEF p, a, S
    <2>1. Again(f, p, a, S) = g
      <3> DEFINE a1 == c.kind
                 a2 == c.in
                 a3 == c.out
                 a4 == c.else_seen
                 a5 == c.unreachable
                 a6 == Stands(Part(w))
      <3>1. f = FrameOf(a1, a2, a3, a4, a5, a6) /\ g = FrameOf(a1, a2, a3, p, a, S)
        BY <1>2
      <3> HIDE DEF a1, a2, a3, a4, a5, a6, g
      <3>2. Again(FrameOf(a1, a2, a3, a4, a5, a6), p, a, S) = FrameOf(a1, a2, a3, p, a, S)
        BY SetElse
      <3>3. QED
        BY <3>1, <3>2
    <2>2. ctx = [k \in 1 .. n |-> Shown(w, k)]
      BY DEF Picture
    <2> HIDE DEF ctx, g
    <2>3. [ctx EXCEPT ![n] = g] = [k \in 1 .. n |-> IF k = n THEN g ELSE Shown(w, k)]
      BY <1>1, <2>2
    <2>4. z.ctrls[n].height = c.height /\ z.ctrls[n].out = c.out /\ z.ctrls[n].in = c.in
          /\ z.ctrls[n].kind = c.kind /\ z.ctrls[n].else_seen = p
          /\ z.ctrls[n].unreachable = a /\ Top(z) = z.ctrls[n]
      BY <1>4, <1>7 DEF p, a, Top, CtrlOf
    <2>5. /\ Len(z.vals) = c.height + Len(c.in)
          /\ \A m \in 1 .. c.height : z.vals[m] = Below(w)[m]
          /\ \A m \in 1 .. Len(c.in) : z.vals[c.height + m] = c.in[m]
      <3> DEFINE b == Below(w)
                 in == c.in
      <3>1. b \in Seq(Operands) /\ in \in Seq(Operands)
        BY <1>1
      <3> HIDE DEF b, in
      <3>2. /\ Len(b \o in) = Len(b) + Len(in)
            /\ \A m \in 1 .. Len(b) : (b \o in)[m] = b[m]
            /\ \A m \in 1 .. Len(in) : (b \o in)[Len(b) + m] = in[m]
        BY <3>1, ConcatFacts
      <3>3. z.vals = b \o in /\ Len(b) = c.height
        BY <1>1, <1>4, <1>7 DEF b, in
      <3>4. QED
        BY <3>2, <3>3 DEF b, in
    <2>6. ASSUME NEW k \in 1 .. n - 1 PROVE Shown(z, k) = Shown(w, k)
      <3>1. \A m \in 1 .. Top(w).height : Below(w)[m] = w.vals[m]
        BY PartFacts
      <3>2. \A m \in 1 .. w.ctrls[n].height : z.vals[m] = w.vals[m]
        BY <1>1, <2>5, <3>1
      <3>3. n \in 1 .. Len(w.ctrls) /\ n <= Len(z.ctrls)
        BY <1>1, <1>4, <1>7
      <3>4. z.ctrls[n].height = w.ctrls[n].height /\ z.ctrls[n].out = w.ctrls[n].out
        BY <1>1, <2>4
      <3>5. SameBelow(z, w, n)
        BY <1>4, <1>7, <3>2, <3>3, <3>4 DEF SameBelow
      <3>6. QED
        BY <1>4, <1>7, <3>5, ShownSame
    <2>7. Part(z) = c.in
      <3> DEFINE q == Part(z)
                 in == c.in
      <3>1. /\ q \in Seq(Operands) /\ Len(q) = Len(z.vals) - Top(z).height
            /\ \A m \in 1 .. Len(q) : q[m] = z.vals[Top(z).height + m]
        BY <1>4, <1>7, PartFacts
      <3> HIDE DEF q
      <3>2. Top(z).height = c.height /\ (c.height + Len(in)) - c.height = Len(in)
        BY <1>1, <2>4
      <3>3. Len(q) = Len(in) /\ \A m \in 1 .. Len(q) : q[m] = in[m]
        BY <2>5, <3>1, <3>2
      <3>4. q \in Seq(Operands) /\ in \in Seq(Operands)
        BY <1>1, <3>1
      <3> HIDE DEF in
      <3>5. q = in
        BY <3>3, <3>4, SeqEqual
      <3>6. QED
        BY <3>5 DEF q, in
    <2>8. Shown(z, n) = g
      <3>1. Held(z, n) = c.in
        BY <1>4, <1>7, <2>7 DEF Held
      <3>2. Stands(c.in) = S
        BY <1>1, StandsOne DEF S
      <3>3. QED
        BY <2>4, <3>1, <3>2 DEF Shown, g
    <2>9. ASSUME NEW k \in 1 .. n
          PROVE  Shown(z, k) = IF k = n THEN g ELSE Shown(w, k)
      <3>1. k = n \/ k \in 1 .. n - 1
        BY <1>1
      <3>2. QED
        BY <2>6, <2>8, <3>1
    <2>10. Picture(z) = [k \in 1 .. n |-> Shown(z, k)]
      BY <1>4, <1>7 DEF Picture
    <2>11. Picture(z) = [ctx EXCEPT ![n] = g]
      BY <2>3, <2>9, <2>10
    <2>12. QED
      BY <1>5, <1>7, <2>1, <2>11 DEF Follows, z, ctx
  <1>8. QED
    BY <1>6, <1>7

\* The end of the function, in its outermost frame.
LEMMA FunctionEndFollows ==
  ASSUME Acknowledged, NEW w, Busy(w), w.ok, w.ctrls[1].kind = "Func"
  PROVE  OnFunctionEnd(w).ok <=> StepEnd(Picture(w)) = <<>>
  <1> DEFINE f == Last(Picture(w))
             x == PopCtrl(w)
             n == Len(w.ctrls)
  <1>1. f.kind = Top(w).kind /\ Len(Picture(w)) = n /\ n \in Nat \ {0}
    BY PictureFacts DEF FrameOf
  <1>2. /\ LeavesOut(f) <=> x.ok
        /\ x.ok => x.ctrls = SubSeq(w.ctrls, 1, n - 1)
    BY LeavesFacts
  <1>3. x.ok => Len(x.ctrls) = n - 1 /\ x.ctrls \in Seq(Ctrl)
    <2>1. w.ctrls \in Seq(Ctrl) /\ n - 1 \in 0 .. Len(w.ctrls)
      BY <1>1, GoodFacts DEF Busy
    <2>2. SubSeq(w.ctrls, 1, n - 1) \in Seq(Ctrl) /\ Len(SubSeq(w.ctrls, 1, n - 1)) = n - 1
      BY <2>1, HeadFacts
    <2>3. QED
      BY <1>2, <2>2
  <1>4. Good(x)
    BY PopCtrlCloses
  <1> HIDE DEF x, f
  <1>5. OnFunctionEnd(w).ok <=> x.ok /\ x.ctrls = <<>>
    <2>1. ~Fail(x).ok
      BY <1>4, FailKeeps
    <2>2. QED
      BY <2>1 DEF OnFunctionEnd, Check, x
  <1>6. OnFunctionEnd(w).ok <=> x.ok /\ n = 1
    <2>1. x.ok => (x.ctrls = <<>> <=> n - 1 = 0)
      BY <1>3, EmptySeq
    <2>2. QED
      BY <1>1, <1>5, <2>1
  <1>7. SubSeq(Picture(w), 1, n - 1) = [k \in 1 .. n - 1 |-> Shown(w, k)]
    BY <1>1 DEF Picture
  <1>8. CASE n = 1
    <2>1. f.kind # "If"
      BY <1>1, <1>8 DEF Top
    <2>2. StepEnd(Picture(w)) = IF x.ok THEN SubSeq(Picture(w), 1, n - 1) ELSE IllTyped
      BY <1>1, <1>2, <2>1 DEF StepEnd, f
    <2>3. SubSeq(Picture(w), 1, n - 1) = <<>>
      BY <1>7, <1>8
    <2>4. IllTyped # <<>>
      BY DEF IllTyped
    <2>5. QED
      BY <1>6, <1>8, <2>2, <2>3, <2>4
  <1>9. CASE n # 1
    <2>1. StepEnd(Picture(w)) \in {SubSeq(Picture(w), 1, n - 1), IllTyped}
      BY <1>1 DEF StepEnd
    <2>2. n - 1 \in Nat \ {0}
      BY <1>1, <1>9
    <2>3. SubSeq(Picture(w), 1, n - 1) # <<>>
      <3> DEFINE m == n - 1
                 s == SubSeq(Picture(w), 1, m)
      <3>1. m \in Nat \ {0} /\ s = [k \in 1 .. m |-> Shown(w, k)]
        BY <1>7, <2>2
      <3> HIDE DEF m, s
      <3>2. Len(s) = m /\ Len(<<>>) = 0
        BY <3>1
      <3>3. s # <<>>
        BY <3>1, <3>2
      <3>4. QED
        BY <3>3 DEF s, m
    <2>4. IllTyped # <<>>
      BY DEF IllTyped
    <2>5. QED
      BY <1>6, <1>9, <2>1, <2>3, <2>4
  <1>10. QED
    BY <1>8, <1>9

(***************************************************************************)
(* Branches.                                                               *)
(***************************************************************************)
LabelOf(ctx, rel) == LET g == ctx[Len(ctx) - rel]
                     IN  IF g.kind = "Loop" THEN g.in ELSE g.out
InRange(ctx, rels) == \A k \in 1 .. Len(rels) : rels[k] < Len(ctx)

LEMMA LabelFacts ==
  ASSUME NEW w, Busy(w), NEW rel \in Nat, rel < Len(w.ctrls)
  PROVE  /\ LabelOf(Picture(w), rel) = LabelTypes(FrameAt(w, rel))
         /\ LabelTypes(FrameAt(w, rel)) \in Seq(ValTypes)
  <1> DEFINE k == Len(w.ctrls) - rel
             g == Picture(w)[k]
             c == w.ctrls[k]
  <1>1. k \in 1 .. Len(w.ctrls) /\ Len(Picture(w)) = Len(w.ctrls)
    BY PictureFacts
  <1>2. c \in Ctrl
    BY <1>1, GoodFacts DEF Busy
  <1>3. g = Shown(w, k)
    BY <1>1, PictureFacts
  <1>4. g.kind = c.kind /\ g.in = c.in /\ g.out = c.out
    BY <1>3 DEF Shown, FrameOf
  <1>5. LabelOf(Picture(w), rel) = LabelTypes(c)
    BY <1>1, <1>4 DEF LabelOf, LabelTypes
  <1>6. QED
    BY <1>2, <1>5 DEF FrameAt, LabelTypes, Ctrl

LEMMA StepBranchIs ==
  ASSUME NEW ctx, NEW op, NEW rels
  PROVE  LET f == Last(ctx)
             n == Len(rels)
             S == IF op = "Br" THEN f.stacks ELSE After(f, <<"I32">>, <<>>)
             label(k) == LabelOf(ctx, rels[k])
         IN  /\ ~InRange(ctx, rels) => StepBranch(ctx, op, rels) = IllTyped
             /\ InRange(ctx, rels) /\ op = "BrIf" =>
                  StepBranch(ctx, op, rels)
                    = WithStacks(ctx, After([f EXCEPT !.stacks = S], label(1), label(1)))
             /\ InRange(ctx, rels) /\ op # "BrIf" =>
                  StepBranch(ctx, op, rels)
                    = WithAny(ctx, \E s \in S : \A k \in 1 .. n :
                            /\ Len(label(k)) = Len(label(n))
                            /\ Takes(f, s, label(k)) \/ (Departs("labels") /\ k < n))
  BY DEF StepBranch, LabelOf, InRange

LEMMA BrFollows ==
  ASSUME Acknowledged, NEW w, Busy(w), w.ok, NEW rels \in Seq(Nat), Len(rels) = 1
  PROVE  Follows(StepBranch(Picture(w), "Br", rels), OnBr(w, rels[1]))
  <1> DEFINE ctx == Picture(w)
             f == Last(ctx)
             rel == rels[1]
             l == LabelTypes(FrameAt(w, rel))
             label(k) == LabelOf(ctx, rels[k])
  <1>1. rel \in Nat /\ Len(ctx) = Len(w.ctrls)
    BY PictureFacts, SMTT(40)
  <1>2. InRange(ctx, rels) <=> rel < Len(w.ctrls)
    BY <1>1 DEF InRange
  <1> HIDE DEF ctx
  <1>3. CASE rel < Len(w.ctrls)
    <2>1. label(1) = l /\ l \in Seq(ValTypes)
      BY <1>1, <1>3, LabelFacts DEF ctx
    <2>2. StepBranch(ctx, "Br", rels)
            = WithAny(ctx, \E s \in f.stacks : \A k \in 1 .. Len(rels) :
                             /\ Len(label(k)) = Len(label(Len(rels)))
                             /\ Takes(f, s, label(k)) \/ (Departs("labels") /\ k < Len(rels)))
      BY <1>2, <1>3, StepBranchIs
    <2> HIDE DEF label, l, f
    <2>3. ASSUME NEW s
          PROVE  (\A k \in 1 .. Len(rels) :
                    /\ Len(label(k)) = Len(label(Len(rels)))
                    /\ Takes(f, s, label(k)) \/ (Departs("labels") /\ k < Len(rels)))
                 <=> Takes(f, s, l)
      BY <2>1
    <2>4. StepBranch(ctx, "Br", rels) = WithAny(ctx, \E s \in f.stacks : Takes(f, s, l))
      BY <2>2, <2>3 DEF WithAny
    <2>5. OnBr(w, rel) = Unreachable(PopVals(w, l))
      BY <1>3 DEF OnBr, l
    <2>6. Follows(WithAny(ctx, \E s \in f.stacks : Takes(f, s, l)), Unreachable(PopVals(w, l)))
      BY <2>1, LeaveFollows DEF ctx, f
    <2>7. QED
      BY <2>4, <2>5, <2>6 DEF ctx
  <1>4. CASE ~(rel < Len(w.ctrls))
    <2>1. OnBr(w, rel) = Fail(w)
      BY <1>4 DEF OnBr
    <2>2. ~Fail(w).ok
      BY FailKeeps DEF Busy
    <2>3. StepBranch(ctx, "Br", rels) = IllTyped
      BY <1>2, <1>4, StepBranchIs
    <2>4. QED
      BY <2>1, <2>2, <2>3, FailFollows DEF ctx
  <1>5. QED
    BY <1>3, <1>4

\* f after an i32 was popped from each of its stacks.
LEMMA FrameThen ==
  ASSUME Acknowledged, NEW w, Busy(w), NEW S
  PROVE  LET f == Last(Picture(w))
             g == [f EXCEPT !.stacks = S]
         IN  /\ g.stacks = S /\ g.any = Top(w).unreachable
             /\ \A s, ts : Takes(g, s, ts) <=> Takes(f, s, ts)
  <1> DEFINE f == Last(Picture(w))
             g == [f EXCEPT !.stacks = S]
             a1 == Top(w).kind
             a2 == Top(w).in
             a3 == Top(w).out
             a4 == Top(w).else_seen
             a5 == Top(w).unreachable
             a6 == Stands(Part(w))
  <1>1. f = FrameOf(a1, a2, a3, a4, a5, a6)
    BY PictureFacts
  <1> HIDE DEF f, a1, a2, a3, a4, a5, a6
  <1>2. g = FrameOf(a1, a2, a3, a4, a5, S)
    BY <1>1, SetStacks
  <1> HIDE DEF g
  <1>3. g.stacks = S /\ g.any = a5 /\ f.any = a5
    BY <1>1, <1>2 DEF FrameOf
  <1>4. \A s, ts : Takes(g, s, ts) <=> Takes(f, s, ts)
    BY <1>3 DEF Takes
  <1>5. QED
    BY <1>3, <1>4 DEF f, g, a5

LEMMA BrIfFollows ==
  ASSUME Acknowledged, NEW w, Busy(w), w.ok, NEW rels \in Seq(Nat), Len(rels) = 1
  PROVE  Follows(StepBranch(Picture(w), "BrIf", rels), OnBrIf(w, rels[1]))
  <1> DEFINE ctx == Picture(w)
             f == Last(ctx)
             rel == rels[1]
             l == LabelTypes(FrameAt(w, rel))
             cond == <<"I32">>
             p == Part(w)
             any == Top(w).unreachable
             q == Rest(p, cond, <<>>)
             S == After(f, cond, <<>>)
             g == [f EXCEPT !.stacks = S]
             x == PopVals(w, cond)
             y == OnBrIf(w, rel)
             label(k) == LabelOf(ctx, rels[k])
             step == StepBranch(ctx, "BrIf", rels)
  <1>1. rel \in Nat /\ Len(ctx) = Len(w.ctrls)
    BY PictureFacts, SMTT(40)
  <1>2. InRange(ctx, rels) <=> rel < Len(w.ctrls)
    BY <1>1 DEF InRange
  <1>3. /\ cond \in Seq(ValTypes) /\ cond \in Seq(Operands) /\ p \in Seq(Operands)
        /\ <<>> \in Seq(ValTypes) /\ <<>> \in Seq(Operands)
    <2>1. cond \in Seq(ValTypes) /\ <<>> \in Seq(ValTypes)
      BY AlphabetFacts
    <2>2. p \in Seq(Operands)
      BY PartFacts
    <2> HIDE DEF cond
    <2>3. cond \in Seq(Operands) /\ <<>> \in Seq(Operands)
      BY <2>1, ValTypesAreOperands
    <2>4. QED
      BY <2>1, <2>2, <2>3
  <1>4. f.stacks = Stands(p) /\ f.any = any
    BY PictureFacts
  <1>5. g.stacks = S /\ g.any = any
    BY FrameThen
  <1>6. InRange(ctx, rels) => step = WithStacks(ctx, After(g, label(1), label(1)))
    BY StepBranchIs
  <1>7. ~InRange(ctx, rels) => step = IllTyped
    BY StepBranchIs
  <1>8. Keeps(w, x) /\ Good(x)
    BY <1>3, Steps DEF Keeps
  <1> HIDE DEF cond, p, f, any
  <1>9. /\ x.ok <=> CanTake(p, any, cond)
        /\ x.ok => x = With(w, q)
    BY <1>3, PopsWith DEF p, any
  <1>10. /\ CanTake(p, any, cond) => S = Stands(q)
         /\ ~CanTake(p, any, cond) => S = {}
    <2> DEFINE none == <<>>
    <2>1. none \in Seq(ValTypes) /\ p \in Seq(Operands) /\ cond \in Seq(ValTypes)
      BY <1>3
    <2> HIDE DEF none
    <2>2. /\ CanTake(p, f.any, cond) => After(f, cond, none) = Stands(Rest(p, cond, none))
          /\ ~CanTake(p, f.any, cond) => After(f, cond, none) = {}
      BY <1>4, <2>1, AfterFacts
    <2>3. QED
      BY <1>4, <2>2 DEF none
  <1>11. q \in Seq(Operands)
    <2> DEFINE none == <<>>
    <2>1. none \in Seq(Operands) /\ p \in Seq(Operands) /\ cond \in Seq(Operands)
      BY <1>3
    <2> HIDE DEF none
    <2>2. Rest(p, cond, none) \in Seq(Operands)
      BY <2>1, RestFacts
    <2>3. QED
      BY <2>2 DEF none
  <1> HIDE DEF q, S, g, x, step, ctx
  <1>12. CASE rel < Len(w.ctrls)
    <2>1. label(1) = l /\ l \in Seq(ValTypes) /\ l \in Seq(Operands)
      BY <1>1, <1>12, LabelFacts, ValTypesAreOperands DEF ctx
    <2> HIDE DEF l
    <2>2. y = ApplySig(x, l, l)
      BY <1>12 DEF OnBrIf, x, cond, l
    <2>3. step = WithStacks(ctx, After(g, l, l))
      BY <1>2, <1>6, <1>12, <2>1
    <2> HIDE DEF y
    <2>4. CASE ~x.ok
      <3>1. S = {}
        BY <1>9, <1>10, <2>4
      <3>2. After(g, l, l) = {}
        BY <1>5, <3>1 DEF After
      <3>3. step = IllTyped
        BY <2>3, <3>2 DEF WithStacks
      <3>4. ~y.ok
        BY <2>2, <2>4 DEF ApplySig, PopVals, PushVals
      <3>5. QED
        BY <3>3, <3>4 DEF Follows, step, ctx, y
    <2>5. CASE x.ok
      <3>1. S = Stands(q) /\ x = With(w, q)
        BY <1>9, <1>10, <2>5
      <3>2. Busy(x) /\ Part(x) = q /\ Top(x) = Top(w)
        BY <1>11, <3>1, WithFacts
      <3>3. /\ y.ok <=> CanTake(q, any, l)
            /\ y.ok => y = With(x, Rest(q, l, l))
        BY <2>1, <2>2, <2>5, <3>2, ApplyWith DEF any
      <3>4. Rest(q, l, l) \in Seq(Operands)
        BY <1>11, <2>1, RestFacts
      <3>5. With(x, Rest(q, l, l)) = With(w, Rest(q, l, l))
        BY <1>11, <3>1, WithTwice
      <3>6. /\ CanTake(q, any, l) => After(g, l, l) = Stands(Rest(q, l, l))
            /\ ~CanTake(q, any, l) => After(g, l, l) = {}
        BY <1>5, <1>11, <2>1, <3>1, AfterFacts
      <3>7. CASE y.ok
        <4>1. step = WithStacks(ctx, Stands(Rest(q, l, l)))
          BY <2>3, <3>3, <3>6, <3>7
        <4>2. step = Picture(y)
          BY <3>3, <3>4, <3>5, <3>7, <4>1, PictureWith DEF ctx
        <4>3. QED
          BY <3>7, <4>2 DEF Follows, step, ctx, y
      <3>8. CASE ~y.ok
        <4>1. step = IllTyped
          BY <2>3, <3>3, <3>6, <3>8 DEF WithStacks
        <4>2. QED
          BY <3>8, <4>1 DEF Follows, step, ctx, y
      <3>9. QED
        BY <3>7, <3>8
    <2>6. QED
      BY <2>4, <2>5
  <1>13. CASE ~(rel < Len(w.ctrls))
    <2>1. y = Fail(x)
      BY <1>13 DEF OnBrIf, x, cond
    <2>2. ~Fail(x).ok
      BY <1>8, FailKeeps
    <2>3. step = IllTyped
      BY <1>2, <1>7, <1>13
    <2>4. QED
      BY <2>1, <2>2, <2>3, FailFollows DEF step, ctx
  <1>14. QED
    BY <1>12, <1>13

LEMMA BrTableFollows ==
  ASSUME Acknowledged, NEW w, Busy(w), w.ok, NEW rels \in Seq(Nat), rels # <<>>,
         Departs("labels") \/ Len(rels) = 1
  PROVE  Follows(StepBranch(Picture(w), "BrTable", rels), OnBrTable(w, rels))
  <1> DEFINE ctx == Picture(w)
             f == Last(ctx)
             n == Len(rels)
             lt(k) == LabelTypes(FrameAt(w, rels[k]))
             l == lt(n)
             cond == <<"I32">>
             p == Part(w)
             any == Top(w).unreachable
             q == Rest(p, cond, <<>>)
             S == After(f, cond, <<>>)
             g == [f EXCEPT !.stacks = S]
             x == PopVals(w, cond)
             y == OnBrTable(w, rels)
             label(k) == LabelOf(ctx, rels[k])
             same == \A k \in 1 .. n : Len(lt(k)) = Len(l)
             step == StepBranch(ctx, "BrTable", rels)
  <1>1. /\ n \in Nat \ {0} /\ Len(ctx) = Len(w.ctrls) /\ \A k \in 1 .. n : rels[k] \in Nat
    BY PictureFacts
  <1>2. InRange(ctx, rels) <=> \A k \in 1 .. n : rels[k] < Len(w.ctrls)
    BY <1>1 DEF InRange
  <1>3. /\ cond \in Seq(ValTypes) /\ cond \in Seq(Operands) /\ p \in Seq(Operands)
        /\ <<>> \in Seq(ValTypes) /\ <<>> \in Seq(Operands) /\ any \in BOOLEAN
    <2>1. cond \in Seq(ValTypes) /\ <<>> \in Seq(ValTypes)
      BY AlphabetFacts
    <2>2. p \in Seq(Operands) /\ any \in BOOLEAN
      BY PartFacts, TopFacts DEF Busy, Ctrl
    <2> HIDE DEF cond
    <2>3. cond \in Seq(Operands) /\ <<>> \in Seq(Operands)
      BY <2>1, ValTypesAreOperands
    <2>4. QED
      BY <2>1, <2>2, <2>3
  <1>4. f.stacks = Stands(p) /\ f.any = any
    BY PictureFacts
  <1>5. g.stacks = S /\ g.any = any /\ \A s, ts : Takes(g, s, ts) <=> Takes(f, s, ts)
    BY FrameThen
  <1>6. InRange(ctx, rels) =>
          step = WithAny(ctx, \E s \in S : \A k \in 1 .. n :
                            /\ Len(label(k)) = Len(label(n))
                            /\ Takes(f, s, label(k)) \/ (Departs("labels") /\ k < n))
    <2> DEFINE op == "BrTable"
    <2>1. op # "Br" /\ op # "BrIf"
      OBVIOUS
    <2> HIDE DEF op, ctx
    <2>2. InRange(ctx, rels) /\ op # "BrIf" =>
            StepBranch(ctx, op, rels)
              = WithAny(ctx, \E s \in IF op = "Br" THEN f.stacks ELSE S : \A k \in 1 .. n :
                              /\ Len(label(k)) = Len(label(n))
                              /\ Takes(f, s, label(k)) \/ (Departs("labels") /\ k < n))
      BY StepBranchIs, ZenonT(40)
    <2> HIDE DEF S, f, label
    <2>3. QED
      BY <2>1, <2>2 DEF op
  <1>7. ~InRange(ctx, rels) => step = IllTyped
    BY StepBranchIs
  <1>8. Keeps(w, x) /\ Good(x) /\ Busy(x)
    BY <1>3, Steps, KeepsBusy DEF Keeps
  <1> HIDE DEF cond, p, f, any
  <1>9. /\ CanTake(p, any, cond) => S = Stands(q)
        /\ ~CanTake(p, any, cond) => S = {}
    <2> DEFINE none == <<>>
    <2>1. none \in Seq(ValTypes) /\ p \in Seq(Operands) /\ cond \in Seq(ValTypes)
      BY <1>3
    <2> HIDE DEF none
    <2>2. /\ CanTake(p, f.any, cond) => After(f, cond, none) = Stands(Rest(p, cond, none))
          /\ ~CanTake(p, f.any, cond) => After(f, cond, none) = {}
      BY <1>4, <2>1, AfterFacts
    <2>3. QED
      BY <1>4, <2>2 DEF none
  <1>10. q \in Seq(Operands)
    <2> DEFINE none == <<>>
    <2>1. none \in Seq(Operands) /\ p \in Seq(Operands) /\ cond \in Seq(Operands)
      BY <1>3
    <2> HIDE DEF none
    <2>2. Rest(p, cond, none) \in Seq(Operands)
      BY <2>1, RestFacts
    <2>3. QED
      BY <2>2 DEF none
  <1> HIDE DEF q, S, g, x, step, ctx
  <1>11. CASE InRange(ctx, rels)
    <2>1. ASSUME NEW k \in 1 .. n PROVE label(k) = lt(k) /\ lt(k) \in Seq(ValTypes)
      <3>1. rels[k] \in Nat /\ rels[k] < Len(w.ctrls)
        BY <1>1, <1>2, <1>11
      <3>2. QED
        BY <3>1, LabelFacts DEF ctx
    <2>2. n \in 1 .. n /\ l \in Seq(ValTypes) /\ l \in Seq(Operands) /\ label(n) = l
      BY <1>1, <2>1, ValTypesAreOperands
    <2>3. y = IF same THEN Unreachable(PopVals(x, l)) ELSE Fail(x)
      BY <1>2, <1>11 DEF OnBrTable, x, cond
    <2>4. ASSUME NEW s
          PROVE  (\A k \in 1 .. n : /\ Len(label(k)) = Len(label(n))
                                    /\ Takes(f, s, label(k)) \/ (Departs("labels") /\ k < n))
                 <=> same /\ Takes(f, s, l)
      <3> DEFINE P(k) == /\ Len(label(k)) = Len(label(n))
                         /\ Takes(f, s, label(k)) \/ (Departs("labels") /\ k < n)
      <3>1. (\A k \in 1 .. n : P(k)) => same /\ Takes(f, s, l)
        <4>1. ~(n < n)
          BY <1>1
        <4>2. (\A k \in 1 .. n : P(k)) => Takes(f, s, l)
          BY <2>2, <4>1
        <4>3. (\A k \in 1 .. n : P(k)) => same
          BY <2>1, <2>2
        <4>4. QED
          BY <4>2, <4>3
      <3>2. ASSUME same, Takes(f, s, l), NEW k \in 1 .. n PROVE P(k)
        <4>1. Len(label(k)) = Len(label(n))
          BY <2>1, <2>2, <3>2
        <4>2. k = n \/ (Departs("labels") /\ k < n)
          BY <1>1
        <4>3. QED
          BY <2>2, <3>2, <4>1, <4>2
      <3>3. QED
        BY <3>1, <3>2
    <2> DEFINE b == l \o cond
               z == PopVals(w, b)
    <2>5. /\ b \in Seq(ValTypes) /\ SameVerdict(z, PopVals(x, l))
      BY <1>3, <2>2, ApplyTwice DEF x
    <2>6. b \in Seq(Operands)
      BY <2>5, ValTypesAreOperands
    <2>7. /\ CanTake(p, any, b) <=> CanTake(p, any, cond) /\ CanTake(q, any, l)
      BY <1>3, <2>2, TakeTwice DEF q
    <2> HIDE DEF b, l
    <2>8. CanTake(p, any, b) <=> \E s \in f.stacks : Takes(f, s, b)
      BY <1>3, <1>4, <2>5, AfterFacts
    <2>9. S = Stands(q) => (CanTake(q, any, l) <=> \E s \in S : Takes(f, s, l))
      <3>1. S = Stands(q) => (CanTake(q, g.any, l) <=> \E s \in g.stacks : Takes(g, s, l))
        <4>1. S = Stands(q) => g.stacks = Stands(q)
          BY <1>5
        <4>2. QED
          BY <1>10, <2>2, <4>1, AfterFacts
      <3>2. QED
        BY <1>5, <3>1
    <2>10. (\E s \in f.stacks : Takes(f, s, b)) <=> \E s \in S : Takes(f, s, l)
      BY <1>9, <2>7, <2>8, <2>9
    <2> HIDE DEF same, label
    <2>11. CASE ~same
      <3>1. step = IllTyped
        BY <1>6, <1>11, <2>4, <2>11 DEF WithAny
      <3>2. y = Fail(x) /\ ~Fail(x).ok
        BY <1>8, <2>3, <2>11, FailKeeps
      <3>3. QED
        BY <3>1, <3>2, FailFollows DEF step, ctx
    <2>12. CASE same
      <3>1. step = WithAny(ctx, \E s \in f.stacks : Takes(f, s, b))
        BY <1>6, <1>11, <2>4, <2>10, <2>12 DEF WithAny
      <3>2. Follows(step, Unreachable(z))
        BY <2>5, <3>1, LeaveFollows DEF ctx, f
      <3>3. Good(z) /\ Good(PopVals(x, l))
        BY <1>8, <2>2, <2>6, Steps DEF Keeps
      <3> HIDE DEF z
      <3>4. SameVerdict(Unreachable(z), Unreachable(PopVals(x, l)))
        BY <2>5, <3>3, UnreachableSame
      <3>5. y = Unreachable(PopVals(x, l))
        BY <2>3, <2>12
      <3> HIDE DEF y
      <3>6. Follows(step, y)
        BY <3>2, <3>4, <3>5, FollowsSame
      <3>7. QED
        BY <3>6 DEF step, ctx, y
    <2>13. QED
      BY <2>11, <2>12
  <1>12. CASE ~InRange(ctx, rels)
    <2>1. y = Fail(x)
      BY <1>2, <1>12 DEF OnBrTable, x, cond
    <2>2. ~Fail(x).ok
      BY <1>8, FailKeeps
    <2>3. step = IllTyped
      BY <1>7, <1>12
    <2>4. QED
      BY <2>1, <2>2, <2>3, FailFollows DEF step, ctx
  <1>13. QED
    BY <1>11, <1>12

(***************************************************************************)
(* Replaying.  A replay is the only function that plays the body; that     *)
(* there is one, and only one, is shown by the least place where not.      *)
(***************************************************************************)
Grown(ctx, t, L, r) == IF ctx = IllTyped THEN IllTyped ELSE Step(ctx, t, L, r)
Fresh(r) == Opened(<<>>, "Func", <<>>, r)

Plays(g, c, L, r, m) ==
  g = [n \in 0 .. m |-> IF n = 0 THEN Fresh(r) ELSE Grown(g[n - 1], c[n], L, r)]

LEMMA PlayValues ==
  ASSUME NEW g, NEW c, NEW L, NEW r, NEW m \in Nat, Plays(g, c, L, r, m)
  PROVE  g[0] = Fresh(r) /\ \A n \in 1 .. m : g[n] = Grown(g[n - 1], c[n], L, r)
  <1> DEFINE F == [n \in 0 .. m |-> IF n = 0 THEN Fresh(r) ELSE Grown(g[n - 1], c[n], L, r)]
  <1>1. g = F
    BY Zenon DEF Plays
  <1>2. F[0] = Fresh(r)
    <2>1. 0 \in 0 .. m
      OBVIOUS
    <2>2. QED
      BY <2>1, Zenon
  <1>3. ASSUME NEW n \in 1 .. m PROVE F[n] = Grown(g[n - 1], c[n], L, r)
    <2>1. n \in 0 .. m /\ n # 0
      OBVIOUS
    <2>2. QED
      BY <2>1, Zenon
  <1> HIDE DEF F
  <1>4. QED
    BY <1>1, <1>2, <1>3

LEMMA PlayFrom ==
  ASSUME NEW g, NEW c, NEW L, NEW r, NEW m \in Nat, g = [n \in 0 .. m |-> g[n]],
         g[0] = Fresh(r), \A n \in 1 .. m : g[n] = Grown(g[n - 1], c[n], L, r)
  PROVE  Plays(g, c, L, r, m)
  <1> DEFINE F == [n \in 0 .. m |-> IF n = 0 THEN Fresh(r) ELSE Grown(g[n - 1], c[n], L, r)]
  <1>1. ASSUME NEW n \in 0 .. m PROVE g[n] = F[n]
    <2>1. CASE n = 0
      BY <2>1
    <2>2. CASE n # 0
      <3>1. n \in 1 .. m
        BY <2>2
      <3>2. F[n] = Grown(g[n - 1], c[n], L, r)
        BY <2>2, Zenon
      <3> HIDE DEF F
      <3>3. QED
        BY <3>1, <3>2
    <2>3. QED
      BY <2>1, <2>2
  <1>2. F = [n \in 0 .. m |-> F[n]]
    OBVIOUS
  <1> HIDE DEF F
  <1>3. g = F
    BY <1>1, <1>2
  <1>4. QED
    BY <1>3, Zenon DEF Plays, F

LEMMA PlayExtend ==
  ASSUME NEW g, NEW c, NEW L, NEW r, NEW m \in Nat, Plays(g, c, L, r, m)
  PROVE  \E h : Plays(h, c, L, r, m + 1)
  <1> DEFINE last == Grown(g[m], c[m + 1], L, r)
             h == [n \in 0 .. m + 1 |-> IF n = m + 1 THEN last ELSE g[n]]
  <1>1. ASSUME NEW n \in 1 .. m + 1 PROVE h[n] = Grown(h[n - 1], c[n], L, r)
    <2>1. n - 1 \in 0 .. m + 1 /\ n - 1 # m + 1
      OBVIOUS
    <2>2. h[n - 1] = g[n - 1]
      BY <2>1
    <2>3. CASE n = m + 1
      <3>1. m + 1 \in 0 .. m + 1 /\ n - 1 = m
        BY <2>3
      <3>2. h[m + 1] = last
        BY <3>1
      <3> HIDE DEF h
      <3>3. QED
        BY <2>2, <2>3, <3>1, <3>2
    <2>4. CASE n # m + 1
      <3>1. n \in 1 .. m /\ h[n] = g[n]
        BY <2>4
      <3> HIDE DEF h
      <3>2. g[n] = Grown(g[n - 1], c[n], L, r)
        BY <3>1, PlayValues
      <3>3. QED
        BY <2>2, <3>1, <3>2
    <2>5. QED
      BY <2>3, <2>4
  <1>2. h[0] = g[0] /\ h = [n \in 0 .. m + 1 |-> h[n]]
    OBVIOUS
  <1>3. g[0] = Fresh(r) /\ m + 1 \in Nat
    <2>1. g[0] = Fresh(r)
      BY PlayValues
    <2>2. QED
      BY <2>1
  <1> HIDE DEF h
  <1>4. Plays(h, c, L, r, m + 1)
    BY <1>1, <1>2, <1>3, PlayFrom
  <1>5. QED
    BY <1>4

LEMMA PlayExists ==
  ASSUME NEW c, NEW L, NEW r, NEW m \in Nat
  PROVE  \E g : Plays(g, c, L, r, m)
  <1> DEFINE bad == {n \in Nat : ~\E g : Plays(g, c, L, r, n)}
  <1>1. \E g : Plays(g, c, L, r, 0)
    <2> DEFINE g == [n \in 0 .. 0 |-> Fresh(r)]
    <2>1. g = [n \in 0 .. 0 |-> g[n]] /\ g[0] = Fresh(r)
      OBVIOUS
    <2>2. \A n \in 1 .. 0 : g[n] = Grown(g[n - 1], c[n], L, r)
      OBVIOUS
    <2>3. 0 \in Nat
      OBVIOUS
    <2> HIDE DEF g
    <2>4. Plays(g, c, L, r, 0)
      BY <2>1, <2>2, <2>3, PlayFrom
    <2>5. QED
      BY <2>4
  <1>2. SUFFICES ASSUME bad # {} PROVE FALSE
    OBVIOUS
  <1>3. bad \subseteq Nat
    OBVIOUS
  <1>4. PICK n \in bad : \A j \in bad : n <= j
    <2> HIDE DEF bad
    <2>1. QED
      BY <1>2, <1>3, NatLeast
  <1>5. n \in Nat /\ n # 0 /\ ~\E g : Plays(g, c, L, r, n)
    BY <1>1
  <1> DEFINE l == n - 1
  <1>6. l \in Nat /\ n = l + 1 /\ ~(n <= l)
    BY <1>5
  <1>7. l \notin bad
    BY <1>4, <1>6
  <1> HIDE DEF l
  <1>8. PICK g : Plays(g, c, L, r, l)
    BY <1>6, <1>7
  <1>9. \E h : Plays(h, c, L, r, l + 1)
    BY <1>6, <1>8, PlayExtend
  <1>10. QED
    BY <1>5, <1>6, <1>9

LEMMA PlaySame ==
  ASSUME NEW g, NEW h, NEW c, NEW d, NEW L, NEW r, NEW m \in Nat, NEW k \in Nat, m <= k,
         Plays(g, c, L, r, m), Plays(h, d, L, r, k), \A n \in 1 .. m : c[n] = d[n]
  PROVE  \A n \in 0 .. m : g[n] = h[n]
  <1> DEFINE bad == {n \in 0 .. m : g[n] # h[n]}
  <1>1. /\ g[0] = Fresh(r) /\ \A n \in 1 .. m : g[n] = Grown(g[n - 1], c[n], L, r)
        /\ h[0] = Fresh(r) /\ \A n \in 1 .. k : h[n] = Grown(h[n - 1], d[n], L, r)
    BY PlayValues
  <1>2. SUFFICES ASSUME bad # {} PROVE FALSE
    OBVIOUS
  <1>3. bad \subseteq Nat
    OBVIOUS
  <1>4. PICK n \in bad : \A j \in bad : n <= j
    <2> HIDE DEF bad
    <2>1. QED
      BY <1>2, <1>3, NatLeast
  <1>5. n \in 0 .. m /\ g[n] # h[n]
    OBVIOUS
  <1>6. n # 0
    BY <1>1, <1>5
  <1>7. n \in 1 .. m /\ n \in 1 .. k /\ n - 1 \in 0 .. m /\ ~(n <= n - 1)
    BY <1>5, <1>6
  <1>8. g[n - 1] = h[n - 1]
    BY <1>4, <1>7
  <1>9. QED
    BY <1>1, <1>5, <1>7, <1>8

LEMMA ReplayPlays ==
  ASSUME NEW c, NEW L, NEW r, Len(c) \in Nat
  PROVE  \E g : Plays(g, c, L, r, Len(c)) /\ Replay(c, L, r) = g[Len(c)]
  <1> DEFINE g == CHOOSE f : Plays(f, c, L, r, Len(c))
  <1>1. \E f : Plays(f, c, L, r, Len(c))
    BY PlayExists
  <1>2. Plays(CHOOSE f : Plays(f, c, L, r, Len(c)), c, L, r, Len(c))
    BY <1>1
  <1>3. Replay(c, L, r) = (CHOOSE f : Plays(f, c, L, r, Len(c)))[Len(c)]
    BY Zenon DEF Replay, Plays, Grown, Fresh
  <1>4. QED
    BY <1>2, <1>3

LEMMA ReplayEmpty ==
  ASSUME NEW L, NEW r
  PROVE  Replay(<<>>, L, r) = Fresh(r)
  <1> DEFINE c == <<>>
  <1>1. Len(c) = 0 /\ 0 \in Nat
    OBVIOUS
  <1> HIDE DEF c
  <1>2. PICK g : Plays(g, c, L, r, 0) /\ Replay(c, L, r) = g[0]
    BY <1>1, ReplayPlays
  <1>3. g[0] = Fresh(r)
    BY <1>1, <1>2, PlayValues
  <1>4. QED
    BY <1>2, <1>3 DEF c

LEMMA ReplayAppend ==
  ASSUME NEW c \in Seq(Token), NEW t \in Token, NEW L, NEW r
  PROVE  Replay(Append(c, t), L, r) = Grown(Replay(c, L, r), t, L, r)
  <1> DEFINE d == Append(c, t)
             m == Len(c)
  <1>1. /\ m \in Nat /\ Len(d) = m + 1 /\ m + 1 \in Nat /\ m <= m + 1 /\ d[m + 1] = t
        /\ \A n \in 1 .. m : c[n] = d[n]
    OBVIOUS
  <1> HIDE DEF d, m
  <1>2. PICK g : Plays(g, c, L, r, m) /\ Replay(c, L, r) = g[m]
    BY <1>1, ReplayPlays DEF m
  <1>3. PICK h : Plays(h, d, L, r, m + 1) /\ Replay(d, L, r) = h[m + 1]
    BY <1>1, ReplayPlays
  <1>4. \A n \in 0 .. m : g[n] = h[n]
    BY <1>1, <1>2, <1>3, PlaySame
  <1>5. g[m] = h[m] /\ m + 1 \in 1 .. m + 1 /\ (m + 1) - 1 = m
    BY <1>1, <1>4
  <1>6. \A n \in 1 .. m + 1 : h[n] = Grown(h[n - 1], d[n], L, r)
    BY <1>1, <1>3, PlayValues
  <1>7. h[m + 1] = Grown(h[m], t, L, r)
    BY <1>1, <1>5, <1>6
  <1>8. QED
    BY <1>2, <1>3, <1>5, <1>7 DEF d

(***************************************************************************)
(* The emitter.  x decides t as y if the rules yield what y pictures, or   *)
(* nothing if y failed; the replay of a body then follows the validator.   *)
(***************************************************************************)
PlayedBy(c, x) == \A L : Extends(L, x.locals) => Replay(c, L, x.results) = Picture(x)
Determines(x, t, y) ==
  \A L : Extends(L, x.locals) => Decides(Step(Picture(x), t, L, x.results), y, L, x)

LEMMA PlayOn ==
  ASSUME NEW c \in Seq(Token), NEW x, Busy(x), NEW t \in Token, NEW y,
         PlayedBy(c, x), Determines(x, t, y), y.ok,
         y.locals = x.locals, y.results = x.results
  PROVE  PlayedBy(Append(c, t), y)
  <1> SUFFICES ASSUME NEW L, Extends(L, y.locals)
               PROVE  Replay(Append(c, t), L, y.results) = Picture(y)
    BY DEF PlayedBy
  <1>1. Replay(c, L, x.results) = Picture(x)
    BY DEF PlayedBy
  <1>2. Picture(x) # IllTyped
    BY PictureFacts
  <1>3. Replay(Append(c, t), L, x.results) = Grown(Replay(c, L, x.results), t, L, x.results)
    BY ReplayAppend
  <1>4. Step(Picture(x), t, L, x.results) = Picture(y)
    BY DEF Determines, Decides
  <1>5. QED
    BY <1>1, <1>2, <1>3, <1>4 DEF Grown

LEMMA PlayOut ==
  ASSUME NEW c \in Seq(Token), NEW x, Busy(x), NEW t \in Token, NEW y,
         PlayedBy(c, x), Determines(x, t, y), ~y.ok
  PROVE  Replay(Append(c, t), x.locals, x.results) = IllTyped
  <1>1. Extends(x.locals, x.locals)
    <2>1. x.locals \in Seq(ValTypes)
      BY GoodFacts DEF Busy
    <2>2. QED
      BY <2>1, ExtendsItself
  <1>2. Replay(c, x.locals, x.results) = Picture(x)
    BY <1>1 DEF PlayedBy
  <1>3. Picture(x) # IllTyped
    BY PictureFacts
  <1>4. Replay(Append(c, t), x.locals, x.results)
          = Grown(Replay(c, x.locals, x.results), t, x.locals, x.results)
    BY ReplayAppend
  <1>5. Step(Picture(x), t, x.locals, x.results) = IllTyped
    BY <1>1 DEF Determines, Decides
  <1>6. QED
    BY <1>2, <1>3, <1>4, <1>5 DEF Grown

LEMMA StepIs ==
  ASSUME NEW ctx, NEW t, NEW L, NEW r
  PROVE  /\ t.op = "Else" => Step(ctx, t, L, r) = StepElse(ctx)
         /\ t.op = "End" => Step(ctx, t, L, r) = StepEnd(ctx)
         /\ t.op \in FrameKinds => Step(ctx, t, L, r) = StepOpen(ctx, t.op, t.bt)
         /\ t.op \in BranchOps => Step(ctx, t, L, r) = StepBranch(ctx, t.op, t.rels)
         /\ t.op \notin FrameKinds \cup BranchOps \cup {"End", "Else"} =>
              Step(ctx, t, L, r) = StepPlain(ctx, t, L, r)
  <1> DEFINE o == t.op
  <1>1. CASE o = "Else"
    <2>1. o # "End" /\ o \notin FrameKinds /\ o \notin BranchOps
      BY <1>1 DEF FrameKinds, BranchOps
    <2>2. QED
      BY <1>1, <2>1, Zenon DEF Step
  <1>2. CASE o = "End"
    <2>1. o # "Else" /\ o \notin FrameKinds /\ o \notin BranchOps
      BY <1>2 DEF FrameKinds, BranchOps
    <2>2. QED
      BY <1>2, <2>1, Zenon DEF Step
  <1>3. CASE o \in FrameKinds
    <2>1. o # "Else" /\ o # "End" /\ o \notin BranchOps
      BY <1>3 DEF FrameKinds, BranchOps
    <2>2. QED
      BY <1>3, <2>1, Zenon DEF Step
  <1>4. CASE o \in BranchOps
    <2>1. o # "Else" /\ o # "End" /\ o \notin FrameKinds
      BY <1>4 DEF FrameKinds, BranchOps
    <2>2. QED
      BY <1>4, <2>1, Zenon DEF Step
  <1>5. CASE o \notin FrameKinds \cup BranchOps \cup {"End", "Else"}
    BY <1>5, Zenon DEF Step
  <1>6. QED
    BY <1>1, <1>2, <1>3, <1>4, <1>5

LEMMA EmitDetermines ==
  ASSUME Acknowledged, NEW x, Busy(x), x.ok, NEW i \in Calls
  PROVE  Determines(x, i, Hook(x, i))
  <1> SUFFICES ASSUME NEW L, Extends(L, x.locals)
               PROVE  Decides(Step(Picture(x), i, L, x.results), Hook(x, i), L, x)
    BY DEF Determines
  <1>1. i.op # "Else" /\ i.op # "End" /\ i.op \notin FrameKinds /\ i.op \notin BranchOps
    BY CallFacts
  <1>2. Step(Picture(x), i, L, x.results) = StepPlain(Picture(x), i, L, x.results)
    BY <1>1, StepIs
  <1>3. QED
    BY <1>2, HookDecides

LEMMA OpenDetermines ==
  ASSUME Acknowledged, NEW x, Busy(x), x.ok, NEW kind \in FrameKinds, NEW bt \in BlockTypes
  PROVE  Determines(x, [op |-> kind, bt |-> bt], OnCtrlStart(x, kind, bt))
  <1> DEFINE t == [op |-> kind, bt |-> bt]
  <1> SUFFICES ASSUME NEW L, Extends(L, x.locals)
               PROVE  Decides(Step(Picture(x), t, L, x.results), OnCtrlStart(x, kind, bt), L, x)
    BY DEF Determines
  <1>1. t.op = kind /\ t.bt = bt /\ bt \in BlockType
    BY ConstantTypes
  <1> HIDE DEF t
  <1>2. Step(Picture(x), t, L, x.results) = StepOpen(Picture(x), kind, bt)
    BY <1>1, StepIs
  <1>3. QED
    BY <1>1, <1>2, StartFollows, FollowsDecides

LEMMA ElseDetermines ==
  ASSUME Acknowledged, NEW x, Busy(x), x.ok
  PROVE  Determines(x, Else, OnElse(x))
  <1> SUFFICES ASSUME NEW L, Extends(L, x.locals)
               PROVE  Decides(Step(Picture(x), Else, L, x.results), OnElse(x), L, x)
    BY DEF Determines
  <1>1. Step(Picture(x), Else, L, x.results) = StepElse(Picture(x))
    BY StepIs DEF Else
  <1>2. QED
    BY <1>1, ElseFollows, FollowsDecides

LEMMA EndDetermines ==
  ASSUME Acknowledged, NEW x, Busy(x), x.ok, Len(x.ctrls) > 1 \/ ~OnEnd(x).ok
  PROVE  Determines(x, End, OnEnd(x))
  <1> SUFFICES ASSUME NEW L, Extends(L, x.locals)
               PROVE  Decides(Step(Picture(x), End, L, x.results), OnEnd(x), L, x)
    BY DEF Determines
  <1>1. Step(Picture(x), End, L, x.results) = StepEnd(Picture(x))
    BY StepIs DEF End
  <1>2. QED
    BY <1>1, EndFollows DEF Decides

BranchOf(x, op, rels) == CASE op = "Br" -> OnBr(x, rels[1])
                           [] op = "BrIf" -> OnBrIf(x, rels[1])
                           [] op = "BrTable" -> OnBrTable(x, rels)

LEMMA BranchDetermines ==
  ASSUME Acknowledged, NEW x, Busy(x), x.ok, NEW op \in BranchOps, NEW rels \in Seq(Nat),
         rels # <<>>, op # "BrTable" => Len(rels) = 1,
         Departs("labels") \/ Len(rels) = 1, NEW to
  PROVE  /\ Determines(x, [op |-> op, rels |-> rels, to |-> to], BranchOf(x, op, rels))
         /\ Keeps(x, BranchOf(x, op, rels))
  <1> DEFINE t == [op |-> op, rels |-> rels, to |-> to]
             y == BranchOf(x, op, rels)
  <1>1. t.op = op /\ t.rels = rels
    OBVIOUS
  <1> HIDE DEF t
  <1>2. op = "Br" \/ op = "BrIf" \/ op = "BrTable"
    BY DEF BranchOps
  <1>3. Follows(StepBranch(Picture(x), op, rels), y)
    BY <1>2, BrFollows, BrIfFollows, BrTableFollows DEF BranchOf
  <1>4. Keeps(x, y)
    <2>1. op # "BrTable" => rels[1] \in Nat
      OBVIOUS
    <2>2. QED
      BY <1>2, <2>1, OnBrKeeps, OnBrTableKeeps DEF BranchOf
  <1> HIDE DEF y
  <1>5. ASSUME NEW L PROVE Step(Picture(x), t, L, x.results) = StepBranch(Picture(x), op, rels)
    BY <1>1, StepIs
  <1>6. Determines(x, t, y)
    BY <1>3, <1>5, FollowsDecides DEF Determines
  <1>7. QED
    BY <1>4, <1>6 DEF t, y

(***************************************************************************)
(* The inductive invariant.  While no call was refused, replaying the code *)
(* yields the picture of the validator's stacks, whatever locals are still *)
(* declared.                                                               *)
(***************************************************************************)
Following ==
  Validating /\ ~tainted =>
    /\ status = "running" => v.results = TypeResults(sig) /\ PlayedBy(code, v)
    /\ status = "finished" => v.ctrls = <<>> /\ Typed(body.code, body.runs) = <<>>
Aborts == ErrorPolicy = "abort" /\ tainted => status = "aborted"
TypingInv == Following /\ Aborts /\ RefusesOnlyUntyped

LEMMA RunningFacts ==
  ASSUME Inv, LocalsDecode, TypingInv, Validating, ~tainted, status = "running"
  PROVE  /\ Busy(v) /\ v.ok /\ v.ctrls[1].kind = "Func" /\ Len(v.ctrls) = Len(control) + 1
         /\ PlayedBy(code, v) /\ code \in Seq(Token)
         /\ LocalsOf(runs) = v.locals /\ TypeResults(sig) = v.results
  <1>1. Mirror /\ Good(v) /\ v.ok /\ code \in Seq(Token) /\ Len(control) \in Nat
    BY InvFacts DEF Inv, StacksMirror
  <1>2. v.ctrls # <<>>
    BY <1>1 DEF Mirror
  <1>3. QED
    BY <1>1, <1>2 DEF Busy, Mirror, TypingInv, Following, LocalsDecode

LEMMA StopTyping ==
  ASSUME TypingInv, NEW s \in {"asserted", "undefined"}, Stop(s), status # "aborted"
  PROVE  TypingInv'
  BY DEF TypingInv, Following, Aborts, RefusesOnlyUntyped, Stop

\* A report ends the program as the policy says.
Ends(s) == s \in {"aborted", "unwinding", "terminated"} /\ (s = "aborted" <=> ErrorPolicy = "abort")

LEMMA ReportedEnds == Ends(Reported)
  BY DEF Ends, Reported

LEMMA RunOutTyping ==
  ASSUME TypingInv, tainted' = TRUE, refused' = <<>>, Ends(status')
  PROVE  TypingInv'
  BY DEF TypingInv, Following, Aborts, RefusesOnlyUntyped, Ends

\* A report is justified if the rules do not allow the call either.
LEMMA RaiseTyping ==
  ASSUME Inv, LocalsDecode, TypingInv, Validating,
         NEW token \in Token, token # FinishCall, NEW w, ~w.ok,
         tainted' = TRUE, refused' = <<token>>, Ends(status'), code' = code,
         UNCHANGED emission, status # "aborted",
         ~tainted => status = "running" /\ Determines(v, token, w)
  PROVE  TypingInv'
  <1>1. Following' /\ Aborts'
    BY DEF Following, Aborts, Ends
  <1>2. RefusesOnlyUntyped'
    <2> SUFFICES ASSUME status' = "aborted"
                 PROVE  Typed(Append(code, token), runs)' = IllTyped
      BY DEF RefusesOnlyUntyped
    <2>1. ~tainted
      BY DEF Ends, TypingInv, Aborts
    <2>2. status = "running" /\ Determines(v, token, w)
      BY <2>1
    <2>3. /\ Busy(v) /\ PlayedBy(code, v) /\ code \in Seq(Token)
          /\ LocalsOf(runs) = v.locals /\ TypeResults(sig) = v.results
      BY <2>1, <2>2, RunningFacts
    <2>4. Replay(Append(code, token), v.locals, v.results) = IllTyped
      BY <2>2, <2>3, PlayOut
    <2>5. Typed(Append(code, token), runs) = IllTyped
      BY <2>3, <2>4 DEF Typed
    <2>6. sig' = sig /\ runs' = runs
      BY DEF emission
    <2>7. QED
      BY <2>5, <2>6, Zenon DEF Typed, LocalsOf
  <1>3. QED
    BY <1>1, <1>2 DEF TypingInv

LEMMA AcceptTyping ==
  ASSUME Inv, LocalsDecode, TypingInv, NEW token \in Token, NEW w, Accept(w, token),
         UNCHANGED emission, status # "aborted",
         Validating /\ ~tainted =>
           /\ status = "running" /\ Determines(v, token, w) /\ w.ok
           /\ w.locals = v.locals /\ w.results = v.results
  PROVE  TypingInv'
  <1>1. status' = status /\ tainted' = tainted /\ code' = Append(code, token)
    BY DEF Accept
  <1>2. Aborts' /\ RefusesOnlyUntyped'
    BY <1>1 DEF TypingInv, Aborts, RefusesOnlyUntyped
  <1>3. Following'
    <2> SUFFICES ASSUME Validating, ~tainted
                 PROVE  /\ status' = "running"
                        /\ v'.results = TypeResults(sig') /\ PlayedBy(code', v')
      BY <1>1 DEF Following
    <2>1. /\ status = "running" /\ Determines(v, token, w) /\ w.ok
          /\ w.locals = v.locals /\ w.results = v.results
      OBVIOUS
    <2>2. /\ Busy(v) /\ PlayedBy(code, v) /\ code \in Seq(Token)
          /\ TypeResults(sig) = v.results
      BY <2>1, RunningFacts
    <2>3. PlayedBy(Append(code, token), w)
      BY <2>1, <2>2, PlayOn
    <2>4. v' = w /\ sig' = sig
      BY DEF Accept, emission
    <2>5. QED
      BY <1>1, <2>1, <2>2, <2>3, <2>4
  <1>4. QED
    BY <1>2, <1>3 DEF TypingInv

LEMMA EmitTyping ==
  ASSUME Acknowledged, Inv, LocalsDecode, TypingInv, NEW i \in Calls, Emit(i)
  PROVE  TypingInv'
  <1> DEFINE w == Hook(v, i)
  <1>1. /\ status = "running" /\ ~Hollow /\ UNCHANGED emission
        /\ \/ Rejects(w) /\ Raise(w, i)
           \/ ~Rejects(w) /\ Accept(w, i)
           \/ ~Rejects(w) /\ RunOut(w, Reported)
    BY DEF Emit, CanEmit
  <1>2. i \in Token /\ i # FinishCall /\ i \in Instructions
    <2>1. i \in Token /\ i \in Instructions
      BY TokenTypes, ConstantTypes
    <2>2. i \in Rows
      BY CallFacts
    <2>3. "shape" \in DOMAIN i /\ "shape" \notin DOMAIN FinishCall
      BY <2>1 DEF Instructions, FinishCall
    <2>4. QED
      BY <2>1, <2>3
  <1>3. Validating => Busy(v) /\ v.ok
    BY <1>1, InvFacts
  <1>4. Validating => Determines(v, i, w) /\ Keeps(v, w)
    BY <1>2, <1>3, EmitDetermines, HookKeeps
  <1> HIDE DEF w
  <1>5. CASE Rejects(w) /\ Raise(w, i)
    <2>1. /\ Validating /\ ~w.ok /\ tainted' = TRUE /\ refused' = <<i>>
          /\ Ends(status') /\ code' = code
      BY <1>5, ReportedEnds DEF Rejects, Raise
    <2>2. QED
      BY <1>1, <1>2, <1>4, <2>1, RaiseTyping
  <1>6. CASE ~Rejects(w) /\ Accept(w, i)
    BY <1>1, <1>2, <1>4, <1>6, AcceptTyping DEF Rejects, Keeps, SameFrames
  <1>7. CASE ~Rejects(w) /\ RunOut(w, Reported)
    BY <1>7, ReportedEnds, RunOutTyping DEF RunOut
  <1>8. QED
    BY <1>1, <1>5, <1>6, <1>7

LEMMA PushFrameTyping ==
  ASSUME Acknowledged, Inv, LocalsDecode, TypingInv,
         NEW kind \in FrameKinds, NEW bt \in BlockTypes, PushFrame(kind, bt)
  PROVE  TypingInv'
  <1> DEFINE w == OnCtrlStart(v, kind, bt)
             t == [op |-> kind, bt |-> bt]
  <1>1. /\ status = "running" /\ ~Hollow /\ UNCHANGED emission
        /\ \/ Rejects(w) /\ Raise(w, t)
           \/ ~Rejects(w) /\ Accept(w, t)
           \/ ~Rejects(w) /\ RunOut(w, Reported)
    BY DEF PushFrame, CanEmit
  <1>2. t \in Token /\ t # FinishCall
    <2>1. t \in Opening
      BY DEF Opening
    <2>2. t.op # FinishCall.op
      BY DEF FinishCall, FrameKinds
    <2>3. QED
      BY <2>1, <2>2, TokenTypes
  <1>3. Validating => Busy(v) /\ v.ok
    BY <1>1, InvFacts
  <1>4. Validating => /\ Determines(v, t, w)
                      /\ w.ok => w.locals = v.locals /\ w.results = v.results
    <2>1. kind \in {"Block", "Loop", "If"} /\ bt \in BlockType
      BY ConstantTypes DEF FrameKinds
    <2>2. QED
      BY <1>3, <2>1, OpenDetermines, OnCtrlStartOpens DEF Opens, Prefix
  <1> HIDE DEF w, t
  <1>5. CASE Rejects(w) /\ Raise(w, t)
    <2>1. /\ Validating /\ ~w.ok /\ tainted' = TRUE /\ refused' = <<t>>
          /\ Ends(status') /\ code' = code
      BY <1>5, ReportedEnds DEF Rejects, Raise
    <2>2. QED
      BY <1>1, <1>2, <1>4, <2>1, RaiseTyping
  <1>6. CASE ~Rejects(w) /\ Accept(w, t)
    BY <1>1, <1>2, <1>4, <1>6, AcceptTyping DEF Rejects
  <1>7. CASE ~Rejects(w) /\ RunOut(w, Reported)
    BY <1>7, ReportedEnds, RunOutTyping DEF RunOut
  <1>8. QED
    BY <1>1, <1>5, <1>6, <1>7

LEMMA EmitBranchTyping ==
  ASSUME Acknowledged, Inv, LocalsDecode, TypingInv, NEW op \in BranchOps,
         NEW n \in Nat \ {0}, NEW hs \in [1 .. n -> 1 .. Len(scope)],
         op # "BrTable" => n = 1, n <= MaxTargets + 1, EmitBranch(op, hs)
  PROVE  TypingInv'
  <1> DEFINE rels == [k \in 1 .. Len(hs) |-> RelDepth(scope[hs[k]])]
             to == [k \in 1 .. Len(hs) |-> scope[hs[k]].at]
             w == OnBranch(op, rels)
             t == [op |-> op, rels |-> rels, to |-> to]
  <1>1. /\ status = "running" /\ ~Hollow /\ UNCHANGED emission
        /\ \/ Rejects(w) /\ Raise(w, t)
           \/ ~Rejects(w) /\ Accept(w, t)
           \/ ~Rejects(w) /\ RunOut(w, Reported)
    BY DEF EmitBranch, CanEmit
  <1>2. Len(hs) = n
    BY FunctionIsSeq
  <1>3. ASSUME NEW k \in 1 .. n PROVE scope[hs[k]] \in Handle
    BY InvFacts
  <1>4. rels \in [1 .. n -> Nat] /\ to \in [1 .. n -> Nat]
    <2>1. \A k \in 1 .. n : RelDepth(scope[hs[k]]) \in Nat /\ scope[hs[k]].at \in Nat
      BY <1>3, RelDepthType DEF Handle
    <2>2. QED
      BY <1>2, <2>1
  <1> HIDE DEF rels, to
  <1>5. rels \in Seq(Nat) /\ to \in Seq(Nat) /\ Len(rels) = n
    BY <1>4, FunctionIsSeq
  <1>6. rels # <<>>
    BY <1>5
  <1>7. t \in Token /\ t # FinishCall
    <2>1. t \in Branch
      BY <1>5 DEF Branch
    <2>2. t.op # FinishCall.op
      BY DEF FinishCall, BranchOps
    <2>3. QED
      BY <2>1, <2>2, TokenTypes
  <1>8. Validating => Busy(v) /\ v.ok
    BY <1>1, InvFacts
  <1>9. w = BranchOf(v, op, rels)
    BY DEF OnBranch, BranchOf
  <1>10. op # "BrTable" => Len(rels) = 1
    BY <1>5
  <1>11. Departs("labels") \/ Len(rels) = 1
    BY <1>5 DEF Acknowledged
  <1>12. Validating => Determines(v, t, w) /\ Keeps(v, w)
    <2> HAVE Validating
    <2>1. Busy(v) /\ v.ok /\ rels \in Seq(Nat) /\ rels # <<>>
          /\ (op # "BrTable" => Len(rels) = 1) /\ (Departs("labels") \/ Len(rels) = 1)
      BY <1>5, <1>6, <1>8, <1>10, <1>11
    <2>2. /\ Determines(v, [op |-> op, rels |-> rels, to |-> to], BranchOf(v, op, rels))
          /\ Keeps(v, BranchOf(v, op, rels))
      BY <2>1, BranchDetermines
    <2>3. QED
      BY <1>9, <2>2
  <1> HIDE DEF w, t
  <1>13. CASE Rejects(w) /\ Raise(w, t)
    <2>1. /\ Validating /\ ~w.ok /\ tainted' = TRUE /\ refused' = <<t>>
          /\ Ends(status') /\ code' = code
      BY <1>13, ReportedEnds DEF Rejects, Raise
    <2>2. QED
      BY <1>1, <1>7, <1>12, <2>1, RaiseTyping
  <1>14. CASE ~Rejects(w) /\ Accept(w, t)
    BY <1>1, <1>7, <1>12, <1>14, AcceptTyping DEF Rejects, Keeps, SameFrames
  <1>15. CASE ~Rejects(w) /\ RunOut(w, Reported)
    BY <1>15, ReportedEnds, RunOutTyping DEF RunOut
  <1>16. QED
    BY <1>1, <1>13, <1>14, <1>15

LEMMA ElseFrameTyping ==
  ASSUME Acknowledged, Inv, LocalsDecode, TypingInv, NEW i \in 1 .. Len(scope), ElseFrame(i)
  PROVE  TypingInv'
  <1> DEFINE w == OnElse(v)
  <1>1. /\ status = "running" /\ ~Hollow /\ UNCHANGED emission
        /\ \/ Stop("asserted") \/ Stop("undefined")
           \/ Rejects(w) /\ Raise(w, Else)
           \/ ~Rejects(w) /\ Accept(w, Else)
           \/ ~Rejects(w) /\ RunOut(w, Reported)
    BY DEF ElseFrame, CanEmit
  <1>2. Else \in Token /\ Else # FinishCall
    <2>1. Else.op # FinishCall.op
      BY DEF Else, FinishCall
    <2>2. QED
      BY <2>1, TokenTypes
  <1>3. Validating => Busy(v) /\ v.ok
    BY <1>1, InvFacts
  <1>4. Validating => /\ Determines(v, Else, w)
                      /\ w.ok => w.locals = v.locals /\ w.results = v.results
    BY <1>3, ElseDetermines, OnElseReopens DEF Prefix
  <1> HIDE DEF w
  <1>5. CASE Rejects(w) /\ Raise(w, Else)
    <2>1. /\ Validating /\ ~w.ok /\ tainted' = TRUE /\ refused' = <<Else>>
          /\ Ends(status') /\ code' = code
      BY <1>5, ReportedEnds DEF Rejects, Raise
    <2>2. QED
      BY <1>1, <1>2, <1>4, <2>1, RaiseTyping
  <1>6. CASE ~Rejects(w) /\ Accept(w, Else)
    BY <1>1, <1>2, <1>4, <1>6, AcceptTyping DEF Rejects
  <1>7. CASE ~Rejects(w) /\ RunOut(w, Reported)
    BY <1>7, ReportedEnds, RunOutTyping DEF RunOut
  <1>8. CASE Stop("asserted") \/ Stop("undefined")
    BY <1>1, <1>8, StopTyping
  <1>9. QED
    BY <1>1, <1>5, <1>6, <1>7, <1>8

LEMMA FrameEndTyping ==
  ASSUME Acknowledged, Inv, LocalsDecode, TypingInv, NEW depth, NEW s, Ends(s),
         FrameEnd(depth, s), UNCHANGED emission,
         status \in {"running", "finished", "unwinding"}
  PROVE  TypingInv'
  <1> DEFINE w == OnEnd(v)
  <1>1. \/ Stop("asserted") \/ Stop("undefined")
        \/ /\ ~Hollow /\ Rejects(w) /\ status' = s /\ tainted' = TRUE
           /\ refused' = <<End>> /\ code' = code
        \/ ~Rejects(w) /\ RunOut(w, s)
        \/ ~Hollow /\ ~Rejects(w) /\ control # <<>> /\ Accept(w, End)
    BY DEF FrameEnd
  <1>2. End \in Token /\ End # FinishCall
    <2>1. End.op # FinishCall.op
      BY DEF End, FinishCall
    <2>2. QED
      BY <2>1, TokenTypes
  <1>3. Validating /\ ~Hollow => Busy(v) /\ v.ok
    BY InvFacts
  <1>4. Validating /\ ~tainted /\ ~Hollow => status = "running"
    <2>1. status = "unwinding" => tainted
      BY DEF Inv
    <2>2. QED
      BY <2>1 DEF TypingInv, Following, Hollow
  <1>5. ASSUME Validating, ~Hollow, ~w.ok PROVE Determines(v, End, w)
    <2>1. Busy(v) /\ v.ok
      BY <1>3, <1>5
    <2>2. QED
      BY <1>5, <2>1, EndDetermines
  <1>6. Validating /\ ~tainted /\ ~Hollow /\ control # <<>> /\ w.ok =>
          /\ Determines(v, End, w)
          /\ w.locals = v.locals /\ w.results = v.results
    <2> HAVE Validating /\ ~tainted /\ ~Hollow /\ control # <<>> /\ w.ok
    <2>1. Busy(v) /\ v.ok /\ Len(v.ctrls) = Len(control) + 1
      BY <1>4, RunningFacts
    <2>2. control \in Seq(Frame) /\ Len(control) \in Nat
      BY InvFacts
    <2>3. Len(control) # 0
      BY <2>2, EmptySeq
    <2>4. Len(v.ctrls) > 1
      BY <2>1, <2>2, <2>3
    <2>5. Determines(v, End, w)
      BY <2>1, <2>4, EndDetermines
    <2>6. QED
      BY <2>1, <2>5, OnEndCloses DEF Closes, Prefix
  <1> HIDE DEF w
  <1>7. CASE /\ ~Hollow /\ Rejects(w) /\ status' = s /\ tainted' = TRUE
             /\ refused' = <<End>> /\ code' = code
    <2>1. Validating /\ ~w.ok
      BY <1>7 DEF Rejects
    <2>2. QED
      BY <1>2, <1>4, <1>5, <1>7, <2>1, RaiseTyping
  <1>8. CASE ~Rejects(w) /\ RunOut(w, s)
    BY <1>8, RunOutTyping DEF RunOut
  <1>9. CASE ~Hollow /\ ~Rejects(w) /\ control # <<>> /\ Accept(w, End)
    BY <1>2, <1>4, <1>6, <1>9, AcceptTyping DEF Rejects
  <1>10. CASE Stop("asserted") \/ Stop("undefined")
    BY <1>10, StopTyping
  <1>11. QED
    BY <1>1, <1>7, <1>8, <1>9, <1>10

\* More locals change neither the stacks nor what the body so far replays to.
LEMMA DeclareLocalsTyping ==
  ASSUME Inv, LocalsDecode, TypingInv, NEW t \in LocalTypes, NEW count \in LocalCounts,
         DeclareLocals(t, count)
  PROVE  TypingInv'
  <1>1. /\ status = "running" /\ status' = status /\ tainted' = tainted /\ code' = code
        /\ sig' = sig
    BY DEF DeclareLocals
  <1>2. Aborts' /\ RefusesOnlyUntyped'
    BY <1>1 DEF TypingInv, Aborts, RefusesOnlyUntyped
  <1>3. Following'
    <2> SUFFICES ASSUME Validating, ~tainted
                 PROVE  v'.results = TypeResults(sig') /\ PlayedBy(code', v')
      BY <1>1 DEF Following
    <2>1. /\ Busy(v) /\ PlayedBy(code, v) /\ TypeResults(sig) = v.results
          /\ v \in Validators /\ v.locals \in Seq(ValTypes)
      BY <1>1, RunningFacts, GoodFacts DEF Busy, Good
    <2> DEFINE block == [k \in 1 .. count |-> t]
               l == v.locals
               x == [v EXCEPT !.locals = l \o block]
    <2>2. v' = x
      BY DEF DeclareLocals, AddLocals
    <2>3. block \in Seq(ValTypes)
      <3>1. count \in Nat /\ t \in ValTypes
        BY ConstantTypes
      <3>2. block \in [1 .. count -> ValTypes]
        BY <3>1
      <3>3. QED
        BY <3>1, <3>2, FunctionIsSeq
    <2>4. /\ x.ctrls = v.ctrls /\ x.vals = v.vals /\ x.results = v.results
          /\ x.locals = l \o block
      BY <2>1 DEF Validators
    <2> HIDE DEF x, block
    <2>5. ASSUME NEW L, Extends(L, x.locals) PROVE Extends(L, v.locals)
      <3>1. l \in Seq(ValTypes)
        BY <2>1
      <3> HIDE DEF l
      <3>2. /\ Len(l \o block) = Len(l) + Len(block)
            /\ \A k \in 1 .. Len(l) : (l \o block)[k] = l[k]
        BY <2>3, <3>1, ConcatFacts
      <3>3. L \in Seq(ValTypes) /\ Len(l \o block) <= Len(L)
            /\ \A k \in 1 .. Len(l \o block) : L[k] = (l \o block)[k]
        BY <2>4, <2>5 DEF Extends
      <3>4. Len(l) \in Nat /\ Len(block) \in Nat /\ Len(L) \in Nat
        BY <2>3, <3>1, <3>3
      <3>5. Len(l) <= Len(L) /\ \A k \in 1 .. Len(l) : k \in 1 .. Len(l \o block)
        BY <3>2, <3>3, <3>4
      <3>6. \A k \in 1 .. Len(l) : L[k] = l[k]
        BY <3>2, <3>3, <3>5
      <3>7. QED
        BY <3>3, <3>5, <3>6 DEF Extends, l
    <2>6. Picture(x) = Picture(v)
      BY <2>4 DEF Picture, Shown, Held, Seg, Part, Top
    <2>7. PlayedBy(code, x)
      BY <2>1, <2>4, <2>5, <2>6 DEF PlayedBy
    <2>8. QED
      BY <1>1, <2>1, <2>2, <2>4, <2>7
  <1>4. QED
    BY <1>2, <1>3 DEF TypingInv

LEMMA FinishTyping ==
  ASSUME Acknowledged, Inv, LocalsDecode, TypingInv, Finish
  PROVE  TypingInv'
  <1> DEFINE w == OnFunctionEnd(v)
             finishes == /\ v' = (IF Validating THEN w ELSE v)
                         /\ body' = [runs |-> runs, code |-> Append(code, End)]
                         /\ status' = "finished" /\ UNCHANGED <<tainted, refused>>
  <1>1. /\ status = "running" /\ ~Hollow /\ UNCHANGED <<runs, sig>>
        /\ \/ Stop("asserted")
           \/ Rejects(w) /\ Raise(w, FinishCall) /\ UNCHANGED body
           \/ ~Rejects(w) /\ RunOut(w, Reported)
           \/ ~Rejects(w) /\ RunOutOfLocals(w)
           \/ ~Rejects(w) /\ finishes
    BY DEF Finish
  <1>2. ASSUME Validating, ~tainted
        PROVE  /\ w.ok <=> Typed(Append(code, End), runs) = <<>>
               /\ w.ok => w.ctrls = <<>>
    <2>1. /\ Busy(v) /\ v.ok /\ v.ctrls[1].kind = "Func"
          /\ PlayedBy(code, v) /\ code \in Seq(Token)
          /\ LocalsOf(runs) = v.locals /\ TypeResults(sig) = v.results
      BY <1>1, <1>2, RunningFacts
    <2>2. Extends(v.locals, v.locals)
      <3>1. v.locals \in Seq(ValTypes)
        BY <2>1, GoodFacts DEF Busy
      <3>2. QED
        BY <3>1, ExtendsItself
    <2>3. Replay(code, v.locals, v.results) = Picture(v) /\ Picture(v) # IllTyped
      BY <2>1, <2>2, PictureFacts DEF PlayedBy
    <2>4. Replay(Append(code, End), v.locals, v.results)
            = Grown(Replay(code, v.locals, v.results), End, v.locals, v.results)
      BY <2>1, ReplayAppend, TokenTypes
    <2>5. Step(Picture(v), End, v.locals, v.results) = StepEnd(Picture(v))
      BY StepIs DEF End
    <2>6. Replay(Append(code, End), v.locals, v.results) = StepEnd(Picture(v))
      BY <2>3, <2>4, <2>5 DEF Grown
    <2>7. Typed(Append(code, End), runs) = StepEnd(Picture(v))
      BY <2>1, <2>6 DEF Typed
    <2>8. QED
      BY <2>1, <2>7, FunctionEndFollows, OnFunctionEndCloses
  <1> HIDE DEF w
  <1>3. CASE Rejects(w) /\ Raise(w, FinishCall) /\ UNCHANGED body
    <2>1. Validating /\ ~w.ok /\ tainted' = TRUE /\ Ends(status') /\ code' = code
          /\ refused' = <<FinishCall>>
      BY <1>3, ReportedEnds DEF Rejects, Raise
    <2>2. Following' /\ Aborts'
      BY <2>1 DEF Following, Aborts, Ends
    <2>3. RefusesOnlyUntyped'
      <3> SUFFICES ASSUME status' = "aborted"
                   PROVE  Typed(Append(code, End), runs)' # <<>>
        BY <2>1 DEF RefusesOnlyUntyped
      <3>1. ~tainted
        BY <1>1, <2>1 DEF Ends, TypingInv, Aborts
      <3>2. Typed(Append(code, End), runs) # <<>>
        BY <1>2, <2>1, <3>1
      <3>3. sig' = sig /\ runs' = runs /\ code' = code
        BY <1>1, <2>1
      <3>4. QED
        BY <3>2, <3>3, Zenon DEF Typed, LocalsOf
    <2>4. QED
      BY <2>2, <2>3 DEF TypingInv
  <1>4. CASE ~Rejects(w) /\ RunOut(w, Reported)
    BY <1>4, ReportedEnds, RunOutTyping DEF RunOut
  <1>5. CASE ~Rejects(w) /\ RunOutOfLocals(w)
    BY <1>5, ReportedEnds, RunOutTyping DEF RunOutOfLocals
  <1>6. CASE ~Rejects(w) /\ finishes
    <2>1. /\ v' = (IF Validating THEN w ELSE v) /\ body'.code = Append(code, End)
          /\ body'.runs = runs /\ status' = "finished" /\ tainted' = tainted
      BY <1>6
    <2>2. Aborts' /\ RefusesOnlyUntyped'
      BY <1>1, <2>1 DEF TypingInv, Aborts, RefusesOnlyUntyped
    <2>3. Following'
      <3> SUFFICES ASSUME Validating, ~tainted
                   PROVE  v'.ctrls = <<>> /\ Typed(body.code, body.runs)' = <<>>
        BY <2>1 DEF Following
      <3>1. w.ok /\ v' = w
        BY <1>6, <2>1 DEF Rejects
      <3>2. Typed(Append(code, End), runs) = <<>> /\ w.ctrls = <<>>
        BY <1>2, <3>1
      <3>3. Typed(body.code, body.runs)' = <<>>
        BY <1>1, <2>1, <3>2, Zenon DEF Typed, LocalsOf
      <3>4. QED
        BY <3>1, <3>2, <3>3
    <2>4. QED
      BY <2>2, <2>3 DEF TypingInv
  <1>7. CASE Stop("asserted")
    BY <1>1, <1>7, StopTyping
  <1>8. QED
    BY <1>1, <1>3, <1>4, <1>5, <1>6, <1>7

\* A bound emitter pictures the frame of the function.
LEMMA FreshPicture ==
  ASSUME Acknowledged, NEW s \in TypeIdx
  PROVE  LET x == InitValidator(s)
         IN  x.results = TypeResults(s) /\ PlayedBy(<<>>, x)
  <1> DEFINE r == TypeResults(s)
             u == [NoValidator EXCEPT !.locals = TypeParams(s), !.results = r]
             e == CtrlOf("Func", FALSE, FALSE, 0, <<>>, r)
             x == InitValidator(s)
             g == FrameOf("Func", <<>>, r, FALSE, FALSE, {<<>>})
  <1>1. u.ctrls = <<>> /\ u.vals = <<>> /\ u.ok /\ u.results = r /\ Len(<<>>) = 0
    BY DEF NoValidator
  <1>2. x = PushCtrl(u, "Func", <<>>, r)
    BY DEF InitValidator
  <1>3. Good(x) /\ x.ok /\ Len(x.ctrls) = 1
    BY InitValidatorGood
  <1>4. x = [u EXCEPT !.ctrls = Append(<<>>, e), !.vals = <<>> \o <<>>]
    BY <1>1, <1>2 DEF PushCtrl, CtrlOf
  <1> HIDE DEF e, x
  <1>5. x.ctrls = Append(<<>>, e) /\ x.vals = <<>> \o <<>> /\ x.results = r
    BY <1>4 DEF NoValidator
  <1>6. x.ctrls[1] = e /\ x.vals = <<>> /\ Top(x) = e
    BY <1>3, <1>5 DEF Top
  <1>7. Busy(x)
    BY <1>3 DEF Busy
  <1>8. Part(x) = <<>>
    <2>1. /\ Part(x) \in Seq(Operands) /\ Len(Part(x)) = Len(x.vals) - Top(x).height
      BY <1>7, PartFacts
    <2>2. Top(x).height = 0 /\ Len(x.vals) = 0
      BY <1>6 DEF e, CtrlOf
    <2>3. Len(Part(x)) = 0
      BY <2>1, <2>2
    <2>4. QED
      BY <2>1, <2>3, EmptySeq
  <1>9. Shown(x, 1) = g
    <2>1. Held(x, 1) = <<>>
      BY <1>3, <1>8 DEF Held
    <2>2. Stands(<<>>) = {<<>>}
      <3>1. <<>> \in Seq(ValTypes)
        OBVIOUS
      <3>2. QED
        BY <3>1, StandsOne
    <2>3. e.kind = "Func" /\ e.in = <<>> /\ e.out = r /\ e.else_seen = FALSE
          /\ e.unreachable = FALSE
      BY DEF e, CtrlOf
    <2>4. QED
      BY <1>6, <2>1, <2>2, <2>3 DEF Shown
  <1> HIDE DEF g
  <1>10. Picture(x) = [k \in 1 .. 1 |-> g]
    <2>1. \A k \in 1 .. 1 : Shown(x, k) = g
      BY <1>9
    <2>2. QED
      BY <1>3, <2>1 DEF Picture
  <1>11. Fresh(r) = Append(<<>>, g)
    BY DEF Fresh, Opened, FrameOf, g
  <1>12. Append(<<>>, g) = [k \in 1 .. 1 |-> g]
    OBVIOUS
  <1>13. PlayedBy(<<>>, x)
    BY <1>5, <1>10, <1>11, <1>12, ReplayEmpty DEF PlayedBy
  <1>14. QED
    BY <1>5, <1>13 DEF x

\* What an emitter writes for a handle or a few of them.
LEMMA BranchesTyping ==
  ASSUME Acknowledged, Inv, LocalsDecode, TypingInv, Br \/ BrIf \/ BrTable
  PROVE  TypingInv'
  <1>1. "Br" \in BranchOps /\ "BrIf" \in BranchOps /\ "BrTable" \in BranchOps
    BY DEF BranchOps
  <1>2. 1 \in Nat \ {0} /\ 1 <= MaxTargets + 1 /\ MaxTargets \in Nat
    BY EmitterAssumption
  <1>3. CASE Br \/ BrIf
    <2>1. PICK h \in 1 .. Len(scope) : EmitBranch("Br", <<h>>) \/ EmitBranch("BrIf", <<h>>)
      BY <1>3 DEF Br, BrIf
    <2> DEFINE hs == <<h>>
    <2>2. hs \in [1 .. 1 -> 1 .. Len(scope)]
      OBVIOUS
    <2> HIDE DEF hs
    <2>3. EmitBranch("Br", hs) \/ EmitBranch("BrIf", hs)
      BY <2>1 DEF hs
    <2>4. QED
      BY <1>1, <1>2, <2>2, <2>3, EmitBranchTyping
  <1>4. CASE BrTable
    <2>1. PICK n \in 1 .. MaxTargets + 1 :
            \E hs \in [1 .. n -> 1 .. Len(scope)] : EmitBranch("BrTable", hs)
      BY <1>4 DEF BrTable
    <2>2. n \in Nat \ {0} /\ n <= MaxTargets + 1
      BY <1>2
    <2>3. QED
      BY <1>1, <2>1, <2>2, EmitBranchTyping
  <1>5. QED
    BY <1>3, <1>4

\* Handles that move, and steps that change nothing the property speaks of.
LEMMA SameTyping ==
  ASSUME TypingInv, UNCHANGED <<v, code, status, tainted, refused, emission>>
  PROVE  TypingInv'
  <1>1. /\ v' = v /\ code' = code /\ status' = status /\ tainted' = tainted
        /\ refused' = refused /\ runs' = runs /\ sig' = sig /\ body' = body
    BY DEF emission
  <1>2. Following'
    <2>1. Typed(body.code, body.runs)' = Typed(body.code, body.runs)
      BY <1>1, Zenon DEF Typed, LocalsOf
    <2>2. QED
      BY <1>1, <2>1 DEF TypingInv, Following
  <1>3. Aborts'
    BY <1>1 DEF TypingInv, Aborts
  <1>4. RefusesOnlyUntyped'
    <2>1. /\ Typed(Append(code, refused[1]), runs)' = Typed(Append(code, refused[1]), runs)
          /\ Typed(Append(code, End), runs)' = Typed(Append(code, End), runs)
      BY <1>1, Zenon DEF Typed, LocalsOf
    <2>2. QED
      BY <1>1, <2>1 DEF TypingInv, RefusesOnlyUntyped
  <1>5. QED
    BY <1>2, <1>3, <1>4 DEF TypingInv

LEMMA LeaveScopeTyping ==
  ASSUME Acknowledged, Inv, LocalsDecode, TypingInv, LeaveScope
  PROVE  TypingInv'
  <1> DEFINE s == IF ErrorPolicy = "abort" THEN "aborted" ELSE "terminated"
  <1>1. status \in {"running", "finished", "unwinding"} /\ UNCHANGED emission
    BY DEF LeaveScope
  <1>2. Ends(s)
    BY DEF Ends
  <1>3. CASE UNCHANGED <<v, code, control, status, tainted, refused>>
    BY <1>1, <1>3, SameTyping
  <1>4. CASE FrameEnd(scope[Len(scope)].depth, s)
    <2> HIDE DEF s
    <2>1. QED
      BY <1>1, <1>2, <1>4, FrameEndTyping
  <1>5. QED
    BY <1>3, <1>4 DEF LeaveScope

LEMMA CatchTyping == ASSUME Inv, TypingInv, Catch PROVE TypingInv'
  <1>1. status' = "running" /\ tainted' = TRUE /\ ErrorPolicy # "abort"
    BY DEF Catch, Inv, TypeOK, TypingInv, Aborts
  <1>2. QED
    BY <1>1 DEF TypingInv, Following, Aborts, RefusesOnlyUntyped

LEMMA RebindTyping ==
  ASSUME Acknowledged, NEW s \in Sigs, Rebind(s) PROVE TypingInv'
  <1>1. /\ sig' = s /\ code' = <<>> /\ status' = "running" /\ tainted' = FALSE
        /\ Validating => v' = InitValidator(s)
    BY DEF Rebind
  <1>2. Validating => v'.results = TypeResults(s) /\ PlayedBy(<<>>, v')
    BY <1>1, ConstantTypes, FreshPicture
  <1>3. QED
    BY <1>1, <1>2 DEF TypingInv, Following, Aborts, RefusesOnlyUntyped

LEMMA InitTyping == ASSUME Acknowledged PROVE Init => TypingInv
  <1> SUFFICES ASSUME Init PROVE TypingInv
    OBVIOUS
  <1>1. /\ sig \in TypeIdx /\ code = <<>> /\ status \in {"running", "unbound"}
        /\ tainted = FALSE
        /\ Validating /\ status = "running" => v = InitValidator(sig)
    BY ConstantTypes DEF Init
  <1>2. Validating /\ status = "running" =>
          v.results = TypeResults(sig) /\ PlayedBy(<<>>, v)
    BY <1>1, FreshPicture
  <1>3. QED
    BY <1>1, <1>2 DEF TypingInv, Following, Aborts, RefusesOnlyUntyped

\* TypingInv is inductive, given that frames and locals are in order.
LEMMA NextTyping ==
  ASSUME Acknowledged
  PROVE  Inv /\ LocalsDecode /\ TypingInv /\ [Next]_vars => TypingInv'
  <1> SUFFICES ASSUME Inv, LocalsDecode, TypingInv, [Next]_vars PROVE TypingInv'
    OBVIOUS
  <1>1. CASE \E i \in Calls : Emit(i)
    BY <1>1, EmitTyping
  <1>2. CASE \E t \in LocalTypes, count \in LocalCounts : DeclareLocals(t, count)
    BY <1>2, DeclareLocalsTyping
  <1>3. CASE \E kind \in FrameKinds, bt \in BlockTypes : PushFrame(kind, bt)
    BY <1>3, PushFrameTyping
  <1>4. CASE Br \/ BrIf \/ BrTable
    BY <1>4, BranchesTyping
  <1>5. CASE \E i \in 1 .. Len(scope) :
               EndFrame(i) \/ ElseFrame(i) \/ MoveHandle(i) \/ Detach(i)
    <2>1. PICK i \in 1 .. Len(scope) :
            EndFrame(i) \/ ElseFrame(i) \/ MoveHandle(i) \/ Detach(i)
      BY <1>5
    <2>2. CASE EndFrame(i)
      <3>1. /\ FrameEnd(scope[i].depth, Reported) /\ UNCHANGED emission
            /\ status \in {"running", "finished", "unwinding"}
        BY <2>2 DEF EndFrame
      <3>2. QED
        BY <3>1, ReportedEnds, FrameEndTyping
    <2>3. CASE ElseFrame(i)
      BY <2>3, ElseFrameTyping
    <2>4. CASE MoveHandle(i) \/ Detach(i)
      BY <2>4, SameTyping DEF MoveHandle, Detach
    <2>5. QED
      BY <2>1, <2>2, <2>3, <2>4
  <1>6. CASE \E i, j \in 1 .. Len(scope) : MoveAssign(i, j)
    BY <1>6, SameTyping DEF MoveAssign
  <1>7. CASE LeaveScope
    BY <1>7, LeaveScopeTyping
  <1>8. CASE Finish
    BY <1>8, FinishTyping
  <1>9. CASE Catch
    BY <1>9, CatchTyping
  <1>10. CASE UseHollow
    BY <1>10, StopTyping DEF UseHollow
  <1>11. CASE \E s \in Sigs : Rebind(s)
    BY <1>11, RebindTyping
  <1>12. CASE UNCHANGED vars
    BY <1>12, SameTyping DEF vars, emission
  <1>13. QED
    BY <1>1, <1>2, <1>3, <1>4, <1>5, <1>6, <1>7, <1>8, <1>9, <1>10, <1>11,
       <1>12 DEF Next

LEMMA SpecTyping == ASSUME Acknowledged PROVE Spec => [](Inv /\ LocalsDecode /\ TypingInv)
  <1>1. Init => TypingInv
    BY InitTyping
  <1>2. Inv /\ LocalsDecode /\ TypingInv /\ [Next]_vars => TypingInv'
    BY NextTyping
  <1>3. QED
    BY <1>1, <1>2, SpecInv, LocalsAlwaysDecode, PTL DEF Spec

\* Soundness of the validator.  Whatever the Module, the calls and their order,
\* a body that the emitter wrote without a report has a typing, and one that
\* Finish() handed out is well-typed with all its frames closed; the rules that
\* the validator relaxes are those of Departures.
THEOREM AlwaysAcceptsOnlyTyped == ASSUME Acknowledged PROVE Spec => []AcceptsOnlyTyped
  <1>1. ASSUME Inv, LocalsDecode, TypingInv PROVE AcceptsOnlyTyped
    <2>1. ASSUME Validating, ~tainted, status = "running"
          PROVE  Typed(code, runs) # IllTyped
      <3>1. /\ Busy(v) /\ PlayedBy(code, v)
            /\ LocalsOf(runs) = v.locals /\ TypeResults(sig) = v.results
        BY <1>1, <2>1, RunningFacts
      <3>2. v.locals \in Seq(ValTypes)
        BY <3>1, GoodFacts DEF Busy
      <3>3. Replay(code, v.locals, v.results) = Picture(v)
        BY <3>1, <3>2, ExtendsItself DEF PlayedBy
      <3>4. Picture(v) # IllTyped
        BY <3>1, PictureFacts
      <3>5. QED
        BY <3>1, <3>3, <3>4 DEF Typed
    <2>2. QED
      BY <1>1, <2>1 DEF AcceptsOnlyTyped, TypingInv, Following
  <1>2. Spec => [](Inv /\ LocalsDecode /\ TypingInv)
    BY SpecTyping
  <1>3. QED
    BY <1>1, <1>2, PTL

\* Completeness of the validator.  The call that ReportError aborts the program
\* for is one that no typing of the body so far allows, or realloc() failed.
THEOREM AlwaysRefusesOnlyUntyped == ASSUME Acknowledged PROVE Spec => []RefusesOnlyUntyped
  <1>1. Spec => [](Inv /\ LocalsDecode /\ TypingInv)
    BY SpecTyping
  <1>2. TypingInv => RefusesOnlyUntyped
    BY DEF TypingInv
  <1>3. QED
    BY <1>1, <1>2, PTL

=============================================================================
